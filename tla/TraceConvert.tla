---------------------------- MODULE TraceConvert ----------------------------
(***************************************************************************)
(* aftermath-convert: a trace of an old format (v16 and before) is read    *)
(* event by event; each is translated into the frames of the current       *)
(* format, with whatever these refer to and has not been written yet.      *)
(* What is only known in the end - the CPUs and their NUMA nodes, the last *)
(* timestamp, the states without a description - follows as a hierarchy,   *)
(* mappings and descriptions.                                              *)
(*                                                                         *)
(* Nobody wrote the references of the old format down: the new frames must *)
(* define what they refer to first, as the loader demands (TraceFrames).   *)
(*                                                                         *)
(* A write may fail, which ends the conversion and leaves what was written *)
(* before; that the frame itself may be cut is left to the loader.  The    *)
(* output is not removed.  Bound: the number of events of an Input.        *)
(***************************************************************************)
EXTENDS TraceFrames, FiniteSets, SequencesExt

CONSTANTS
  Inputs,           \* what a file may hold: [events, more], at most "more" of the events
  NumDefaultStates, \* V16_NUM_DEFAULT_STATES
  CounterLimit      \* counter IDs have 64 bits in the input and are calculated
                    \* modulo CounterLimit in the output

ASSUME ConvertAssumption ==
  /\ NumDefaultStates \in Nat /\ CounterLimit \in Nat \ {0}
  /\ \A i \in Inputs : i.more \in Nat

VARIABLES
  conversion, \* what comes next: "version", "header", "types", "samples", "missing",
              \* "hierarchy", "mappings", "check"; or the result: "success", "failure"
  input,      \* the input
  ctx,        \* struct v16ctx
  output,     \* the frames in the output file
  consumed,   \* history: the events read, a bad one included
  supported,  \* history: the version of the input is a supported one
  broken      \* history: a read, a write or an allocation has failed

convertVars == <<conversion, input, ctx, output, consumed, supported, broken>>

Unknown == -1

(***************************************************************************)
(* The frames that TraceFrames does not have                               *)
(***************************************************************************)
Type(name, id) == [type |-> name, id |-> id]
LoopType(id, flags) == [type |-> "openmp_for_loop_type", id |-> id, flags |-> flags]
Member(name, parent, id) == [type |-> name, parent |-> parent, id |-> id]
PeriodOf(name, cpu, parent, start, end) ==
  [type |-> name, id |-> cpu, parent |-> parent, start |-> start, end |-> end]
Sample(cpu, counter, time) ==
  [type |-> "counter_event", id |-> cpu, counter |-> counter, time |-> time]
Measurement(start, end) == [type |-> "measurement", start |-> start, end |-> end]

(* frame_id_to_name, in the order of the IDs                               *)
FrameTypes ==
  <<"collection", "hierarchy", "node", "description", "event", "counter_description",
    "counter_event", "measurement", "mapping", "openstream_task_type",
    "openstream_task_instance", "openstream_task_period", "openmp_task_type",
    "openmp_task_instance", "openmp_task_period", "openmp_for_loop_type",
    "openmp_for_loop_instance", "openmp_iteration_set", "openmp_iteration_period">>

(***************************************************************************)
(* Writing                                                                 *)
(***************************************************************************)
(* Frames are written one after the other, until one fails.                *)
Write(frames, next) ==
  \/ /\ output' = output \o frames
     /\ conversion' = next
     /\ UNCHANGED broken
  \/ /\ \E k \in 0 .. Len(frames) - 1 : output' = output \o SubSeq(frames, 1, k)
     /\ conversion' = "failure"
     /\ broken' = TRUE

(***************************************************************************)
(* CPUs: v16ctx_find_add_cpu_def                                           *)
(***************************************************************************)
(* Mutant: a CPU whose NUMA node is not known counts as new.               *)
CollectionUnlessPlaced(cpu) ==
  IF cpu \in DOMAIN ctx.cpus /\ ctx.cpus[cpu] # Unknown THEN <<>> ELSE <<Collection(cpu)>>
NewCollection(cpu) == IF cpu \in DOMAIN ctx.cpus THEN <<>> ELSE <<Collection(cpu)>>

(* The CPUs with the one given, on its NUMA node if that is known          *)
WithCpu(cpu, numa) ==
  [c \in DOMAIN ctx.cpus \cup {cpu} |->
     IF c = cpu /\ (numa # Unknown \/ c \notin DOMAIN ctx.cpus) THEN numa ELSE ctx.cpus[c]]

Latest(times) == Max({ctx.max_timestamp} \cup times)

(***************************************************************************)
(* The events, one action for each handler                                 *)
(***************************************************************************)
Done(frames) == Write(frames, "samples")
Refuse == conversion' = "failure" /\ UNCHANGED <<ctx, output, broken>>

(* v16ctx_convert_state_event                                              *)
(* Mutant: the end is not looked at.                                       *)
StartOnly(e) == {e.time}
StateTimes(e) == {e.time, e.end}

ConvertStateEvent(e) ==
  /\ e.kind = "state"
  /\ ctx' = [ctx EXCEPT !.cpus = WithCpu(e.cpu, Unknown),
                        !.max_timestamp = Latest(StateTimes(e))]
  /\ Done(NewCollection(e.cpu) \o <<Event(e.cpu, e.state, e.time, e.end)>>)

(* v16ctx_convert_counter_event: the ID is cut to its lower half.          *)
ConvertCounterEvent(e) ==
  /\ e.kind = "counter"
  /\ ctx' = [ctx EXCEPT !.cpus = WithCpu(e.cpu, Unknown), !.max_timestamp = Latest({e.time})]
  /\ Done(NewCollection(e.cpu) \o <<Sample(e.cpu, e.counter % CounterLimit, e.time)>>)

(* v16ctx_convert_cpu_info; v16ctx_convert_frame_info registers the CPU    *)
(* only.                                                                   *)
ConvertCpuInfo(e) ==
  /\ e.kind = "cpu_info"
  /\ ctx' = [ctx EXCEPT !.cpus = WithCpu(e.cpu, e.numa), !.max_timestamp = Latest({e.time}),
                        !.numa_nodes = IF e.numa = Unknown THEN @ ELSE @ \cup {e.numa}]
  /\ Done(NewCollection(e.cpu))

ConvertFrameInfo(e) ==
  /\ e.kind = "frame_info"
  /\ ctx' = [ctx EXCEPT !.cpus = WithCpu(e.cpu, Unknown), !.max_timestamp = Latest({e.time})]
  /\ Done(NewCollection(e.cpu))

(* v16ctx_convert_comm_event: the CPU of the header is not registered.     *)
ConvertCommEvent(e) ==
  /\ e.kind = "comm"
  /\ ctx' = [ctx EXCEPT !.cpus = WithCpu(e.other, Unknown),
                        !.max_timestamp = Latest({e.time, e.produced})]
  /\ Done(NewCollection(e.other))

(* v16ctx_convert_state_description, _counter_description: no item can be  *)
(* read for an empty name.                                                 *)
ConvertStateDescription(e) ==
  /\ e.kind = "state_description"
  /\ IF e.length = 0
       THEN Refuse
       ELSE /\ ctx' = [ctx EXCEPT !.missing = @ \ {e.state}]
            /\ Done(<<Description(e.state)>>)

ConvertCounterDescription(e) ==
  /\ e.kind = "counter_description"
  /\ IF e.length = 0 \/ e.counter >= CounterLimit
       THEN Refuse
       ELSE UNCHANGED ctx /\ Done(<<Type("counter_description", e.counter)>>)

(* v16ctx_convert_global_single_event                                      *)
ConvertMeasureStart(e) ==
  /\ e.kind = "measure_start"
  /\ IF ctx.measurement_start # Unknown
       THEN Refuse
       ELSE /\ ctx' = [ctx EXCEPT !.measurement_start = e.time, !.max_timestamp = Latest({e.time})]
            /\ Done(<<>>)

ConvertMeasureEnd(e) ==
  /\ e.kind = "measure_end"
  /\ IF ctx.measurement_start = Unknown
       THEN Refuse
       ELSE /\ ctx' = [ctx EXCEPT !.measurement_start = Unknown, !.max_timestamp = Latest({e.time})]
            /\ Done(<<Measurement(ctx.measurement_start, e.time)>>)

(* v16ctx_convert_texec_start                                              *)
ConvertTexecStart(e) ==
  /\ e.kind = "texec_start"
  /\ IF e.cpu \in DOMAIN ctx.texec
       THEN Refuse
       ELSE /\ ctx' = [ctx EXCEPT !.texec = (e.cpu :> e) @@ @, !.max_timestamp = Latest({e.time})]
            /\ Done(<<>>)

(* v16ctx_convert_texec_end: the task gets an ID of its own.               *)
(* Mutant: the work function is not compared.                              *)
EndsLater(e) == e.cpu \in DOMAIN ctx.texec /\ ctx.texec[e.cpu].time < e.time
EndsStarted(e) ==
  /\ e.cpu \in DOMAIN ctx.texec
  /\ ctx.texec[e.cpu].time < e.time /\ ctx.texec[e.cpu].what = e.what

NewTaskType(types, name, id) == IF id \in types THEN <<>> ELSE <<Type(name, id)>>

ConvertTexecEnd(e) ==
  LET id == ctx.curr_id + 1
  IN  /\ e.kind = "texec_end"
      /\ IF ~EndsStarted(e)
           THEN Refuse
           ELSE /\ ctx' = [ctx EXCEPT !.curr_id = id, !.openstream_types = @ \cup {e.what},
                                      !.texec = [c \in DOMAIN @ \ {e.cpu} |-> @[c]],
                                      !.max_timestamp = Latest({e.time})]
                /\ Done(NewTaskType(ctx.openstream_types, "openstream_task_type", e.what)
                        \o <<Member("openstream_task_instance", e.what, id),
                             PeriodOf("openstream_task_period", e.cpu, id,
                                      ctx.texec[e.cpu].time, e.time)>>)

(* v16ctx_convert_single_event: all others are skipped.                    *)
SkipSingleEvent(e) ==
  /\ e.kind = "tcreate"
  /\ ctx' = [ctx EXCEPT !.max_timestamp = Latest({e.time})]
  /\ Done(<<>>)

(* v16ctx_convert_omp_for_instance                                         *)
ConvertOmpFor(e) ==
  /\ e.kind = "omp_for"
  /\ IF e.addr \in DOMAIN ctx.loop_types /\ ctx.loop_types[e.addr] # e.flags
       THEN Refuse
       ELSE /\ ctx' = [ctx EXCEPT !.loop_types = (e.addr :> e.flags) @@ @]
            /\ Done((IF e.addr \in DOMAIN ctx.loop_types
                       THEN <<>> ELSE <<LoopType(e.addr, e.flags)>>)
                    \o <<Member("openmp_for_loop_instance", e.addr, e.id)>>)

(* v16ctx_convert_omp_for_chunk_set, _chunk_set_part                       *)
ConvertOmpChunkSet(e) ==
  /\ e.kind = "omp_chunk_set"
  /\ UNCHANGED ctx
  /\ Done(<<Member("openmp_iteration_set", e.loop, e.id)>>)

ConvertPart(e, name) ==
  /\ ctx' = [ctx EXCEPT !.cpus = WithCpu(e.cpu, Unknown), !.max_timestamp = Latest({e.end})]
  /\ Done(NewCollection(e.cpu) \o <<PeriodOf(name, e.cpu, e.of, e.time, e.end)>>)

ConvertOmpChunkSetPart(e) ==
  e.kind = "omp_chunk_set_part" /\ ConvertPart(e, "openmp_iteration_period")

(* v16ctx_convert_omp_task_instance, _task_instance_part                   *)
ConvertOmpTask(e) ==
  /\ e.kind = "omp_task"
  /\ ctx' = [ctx EXCEPT !.omp_types = @ \cup {e.addr}]
  /\ Done(NewTaskType(ctx.omp_types, "openmp_task_type", e.addr)
          \o <<Member("openmp_task_instance", e.addr, e.id)>>)

ConvertOmpTaskPart(e) ==
  e.kind = "omp_task_part" /\ ConvertPart(e, "openmp_task_period")

RefuseUnknown(e) == e.kind = "unknown" /\ Refuse

(* v16ctx_convert_samples                                                  *)
ConvertSample ==
  /\ conversion = "samples" /\ Len(consumed) < input.more
  /\ \E e \in input.events :
       /\ consumed' = Append(consumed, e)
       /\ \/ ConvertStateEvent(e)
          \/ ConvertCommEvent(e)
          \/ ConvertTexecStart(e)
          \/ ConvertTexecEnd(e)
          \/ SkipSingleEvent(e)
          \/ ConvertCounterEvent(e)
          \/ ConvertCounterDescription(e)
          \/ ConvertFrameInfo(e)
          \/ ConvertCpuInfo(e)
          \/ ConvertMeasureStart(e)
          \/ ConvertMeasureEnd(e)
          \/ ConvertStateDescription(e)
          \/ ConvertOmpFor(e)
          \/ ConvertOmpChunkSet(e)
          \/ ConvertOmpChunkSetPart(e)
          \/ ConvertOmpTask(e)
          \/ ConvertOmpTaskPart(e)
          \/ RefuseUnknown(e)
  /\ UNCHANGED <<input, supported>>

(* The file ends between two events, or within the type of one; the        *)
(* missing descriptions follow.                                            *)
EndOfSamples ==
  /\ conversion = "samples"
  /\ conversion' = "missing"
  /\ UNCHANGED <<input, ctx, output, consumed, supported, broken>>

(* It ends within an event, whose header may have named a new CPU.         *)
ReadFails ==
  /\ conversion = "samples"
  /\ \E e \in input.events :
       output' \in {output} \cup
         IF e.kind \in {"state", "counter", "cpu_info", "frame_info"}
           THEN {output \o NewCollection(e.cpu)} ELSE {}
  /\ conversion' = "failure" /\ broken' = TRUE
  /\ UNCHANGED <<input, ctx, consumed, supported>>

(***************************************************************************)
(* Before and after the events: v16_convert_trace                          *)
(***************************************************************************)
(* am_convert_trace_ost: for a version that is not supported nothing is    *)
(* done, which is not a failure.                                           *)
CheckVersion ==
  /\ conversion = "version"
  /\ \/ supported /\ conversion' = "header" /\ UNCHANGED broken
     \/ ~supported /\ conversion' = "success" /\ UNCHANGED broken
     \/ conversion' = "failure" /\ broken' = TRUE
  /\ UNCHANGED <<input, ctx, output, consumed, supported>>

(* The header of the input is read and discarded first.                    *)
WriteFileHeader ==
  /\ conversion = "header"
  /\ Write(<<Header>>, "types")
  /\ UNCHANGED <<input, ctx, consumed, supported>>

RegisterFrameTypes ==
  /\ conversion = "types"
  /\ Write([i \in DOMAIN FrameTypes |-> TypeId(FrameTypes[i], i)], "samples")
  /\ UNCHANGED <<input, ctx, consumed, supported>>

SortedIds(S) == SetToSortSeq(S, LAMBDA x, y : x < y)

WriteMissingDescriptions ==
  LET states == SortedIds(ctx.missing)
  IN  /\ conversion = "missing"
      /\ Write([i \in DOMAIN states |-> Description(states[i])], "hierarchy")
      /\ UNCHANGED <<input, ctx, consumed, supported>>

(* v16ctx_write_hierarchy: the root has the ID 1; the NUMA nodes follow,   *)
(* then the CPUs, below their NUMA nodes or the root.                      *)
Rank(x, S) == Cardinality({y \in S : y < x})
NumaNode(n) == Rank(n, ctx.numa_nodes) + 2
(* Mutant: the IDs of CPUs are not shifted by those of the NUMA nodes.     *)
CpuNodeUnshifted(c) == Rank(c, DOMAIN ctx.cpus) + 2
CpuNode(c) == Rank(c, DOMAIN ctx.cpus) + Cardinality(ctx.numa_nodes) + 2
ParentNode(c) == IF ctx.cpus[c] = Unknown THEN 1 ELSE NumaNode(ctx.cpus[c])

WriteHierarchy ==
  LET numas == SortedIds(ctx.numa_nodes)
      cpus == SortedIds(DOMAIN ctx.cpus)
  IN  /\ conversion = "hierarchy"
      /\ Write(<<Hierarchy(0), Node(0, 1, 0)>>
               \o [i \in DOMAIN numas |-> Node(0, NumaNode(numas[i]), 1)]
               \o [i \in DOMAIN cpus |-> Node(0, CpuNode(cpus[i]), ParentNode(cpus[i]))],
               "mappings")
      /\ UNCHANGED <<input, ctx, consumed, supported>>

WriteEventMappings ==
  LET cpus == SortedIds(DOMAIN ctx.cpus)
  IN  /\ conversion = "mappings"
      /\ Write([i \in DOMAIN cpus |->
                  Mapping(cpus[i], 0, CpuNode(cpus[i]), 0, ctx.max_timestamp)],
               "check")
      /\ UNCHANGED <<input, ctx, consumed, supported>>

FinalCheck ==
  /\ conversion = "check"
  /\ conversion' = IF ctx.measurement_start = Unknown THEN "success" ELSE "failure"
  /\ UNCHANGED <<input, ctx, output, consumed, supported, broken>>

ConvertInit ==
  /\ conversion = "version"
  /\ input \in Inputs /\ supported \in BOOLEAN
  /\ ctx = [cpus |-> <<>>, numa_nodes |-> {}, max_timestamp |-> 0,
            missing |-> 0 .. NumDefaultStates - 1, measurement_start |-> Unknown,
            texec |-> <<>>, curr_id |-> 0, openstream_types |-> {}, omp_types |-> {},
            loop_types |-> <<>>]
  /\ output = <<>> /\ consumed = <<>> /\ broken = FALSE

ConvertNext ==
  \/ CheckVersion
  \/ WriteFileHeader
  \/ RegisterFrameTypes
  \/ ConvertSample
  \/ EndOfSamples
  \/ ReadFails
  \/ WriteMissingDescriptions
  \/ WriteHierarchy
  \/ WriteEventMappings
  \/ FinalCheck

ConvertSpec == ConvertInit /\ [][ConvertNext]_convertVars

-----------------------------------------------------------------------------
(***************************************************************************)
(* Properties                                                              *)
(***************************************************************************)
Frequent == {"event", "counter_event", "openmp_iteration_period", "openmp_task_period"}

(* Frame i can be loaded after those before it.  The interval of an event  *)
(* is that of the input, right or wrong; the CPU of an OpenStream period   *)
(* may have no collection, since single events do not register theirs,     *)
(* against the comment of v16ctx_convert_single_event.                     *)
SensibleOutput(i) ==
  LET f == output[i]
      earlier(type) == {output[j].id : j \in EarlierOf(output, i, type)}
  IN  CASE f.type = "type_id" ->
             f.num # 0 /\ \A j \in EarlierOf(output, i, "type_id") : output[j].num # f.num
        [] f.type \in Frequent -> f.id \in earlier("collection")
        [] f.type = "openstream_task_period" ->
             f.parent \in earlier("openstream_task_instance") /\ f.start < f.end
        [] f.type \in {"openstream_task_type", "openmp_task_type", "openmp_for_loop_type"} ->
             f.id \notin earlier(f.type)
        [] f.type = "openstream_task_instance" ->
             f.parent \in earlier("openstream_task_type") /\ f.id \notin earlier(f.type)
        [] f.type = "openmp_task_instance" -> f.parent \in earlier("openmp_task_type")
        [] f.type = "openmp_for_loop_instance" -> f.parent \in earlier("openmp_for_loop_type")
        [] OTHER -> Sensible(output, i)

(* Whatever the input holds, and wherever the conversion ends, each frame  *)
(* of the output makes sense after those before it, as the loader demands, *)
(* and has a type that was registered (v16_convert_trace).                 *)
ConvertedSensible ==
  \A i \in DOMAIN output :
    /\ SensibleOutput(i)
    /\ output[i].type \notin {"header", "type_id"} =>
         \E j \in EarlierOf(output, i, "type_id") : output[j].of = output[i].type

(* What the input says, event by event.  An OpenStream task takes as its   *)
(* number that of its end, and starts with the last start on its CPU.      *)
StartOf(i) ==
  Max({j \in 1 .. i - 1 : consumed[j].kind = "texec_start" /\ consumed[j].cpu = consumed[i].cpu})
LastStart(i) == Max({j \in 1 .. i : consumed[j].kind = "measure_start"})
TaskOf(i) == Cardinality({j \in 1 .. i : consumed[j].kind = "texec_end"})

Counterpart(i) ==
  LET e == consumed[i]
  IN  CASE e.kind = "state" -> <<Event(e.cpu, e.state, e.time, e.end)>>
        [] e.kind = "counter" -> <<Sample(e.cpu, e.counter, e.time)>>
        [] e.kind = "counter_description" -> <<Type("counter_description", e.counter)>>
        [] e.kind = "measure_end" ->
             <<Measurement(consumed[LastStart(i)].time, e.time)>>
        [] e.kind = "texec_end" ->
             <<Member("openstream_task_instance", e.what, TaskOf(i)),
               PeriodOf("openstream_task_period", e.cpu, TaskOf(i),
                        consumed[StartOf(i)].time, e.time)>>
        [] e.kind = "omp_for" -> <<Member("openmp_for_loop_instance", e.addr, e.id)>>
        [] e.kind = "omp_chunk_set" -> <<Member("openmp_iteration_set", e.loop, e.id)>>
        [] e.kind = "omp_chunk_set_part" ->
             <<PeriodOf("openmp_iteration_period", e.cpu, e.of, e.time, e.end)>>
        [] e.kind = "omp_task" -> <<Member("openmp_task_instance", e.addr, e.id)>>
        [] e.kind = "omp_task_part" -> <<PeriodOf("openmp_task_period", e.cpu, e.of, e.time, e.end)>>
        [] OTHER -> <<>>

Added == {"header", "type_id", "collection", "hierarchy", "node", "mapping", "description",
          "openstream_task_type", "openmp_task_type", "openmp_for_loop_type"}

(* Counters must have a description, which makes sure that their IDs fit.  *)
CountersDescribed ==
  \A e \in Range(consumed) : e.kind = "counter" =>
    \E d \in Range(consumed) : d.kind = "counter_description" /\ d.counter = e.counter

AllTold ==
  CountersDescribed =>
    SelectSeq(output, LAMBDA f : f.type \notin Added)
      = FlattenSeq([i \in DOMAIN consumed |-> Counterpart(i)])

(* Every default state is described, by the input if it does.              *)
StatesDescribed ==
  LET told == SelectSeq(consumed, LAMBDA e : e.kind = "state_description")
      written == SelectSeq(output, LAMBDA f : f.type = "description")
      rest == SubSeq(written, Len(told) + 1, Len(written))
  IN  /\ \A i \in DOMAIN told : written[i].state = told[i].state
      /\ Range(rest) =
           {Description(s) : s \in (0 .. NumDefaultStates - 1) \ {e.state : e \in Range(told)}}
      /\ IsInjective(rest)

(* CPUs on the same NUMA node, and only those, have the same parent; a     *)
(* CPU moves with the last event that says where it is.                    *)
Home(c) ==
  LET infos == {i \in DOMAIN consumed :
                  consumed[i].kind = "cpu_info" /\ consumed[i].cpu = c /\ consumed[i].numa # Unknown}
  IN  IF infos = {} THEN Unknown ELSE consumed[Max(infos)].numa

CpusNamed ==
  {e.cpu : e \in {d \in Range(consumed) :
                   d.kind \in {"state", "counter", "cpu_info", "frame_info",
                               "omp_chunk_set_part", "omp_task_part"}}}
    \cup {e.other : e \in {d \in Range(consumed) : d.kind = "comm"}}

(* Each CPU has one mapping, from a node below that of its NUMA node, for  *)
(* all of the time that the trace says anything about.                     *)
CpusMapped ==
  LET mappings == SelectSeq(output, LAMBDA f : f.type = "mapping")
      parent(n) == (CHOOSE f \in Range(output) : f.type = "node" /\ f.id = n).parent
  IN  /\ {m.id : m \in Range(mappings)} = CpusNamed
      /\ IsInjective([i \in DOMAIN mappings |-> mappings[i].id])
      /\ IsInjective([i \in DOMAIN mappings |-> mappings[i].node])
      /\ \A m, n \in Range(mappings) :
           /\ (parent(m.node) = parent(n.node)) <=> Home(m.id) = Home(n.id)
           /\ (parent(m.node) = 1) <=> Home(m.id) = Unknown
      /\ \A m \in Range(mappings) : \A f \in Range(output) :
           /\ f.type = "counter_event" => f.time \in m.start .. m.end
           /\ f.type \in {"event", "openstream_task_period"} => f.end \in m.start .. m.end

(* A conversion that reports success has told everything that the input    *)
(* says, in its order, and has described states and placed CPUs as the     *)
(* input does, wherever in the file it says so (v16_convert_trace).  The   *)
(* success reported for a version that is not supported says nothing.      *)
ConvertedAll ==
  conversion = "success" /\ supported => AllTold /\ StatesDescribed /\ CpusMapped

(* Tasks start and end in turn on each CPU, measurements in the whole      *)
(* trace; loops keep their flags; names are not empty.                     *)
TaskEventsBefore(i) ==
  {j \in 1 .. i - 1 : /\ consumed[j].kind \in {"texec_start", "texec_end"}
                      /\ consumed[j].cpu = consumed[i].cpu}

WellFormed ==
  \A i \in DOMAIN consumed :
    LET e == consumed[i]
        last == consumed[Max(TaskEventsBefore(i))]
    IN  /\ e.kind # "unknown"
        /\ e.kind \in {"state_description", "counter_description"} => e.length > 0
        /\ e.kind = "counter_description" => e.counter < CounterLimit
        /\ e.kind = "texec_start" => TaskEventsBefore(i) = {} \/ last.kind = "texec_end"
        /\ e.kind = "texec_end" =>
             /\ TaskEventsBefore(i) # {} /\ last.kind = "texec_start"
             /\ last.what = e.what /\ last.time < e.time
        /\ e.kind = "omp_for" =>
             \A d \in Range(consumed) : d.kind = "omp_for" /\ d.addr = e.addr => d.flags = e.flags

MeasurementsWhole ==
  LET measures == SelectSeq(consumed, LAMBDA e : e.kind \in {"measure_start", "measure_end"})
  IN  /\ \A i \in DOMAIN measures :
           measures[i].kind = IF i % 2 = 1 THEN "measure_start" ELSE "measure_end"
      /\ Len(measures) % 2 = 0

(* An input is converted if and only if it is well-formed; otherwise, and  *)
(* if reading or writing fails, a failure is reported (v16_convert_trace). *)
ConvertVerdict ==
  /\ conversion = "success" /\ supported => WellFormed /\ MeasurementsWhole /\ ~broken
  /\ conversion = "failure" => ~WellFormed \/ ~MeasurementsWhole \/ broken

(* What the program reports and what it wrote agree with the input.        *)
ConversionRight == ConvertedAll /\ ConvertVerdict
=============================================================================
