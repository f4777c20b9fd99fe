---------------------------- MODULE MCTraceLoad ----------------------------
(***************************************************************************)
(* A trace that is converted, one that is loaded, and what is then derived *)
(* from one - the call graph, the periods of tasks, and those of loops -   *)
(* on small instances.                                                     *)
(* These share no state, so each runs by itself while the others stay as   *)
(* they are initially.                                                     *)
(***************************************************************************)
EXTENDS TraceLoad, TraceConvert, CallGraph, TaskPeriods, IterationPeriods

CONSTANTS f1, f2

VARIABLE part  \* the part that runs

-----------------------------------------------------------------------------
(* Loading                                                                 *)

run == 1
wait == 2

\* The types have the numbers they have by default.
Number(name) == DefaultId(name)
Registered(names) == [i \in DOMAIN names |-> Entry(0, TypeId(names[i], Number(names[i])))]
AsFrame(f) == Entry(Number(f.type), f)
Intervals == {<<0, 1>>, <<1, 2>>, <<2, 1>>}

\* Names and numbers of types, good and bad
TypeScenario ==
  [prefix |-> <<>>, more |-> 3,
   frames |-> {Entry(0, TypeId(name, num)) : name \in {"collection", "description", "unknown"}, num \in {0, 3, 5, 7, 8}}
              \cup {Entry(num, Collection(1)) : num \in {3, 5, 7, 8}}
              \cup {Entry(num, Description(run)) : num \in {3, 5}}]
\* Hierarchies
TreeScenario ==
  [prefix |-> Registered(<<"hierarchy", "node">>), more |-> 5,
   frames |-> {AsFrame(Hierarchy(h)) : h \in {1, 2}} \cup {AsFrame(Node(2, 1, 0))}
              \cup {AsFrame(Node(1, id, parent)) : id \in 1 .. 4, parent \in 0 .. 3}]
\* Mappings between collections that come in any order
MapScenario ==
  [prefix |-> Registered(<<"collection", "hierarchy", "node", "mapping">>)
              \o <<AsFrame(Hierarchy(1)), AsFrame(Node(1, 1, 0))>>,
   more |-> 5,
   frames |-> {AsFrame(Collection(id)) : id \in 1 .. 3}
              \cup {AsFrame(Node(1, 2, 1))}
              \cup {AsFrame(Mapping(id, 1, node, i[1], i[2])) : id \in 1 .. 2, node \in 1 .. 2, i \in Intervals}]
\* Events and descriptions
EventScenario ==
  [prefix |-> Registered(<<"collection", "description", "event">>), more |-> 5,
   frames |-> {AsFrame(Collection(id)) : id \in 1 .. 2}
              \cup {AsFrame(Description(s)) : s \in {run, wait}}
              \cup {AsFrame(Event(1, s, i[1], i[2])) : s \in {run, wait}, i \in Intervals}
              \cup {AsFrame(Event(2, run, 0, 2))}]

MCScenarios == {TypeScenario, TreeScenario, MapScenario, EventScenario}

-----------------------------------------------------------------------------
(* Converting                                                              *)

At(kind, c, time) == [kind |-> kind, cpu |-> c, time |-> time]
StateEvent(c, time, end, state) ==
  [kind |-> "state", cpu |-> c, time |-> time, end |-> end, state |-> state]
CpuInfo(c, numa) == [kind |-> "cpu_info", cpu |-> c, time |-> 1, numa |-> numa]
Part(kind, c, of, start, end) ==
  [kind |-> kind, cpu |-> c, of |-> of, time |-> start, end |-> end]
Exec(kind, c, time, what) == [kind |-> kind, cpu |-> c, time |-> time, what |-> what]

\* CPUs, whose numbers have gaps, and NUMA nodes
PlaceInput ==
  [more |-> 4,
   events |-> {CpuInfo(c, n) : c \in {1, 5}, n \in {-1, 0, 3}}
              \cup {At("frame_info", 1, 2), StateEvent(5, 2, 6, 1), StateEvent(1, 4, 3, 0),
                    [kind |-> "comm", cpu |-> 7, time |-> 3, other |-> 5, produced |-> 8]}]
\* OpenStream tasks
ExecInput ==
  [more |-> 4,
   events |-> {Exec(k, 1, t, w) : k \in {"texec_start", "texec_end"}, t \in {2, 4}, w \in {7, 8}}
              \cup {Exec("texec_start", 2, 3, 7), Exec("texec_end", 2, 4, 7),
                    Exec("tcreate", 3, 9, 7), StateEvent(2, 1, 2, 0)}]
\* OpenMP loops and tasks
OmpInput ==
  [more |-> 4,
   events |-> {[kind |-> "omp_for", addr |-> 7, id |-> i, flags |-> f] : i \in {1, 2}, f \in {0, 1}}
              \cup {[kind |-> "omp_chunk_set", loop |-> 1, id |-> 3],
                    Part("omp_chunk_set_part", 1, 3, 2, 5),
                    [kind |-> "omp_task", addr |-> 7, id |-> 4],
                    [kind |-> "omp_task", addr |-> 7, id |-> 5], Part("omp_task_part", 2, 4, 1, 3)}]
\* Descriptions, of counters whose IDs fit or do not, and measurements
DescInput ==
  [more |-> 4,
   events |-> {[kind |-> "state_description", state |-> s, length |-> 1] : s \in 0 .. 2}
              \cup {[kind |-> "state_description", state |-> 0, length |-> 0],
                    [kind |-> "counter_description", counter |-> 1, length |-> 0]}
              \cup {[kind |-> "counter_description", counter |-> c, length |-> 3] : c \in {1, 4}}
              \cup {[kind |-> "counter", cpu |-> 1, time |-> 3, counter |-> c] : c \in {1, 4}}
              \cup {[kind |-> "measure_start", time |-> 1], [kind |-> "measure_end", time |-> 4],
                    [kind |-> "unknown"]}]

MCInputs == {PlaceInput, ExecInput, OmpInput, DescInput}

-----------------------------------------------------------------------------
(* Calls                                                                   *)

(* Up to four frames on the first CPU, in the order of their ends, as they *)
(* are written, and two on the second                                      *)
Spans == {<<s, e>> \in (1 .. 5) \X (1 .. 5) : s < e}

Laminar(S) ==
  \A a, b \in S : \/ a[2] <= b[1] \/ b[2] <= a[1]
                  \/ a[1] <= b[1] /\ b[2] <= a[2]
                  \/ b[1] <= a[1] /\ a[2] <= b[2]

FrameOf(c, span) ==
  [cpu |-> c, start |-> span[1], end |-> span[2],
   addr |-> IF span[1] % 2 = 1 THEN f1 ELSE f2]

OnFirst ==
  {SetToSortSeq(S, LAMBDA a, b : a[2] < b[2] \/ (a[2] = b[2] /\ a[1] > b[1])) :
     S \in {T \in UNION {kSubset(k, Spans) : k \in 0 .. 4} : Laminar(T)}}

Counter(times, slope) ==
  [i \in 1 .. Len(times) |-> [time |-> times[i], value |-> slope[i]]]

MCCounters ==
  {<<>>, <<Counter(<<2, 4>>, <<3, 8>>)>>,
   <<Counter(<<1, 3, 5>>, <<0, 10, 11>>), Counter(<<1, 3, 5>>, <<4, 4, 7>>)>>,
   <<Counter(<<3>>, <<1>>)>>}

MCWork == {<<>>, <<[start |-> 1, end |-> 2], [start |-> 2, end |-> 5]>>,
           <<[start |-> 3, end |-> 4], [start |-> 1, end |-> 6]>>}

MCTraces ==
  {[frames |-> [i \in DOMAIN s |-> FrameOf(1, s[i])]
                 \o <<FrameOf(2, <<2, 3>>), FrameOf(2, <<1, 4>>)>>,
    counters |-> <<n, <<>>>>, work |-> <<<<>>, <<>>>>, symbols |-> m] :
     s \in OnFirst, n \in MCCounters, m \in {(f1 :> "main") @@ (f2 :> "work"), f1 :> "main"}}
    \cup
  {[frames |-> <<>>, counters |-> <<n, <<>>>>, work |-> <<w, <<>>>>,
    symbols |-> f1 :> "main"] : n \in MCCounters, w \in MCWork}

NoTrace ==
  [frames |-> <<>>, counters |-> <<<<>>, <<>>>>, work |-> <<<<>>, <<>>>>, symbols |-> f1 :> "main"]

-----------------------------------------------------------------------------
\* The second CPU has events of all parts.
MCOtherArrays == <<{}, {"loop_chunk", "task_schedule", "work"}>>

(* Loops of two types, and chunks of which one is empty                    *)
MCCodeOf == [l \in {1, 2, 3} |-> l % 2]
MCChunks == {<<0, 1>>, <<2, 3>>, <<1, 0>>}

-----------------------------------------------------------------------------
(* A part that does not run has one initial state.                         *)
PartsInit ==
  /\ part \in {"load", "convert", "calls", "tasks", "loops"}
  /\ LoadInit /\ (part # "load" => scenario = TypeScenario)
  /\ ConvertInit /\ (part # "convert" => input = PlaceInput /\ supported = TRUE)
  /\ CallInit /\ (part # "calls" => trace = NoTrace)
  /\ TaskInit /\ LoopInit

PartsNext ==
  \/ part = "load" /\ LoadNext /\ UNCHANGED <<part, convertVars, callVars, taskVars, loopVars>>
  \/ part = "convert" /\ ConvertNext /\ UNCHANGED <<part, loadVars, callVars, taskVars, loopVars>>
  \/ part = "calls" /\ CallNext /\ UNCHANGED <<part, loadVars, convertVars, taskVars, loopVars>>
  \/ part = "tasks" /\ TaskNext /\ UNCHANGED <<part, loadVars, convertVars, callVars, loopVars>>
  \/ part = "loops" /\ LoopNext /\ UNCHANGED <<part, loadVars, convertVars, callVars, taskVars>>

PartsSpec ==
  PartsInit /\ [][PartsNext]_<<part, loadVars, convertVars, callVars, taskVars, loopVars>>

(* Loading only, and tasks only                                            *)
LoadOnly == part = "load" /\ PartsSpec
TasksOnly == part = "tasks" /\ PartsSpec

=============================================================================
