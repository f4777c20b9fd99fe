---------------------------- MODULE TaskPeriods ----------------------------
(***************************************************************************)
(* How processTrace() finds the OpenMP tasks of a trace and the periods in *)
(* which they ran.  While the program was traced, each CPU wrote an event  *)
(* for each task it created and one for each scheduling point, which ends  *)
(* the period of one task and starts that of another.  After loading,      *)
(* processTrace() goes through the events CPU by CPU, not by time, first   *)
(* through those of all CPUs that create tasks, then through the           *)
(* scheduling points, and collects the periods of a task until one says    *)
(* that it has completed.  The periods that are found in the events of a   *)
(* CPU are added to a copy of its collection of arrays (EventArrays).      *)
(*                                                                         *)
(* The program that was traced is the first phase of the model; it is not  *)
(* part of the repository, and any task may go on on any CPU.              *)
(***************************************************************************)
EXTENDS EventArrays

CONSTANTS
  NumCpus,    \* number of event collections
  TaskIds,    \* IDs of tasks
  TaskCode,   \* addresses of the code of tasks, which name their types
  LastTime    \* bound: the last timestamp

ASSUME TasksAssumption ==
  /\ NumCpus \in Nat \ {0} /\ 1 .. NumCpus \subseteq DOMAIN OtherArrays
  /\ TaskIds \subseteq Nat \ {0}
  /\ LastTime \in Nat

VARIABLES
  now,          \* time of the traced program
  runs,         \* cpu -> task it runs, 0 for none
  ran,          \* task -> sequence of its periods, as they were
  completed,    \* tasks that have completed
  creates,      \* cpu -> its events am_openmp_task_create: [codeptr, id]
  schedules,    \* cpu -> its events am_openmp_task_schedule
  taskTypes,    \* task_types, in the order they were found
  instances,    \* task_instance_map: ID -> type
  collected,    \* task_periods_by_instance: ID -> sequence of periods
  taskPeriods,  \* cpu -> its array task_periods
  firstStart,   \* first_start of the instances that were completed
  lastEnd,      \* last_end of them
  at,           \* CPU and number of the next event
  taskArrays,   \* cpu -> its arrays, as the trace has them
  taskPhase     \* "execution", "create", "schedule", "done" or "exit"

runtimeVars == <<now, runs, ran, completed, creates, schedules>>
foundVars == <<taskTypes, instances>>
periodVars == <<collected, taskPeriods, firstStart, lastEnd>>
taskVars == <<runtimeVars, foundVars, periodVars, at, taskArrays, taskPhase>>

Cpu == 1 .. NumCpus

Created == UNION {{creates[c][k].id : k \in DOMAIN creates[c]} : c \in Cpu}

TaskInit ==
  /\ now = 1
  /\ runs = [c \in Cpu |-> 0]
  /\ ran = [t \in TaskIds |-> <<>>]
  /\ completed = {}
  /\ creates = [c \in Cpu |-> <<>>]
  /\ schedules = [c \in Cpu |-> <<>>]
  /\ taskTypes = <<>>
  /\ instances = <<>>
  /\ collected = <<>>
  /\ taskPeriods = [c \in Cpu |-> <<>>]
  /\ firstStart = <<>>
  /\ lastEnd = <<>>
  /\ at = [cpu |-> 1, next |-> 1]
  /\ taskArrays = [c \in Cpu |-> LoadedArrays({})]
  /\ taskPhase = "execution"

-----------------------------------------------------------------------------
(* The traced program                                                      *)

CreateTask(c) ==
  /\ taskPhase = "execution"
  /\ \E code \in TaskCode, t \in TaskIds \ Created :
       /\ \A u \in TaskIds \ Created : t <= u
       /\ creates' = [creates EXCEPT ![c] = Append(@, [codeptr |-> code, id |-> t])]
  /\ UNCHANGED <<now, runs, ran, completed, schedules, foundVars, periodVars,
                 at, taskArrays, taskPhase>>

(* A scheduling point of CPU c: it leaves the task it runs, which may have *)
(* completed, and goes on with another one that no CPU runs.               *)
SchedulingPoint(c) ==
  /\ taskPhase = "execution"
  /\ now <= LastTime
  /\ \E next \in {0} \cup (Created \ completed), done \in BOOLEAN :
       LET prior == runs[c]
       IN /\ prior # next
          /\ next # 0 => \A d \in Cpu : runs[d] # next
          /\ done => prior # 0
          /\ runs' = [runs EXCEPT ![c] = next]
          /\ completed' = IF done THEN completed \cup {prior} ELSE completed
          /\ ran' = [t \in TaskIds |->
                       IF t = prior THEN [ran[t] EXCEPT ![Len(ran[t])].end = now]
                       ELSE IF t = next
                         THEN Append(ran[t], [cpu |-> c, start |-> now, end |-> 0])
                         ELSE ran[t]]
          /\ schedules' = [schedules EXCEPT ![c] =
                             Append(@, [timestamp |-> now, prior |-> prior,
                                        next |-> next, complete |-> done])]
  /\ now' = now + 1
  /\ UNCHANGED <<creates, foundVars, periodVars, at, taskArrays, taskPhase>>

(* The arrays of tasks that are loaded for CPU c                           *)
TaskArrayTypes(c) ==
  (IF creates[c] = <<>> THEN {} ELSE {"task_create"})
    \cup (IF schedules[c] = <<>> THEN {} ELSE {"task_schedule"})

(* The program ends and its trace is loaded, with arrays of other events.  *)
EndExecution ==
  /\ taskPhase = "execution"
  /\ taskPhase' = "create"
  /\ taskArrays' = [c \in Cpu |-> LoadedArrays(TaskArrayTypes(c)
                                   \cup (OtherArrays[c] \ {"task_create", "task_schedule"}))]
  /\ UNCHANGED <<runtimeVars, foundVars, periodVars, at>>

-----------------------------------------------------------------------------
(* processTrace()                                                          *)

(* The next event of the CPU at hand, the next CPU, or the next phase      *)
Advance(log, next) ==
  IF at.next < Len(log[at.cpu])
    THEN at' = [at EXCEPT !.next = @ + 1] /\ UNCHANGED taskPhase
    ELSE IF \E c \in at.cpu + 1 .. NumCpus : log[c] # <<>>
      THEN /\ at' = [cpu |-> CHOOSE c \in at.cpu + 1 .. NumCpus :
                               /\ log[c] # <<>>
                               /\ \A d \in at.cpu + 1 .. c - 1 : log[d] = <<>>,
                     next |-> 1]
           /\ UNCHANGED taskPhase
      ELSE at' = [cpu |-> 1, next |-> 1] /\ taskPhase' = next

HasEvent(log) == at.next <= Len(log[at.cpu])

SkipEmpty(log, phase, next) ==
  /\ taskPhase = phase
  /\ ~HasEvent(log)
  /\ Advance(log, next)
  /\ UNCHANGED <<runtimeVars, foundVars, periodVars, taskArrays>>

(* A task that was created: its type, if it is new, and its instance       *)
LiftTask ==
  /\ taskPhase = "create"
  /\ HasEvent(creates)
  /\ LET e == creates[at.cpu][at.next]
     IN /\ taskTypes' = IF e.codeptr \in ToSet(taskTypes) THEN taskTypes
                      ELSE Append(taskTypes, e.codeptr)
        /\ instances' = [t \in DOMAIN instances \cup {e.id} |->
                           IF t \in DOMAIN instances THEN instances[t] ELSE e.codeptr]
  /\ Advance(creates, "schedule")
  /\ UNCHANGED <<runtimeVars, periodVars, taskArrays>>

(* Mutant: the end is put into the first period of the task                *)
WithEndOfFirst(all, e) ==
  IF e.prior = 0 THEN all ELSE [all EXCEPT ![e.prior][1].end = e.timestamp]

(* The periods of the tasks after event e: that of the task it leaves,     *)
(* which must be known and have started, ends, and that of the task it     *)
(* goes on with starts.                                                    *)
WithEnd(all, e) ==
  IF e.prior = 0 THEN all
  ELSE [all EXCEPT ![e.prior][Len(all[e.prior])].end = e.timestamp]

(* CPUs are kept in eight bits.                                            *)
InEightBits(c) == ((c - 1) % 256) + 1

WithStart(all, e) ==
  IF e.next = 0 THEN all
  ELSE [t \in DOMAIN all \cup {e.next} |->
          (IF t \in DOMAIN all THEN all[t] ELSE <<>>)
            \o (IF t # e.next THEN <<>>
                ELSE <<[cpu |-> InEightBits(at.cpu), start |-> e.timestamp, end |-> 0]>>)]

(* Mutant: every scheduling point ends a task                              *)
Leaves(e) == e.prior # 0

Completes(e) == e.prior # 0 /\ e.complete

Accepted(e) ==
  /\ e.prior # 0 => e.prior \in DOMAIN instances /\ e.prior \in DOMAIN collected
  /\ e.next # 0 => e.next \in DOMAIN instances

(* The end of the collection of the CPU at hand: the array of the periods  *)
(* that were found is added to the copy, and perhaps one of iterations.    *)
AddTaskPeriods ==
  \E iterations \in BOOLEAN :
    /\ iterations => "loop_chunk" \in taskArrays[at.cpu].meant
    /\ \E a \in WithPeriods(taskArrays[at.cpu], taskPeriods'[at.cpu] # <<>>, iterations) :
         taskArrays' = [taskArrays EXCEPT ![at.cpu] = a]

(* A scheduling point.  Once a task has completed, its periods are added   *)
(* to the array of the CPU at hand.                                        *)
ProcessSchedule ==
  /\ taskPhase = "schedule"
  /\ HasEvent(schedules)
  /\ LET e == schedules[at.cpu][at.next]
         ended == WithEnd(collected, e)
     IN IF ~Accepted(e)
          THEN taskPhase' = "exit" /\ UNCHANGED <<periodVars, at, taskArrays>>
          ELSE /\ collected' = WithStart(ended, e)
               /\ IF Completes(e)
                    THEN /\ taskPeriods' = [taskPeriods EXCEPT ![at.cpu] =
                              @ \o [i \in DOMAIN ended[e.prior] |->
                                      [task |-> e.prior, period |-> ended[e.prior][i]]]]
                         /\ firstStart' = [t \in DOMAIN firstStart \cup {e.prior} |->
                              IF t = e.prior THEN ended[t][1].start ELSE firstStart[t]]
                         /\ lastEnd' = [t \in DOMAIN lastEnd \cup {e.prior} |->
                              IF t = e.prior THEN Last(ended[t]).end ELSE lastEnd[t]]
                    ELSE UNCHANGED <<taskPeriods, firstStart, lastEnd>>
               /\ IF at.next < Len(schedules[at.cpu])
                    THEN UNCHANGED taskArrays
                    ELSE AddTaskPeriods
               /\ Advance(schedules, "done")
  /\ UNCHANGED <<runtimeVars, foundVars>>

TaskNext ==
  \/ \E c \in Cpu : CreateTask(c)
  \/ \E c \in Cpu : SchedulingPoint(c)
  \/ EndExecution
  \/ SkipEmpty(creates, "create", "schedule")
  \/ SkipEmpty(schedules, "schedule", "done")
  \/ LiftTask
  \/ ProcessSchedule

TaskSpec == TaskInit /\ [][TaskNext]_taskVars

-----------------------------------------------------------------------------
(* Properties                                                              *)

(* The places in the arrays, those of task t, and their order              *)
Places == UNION {{<<c, i>> : i \in DOMAIN taskPeriods[c]} : c \in Cpu}
TaskPeriod(p) == taskPeriods[p[1]][p[2]]
PlacesOf(t) == {p \in Places : TaskPeriod(p).task = t}
Precedes(p, q) == p[1] < q[1] \/ (p[1] = q[1] /\ p[2] < q[2])

PeriodsOf(t) == {TaskPeriod(p).period : p \in PlacesOf(t)}
Kept(r) == [r EXCEPT !.cpu = InEightBits(r.cpu)]

(* Task t never went on on a CPU whose events are processed earlier.       *)
Ascending(t) ==
  \A i, j \in DOMAIN ran[t] : i < j => ran[t][i].cpu <= ran[t][j].cpu

(* Although events are not processed by time, and no CPU knows what others *)
(* did: whatever moves of tasks between CPUs, no event makes the program   *)
(* exit; and a task that only ever moved to CPUs that are processed later  *)
(* has exactly the periods in which it ran, in order, with its first start *)
(* and last end.                                                           *)
TaskPeriodsRight ==
  /\ taskPhase # "exit"
  /\ taskPhase = "done" =>
       \A t \in completed : Ascending(t) =>
         /\ PeriodsOf(t) = {Kept(r) : r \in ToSet(ran[t])}
         /\ \A p, q \in PlacesOf(t) :
              Precedes(p, q) => TaskPeriod(p).period.start < TaskPeriod(q).period.start
         /\ firstStart[t] = ran[t][1].start
         /\ lastEnd[t] = Last(ran[t]).end

(* Whatever a task's moves: it gets periods only once it has completed,    *)
(* each of them is one in which it ran, with its end, and none twice.      *)
PeriodsTrue ==
  \A t \in TaskIds :
    /\ PlacesOf(t) # {} => t \in completed /\ lastEnd[t] = Last(ran[t]).end
    /\ PeriodsOf(t) \subseteq {Kept(r) : r \in ToSet(ran[t])}
    /\ \A p, q \in PlacesOf(t) : p # q => TaskPeriod(p).period # TaskPeriod(q).period

(* The periods that processTrace() finds for a task are those in which it  *)
(* ran.                                                                    *)
TaskPeriodsFound == TaskPeriodsRight /\ PeriodsTrue

(* What the trace has of them: since they are added to a copy of the       *)
(* collection, a trace whose memory has not moved has as many arrays as    *)
(* before, so that each array of periods that it got has cost it one that  *)
(* it had been loaded with; no array is out of order.                      *)
TaskArraysKept ==
  \A c \in Cpu :
    /\ ArraysInOrder(taskArrays[c]) /\ MovesOnGrowth(taskArrays[c])
    /\ taskPhase = "done" =>
         (taskPeriods[c] # <<>> <=> "task_period" \in taskArrays[c].meant)

(* The periods are right where they are collected, and the trace, which    *)
(* gets them or not (TaskPeriodsDelivered), keeps its arrays in order.     *)
TasksRight == TaskPeriodsFound /\ TaskArraysKept

(* A CPU for which periods of tasks were found has their array in the      *)
(* trace, next to those it was loaded with.  The code does not do that: it *)
(* adds the array to a copy of the collection.                             *)
TaskPeriodsDelivered ==
  taskPhase = "done" => \A c \in Cpu : taskPeriods[c] # <<>> => AllArrays(taskArrays[c])
=============================================================================
