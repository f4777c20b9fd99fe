-------------------------- MODULE IterationPeriods --------------------------
(***************************************************************************)
(* How processTrace() finds the loops of a trace and the periods in which  *)
(* each CPU worked on their iterations.  While the program was traced,     *)
(* each CPU wrote an event am_openmp_loop_chunk when it started on a chunk *)
(* of iterations, and one with the flag is_last when it left the loop.  A  *)
(* chunk may contain another loop.  processTrace() recovers from this list *)
(* which chunk the CPU was working on in between, with a stack of loops,   *)
(* and adds the periods to a copy of the CPU's arrays (EventArrays).       *)
(*                                                                         *)
(* The program that was traced is the first phase of the model; it is not  *)
(* part of the repository.                                                 *)
(***************************************************************************)
EXTENDS EventArrays

CONSTANTS
  LoopCpus,   \* number of event collections
  LoopIds,    \* IDs of loop instances
  CodeOf,     \* instance -> address of the loop, which names its type
  Chunks,     \* pairs of a lower and an upper bound
  MaxEvents   \* bound: the events of all CPUs

ASSUME LoopsAssumption ==
  /\ LoopCpus \in Nat \ {0} /\ 1 .. LoopCpus \subseteq DOMAIN OtherArrays
  /\ LoopIds \subseteq Nat \ {0}
  /\ LoopIds \subseteq DOMAIN CodeOf
  /\ Chunks \subseteq Int \X Int
  /\ MaxEvents \in Nat

VARIABLES
  chunkEvents,       \* cpu -> its events: [id, lb, ub, last]; event k is at time k
  loopRecords,       \* IDs of the instances that have an event am_openmp_loop
  active,            \* cpu -> loops it is in, each with its chunk
  worked,            \* cpu -> periods it worked on chunks, as they were
  loopTypes,         \* for_loop_types
  current,           \* inst_id, lb, ub and last; time is the number of the event
  chunkBounds,       \* bounds, the stack of loops with their chunks
  iterationSets,     \* iter_set_map: keys <<id, lb, ub>>
  iterationPeriods,  \* cpu -> its array iteration_periods
  chunkAt,           \* CPU and number of the next event
  loopArrays,        \* cpu -> its arrays, as the trace has them
  loopPhase          \* "execution", "process", "done" or "thrown"

loopVars == <<chunkEvents, loopRecords, active, worked, loopTypes, current,
              chunkBounds, iterationSets, iterationPeriods, chunkAt, loopArrays, loopPhase>>
executionVars == <<chunkEvents, loopRecords, active, worked>>
processVars == <<loopTypes, current, chunkBounds, iterationSets, iterationPeriods, chunkAt>>

LoopCpu == 1 .. LoopCpus
Key(e) == <<e.id, e.lb, e.ub>>
NoChunk == [id |-> 0, lb |-> 0, ub |-> 0, last |-> FALSE]

LoopInit ==
  /\ chunkEvents = [c \in LoopCpu |-> <<>>]
  /\ loopRecords = {}
  /\ active = [c \in LoopCpu |-> <<>>]
  /\ worked = [c \in LoopCpu |-> <<>>]
  /\ loopTypes = {}
  /\ current = NoChunk
  /\ chunkBounds = <<>>
  /\ iterationSets = {}
  /\ iterationPeriods = [c \in LoopCpu |-> <<>>]
  /\ chunkAt = [cpu |-> 1, next |-> 1]
  /\ loopArrays = [c \in LoopCpu |-> LoadedArrays({})]
  /\ loopPhase = "execution"

-----------------------------------------------------------------------------
(* The traced program                                                      *)

Period(e, from, to) ==
  [id |-> e.id, lb |-> e.lb, ub |-> e.ub, start |-> from, end |-> to]

(* CPU c writes event e: it has worked on its innermost chunk until then.  *)
WriteEvent(c, e) ==
  /\ chunkEvents' = [chunkEvents EXCEPT ![c] = Append(@, e)]
  /\ worked' = IF active[c] = <<>> THEN worked
               ELSE [worked EXCEPT ![c] =
                       Append(@, Period(Last(active[c]), Len(chunkEvents[c]),
                                        Len(chunkEvents[c]) + 1))]

Entered(l, c) == \E k \in DOMAIN chunkEvents[c] : chunkEvents[c][k].id = l

(* CPU c goes on with another chunk of the loop it is in, or enters a loop *)
(* that it has not been in.  Loops are numbered as they are entered.       *)
StartChunk(c) ==
  /\ loopPhase = "execution"
  /\ Len(FlattenSeq(chunkEvents)) < MaxEvents
  /\ \E l \in LoopIds, b \in Chunks :
       LET e == [id |-> l, lb |-> b[1], ub |-> b[2], last |-> FALSE]
           same == active[c] # <<>> /\ Last(active[c]).id = l
       IN /\ ~same => /\ ~Entered(l, c)
                       /\ \A m \in LoopIds : m < l => \E d \in LoopCpu : Entered(m, d)
          /\ same => \A k \in DOMAIN chunkEvents[c] : chunkEvents[c][k] # e
          /\ WriteEvent(c, e)
          /\ active' = [active EXCEPT ![c] =
               Append(IF same THEN Front(@) ELSE @, e)]
  /\ UNCHANGED <<loopRecords, processVars, loopArrays, loopPhase>>

(* CPU c leaves its innermost loop.  One CPU writes the event of the loop, *)
(* with its start and end.                                                 *)
LeaveLoop(c) ==
  /\ loopPhase = "execution"
  /\ active[c] # <<>>
  /\ Len(FlattenSeq(chunkEvents)) < MaxEvents
  /\ WriteEvent(c, [id |-> Last(active[c]).id, lb |-> 0, ub |-> 0, last |-> TRUE])
  /\ active' = [active EXCEPT ![c] = Front(@)]
  /\ loopRecords' = loopRecords \cup {Last(active[c]).id}
  /\ UNCHANGED <<processVars, loopArrays, loopPhase>>

(* The array that is loaded if CPU c has worked on chunks                  *)
LoopArrayTypes(c) == IF chunkEvents[c] = <<>> THEN {} ELSE {"loop_chunk"}

(* The program ends, or tracing does, and the trace is loaded, with arrays *)
(* of other events.  The types of loops are found first.                   *)
EndProgram ==
  /\ loopPhase = "execution"
  /\ loopPhase' = "process"
  /\ loopArrays' = [c \in LoopCpu |-> LoadedArrays(LoopArrayTypes(c)
                                        \cup (OtherArrays[c] \ {"loop_chunk"}))]
  /\ loopTypes' = {CodeOf[l] : l \in loopRecords}
  /\ UNCHANGED <<executionVars, current, chunkBounds, iterationSets, iterationPeriods, chunkAt>>

-----------------------------------------------------------------------------
(* processTrace()                                                          *)

ChunkEvents == chunkEvents[chunkAt.cpu]

(* Mutant: the end of a loop does not bring back the loop around it        *)
WorkedOnLast == current

(* Mutant: the bounds of the first chunk stand for all of the loop         *)
WorkedOnTop == Last(chunkBounds)

(* What the CPU worked on before an event: the current chunk, or, if that   *)
(* was the end of a loop, the chunk of the loop around it.                 *)
WorkedOn == IF current.last THEN Last(chunkBounds) ELSE current

(* Mutant: every chunk is pushed                                           *)
EntersAlways(e) == ~e.last

(* A chunk was entered whose loop is not that of the current one, which is *)
(* the loop around it after a period has been closed.                      *)
Enters(e) ==
  LET id == IF chunkBounds = <<>> THEN current.id ELSE WorkedOn.id
  IN ~e.last /\ id # e.id

ProcessChunk ==
  /\ loopPhase = "process"
  /\ chunkAt.next <= Len(ChunkEvents)
  /\ LET e == ChunkEvents[chunkAt.next]
         closes == chunkAt.next > 1 /\ chunkBounds # <<>>
         left == IF closes /\ e.last THEN Front(chunkBounds) ELSE chunkBounds
         key == Key(e)
         new == ~e.last /\ e.lb <= e.ub /\ key \notin iterationSets
         known == e.id \in loopRecords
         useful == closes /\ WorkedOn.lb <= WorkedOn.ub
         found == Key(WorkedOn) \in iterationSets
     IN /\ iterationPeriods' =
             IF useful
               THEN [iterationPeriods EXCEPT ![chunkAt.cpu] =
                       Append(@, Period(WorkedOn, chunkAt.next - 1, chunkAt.next))]
               ELSE iterationPeriods
        /\ chunkBounds' = IF Enters(e) THEN Append(left, e) ELSE left
        /\ current' = e
        /\ iterationSets' = IF new /\ known THEN iterationSets \cup {key} ELSE iterationSets
        /\ loopPhase' = IF (new /\ ~known) \/ (useful /\ ~found) THEN "thrown" ELSE loopPhase
  /\ chunkAt' = [chunkAt EXCEPT !.next = @ + 1]
  /\ UNCHANGED <<executionVars, loopTypes, loopArrays>>

(* The end of the collection at hand: the arrays of periods, of tasks      *)
(* perhaps as well, are added to the copy.                                 *)
AddIterationPeriods ==
  \E tasks \in BOOLEAN :
    /\ tasks => "task_schedule" \in loopArrays[chunkAt.cpu].meant
    /\ \E a \in WithPeriods(loopArrays[chunkAt.cpu], tasks,
                            iterationPeriods[chunkAt.cpu] # <<>>) :
         loopArrays' = [loopArrays EXCEPT ![chunkAt.cpu] = a]

(* The next collection, with an empty stack                                *)
NextCpu ==
  /\ loopPhase = "process"
  /\ chunkAt.next > Len(ChunkEvents)
  /\ AddIterationPeriods
  /\ IF chunkAt.cpu < LoopCpus
       THEN chunkAt' = [cpu |-> chunkAt.cpu + 1, next |-> 1] /\ UNCHANGED loopPhase
       ELSE loopPhase' = "done" /\ UNCHANGED chunkAt
  /\ current' = NoChunk
  /\ chunkBounds' = <<>>
  /\ UNCHANGED <<executionVars, loopTypes, iterationSets, iterationPeriods>>

LoopNext ==
  \/ \E c \in LoopCpu : StartChunk(c) \/ LeaveLoop(c)
  \/ EndProgram
  \/ ProcessChunk
  \/ NextCpu

LoopSpec == LoopInit /\ [][LoopNext]_loopVars

-----------------------------------------------------------------------------
(* Properties                                                              *)

(* Types, and the stack holds chunks of different loops                     *)
LoopTypeOK ==
  /\ loopTypes \subseteq {CodeOf[l] : l \in LoopIds}
  /\ \A i \in DOMAIN chunkBounds : ~chunkBounds[i].last
  /\ \A i, j \in DOMAIN chunkBounds : i # j => chunkBounds[i].id # chunkBounds[j].id
  /\ loopPhase \in {"execution", "process", "done", "thrown"}

(* The periods of CPU c in which it worked on a chunk with iterations      *)
Useful(c) == {p \in ToSet(worked[c]) : p.lb <= p.ub}

OneAfterOther(periods) == \A i, j \in DOMAIN periods : i < j => periods[i].end <= periods[j].start

(* Whenever CPU c came back to a loop, it went on with the first chunk it  *)
(* had of that loop: that is the chunk which the stack keeps.              *)
NestedInFirst(c) ==
  \A i, j \in DOMAIN worked[c] :
    /\ i < j
    /\ worked[c][i].id = worked[c][j].id
    /\ worked[c][j - 1].id # worked[c][j].id
    /\ \A k \in 1 .. i - 1 : worked[c][k].id # worked[c][i].id
    => Key(worked[c][i]) = Key(worked[c][j])

(* A CPU that goes in and out of loops, several levels deep, gets exactly  *)
(* the periods in which it worked on each chunk, although events only tell *)
(* that a chunk starts or a loop ends.                                     *)
IterationsRight ==
  loopPhase = "done" =>
    \A c \in LoopCpu : NestedInFirst(c) => ToSet(iterationPeriods[c]) = Useful(c)

(* Also where a loop was entered from a later chunk, whose bounds are not  *)
(* kept: periods follow each other, none is attributed to another loop     *)
(* than the one the CPU was in, and the stack comes back to it.            *)
LoopsRight ==
  \A c \in LoopCpu :
    /\ OneAfterOther(iterationPeriods[c])
    /\ \A i \in DOMAIN iterationPeriods[c] :
         LET p == iterationPeriods[c][i]
         IN /\ \E j \in DOMAIN worked[c] :
                 worked[c][j].start = p.start /\ worked[c][j].end = p.end /\ worked[c][j].id = p.id
            /\ p.start < p.end /\ Key(p) \in iterationSets

(* Only a loop that had not ended when tracing did, which has no event of  *)
(* its own, makes a lookup fail.                                           *)
FailsForLoop ==
  loopPhase = "thrown" =>
    \E c \in LoopCpu : \E k \in DOMAIN chunkEvents[c] : chunkEvents[c][k].id \notin loopRecords

(* Time inside of loops goes to the chunk and to the loop a CPU was        *)
(* working on, and the conversion fails only for a loop whose event is     *)
(* missing.                                                                *)
LoopPeriodsFound == LoopTypeOK /\ IterationsRight /\ LoopsRight /\ FailsForLoop

(* What the trace has of the periods: since they are added to a copy of    *)
(* the collection, a trace whose memory has not moved has as many arrays   *)
(* as before, so that each array of periods that it got has cost it one    *)
(* that it had been loaded with; no array is out of order.                 *)
LoopArraysKept ==
  \A c \in LoopCpu :
    /\ ArraysInOrder(loopArrays[c]) /\ MovesOnGrowth(loopArrays[c])
    /\ loopPhase = "done" =>
         (iterationPeriods[c] # <<>> <=> "iteration_period" \in loopArrays[c].meant)

(* The periods are right where they are collected, and the trace, which    *)
(* gets them or not, keeps its arrays in order.                            *)
LoopPeriodsRight == LoopPeriodsFound /\ LoopArraysKept
=============================================================================
