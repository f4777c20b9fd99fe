----------------------------- MODULE DfgBuffer -----------------------------
(***************************************************************************)
(* The buffer of an output port (dfg_buffer) and the process functions     *)
(* that fill it from their input: merge, the conditional forwards and      *)
(* select_nth, which copy samples, those that write duplicated strings,    *)
(* and those that calculate one value per sample.                          *)
(*                                                                         *)
(* A buffer has a capacity, of which the first num samples are valid.  The *)
(* samples of an owning type (strings, histograms) are pointers to memory  *)
(* that belongs to the buffer; those of the other types are plain values.  *)
(* A call of the scheduler resets the buffer, then runs the process        *)
(* function of its node, which appends chunk by chunk, or sets the size of *)
(* the buffer and fills it.  Any allocation may fail; most functions then  *)
(* shrink the buffer to its old size, which is 0 after the reset.  Bound:  *)
(* the ports of the node are connected and activated, and those that copy  *)
(* have inputs and output of the same type.                                *)
(***************************************************************************)
EXTENDS Integers, FiniteSets, SequencesExt, Subsequences

CONSTANTS
  Owning,   \* data types with a destructor
  Plain,    \* data types without
  Jobs,     \* what a node may be asked to do; see BufferAssumption
  MaxRuns   \* bound on the number of calls of the process function

VARIABLES
  node,     \* kind of the node to which the buffer belongs
  type,     \* sample_type
  cells,    \* data; its length is max_samples, it is empty if data is NULL
  num,      \* num_samples
  live,     \* samples of an owning type that are allocated
  stage,    \* "idle", "reset", "running", "filling", "rollback",
            \* "destroyed", or "undefined" after memory was freed that must
            \* not be
  job,      \* what the process function was called with
  todo,     \* chunks left to append
  starved,  \* an allocation of this call has failed
  result,   \* of the last call: "none", "ok" or "failed"
  runs      \* number of calls so far

arrayVars == <<cells, num, live>>
bufferVars == <<node, type, arrayVars, stage, job, todo, starved, result, runs>>

Copying == {"merge", "all", "elementwise", "pairwise", "select_nth"}
Filling == {"interval_duration", "duration_to_uint64"}
Kinds == Copying \cup Filling \cup {"write"}

(* The samples of the inputs a and b, those of the control input, and the  *)
(* properties N and fail_if_no_input of select_nth                         *)
ASSUME BufferAssumption ==
  /\ Owning \cap Plain = {} /\ Owning # {} /\ MaxRuns \in Nat
  /\ \A j \in Jobs : /\ j.kind \in Kinds /\ j.n \in Int
                     /\ j.a \in Seq(Int \ {0}) /\ j.b \in Seq(Int \ {0})
                     /\ j.ctrl \in Seq(BOOLEAN) /\ j.strict \in BOOLEAN

(* A cell holds a value or, for an owning type, the k-th copy of a value.  *)
Null == <<0, 0>>
Raw == <<0, 1>>

Owns == type \in Owning

-----------------------------------------------------------------------------
(* The buffer                                                              *)

(* The destructor for the samples in the cells D is defined.               *)
Destructible(D) ==
  /\ D \subseteq DOMAIN cells
  /\ \A k \in D : cells[k] \in live \cup {Null}
  /\ \A j, k \in D : cells[j] = cells[k] => j = k \/ cells[k] = Null

(* destroy_samples for D, which the types without a destructor omit        *)
Destroy(D, next) ==
  IF ~Owns THEN stage' = next /\ UNCHANGED live
  ELSE IF Destructible(D) THEN stage' = next /\ live' = live \ {cells[k] : k \in D}
  ELSE stage' = "undefined" /\ UNCHANGED live

(* The array after realloc for n samples, at least as many as before       *)
Realloc(n) == [k \in 1 .. n |-> IF k \in DOMAIN cells THEN cells[k] ELSE Raw]

(* Mutant: the samples are counted even if they were destroyed.            *)
StillCounted == num

(* num_samples after am_dfg_buffer_resize to 0: without a destructor to    *)
(* call it is not set.                                                     *)
CountOfEmptied == IF Owns THEN 0 ELSE num

(* am_dfg_buffer_resize to 0, the size after the reset: as many samples as *)
(* are lost are destroyed, but those that follow the last one.             *)
Empty(next) ==
  /\ Destroy(num + 1 .. 2 * num, next)
  /\ num' = CountOfEmptied
  /\ cells' = <<>>

(* am_dfg_buffer_reserve needs no more memory for n further samples.       *)
Fits(n) == num + n <= Len(cells)

(* The data after am_dfg_buffer_reserve: the capacity is enlarged to what  *)
(* is needed.  For no samples in a buffer without data, NULL is returned.  *)
Grown(n) == IF Fits(n) THEN cells ELSE Realloc(num + n)

(* Mutant: all of the capacity is destroyed.                               *)
ClearCapacity(next) == Destroy(DOMAIN cells, next) /\ num' = 0

(* am_dfg_buffer_reset                                                     *)
Clear(next) == Destroy(1 .. num, next) /\ num' = 0

-----------------------------------------------------------------------------
(* The process functions                                                   *)

(* count samples of an input from the position at, as am_dfg_buffer_ptr    *)
(* returns them; there may be less.                                        *)
Chunk(from, at, count) == [from |-> from, at |-> at, count |-> count]
Whole(from) == Chunk(from, 1, Len(from))
Present(c) == c.at \in 1 .. Len(c.from) + 1 /\ c.at + c.count - 1 <= Len(c.from)
Content(c) == SubSeq(c.from, c.at, c.at + c.count - 1)

(* How many of the first i control samples are like the i-th               *)
Rank(ctrl, i) == Cardinality({j \in 1 .. i : ctrl[j] = ctrl[i]})

(* Mutant: the empty input is not skipped.                                 *)
MergeAll(j) == <<Whole(j.a), Whole(j.b)>>
MergeChunks(j) == Remaining(<<Whole(j.a), Whole(j.b)>>, {Whole(<<>>)})

AllChunks(j) == <<Whole(IF j.ctrl[1] THEN j.a ELSE j.b)>>

(* Mutant: the position in the input is that in the output.                *)
ElementwiseDense(j) ==
  [k \in 1 .. Cardinality({i \in DOMAIN j.ctrl : j.ctrl[i]}) |-> Chunk(j.a, k, 1)]
ElementwiseChunks(j) ==
  LET at == Remaining([i \in DOMAIN j.ctrl |-> i], {i \in DOMAIN j.ctrl : ~j.ctrl[i]})
  IN [k \in DOMAIN at |-> Chunk(j.a, at[k], 1)]

PairwiseChunks(j) ==
  [i \in DOMAIN j.ctrl |->
     Chunk(IF j.ctrl[i] THEN j.a ELSE j.b, Rank(j.ctrl, i), 1)]

(* Positions count from 0 in the code; for N >= 0 it takes the number of   *)
(* samples instead of N.                                                   *)
NthChunks(j) ==
  LET copyidx == IF j.n >= 0 THEN Len(j.a) ELSE Len(j.a) + j.n
  IN <<Chunk(j.a, copyidx + 1, 1)>>

WriteChunks(j) == [i \in DOMAIN j.a |-> Chunk(j.a, i, 1)]

(* Those that fill the buffer do it in one piece.                          *)
FillChunks(j) == <<Whole(j.a)>>

Chunks(j) ==
  CASE j.kind = "merge" -> MergeChunks(j)
    [] j.kind = "all" -> AllChunks(j)
    [] j.kind = "elementwise" -> ElementwiseChunks(j)
    [] j.kind = "pairwise" -> PairwiseChunks(j)
    [] j.kind = "select_nth" -> NthChunks(j)
    [] j.kind = "write" -> WriteChunks(j)
    [] j.kind \in Filling -> FillChunks(j)

(* The process function returns 1 before it has touched the buffer.        *)
Rejected(j) ==
  \/ j.kind = "all" /\ Len(j.ctrl) > 1
  \/ /\ j.kind = "select_nth"
     /\ IF j.a = <<>> THEN j.strict ELSE j.n >= Len(j.a) \/ -Len(j.a) > j.n

(* It returns 0 without output.                                            *)
Skipped(j) ==
  \/ j.kind = "all" /\ j.ctrl = <<>>
  \/ j.kind = "select_nth" /\ j.a = <<>>

-----------------------------------------------------------------------------
(* Actions                                                                 *)

BufferInit ==
  /\ node \in {j.kind : j \in Jobs} /\ type \in Owning \cup Plain
  /\ (node = "write" => Owns) /\ (node \in Filling => ~Owns)
  /\ cells = <<>> /\ num = 0 /\ live = {}
  /\ stage = "idle" /\ result = "none" /\ starved = FALSE /\ runs = 0
  /\ todo = <<>> /\ job = CHOOSE j \in Jobs : j.kind = node

(* am_dfg_schedule_reset_node for an output port                           *)
Reset ==
  /\ stage = "idle" /\ runs < MaxRuns
  /\ Clear("reset")
  /\ result' = "none" /\ starved' = FALSE
  /\ UNCHANGED <<node, type, cells, job, todo, runs>>

Start ==
  /\ stage = "reset"
  /\ runs' = runs + 1
  /\ \E j \in Jobs :
       /\ j.kind = node
       /\ job' = j
       /\ \/ /\ Rejected(j)
             /\ stage' = "idle" /\ result' = "failed" /\ todo' = <<>>
          \/ /\ ~Rejected(j)
             /\ stage' = "running" /\ result' = "none"
             /\ todo' = IF Skipped(j) THEN <<>> ELSE Chunks(j)
  /\ UNCHANGED <<node, type, arrayVars, starved>>

Appending == stage = "running" /\ todo # <<>> /\ node \notin Filling

(* Copies of values: for each of them the allocator returns memory of its  *)
(* own, to which no cell refers.                                           *)
Newest == Max({0} \cup {c[2] : c \in live \cup Range(cells)})

Copies(values) ==
  [i \in DOMAIN values |-> <<values[i], IF Owns THEN Newest + i ELSE 1>>]

Put(samples, n) ==
  [k \in DOMAIN Grown(n) |->
     IF k - num \in DOMAIN samples THEN samples[k - num] ELSE Grown(n)[k]]

(* A chunk is reserved and its samples are copied, or am_dfg_buffer_write. *)
AppendChunk ==
  /\ Appending /\ Present(Head(todo))
  /\ LET c == Head(todo)
         copies == Copies(Content(c))
     IN /\ Grown(c.count) # <<>>
        /\ cells' = Put(copies, c.count)
        /\ num' = num + c.count
        /\ live' = IF Owns THEN live \cup Range(copies) ELSE live
  /\ todo' = Tail(todo)
  /\ UNCHANGED <<node, type, stage, job, starved, result, runs>>

Fail(rollback) ==
  /\ stage' = IF rollback THEN "rollback" ELSE "idle"
  /\ result' = IF rollback THEN "none" ELSE "failed"
  /\ todo' = <<>>
  /\ UNCHANGED <<node, type, job, runs>>

(* am_dfg_buffer_ptr finds less samples than asked for; select_nth returns *)
(* at once then.                                                           *)
NotPresent ==
  /\ Appending /\ ~Present(Head(todo))
  /\ Fail(node # "select_nth")
  /\ UNCHANGED <<arrayVars, starved>>

(* am_dfg_buffer_reserve returns NULL; or, for duplicated strings, there   *)
(* is no memory for the string itself.  conditional_forward_all returns at *)
(* once.                                                                   *)
NotReserved ==
  /\ Appending /\ Present(Head(todo))
  /\ \/ /\ ~Fits(Head(todo).count) \/ node = "write"
        /\ starved' = TRUE
     \/ Grown(Head(todo).count) = <<>> /\ UNCHANGED starved
  /\ Fail(node # "all")
  /\ UNCHANGED arrayVars

(* Mutant: the failed copy stays counted.                                  *)
CountedAnyway(n) == num + n
Uncounted(n) == num

(* copy_samples fails at the i-th sample: the copies made so far are freed *)
(* and the samples that were reserved are not counted any more.            *)
NotCopied ==
  /\ Appending /\ Present(Head(todo)) /\ Owns /\ node # "write"
  /\ LET c == Head(todo) IN
       \E i \in 1 .. c.count :
         LET copies == Copies(SubSeq(Content(c), 1, i - 1))
         IN /\ cells' = Put(Append(copies, Null), c.count)
            /\ num' = Uncounted(c.count)
  /\ starved' = TRUE
  /\ Fail(TRUE)
  /\ UNCHANGED live

(* out_err: the buffer is resized to nold_out.                             *)
Rollback ==
  /\ stage = "rollback"
  /\ Empty("idle")
  /\ result' = "failed"
  /\ UNCHANGED <<node, type, job, todo, starved, runs>>

Sizing == stage = "running" /\ todo # <<>> /\ node \in Filling

(* am_dfg_buffer_resize to the size of the input, the new capacity         *)
Resized ==
  /\ Sizing
  /\ cells' = Realloc(Head(todo).count)
  /\ stage' = "filling"
  /\ UNCHANGED <<node, type, num, live, job, todo, starved, result, runs>>

NotResized ==
  /\ Sizing
  /\ Head(todo).count \notin {0, Len(cells)}
  /\ starved' = TRUE
  /\ Fail(FALSE)
  /\ UNCHANGED arrayVars

(* One value is stored per sample of the input; only then they count.      *)
Filled ==
  /\ stage = "filling"
  /\ LET from == Head(todo).from IN
       \/ /\ node = "duration_to_uint64" => \A i \in DOMAIN from : from[i] > 0
          /\ cells' = [i \in DOMAIN cells |-> <<from[i], 1>>]
          /\ num' = Len(from)
          /\ stage' = "running" /\ todo' = Tail(todo)
          /\ UNCHANGED <<node, type, live, job, starved, result, runs>>
       \/ \E i \in DOMAIN from :
            /\ node = "duration_to_uint64"
            /\ from[i] < 0 /\ \A k \in 1 .. i - 1 : from[k] > 0
            /\ cells' = [k \in DOMAIN cells |-> IF k < i THEN <<from[k], 1>> ELSE cells[k]]
            /\ Fail(FALSE)
            /\ UNCHANGED <<num, live, starved>>

Finish ==
  /\ stage = "running" /\ todo = <<>>
  /\ stage' = "idle" /\ result' = "ok"
  /\ UNCHANGED <<node, type, arrayVars, job, todo, starved, runs>>

(* am_dfg_buffer_change_type when the port is connected for the first time *)
(* again, in a graph that may have been scheduled before                   *)
ChangeType ==
  /\ stage = "idle" /\ node \in Copying /\ runs < MaxRuns
  /\ \E t \in Owning \cup Plain : t # type /\ type' = t
  /\ Clear("idle")
  /\ cells' = <<>>
  /\ result' = "none"
  /\ UNCHANGED <<node, job, todo, starved, runs>>

(* am_dfg_buffer_destroy                                                   *)
DestroyBuffer ==
  /\ stage = "idle"
  /\ Clear("destroyed")
  /\ cells' = <<>> /\ result' = "none"
  /\ UNCHANGED <<node, type, job, todo, starved, runs>>

BufferNext ==
  \/ Reset \/ Start \/ AppendChunk \/ NotPresent \/ NotReserved \/ NotCopied
  \/ Resized \/ NotResized \/ Filled \/ Rollback \/ Finish \/ ChangeType \/ DestroyBuffer

BufferSpec == BufferInit /\ [][BufferNext]_bufferVars

-----------------------------------------------------------------------------
(* Properties                                                              *)

(* The values that the node promises, by position, when it returns 0       *)
Expected(j) ==
  IF Skipped(j) THEN <<>> ELSE
  CASE j.kind = "merge" -> j.a \o j.b
    [] j.kind = "all" -> IF j.ctrl[1] THEN j.a ELSE j.b
    [] j.kind = "elementwise" ->
         [k \in 1 .. Cardinality({i \in DOMAIN j.ctrl : j.ctrl[i]}) |->
            j.a[CHOOSE i \in DOMAIN j.ctrl : j.ctrl[i] /\ Rank(j.ctrl, i) = k]]
    [] j.kind = "pairwise" ->
         [i \in DOMAIN j.ctrl |->
            (IF j.ctrl[i] THEN j.a ELSE j.b)[Rank(j.ctrl, i)]]
    [] j.kind = "select_nth" -> <<j.a[IF j.n >= 0 THEN j.n + 1 ELSE Len(j.a) + j.n + 1]>>
    [] j.kind \in Filling \cup {"write"} -> j.a

(* The inputs are what the node needs.                                     *)
Sufficient(j) ==
  CASE j.kind = "all" -> Len(j.ctrl) <= 1
    [] j.kind = "elementwise" -> \A i \in DOMAIN j.ctrl : j.ctrl[i] => i <= Len(j.a)
    [] j.kind = "pairwise" ->
         \A i \in DOMAIN j.ctrl :
           Rank(j.ctrl, i) <= Len(IF j.ctrl[i] THEN j.a ELSE j.b)
    [] j.kind = "select_nth" -> IF j.a = <<>> THEN ~j.strict
                                ELSE j.n < Len(j.a) /\ -Len(j.a) <= j.n
    [] j.kind = "duration_to_uint64" -> \A i \in DOMAIN j.a : j.a[i] > 0
    [] OTHER -> TRUE

(* When the process function returns 0, its inputs sufficed and consumers  *)
(* find exactly the samples it promises, all within the buffer, whatever   *)
(* earlier calls wrote to the buffer, failed at or left of it              *)
(* (am_dfg_buffer_reserve).                                                *)
Delivered ==
  result = "ok" =>
    /\ Sufficient(job)
    /\ num = Len(Expected(job)) /\ num <= Len(cells)
    /\ \A k \in 1 .. num : cells[k][1] = Expected(job)[k]

(* The samples of a buffer of an owning type are allocated, each once,     *)
(* also after failures, while a function runs and when one has given up    *)
(* without shrinking the buffer: who frees them may rely on it.            *)
Owned == stage # "undefined" /\ Owns => 1 .. num \subseteq DOMAIN cells
                                        /\ Destructible(1 .. num)
                                        /\ \A k \in 1 .. num : cells[k] # Null

(* A reset, a change of the type and the destruction of the buffer free    *)
(* what is allocated and nothing else; only the shrinking on an error path *)
(* does (am_dfg_buffer_resize).                                            *)
OnlyRollbackUndefined == [][stage' = "undefined" => stage = "rollback"]_bufferVars

(* A process function that failed leaves no samples of an owning type in   *)
(* the buffer, wherever it failed (out_err of the process functions).      *)
RolledBack == result = "failed" /\ Owns => num = 0

(* Unless memory is short, a node fails only if its inputs do not suffice, *)
(* with two exceptions: select_nth fails for every N that is not negative, *)
(* and conditional_forward_all for an empty input while the buffer has no  *)
(* data yet, but not with the capacity that an earlier call left.          *)
FailsForCause ==
  result = "failed" /\ ~starved /\ Sufficient(job) =>
    \/ job.kind = "select_nth" /\ job.n >= 0
    \/ job.kind = "all" /\ AllChunks(job)[1].count = 0 /\ cells = <<>>

(* Samples that own memory are allocated and owned by one cell, none is    *)
(* left by a process function that fails, and nothing but its error path   *)
(* frees what it must not.                                                 *)
MemoryRight == [](Owned /\ RolledBack) /\ OnlyRollbackUndefined

(* What a process function reports and what it leaves in the buffer are    *)
(* what its inputs ask for (process functions of core/dfg/nodes).          *)
ResultsRight == Delivered /\ FailsForCause
=============================================================================
