---------------------------- MODULE EventArrays ----------------------------
(***************************************************************************)
(* The arrays of an event collection (struct am_array_collection), sorted  *)
(* by their types: the number of them, how many more the memory has room   *)
(* for, and the memory.  processTrace() adds the periods it has found to a *)
(* copy of the struct, so that what the trace then has depends on what the *)
(* copy does to the memory that both refer to.                             *)
(***************************************************************************)
EXTENDS Integers, Sequences, FiniteSets, SequencesExt

CONSTANTS
  OtherArrays,   \* collection -> types of the other arrays that are loaded
  ArrayPrealloc  \* AM_DEFAULT_TYPED_ARRAY_PREALLOC

(* The types, in the order of strcmp()                                     *)
ArrayTypes == <<"stack_frame", "iteration_period", "loop", "loop_chunk",
                "task_create", "task_period", "task_schedule", "work">>
ArrayRank ==
  [type \in ToSet(ArrayTypes) |-> CHOOSE i \in DOMAIN ArrayTypes : ArrayTypes[i] = type]
PeriodTypes == {"task_period", "iteration_period"}

ASSUME ArraysAssumption ==
  /\ \A c \in DOMAIN OtherArrays : OtherArrays[c] \subseteq ToSet(ArrayTypes) \ PeriodTypes
  /\ ArrayPrealloc \in Nat \ {0}

(* Each addition asks for room for ArrayPrealloc elements and uses one.    *)
Grows(free) == free < ArrayPrealloc
AfterAdding(free) == (IF Grows(free) THEN free + ArrayPrealloc ELSE free) - 1

FreeAfter[k \in Nat] == IF k = 0 THEN 0 ELSE AfterAdding(FreeAfter[k - 1])

(* A collection once the trace has been loaded                             *)
LoadedArrays(types) ==
  [held |-> SelectSeq(ArrayTypes, LAMBDA t : t \in types),
   free |-> FreeAfter[Cardinality(types)],
   gone |-> FALSE,   \* the memory has been given back
   meant |-> types]  \* history: the arrays the copy has in the end

(* Mutant: the array is put behind the others                              *)
WithArrayLast(a, type) ==
  {[held |-> Append(a.held, type), free |-> AfterAdding(a.free), gone |-> g,
    meant |-> a.meant \cup {type}] : g \in {a.gone, a.gone \/ Grows(a.free)}}

(* am_array_collection_add: memory that grows may move, and the old one is *)
(* given back; the arrays behind the position of the type make room.       *)
WithArray(a, type) ==
  LET before == Cardinality({i \in DOMAIN a.held : ArrayRank[a.held[i]] <= ArrayRank[type]})
  IN {[held |-> InsertAt(a.held, before + 1, type), free |-> AfterAdding(a.free), gone |-> g,
       meant |-> a.meant \cup {type}] : g \in {a.gone, a.gone \/ Grows(a.free)}}

WithArrayIf(some, a, type) == IF some THEN WithArray(a, type) ELSE {a}

(* The end of a collection in processTrace(): what the trace has of it,    *)
(* whose struct keeps its number of arrays and its address of them, after  *)
(* the periods of tasks and iterations, if any, were added to the copy     *)
WithPeriods(a, tasks, iterations) ==
  {[a EXCEPT !.held = IF copy.gone THEN <<>> ELSE SubSeq(copy.held, 1, Len(@)),
             !.gone = copy.gone, !.meant = copy.meant] :
     copy \in UNION {WithArrayIf(iterations, b, "iteration_period") :
                       b \in WithArrayIf(tasks, a, "task_period")}}

-----------------------------------------------------------------------------
(* What a reader of the trace relies on in any case: as long as the memory *)
(* is there, the arrays are as many as were loaded, in order, and what is  *)
(* missing of those there should be is what comes last.                    *)
ArraysInOrder(a) ==
  a.gone \/ /\ Len(a.held) = Cardinality(a.meant \ PeriodTypes)
            /\ ToSet(a.held) \subseteq a.meant
            /\ \A i, j \in DOMAIN a.held : i < j => ArrayRank[a.held[i]] < ArrayRank[a.held[j]]
            /\ \A t \in a.meant \ ToSet(a.held) : \A i \in DOMAIN a.held :
                 ArrayRank[a.held[i]] < ArrayRank[t]

(* Memory moves for the first arrays, or where a multiple is full.         *)
MovesOnGrowth(a) ==
  a.gone => \E k \in 0 .. 1 : Grows(FreeAfter[Cardinality(a.meant \ PeriodTypes) + k])

(* The trace has the arrays that it should have.                           *)
AllArrays(a) == ~a.gone /\ ToSet(a.held) = a.meant
=============================================================================
