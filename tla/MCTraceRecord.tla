--------------------------- MODULE MCTraceRecord ---------------------------
(***************************************************************************)
(* Instances of TraceRecord: the program, the sizes of the buffers and how *)
(* often threads and dumps may act.                                        *)
(***************************************************************************)
EXTENDS TraceRecord

CONSTANTS run, wait

New == [op |-> "new"]
Add(id) == [op |-> "add", id |-> id]
Types(names) ==
  [op |-> "write", frames |-> [i \in DOMAIN names |-> TypeId(names[i], DefaultId(names[i]))]]
Tree == [op |-> "write", frames |-> <<Hierarchy(1), Node(1, 1, 0)>>]
Map == [op |-> "map"]
Sizes(main, one, two) == [b \in 0 .. 2 |-> CASE b = 0 -> main [] b = 1 -> one [] b = 2 -> two]

\* A thread that nests states; two threads that meet repeated dumps; a
\* buffer that may be too small for the main program.
MCScenarios ==
  {[script |-> <<Types(<<"collection", "event">>), New>>, sizes |-> Sizes(8, 6, 3),
    calls |-> <<5, 0>>, dumps |-> 1]}
  \cup
  {[script |-> <<Types(<<"collection", "event">>), Add(1), New>>, sizes |-> Sizes(10, 4, 3),
    calls |-> <<1, 2>>, dumps |-> 2]}
  \cup
  {[script |-> <<Types(<<"collection", "hierarchy", "node", "mapping">>), New, Tree, New, Map>>,
    sizes |-> Sizes(n, 4, 4), calls |-> <<0, 0>>, dumps |-> 2] : n \in {3, 15, 22}}

StateSymmetry == Permutations(States)
=============================================================================
