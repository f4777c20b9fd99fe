------------------------------ MODULE MCDfgData ------------------------------
(***************************************************************************)
(* Instances of DfgGraph, DfgBuffer, ObjectNotation, Calculations and       *)
(* EventQueries.  DfgGraph knows which ports share a buffer, DfgBuffer what *)
(* is in one, ObjectNotation what a file looks like, the others which       *)
(* events a node finds and how its numbers are calculated; they share no    *)
(* state, so one of them runs and the others stay as they are initially.    *)
(***************************************************************************)
EXTENDS DfgGraph, DfgBuffer, ObjectNotation, Calculations, EventQueries, TLC

CONSTANTS const, dur, label, const2, dur2, string, int

VARIABLE part  \* the one that runs

-----------------------------------------------------------------------------
(* Files with up to three nodes and three connections, faulty ones too,    *)
(* and up to four changes by the user, who may also create two further     *)
(* nodes                                                                   *)
MCNode == {const, dur, label, const2, dur2}
MCNodeType == {"constant", "duration", "label"}
MCTypeOf == const :> "constant" @@ const2 :> "constant" @@
            dur :> "duration" @@ dur2 :> "duration" @@ label :> "label"
MCPortDir == [constant |-> <<"out">>, duration |-> <<"in", "out">>,
              label |-> <<"in">>]
MCPortDeps == [t \in MCNodeType |-> {}]
MCCompatible == (OutPort \X InPort) \ {<<<<const2, 1>>, <<label, 1>>>>}

(* The nodes of the file with ids in order, in another order with the      *)
(* highest id, and with an id that is used twice                           *)
FileNodes(a, b, c) ==
  <<[node |-> const, id |-> a], [node |-> dur, id |-> b],
    [node |-> label, id |-> c]>>

FileLinks == {<<<<1, 1>>, <<2, 1>>>>, <<<<1, 1>>, <<3, 1>>>>,
              <<<<2, 2>>, <<3, 1>>>>, <<<<3, 1>>, <<1, 1>>>>}

MCFiles ==
  {[nodes |-> nodes, connections |-> links] :
     nodes \in {FileNodes(1, 2, 3), FileNodes(2, 1, 4), FileNodes(1, 2, 1)},
     links \in UNION {[1 .. k -> FileLinks] : k \in 0 .. 3}}

-----------------------------------------------------------------------------
(* Inputs of up to two samples, up to three for the control input          *)

Samples(s) == {SubSeq(s, 1, k) : k \in 0 .. 2}

Job(kind, as, bs, ctrls) ==
  [kind : {kind}, a : as, b : bs, ctrl : ctrls, n : {0}, strict : {TRUE}]

Selections ==
  [kind : {"select_nth"}, a : Samples(<<1, 2>>), b : {<<>>}, ctrl : {<<>>},
   n : -3 .. 2, strict : BOOLEAN]

Controls(max) == UNION {[1 .. k -> BOOLEAN] : k \in 0 .. max}

MCJobs ==
  Job("merge", Samples(<<1, 2>>), Samples(<<3, 4>>), {<<>>})
    \cup Job("all", Samples(<<1, 2>>), Samples(<<3, 4>>), Controls(2))
    \cup Job("elementwise", Samples(<<1, 2>>), {<<>>}, Controls(3))
    \cup Job("pairwise", Samples(<<1, 2>>), Samples(<<3, 4>>), Controls(3))
    \cup Selections
    \cup Job("write", Samples(<<1, 2>>), {<<>>}, {<<>>})
    \cup Job("interval_duration", Samples(<<1, 2>>), {<<>>}, {<<>>})
    \cup Job("duration_to_uint64", Samples(<<1, 2>>) \cup Samples(<<1, -2>>), {<<>>}, {<<>>})

-----------------------------------------------------------------------------
(* Trees: a label with every text of up to two characters, one of which    *)
(* may have to be escaped; groups in groups and in lists, lists in lists,  *)
(* empty ones, numbers of each kind and a number that is none              *)
Texts ==
  UNION {[1 .. k -> {"n", Newline, Backslash, Quote, Control, Wide}] : k \in 0 .. 2}

One == Member("one", Scalar("uint64", 1))
Pos == Group("pos", <<Member("x", Scalar("double", 13)), Member("y", Scalar("int64", -1))>>)
Counts == List(<<Scalar("uint64", 1), Scalar("uint64", 2)>>)

MCTrees ==
  {Group("label", <<Member("text", Scalar("string", s)), One>>) : s \in Texts}
    \cup {Group("graph", <<>>),
          Group("graph", <<Member("nodes", List(<<Pos, Group("empty", <<>>)>>)), One>>),
          Group("graph", <<Member("empty", List(<<>>)),
                           Member("lists", List(<<Counts, Scalar("string", <<"n">>)>>))>>),
          Group("graph", <<Member("x", Scalar("double", Infinite))>>),
          Group("graph", <<Member("in", Pos), Member("out", Group("pos", <<One>>))>>)}

(* Members that a tree may have already, alone or behind a new one         *)
MCNewMembers ==
  {<<One>>, <<Member("two", Scalar("int64", 2)), One>>, <<Member("text", List(<<>>))>>}

-----------------------------------------------------------------------------
(* Up to three intervals over four of the timestamps, which are the first  *)
(* and the last that there are and two in between                          *)
Timestamps == {0, 1, 2, 7}
Intervals == {x \in [start : Timestamps, end : Timestamps] : x.start <= x.end}
Between(p) == [start |-> p[1], end |-> p[2]]

MCFilters ==
  (UNION {[1 .. k -> Intervals] : k \in 0 .. 2})
    \cup [1 .. 3 -> {Between(p) : p \in {<<0, 0>>, <<0, 2>>, <<1, 1>>, <<1, 2>>, <<2, 7>>,
                                           <<7, 7>>}}]
MCQueries == Intervals

(* Events apart from each other, touching and overlapping, one for each    *)
(* timestamp, and events within an event, whose ends are not in order      *)
Event(a, b, i) == [start |-> a, end |-> b, index |-> i]
Points == <<Event(0, 0, 0), Event(1, 1, 1), Event(2, 2, 0), Event(7, 7, 0)>>
EventArrays ==
  {NoArray, <<Event(1, 1, 0)>>, <<Event(0, 7, 1)>>, <<Event(0, 1, 0), Event(2, 6, 1)>>, Points,
   <<Event(0, 1, 1), Event(1, 2, 0), Event(2, 2, 1), Event(2, 7, 1), Event(7, 7, 0)>>,
   <<Event(1, 5, 0), Event(2, 3, 1), Event(4, 4, 1)>>}

Mapped(a, b, events) == [span |-> [start |-> a, end |-> b], events |-> events]
MCMappings ==
  {<<>>} \cup {<<Mapped(0, 7, a)>> : a \in EventArrays}
    \cup {<<Mapped(0, 1, a), Mapped(2, 7, b)>> : a, b \in {NoArray, <<Event(1, 1, 0)>>, Points}}

-----------------------------------------------------------------------------
otherVars == <<sum, queryVars>>
dataVars == <<part, graphVars, bufferVars, notationVars, otherVars>>

(* A part that does not run has one initial state.                         *)
DataInit ==
  /\ part \in {"graph", "buffer", "notation", "arithmetic", "queries"}
  /\ GraphInit /\ (part # "graph" => file = CHOOSE f \in MCFiles : TRUE)
  /\ BufferInit /\ (part # "buffer" => node = "merge" /\ type = string)
  /\ NotationInit /\ (part # "notation" => tree = CHOOSE t \in MCTrees : t.members = <<>>)
  /\ ArithmeticInit
  /\ QueryInit /\ (part # "queries" => at = "done" /\ filtered)

DataNext ==
  \/ part = "graph" /\ GraphNext
       /\ UNCHANGED <<part, bufferVars, notationVars, otherVars>>
  \/ part = "buffer" /\ BufferNext
       /\ UNCHANGED <<part, graphVars, notationVars, otherVars>>
  \/ part = "notation" /\ NotationNext
       /\ UNCHANGED <<part, graphVars, bufferVars, otherVars>>
  \/ part = "arithmetic" /\ ArithmeticNext
       /\ UNCHANGED <<part, graphVars, bufferVars, notationVars, queryVars>>
  \/ part = "queries" /\ QueryNext
       /\ UNCHANGED <<part, graphVars, bufferVars, notationVars, sum>>

DataSpec == DataInit /\ [][DataNext]_dataVars

=============================================================================
