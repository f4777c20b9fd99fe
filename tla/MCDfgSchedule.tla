--------------------------- MODULE MCDfgSchedule ---------------------------
(***************************************************************************)
(* Instances of DfgSchedule: five nodes with the port dependencies of real *)
(* node types, all acyclic wirings of them, and the requests the program   *)
(* makes of a node.  A second call is made in a few wirings that are rich  *)
(* in sharing.                                                             *)
(***************************************************************************)
EXTENDS DfgSchedule

CONSTANTS button, const, fwd, dur, label

MCNode == {button, const, fwd, dur, label}
MCNodeType == {"togglebutton", "constant", "forward", "duration", "label"}
MCTypeOf == button :> "togglebutton" @@ const :> "constant" @@
            fwd :> "forward" @@ dur :> "duration" @@ label :> "label"
MCNodeId == button :> 1 @@ const :> 2 @@ fwd :> 3 @@ dur :> 4 @@ label :> 5

(* toolbar_togglebutton.h, string_constant.h, conditional_forward.h,       *)
(* duration_to_string.h and label.h                                        *)
MCPortDir == [togglebutton |-> <<"out">>, constant |-> <<"out">>,
              forward |-> <<"in", "in", "out">>, duration |-> <<"in", "out">>,
              label |-> <<"in">>]
MCPure == {"togglebutton", "forward", "duration"}
MCPortDeps ==
  [t \in MCNodeType |->
     IF t = "label" THEN {[trigger |-> "new", port |-> 1,
                           reaction |-> "pull_new", ports |-> {1}]}
     ELSE {}]

-----------------------------------------------------------------------------
(* Topologies: a wiring maps an input port to its producer.                *)

In1 == <<fwd, 1>>
In2 == <<fwd, 2>>
InD == <<dur, 1>>
InL == <<label, 1>>
Inputs == <<In1, In2, InD, InL>>

Source == {<<button, 1>>, <<const, 1>>}

Wired(wiring) ==
  [p \in Port |->
     IF p \in InPort THEN IF wiring[p] = <<>> THEN <<>> ELSE <<wiring[p]>>
     ELSE SelectSeq(Inputs, LAMBDA q : wiring[q] = p)]

AllGraphs ==
  {Wired(w) : w \in {v \in [InPort -> OutPort \cup {<<>>}] :
     /\ v[In1] \in Source \cup {<<>>}
     /\ v[In2] \in Source \cup {<<>>}
     /\ v[InD] \in Source \cup {<<>>, <<fwd, 3>>}}}

Wiring(a, b, c, d) == Wired(In1 :> a @@ In2 :> b @@ InD :> c @@ InL :> d)

(* A chain, a source shared by all and a consumer shared by two paths.     *)
FewGraphs ==
  {Wiring(<<button, 1>>, <<const, 1>>, <<fwd, 3>>, <<dur, 2>>),
   Wiring(<<button, 1>>, <<>>, <<button, 1>>, <<button, 1>>),
   Wiring(<<button, 1>>, <<button, 1>>, <<fwd, 3>>, <<fwd, 3>>)}

-----------------------------------------------------------------------------
(* Requests                                                                *)

PullPush(n, ins, outs) ==
  [node |-> n, mask |-> [pull_new |-> {}, pull_old |-> ins,
                         push_new |-> outs, push_old |-> {}]]

(* A double click on a node (DFGNodeDoubleClicked), a new connection to an *)
(* input (portsConnected) and a widget with new data for an output.        *)
MCRequests ==
  {PullPush(n, InPorts(TypeOf[n]), OutPorts(TypeOf[n])) : n \in Node}
    \cup {PullPush(p[1], {p[2]}, {}) : p \in InPort}
    \cup {PullPush(p[1], {}, {p[2]}) : p \in OutPort}

(* One call in every graph, two in the few.  The fairness is that of       *)
(* FairSpec, since only the start of a second call is left out.            *)
MCNext == Next /\ (calls' = 2 => conns \in FewGraphs)
MCSpec == Init /\ [][MCNext]_vars /\ WF_vars(Step)

(* The hypotheses of the theorems about the execution                      *)
ASSUME ContractsAssumption == Responsive /\ Directed
=============================================================================
