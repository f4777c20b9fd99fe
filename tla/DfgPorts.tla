------------------------------ MODULE DfgPorts ------------------------------
(***************************************************************************)
(* Ports, port masks and node types of Aftermath's data-flow graph (DFG).  *)
(*                                                                         *)
(* A node type has a list of ports and a set of port dependencies.  From   *)
(* these the library derives, for every port, two masks: what the node     *)
(* pulls and pushes when the port sees new data (new_mask) and when it     *)
(* sees data regardless of its age (old_mask).  The C code stores a mask   *)
(* as four 64-bit words; here each word is the set of the indexes of its   *)
(* bits.                                                                   *)
(***************************************************************************)
EXTENDS Naturals, Sequences, Subsequences

CONSTANTS
  Node,       \* nodes of the graph
  NodeType,   \* node types
  TypeOf,     \* the type of each node
  PortDir,    \* per type, the sequence of its ports' directions
  Pure,       \* the types with AM_DFG_DEFAULT_PORT_DEPS_PURE_FUNCTIONAL
  PortDeps    \* per type, the set of its explicit port dependency words

Dir      == {"in", "out"}
Trigger  == {"new", "old"}
Reaction == {"pull_new", "pull_old", "push_new", "push_old"}

PortIdx(t) == DOMAIN PortDir[t]

(* AM_DFG_PORT_DEP(trigger, port, reaction, ports)                         *)
DepWord(t) == [trigger : Trigger, port : PortIdx(t),
               reaction : Reaction, ports : SUBSET PortIdx(t)]

ASSUME TypesAssumption ==
  /\ TypeOf \in [Node -> NodeType]
  /\ DOMAIN PortDir = NodeType
  /\ \A t \in NodeType : PortDir[t] \in Seq(Dir)
  /\ Pure \subseteq NodeType
  /\ DOMAIN PortDeps = NodeType
  /\ \A t \in NodeType : PortDeps[t] \subseteq DepWord(t)

InPorts(t)  == {i \in PortIdx(t) : PortDir[t][i] = "in"}
OutPorts(t) == {i \in PortIdx(t) : PortDir[t][i] = "out"}

(* A port is a node and the index of the port within the node.             *)
Port    == UNION {{<<n, i>> : i \in PortIdx(TypeOf[n])} : n \in Node}
InPort  == UNION {{<<n, i>> : i \in InPorts(TypeOf[n])} : n \in Node}
OutPort == UNION {{<<n, i>> : i \in OutPorts(TypeOf[n])} : n \in Node}

-----------------------------------------------------------------------------
(* struct am_dfg_port_mask                                                 *)

Mask(n) == [Reaction -> SUBSET PortIdx(TypeOf[n])]

NoMask == [r \in Reaction |-> {}]

Apply(dst, src) == [r \in Reaction |-> dst[r] \cup src[r]]

Diff(a, b) == [r \in Reaction |-> (a[r] \ b[r]) \cup (b[r] \ a[r])]

(* Mutant: only what is pulled is compared.                                *)
IsSubsetPull(set, subset) ==
  \A r \in {"pull_new", "pull_old"} : subset[r] \subseteq set[r]

IsSubset(set, subset) == \A r \in Reaction : subset[r] \subseteq set[r]

InMask(m)  == m["pull_new"] \cup m["pull_old"]
OutMask(m) == m["push_new"] \cup m["push_old"]
UsedMask(m) == InMask(m) \cup OutMask(m)

-----------------------------------------------------------------------------
(* The masks of the ports of a node type                                   *)

(* An output port of which new data is requested announces old data.       *)
SelfReference(t, i, trigger, r) ==
  IF i \in OutPorts(t) /\ trigger = "new" /\ r = "push_old" THEN {i} ELSE {}

ExplicitDeps(t, i, trigger, r) ==
  UNION {w.ports : w \in {v \in PortDeps[t] : /\ v.trigger = trigger
                                             /\ v.port = i
                                             /\ v.reaction = r}}

PureFunctionalDeps(t, i, trigger, r) ==
  IF t \notin Pure THEN {}
  ELSE CASE r = "push_new" ->
              IF i \in InPorts(t) /\ trigger = "new" THEN OutPorts(t) ELSE {}
         [] r = "push_old" ->
              IF i \in InPorts(t) /\ trigger = "new" THEN {} ELSE OutPorts(t)
         [] r = "pull_old" ->
              IF (i \in InPorts(t)) = (trigger = "new") THEN InPorts(t) ELSE {}
         [] r = "pull_new" ->
              IF (i \in InPorts(t)) = (trigger = "new") THEN {} ELSE InPorts(t)

(* new_mask and old_mask of all ports, set up with the node type           *)
PortMasks ==
  [t \in NodeType |-> [i \in PortIdx(t) |-> [trigger \in Trigger |->
     [r \in Reaction |-> SelfReference(t, i, trigger, r)
                           \cup ExplicitDeps(t, i, trigger, r)
                           \cup PureFunctionalDeps(t, i, trigger, r)]]]]

-----------------------------------------------------------------------------
(* The nodes reached from node n along the connections of a topology,      *)
(* which maps a port to the sequence of the ports it is connected to       *)
Downstream(links, n) ==
  {m \in Node : \A S \in SUBSET Node :
     n \in S /\ (\A p \in OutPort : p[1] \in S =>
                   {links[p][k][1] : k \in DOMAIN links[p]} \subseteq S) => m \in S}

=============================================================================
