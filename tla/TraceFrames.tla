---------------------------- MODULE TraceFrames ----------------------------
(***************************************************************************)
(* The frames of a trace file (the on-disk types), as far as the library   *)
(* treats them differently.  Names are left out.                           *)
(***************************************************************************)
EXTENDS Integers, Sequences

(* The file header, which has no type ID                                   *)
Header == [type |-> "header"]

(* Associates the type of the given name with a number, its type ID in the *)
(* rest of the file; the association itself has the ID 0.                  *)
TypeId(name, num) == [type |-> "type_id", of |-> name, num |-> num]

Collection(id) == [type |-> "collection", id |-> id]
Hierarchy(id) == [type |-> "hierarchy", id |-> id]
Node(hierarchy, id, parent) ==
  [type |-> "node", hierarchy |-> hierarchy, id |-> id, parent |-> parent]
Mapping(id, hierarchy, node, start, end) ==
  [type |-> "mapping", id |-> id, hierarchy |-> hierarchy, node |-> node,
   start |-> start, end |-> end]
Description(state) == [type |-> "description", state |-> state]
Event(id, state, start, end) ==
  [type |-> "event", id |-> id, state |-> state, start |-> start, end |-> end]

TypeNames == {"collection", "hierarchy", "node", "mapping", "description", "event"}

(* All frames, of threads with the given states                            *)
Frame(states) ==
  [type : {"header"}]
    \cup [type : {"type_id"}, of : TypeNames, num : Nat]
    \cup [type : {"collection", "hierarchy"}, id : Nat]
    \cup [type : {"node"}, hierarchy : Nat, id : Nat, parent : Nat]
    \cup [type : {"mapping"}, id : Nat, hierarchy : Nat, node : Nat, start : Nat, end : Nat]
    \cup [type : {"description"}, state : states]
    \cup [type : {"event"}, id : Nat, state : states, start : Nat, end : Nat]

(* The default type IDs                                                    *)
DefaultId(name) ==
  CASE name = "hierarchy"   -> 1
    [] name = "node"        -> 2
    [] name = "collection"  -> 3
    [] name = "mapping"     -> 4
    [] name = "description" -> 5
    [] name = "event"       -> 6

(***************************************************************************)
(* What the frames of a file may refer to.  Frame i makes sense after the  *)
(* frames before it: this is the contract between those who write a file   *)
(* (TraceRecord) and those who load it (TraceLoad).                        *)
(***************************************************************************)
Earlier(frames, i, f) == \E j \in 1 .. i - 1 : frames[j] = f
EarlierOf(frames, i, type) == {j \in 1 .. i - 1 : frames[j].type = type}

SensibleTypeId(frames, i) ==
  /\ frames[i].of \in TypeNames /\ frames[i].num # 0
  /\ \A j \in EarlierOf(frames, i, "type_id") : frames[j].num # frames[i].num

(* The first node of a hierarchy is its root; all others have a parent.    *)
SensibleNode(frames, i) ==
  LET f == frames[i]
      there == {j \in EarlierOf(frames, i, "node") : frames[j].hierarchy = f.hierarchy}
      named == {frames[j].id : j \in there}
  IN  /\ Earlier(frames, i, Hierarchy(f.hierarchy))
      /\ IF there = {} THEN f.parent = 0
         ELSE f.parent # 0 /\ f.parent \in named /\ f.id \notin named

(* The mappings of a node are in the order of their starts.                *)
SensibleMapping(frames, i) ==
  LET f == frames[i]
  IN  /\ f.start <= f.end
      /\ Earlier(frames, i, Collection(f.id))
      /\ \E j \in EarlierOf(frames, i, "node") :
           frames[j].hierarchy = f.hierarchy /\ frames[j].id = f.node
      /\ \A j \in EarlierOf(frames, i, "mapping") :
           frames[j].hierarchy = f.hierarchy /\ frames[j].node = f.node
             => frames[j].start <= f.start

Sensible(frames, i) ==
  LET f == frames[i]
  IN  CASE f.type = "type_id"    -> SensibleTypeId(frames, i)
        [] f.type = "collection" -> ~Earlier(frames, i, f)
        [] f.type = "hierarchy"  -> ~Earlier(frames, i, f)
        [] f.type = "node"       -> SensibleNode(frames, i)
        [] f.type = "mapping"    -> SensibleMapping(frames, i)
        [] f.type = "event"      -> f.start <= f.end /\ Earlier(frames, i, Collection(f.id))
        [] OTHER                 -> TRUE
=============================================================================
