----------------------------- MODULE TraceLoad -----------------------------
(***************************************************************************)
(* Loading a trace file (am_dsk_load_trace): the header, then one frame    *)
(* after the other, each checked against what earlier frames have defined, *)
(* until the end of the file, wherever it is; then states are joined with  *)
(* their descriptions.  Anything that is wrong ends in the destruction of  *)
(* the trace.                                                              *)
(*                                                                         *)
(* Event collections live in one array, sorted by ID, which moves its      *)
(* elements when one is inserted and as a whole when it grows; mappings    *)
(* refer to them by address: the block of memory and the position in it.   *)
(*                                                                         *)
(* A file is given frame by frame: a Scenario holds the frames the file    *)
(* starts with and those it may go on with, at most "more" of them.        *)
(***************************************************************************)
EXTENDS TraceFrames, FiniteSets, SequencesExt

CONSTANTS
  Scenarios,  \* [prefix, frames, more]
  MaxTypes,   \* max_types of the frame type registry
  Prealloc,   \* num_prealloc of the array of event collections
  MaxTime     \* AM_TIMESTAMP_T_MAX

VARIABLES
  phase,      \* "header", "frames", "post", "loaded", "failed" or "undefined"
  ahead,      \* the frames the file certainly goes on with
  scenario,
  types,      \* frame types: [0 .. MaxTypes - 1 -> name, TypeIdName or None]
  colls,      \* event_collections: Seq([id, events, states]), sorted by id
  block,      \* the block of memory that holds them
  free,       \* num_free
  hierarchies,\* the IDs of the hierarchies
  nodes,      \* [<<hierarchy, id>> -> [parent, descendants, mappings]]
  descs,      \* the states described, in the order of the file
  bounds,     \* of the trace
  cut,        \* history: where the file ends: "no", "id" or "frame"
  starved,    \* history: memory has been short
  read        \* history: the entries read, the bad one included

loadVars == <<phase, ahead, scenario, types, colls, block, free, hierarchies, nodes,
              descs, bounds, cut, starved, read>>

None == "none"
TypeIdName == "type_id"

(* An entry of a file: a type ID and a frame, which is of the type that    *)
(* has the ID; if there is none, what follows is not read.                 *)
Entry(num, frame) == [num |-> num, frame |-> frame]

(* Whatever a file may hold                                                *)
Time == 0 .. MaxTime
FileFrame ==
  [type : {"type_id"}, of : TypeNames \cup {"unknown"}, num : Nat]
    \cup [type : {"collection", "hierarchy"}, id : Nat]
    \cup [type : {"node"}, hierarchy : Nat, id : Nat, parent : Nat]
    \cup [type : {"mapping"}, id : Nat, hierarchy : Nat, node : Nat, start : Time, end : Time]
    \cup [type : {"description"}, state : Nat]
    \cup [type : {"event"}, id : Nat, state : Nat, start : Time, end : Time]
FileEntry == [num : Nat, frame : FileFrame]

ASSUME LoadAssumption ==
  /\ MaxTypes \in Nat \ {0} /\ Prealloc \in Nat \ {0} /\ MaxTime \in Nat
  /\ \A s \in Scenarios :
       s.prefix \in Seq(FileEntry) /\ s.frames \subseteq FileEntry /\ s.more \in Nat

(***************************************************************************)
(* Tables                                                                  *)
(***************************************************************************)
Known(id) == \E i \in DOMAIN colls : colls[i].id = id
(* Mutant: the collection that was inserted last                           *)
PositionLast(id) == Len(colls)
Position(id) == CHOOSE i \in DOMAIN colls : colls[i].id = id

(* The nodes above a node: itself, its parent, the parent of that one, ... *)
HoldsParents(S) ==
  \A k \in S : nodes[k].parent # 0 => <<k[1], nodes[k].parent>> \in S
NodesAbove(key) ==
  {k \in DOMAIN nodes : \A S \in SUBSET DOMAIN nodes : key \in S /\ HoldsParents(S) => k \in S}

Interval(f) == [start |-> f.start, end |-> f.end]
Valid(f) == f.start <= f.end

(***************************************************************************)
(* What each type of frame does.  The guard of each action is what the     *)
(* code checks; a frame that does not pass ends in Reject.                 *)
(***************************************************************************)
(* am_dsk_frame_type_id_process                                            *)
AcceptsTypeId(f) ==
  /\ f.of \in TypeNames
  /\ f.num # 0
  /\ f.num < MaxTypes /\ types[f.num] = None

ProcessTypeId(f) ==
  /\ types' = [types EXCEPT ![f.num] = f.of]
  /\ UNCHANGED <<colls, block, free, hierarchies, nodes, descs, bounds>>

(* am_dsk_event_collection_process: the array grows unless there is room   *)
(* for as many elements as it grows by, which may move it, and makes room  *)
(* at the position of the ID.                                              *)
AcceptsCollection(f) == ~Known(f.id)

(* Mutant: elements are appended.                                          *)
InsertedLast(c) == Append(colls, c)
Inserted(c) ==
  LET before == Cardinality({i \in DOMAIN colls : colls[i].id < c.id})
  IN  SubSeq(colls, 1, before) \o <<c>> \o SubSeq(colls, before + 1, Len(colls))

ProcessCollection(f) ==
  /\ colls' = Inserted([id |-> f.id, events |-> <<>>, states |-> <<>>])
  /\ IF free < Prealloc
       THEN /\ free' = free + Prealloc - 1
            /\ block' \in {block, block + 1}
       ELSE /\ free' = free - 1
            /\ UNCHANGED block
  /\ UNCHANGED <<types, hierarchies, nodes, descs, bounds>>

(* am_dsk_hierarchy_description_process                                    *)
AcceptsHierarchy(f) == f.id \notin hierarchies

ProcessHierarchy(f) ==
  /\ hierarchies' = hierarchies \cup {f.id}
  /\ UNCHANGED <<types, colls, block, free, nodes, descs, bounds>>

(* am_dsk_hierarchy_node_process, am_hierarchy_node_add_child              *)
HasRoot(hierarchy) == \E k \in DOMAIN nodes : k[1] = hierarchy /\ nodes[k].parent = 0

(* Mutant: a second root is not noticed when it has an ID of its own.      *)
AcceptsRoots(f) ==
  /\ f.hierarchy \in hierarchies
  /\ <<f.hierarchy, f.id>> \notin DOMAIN nodes
  /\ f.parent # 0 => <<f.hierarchy, f.parent>> \in DOMAIN nodes
AcceptsNode(f) ==
  /\ f.hierarchy \in hierarchies
  /\ IF f.parent = 0
       THEN ~HasRoot(f.hierarchy)
       ELSE /\ <<f.hierarchy, f.id>> \notin DOMAIN nodes
            /\ <<f.hierarchy, f.parent>> \in DOMAIN nodes

(* Mutant: only the parent counts its descendants.                         *)
ParentOnly(f) == {<<f.hierarchy, f.parent>>} \cap DOMAIN nodes
Ancestors(f) == IF f.parent = 0 THEN {} ELSE NodesAbove(<<f.hierarchy, f.parent>>)

ProcessNode(f) ==
  /\ nodes' = [k \in DOMAIN nodes \cup {<<f.hierarchy, f.id>>} |->
                 IF k = <<f.hierarchy, f.id>>
                   THEN [parent |-> f.parent, descendants |-> 0, mappings |-> <<>>]
                   ELSE [nodes[k] EXCEPT !.descendants = IF k \in Ancestors(f) THEN @ + 1 ELSE @]]
  /\ UNCHANGED <<types, colls, block, free, hierarchies, descs, bounds>>

(* am_dsk_event_mapping_process, am_event_mapping_append_safe              *)
AcceptsMapping(f) ==
  /\ Valid(f)
  /\ Known(f.id)
  /\ <<f.hierarchy, f.node>> \in DOMAIN nodes
  /\ LET mappings == nodes[<<f.hierarchy, f.node>>].mappings
     IN  mappings = <<>> \/ Last(mappings).start <= f.start

ProcessMapping(f) ==
  LET m == [start |-> f.start, end |-> f.end, wanted |-> f.id,
            block |-> block, slot |-> Position(f.id)]
  IN  /\ nodes' = [nodes EXCEPT ![<<f.hierarchy, f.node>>].mappings = Append(@, m)]
      /\ UNCHANGED <<types, colls, block, free, hierarchies, descs, bounds>>

(* am_dsk_state_description: appended to an array of the trace             *)
ProcessDescription(f) ==
  /\ descs' = Append(descs, f.state)
  /\ UNCHANGED <<types, colls, block, free, hierarchies, nodes, bounds>>

(* am_dsk_state_event: appended to the array of the collection, its state  *)
(* not known yet; the bounds of the trace follow.                          *)
AcceptsEvent(f) == Valid(f) /\ Known(f.id)

(* Mutant: the end is compared with the start of the bounds only.          *)
WidenedByStart(f) ==
  [start |-> IF f.start < bounds.start THEN f.start ELSE bounds.start,
   end |-> IF f.start > bounds.end THEN f.start ELSE bounds.end]
Widened(f) ==
  [start |-> IF f.start < bounds.start THEN f.start ELSE bounds.start,
   end |-> IF f.end > bounds.end THEN f.end ELSE bounds.end]

ProcessEvent(f) ==
  /\ colls' = [colls EXCEPT ![Position(f.id)].events = Append(@, f),
                            ![Position(f.id)].states = Append(@, 0)]
  /\ bounds' = Widened(f)
  /\ UNCHANGED <<types, block, free, hierarchies, nodes, descs>>

(***************************************************************************)
(* Reading                                                                 *)
(***************************************************************************)
(* The trace is destroyed and its memory given back.                       *)
Reject ==
  /\ phase' = "failed"
  /\ colls' = <<>> /\ nodes' = <<>> /\ hierarchies' = {} /\ descs' = <<>>
  /\ UNCHANGED <<types, block, free, bounds>>

ReadHeader ==
  /\ phase = "header"
  /\ \/ /\ phase' = "frames"
        /\ UNCHANGED <<types, colls, block, free, hierarchies, nodes, descs, bounds, cut>>
     \/ Reject /\ cut' = "header"
  /\ UNCHANGED <<ahead, scenario, starved, read>>

(* The frame type registry: an ID beyond the table has no type, but the    *)
(* first ID beyond it is looked up behind the table.                       *)
TypesOf(num) == IF num < MaxTypes THEN {types[num]} ELSE {None}
BehindTable(num) == num = MaxTypes

Accepts(f) ==
  \/ f.type = "type_id" /\ AcceptsTypeId(f)
  \/ f.type = "collection" /\ AcceptsCollection(f)
  \/ f.type = "hierarchy" /\ AcceptsHierarchy(f)
  \/ f.type = "node" /\ AcceptsNode(f)
  \/ f.type = "mapping" /\ AcceptsMapping(f)
  \/ f.type = "description"
  \/ f.type = "event" /\ AcceptsEvent(f)

Process(f) ==
  \/ f.type = "type_id" /\ ProcessTypeId(f)
  \/ f.type = "collection" /\ ProcessCollection(f)
  \/ f.type = "hierarchy" /\ ProcessHierarchy(f)
  \/ f.type = "node" /\ ProcessNode(f)
  \/ f.type = "mapping" /\ ProcessMapping(f)
  \/ f.type = "description" /\ ProcessDescription(f)
  \/ f.type = "event" /\ ProcessEvent(f)

Upcoming == IF ahead # <<>> THEN {Head(ahead)}
            ELSE IF Len(read) < Len(scenario.prefix) + scenario.more THEN scenario.frames ELSE {}

(* The bytes behind a type ID are taken for a frame of its type.           *)
LoadFrame ==
  /\ phase = "frames"
  /\ \E e \in Upcoming :
       /\ ~BehindTable(e.num)
       /\ TypesOf(e.num) \in {{None}, {e.frame.type}}
       /\ read' = Append(read, e)
       /\ IF TypesOf(e.num) # {None} /\ Accepts(e.frame)
            THEN Process(e.frame) /\ UNCHANGED phase
            ELSE Reject
  /\ ahead' = IF ahead = <<>> THEN ahead ELSE Tail(ahead)
  /\ UNCHANGED <<scenario, cut, starved>>

LoadBehindTable ==
  /\ phase = "frames"
  /\ \E e \in Upcoming :
       /\ BehindTable(e.num)
       /\ read' = Append(read, e)
  /\ \/ Reject
     \/ /\ phase' = "undefined"
        /\ UNCHANGED <<types, colls, block, free, hierarchies, nodes, descs, bounds>>
  /\ UNCHANGED <<ahead, scenario, cut, starved>>

(* The file ends between two frames, within a type ID, or within a frame.  *)
LoadEnd ==
  /\ phase = "frames" /\ ahead = <<>>
  /\ cut' \in {"no", "id", "frame"}
  /\ IF cut' = "frame"
       THEN Reject
       ELSE phase' = "post" /\ UNCHANGED <<types, colls, block, free, hierarchies, nodes, descs, bounds>>
  /\ UNCHANGED <<ahead, scenario, starved, read>>

OutOfMemory ==
  /\ phase \in {"header", "frames", "post"}
  /\ starved' = TRUE
  /\ Reject
  /\ UNCHANGED <<ahead, scenario, cut, read>>

(* The descriptions are sorted by state and searched for the state of each *)
(* event; which of two that describe the same state is found is left open. *)
Sorted == SortSeq(descs, LAMBDA x, y : x < y)
(* Mutant: the position among the sorted descriptions is used.             *)
MatchesSorted(state) == {d \in DOMAIN descs : Sorted[d] = state}
Matches(state) == {d \in DOMAIN descs : descs[d] = state}
Occurring == UNION {{f.state : f \in Range(colls[i].events)} : i \in DOMAIN colls}

Matched == \A s \in Occurring : Matches(s) # {}

JoinStates ==
  /\ phase = "post"
  /\ IF Matched
       THEN \E found \in [Occurring -> DOMAIN descs] :
              /\ \A s \in Occurring : found[s] \in Matches(s)
              /\ colls' = [i \in DOMAIN colls |->
                            [colls[i] EXCEPT !.states = [j \in DOMAIN @ |-> found[colls[i].events[j].state]]]]
              /\ phase' = "loaded"
              /\ UNCHANGED <<types, block, free, hierarchies, nodes, descs, bounds>>
       ELSE Reject
  /\ UNCHANGED <<ahead, scenario, cut, starved, read>>

LoadInit ==
  /\ phase = "header"
  /\ scenario \in Scenarios /\ ahead = scenario.prefix
  /\ types = [n \in 0 .. MaxTypes - 1 |-> IF n = 0 THEN TypeIdName ELSE None]
  /\ colls = <<>> /\ block = 0 /\ free = 0
  /\ hierarchies = {} /\ nodes = <<>> /\ descs = <<>>
  /\ bounds = [start |-> MaxTime, end |-> 0]
  /\ cut = "no" /\ starved = FALSE /\ read = <<>>

LoadNext ==
  \/ ReadHeader
  \/ LoadFrame
  \/ LoadBehindTable
  \/ LoadEnd
  \/ OutOfMemory
  \/ JoinStates

LoadSpec == LoadInit /\ [][LoadNext]_loadVars

-----------------------------------------------------------------------------
(***************************************************************************)
(* What a file says                                                        *)
(***************************************************************************)
Frames == [i \in DOMAIN read |-> read[i].frame]

(* The entry makes sense after those before it (TraceFrames), and its type *)
(* has been given its number, which the table has room for.                *)
SensibleEntry(i) ==
  /\ Sensible(Frames, i)
  /\ Frames[i].type = "type_id" => Frames[i].num < MaxTypes
  /\ read[i].num # 0 =>
       /\ read[i].num < MaxTypes
       /\ \E j \in EarlierOf(Frames, i, "type_id") : Frames[j].num = read[i].num

Described ==
  \A i \in DOMAIN read : Frames[i].type = "event" =>
    \E j \in DOMAIN read : Frames[j] = Description(Frames[i].state)

(***************************************************************************)
(* Properties                                                              *)
(***************************************************************************)
(* Type correctness: the array of collections is sorted, and the space     *)
(* that is free in it is counted.                                          *)
LoadTypeOK ==
  /\ \A i, j \in DOMAIN colls : i < j => colls[i].id < colls[j].id
  /\ free \in 0 .. 2 * Prealloc - 2
  /\ phase = "frames" => (Len(colls) + free) % Prealloc = 0

(* A file is loaded if and only if each of its frames makes sense after    *)
(* those before it, no frame is cut and every state that occurs has a      *)
(* description; a file that ends within a type ID is loaded as well        *)
(* (am_dsk_load_trace, am_dsk_read_frames).                                *)
LoadVerdict ==
  /\ phase = "loaded" =>
       (\A i \in DOMAIN read : SensibleEntry(i)) /\ cut \in {"no", "id"} /\ Described
  /\ phase = "failed" =>
       \/ (\E i \in DOMAIN read : ~SensibleEntry(i)) \/ cut \in {"header", "frame"} \/ ~Described
       \/ starved

(* What is in memory is what the file says, in its order, frame by frame,  *)
(* wherever collections and events alternate.                              *)
EntriesOf(type) == {p \in DOMAIN read : Frames[p].type = type}
(* Which of the entries P an entry is                                      *)
Nth(P, p) == Cardinality({q \in P : q <= p})

CollectionsTold ==
  /\ {colls[i].id : i \in DOMAIN colls} = {Frames[p].id : p \in EntriesOf("collection")}
  /\ hierarchies = {Frames[p].id : p \in EntriesOf("hierarchy")}

EventsTold ==
  \A i \in DOMAIN colls :
    LET here == {p \in EntriesOf("event") : Frames[p].id = colls[i].id}
        there == colls[i].events
    IN  Len(there) = Cardinality(here) /\ \A p \in here : there[Nth(here, p)] = Frames[p]

DescriptionsTold ==
  LET here == EntriesOf("description")
  IN  Len(descs) = Cardinality(here) /\ \A p \in here : descs[Nth(here, p)] = Frames[p].state

NodesTold ==
  /\ DOMAIN nodes = {<<Frames[p].hierarchy, Frames[p].id>> : p \in EntriesOf("node")}
  /\ \A p \in EntriesOf("node") :
       nodes[<<Frames[p].hierarchy, Frames[p].id>>].parent = Frames[p].parent

MappingsTold ==
  \A k \in DOMAIN nodes :
    LET here == {p \in EntriesOf("mapping") : Frames[p].hierarchy = k[1] /\ Frames[p].node = k[2]}
        there == nodes[k].mappings
    IN  /\ Len(there) = Cardinality(here)
        /\ \A p \in here : /\ there[Nth(here, p)].wanted = Frames[p].id
                            /\ Interval(there[Nth(here, p)]) = Interval(Frames[p])

LoadedExact ==
  phase \in {"frames", "post", "loaded"} =>
    CollectionsTold /\ EventsTold /\ DescriptionsTold /\ NodesTold /\ MappingsTold

(* The bounds are the first and the last moment of any event.              *)
Times == {Frames[p].start : p \in EntriesOf("event")} \cup {Frames[p].end : p \in EntriesOf("event")}

BoundsTold ==
  bounds = IF Times = {} THEN [start |-> MaxTime, end |-> 0]
           ELSE [start |-> Min(Times), end |-> Max(Times)]

BoundsExact == phase \in {"frames", "post", "loaded"} => BoundsTold

(* The nodes of a hierarchy are a tree, whose inner nodes count all of     *)
(* their descendants (am_hierarchy_node_add_child).                        *)
HierarchyTree ==
  \A k \in DOMAIN nodes :
    /\ k[1] \in hierarchies
    /\ nodes[k].parent # 0 => <<k[1], nodes[k].parent>> \in DOMAIN nodes
    /\ Cardinality({r \in DOMAIN nodes : r[1] = k[1] /\ nodes[r].parent = 0}) = 1
    /\ nodes[k].descendants = Cardinality({d \in DOMAIN nodes : k \in NodesAbove(d)}) - 1

(* The address in a mapping is that of the collection that was meant.      *)
Refers(m) ==
  m.block = block /\ m.slot \in DOMAIN colls /\ colls[m.slot].id = m.wanted
MappedRight ==
  \A k \in DOMAIN nodes : \A i \in DOMAIN nodes[k].mappings : Refers(nodes[k].mappings[i])

(* It is, as long as all collections precede the mappings in the file.     *)
MappedOrdered ==
  (\A i, j \in DOMAIN read :
     Frames[i].type = "mapping" /\ Frames[j].type = "collection" => j < i) => MappedRight

(* Each event of a loaded trace is joined with a description of its state. *)
Joined ==
  phase = "loaded" =>
    \A i \in DOMAIN colls : \A j \in DOMAIN colls[i].events :
      /\ colls[i].states[j] \in DOMAIN descs
      /\ descs[colls[i].states[j]] = colls[i].events[j].state

(* What is in memory is what the file says: events, mappings and           *)
(* descriptions in their order, the nodes as trees that count their        *)
(* descendants, and the bounds of the trace.                               *)
LoadedRight == LoadTypeOK /\ LoadedExact /\ BoundsExact /\ HierarchyTree

(* References in a loaded trace - from mappings to collections, from       *)
(* events to descriptions - lead to what the file names.                   *)
ReferencesRight == MappedOrdered /\ Joined
=============================================================================
