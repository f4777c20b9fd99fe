------------------------------ MODULE DfgGraph ------------------------------
(***************************************************************************)
(* The graph of the session as a data structure (dfg_graph): it is loaded  *)
(* from a file, then edited in the GUI, and can be saved at any time.      *)
(*                                                                         *)
(* Each end of a connection refers to the other.  Ports that are connected *)
(* exchange data through a buffer, which is allocated for the output port  *)
(* with its first connection and kept until the graph is destroyed.        *)
(* Connecting may fail for lack of memory at each of its allocations.      *)
(***************************************************************************)
EXTENDS DfgPorts, Integers, FiniteSets, SequencesExt

CONSTANTS
  Compatible,  \* <<output port, input port>> of compatible data types
  Files,       \* files to load, see File
  IdMax,       \* the largest node id, LONG_MAX in the code
  MaxEdits     \* bound on the changes of the graph by the user

VARIABLES
  phase,    \* "nodes" and "connections" while loading, then "running", or
            \* "ended" after an error in the file
  file,     \* what is left to load
  place,    \* of each node: "none", "graph" or "freed"
  id,       \* id of each node that is or was in the graph
  conns,    \* connections of each port
  buffer,   \* buffer of each port, 0 if it has none
  refs,     \* num_refs of each buffer
  crashed,  \* a NULL pointer was dereferenced
  edits     \* number of changes so far

portVars == <<conns, buffer, refs, crashed>>
graphVars == <<phase, file, place, id, portVars, edits>>

(* A file lists nodes and connections; a connection names its ports by the *)
(* id of their node and, here, their index.  Bound: no file connects a     *)
(* node to itself.                                                         *)
FilePort == (1 .. IdMax) \X Nat
File == [nodes : Seq([node : Node, id : 1 .. IdMax]),
         connections : Seq(FilePort \X FilePort)]

ASSUME GraphAssumption ==
  /\ Compatible \subseteq OutPort \X InPort
  /\ IdMax \in Nat \ {0} /\ MaxEdits \in Nat
  /\ \A f \in Files : /\ f \in File
                      /\ \A k \in DOMAIN f.connections :
                           f.connections[k][1][1] # f.connections[k][2][1]

InGraph(n) == place[n] = "graph"
Nodes == {n \in Node : InGraph(n)}

Linked(p, q) == q \in Range(conns[p])

(* Connections as seen from the output ports                               *)
Links == {l \in OutPort \X InPort : Linked(l[1], l[2])}

-----------------------------------------------------------------------------
(* Connecting and disconnecting                                            *)

(* Mutant: am_dfg_graph_connectp without its check of the destination      *)
TypesMatch(out, in) == <<out, in>> \in Compatible

(* The checks of am_dfg_graph_connectp                                     *)
MayConnect(out, in) == <<out, in>> \in Compatible /\ conns[in] = <<>>

(* Mutant: a port keeps the buffer it has.                                 *)
OwnBuffer(out, in) ==
  IF buffer[in] # 0 THEN [buffer EXCEPT ![out] = IF @ = 0 THEN Len(refs) + 1 ELSE @]
  ELSE LET b == IF buffer[out] = 0 THEN Len(refs) + 1 ELSE buffer[out]
       IN [buffer EXCEPT ![out] = b, ![in] = b]

(* The input takes the buffer of the output, a new one if it has none.     *)
AssignBuffer(out, in) ==
  LET b == IF buffer[out] = 0 THEN Len(refs) + 1 ELSE buffer[out]
  IN [buffer EXCEPT ![out] = b, ![in] = b]

(* Mutant: the end at the input is forgotten.                              *)
UnlinkedOut(cut) ==
  [p \in Port |-> IF p \in InPort THEN conns[p]
                  ELSE Remaining(conns[p], {q \in Port : <<p, q>> \in cut})]

(* am_dfg_port_disconnect for a set of connections.  The buffer stays with *)
(* the ports; both ends of a connection give up a reference.               *)
Unlinked(cut) ==
  [p \in Port |-> Remaining(conns[p], {q \in Port : <<p, q>> \in cut \/ <<q, p>> \in cut})]

Released(cut) ==
  [b \in DOMAIN refs |->
     refs[b] - Cardinality({l \in cut : buffer[l[1]] = b})
             - Cardinality({l \in cut : buffer[l[2]] = b})]

(* am_dfg_graph_connectp, after the connections in cut were removed.  The  *)
(* buffer's counter starts at 0 and misses the first connection.           *)
ConnectOk(out, in, cut) ==
  /\ conns' = [Unlinked(cut) EXCEPT ![out] = Append(@, in), ![in] = Append(@, out)]
  /\ buffer' = AssignBuffer(out, in)
  /\ refs' = IF buffer[out] = 0 THEN Append(Released(cut), 0)
             ELSE [Released(cut) EXCEPT ![buffer[out]] = @ + 1]
  /\ UNCHANGED crashed

(* An allocation fails: that of the output's list of connections, of the   *)
(* input's, or of a buffer.  The error path gives up a reference for each  *)
(* end that was connected, although there may be no buffer.  What is left  *)
(* of the state after that does not matter.                                *)
ConnectFails(out, in, cut) ==
  /\ conns' = Unlinked(cut)
  /\ UNCHANGED buffer
  /\ \/ refs' = Released(cut) /\ UNCHANGED crashed
     \/ /\ buffer[out] # 0
        /\ refs' = [Released(cut) EXCEPT ![buffer[out]] = @ - 1]
        /\ UNCHANGED crashed
     \/ /\ buffer[out] = 0
        /\ refs' = Released(cut)
        /\ crashed' = TRUE

Connectp(out, in, cut) == ConnectOk(out, in, cut) \/ ConnectFails(out, in, cut)

-----------------------------------------------------------------------------
(* Loading                                                                 *)

(* am_dfg_graph_add_node                                                   *)
MayAdd(i) == \A n \in Nodes : id[n] # i

AddNode(n, i) ==
  /\ place' = [place EXCEPT ![n] = "graph"]
  /\ id' = [id EXCEPT ![n] = i]

Ended ==
  /\ phase' = "ended"
  /\ UNCHANGED <<file, place, id, portVars, edits>>

(* am_dfg_graph_nodes_from_object_notation, one node                       *)
LoadNode ==
  /\ phase = "nodes" /\ file.nodes # <<>>
  /\ \E e \in {Head(file.nodes)} :
       \/ /\ MayAdd(e.id)
          /\ AddNode(e.node, e.id)
          /\ file' = [file EXCEPT !.nodes = Tail(@)]
          /\ UNCHANGED <<phase, portVars, edits>>
       \/ ~ MayAdd(e.id) /\ Ended

LoadedNodes ==
  /\ phase = "nodes" /\ file.nodes = <<>>
  /\ phase' = "connections"
  /\ UNCHANGED <<file, place, id, portVars, edits>>

(* am_dfg_graph_find_node, am_dfg_node_find_port                           *)
FindPort(fp) ==
  {p \in Port : InGraph(p[1]) /\ id[p[1]] = fp[1] /\ p[2] = fp[2]}

(* am_dfg_graph_connection_from_object_notation                            *)
LoadConnection ==
  /\ phase = "connections" /\ file.connections # <<>>
  /\ \E from \in {Head(file.connections)[1]}, to \in {Head(file.connections)[2]} :
       LET found == {l \in FindPort(from) \X FindPort(to) : MayConnect(l[1], l[2])}
       IN
        \/ /\ \E l \in found : ConnectOk(l[1], l[2], {})
           /\ file' = [file EXCEPT !.connections = Tail(@)]
           /\ UNCHANGED <<phase, place, id, edits>>
        \/ /\ \E l \in found : ConnectFails(l[1], l[2], {})
           /\ phase' = "ended"
           /\ UNCHANGED <<file, place, id, edits>>
        \/ found = {} /\ Ended

(* The merge into the empty graph of the session changes nothing.          *)
Loaded ==
  /\ phase = "connections" /\ file.connections = <<>>
  /\ phase' = "running"
  /\ UNCHANGED <<file, place, id, portVars, edits>>

-----------------------------------------------------------------------------
(* Editing                                                                 *)

(* A node that is left in the graph refers to one that was freed.          *)
Dangling == \E l \in Links : {place[l[1][1]], place[l[2][1]]} = {"graph", "freed"}

(* Bound: what the program does after it has dereferenced a NULL pointer   *)
(* or while a connection refers to memory that was freed is left open.     *)
Edited ==
  /\ phase = "running"
  /\ ~ crashed /\ ~ Dangling
  /\ edits < MaxEdits
  /\ edits' = edits + 1
  /\ UNCHANGED <<phase, file>>

(* am_dfg_node_idtree_last, 0 if the graph is empty                        *)
HighestId == CHOOSE i \in 0 .. IdMax :
               /\ i = 0 \/ \E n \in Nodes : id[n] = i
               /\ \A n \in Nodes : id[n] <= i

(* AftermathController::createNodeAt, am_dfg_graph_generate_id; creating a *)
(* node fails when there is no id left.                                    *)
CreateNodeAt(n) ==
  /\ Edited
  /\ place[n] = "none"
  /\ HighestId # IdMax /\ MayAdd(HighestId + 1)
  /\ AddNode(n, HighestId + 1)
  /\ UNCHANGED portVars

(* DFGWidget::portsCompatible                                              *)
PortsCompatible(out, in) ==
  /\ InGraph(out[1]) /\ InGraph(in[1])
  /\ MayConnect(out, in)
  /\ out[1] \notin Downstream(conns, in[1])

Connect(out, in) ==
  /\ Edited
  /\ PortsCompatible(out, in)
  /\ Connectp(out, in, {})
  /\ UNCHANGED <<place, id>>

(* A connection is moved to another input.                                 *)
Move(out, from, to) ==
  /\ Edited
  /\ Linked(out, from) /\ PortsCompatible(out, to)
  /\ Connectp(out, to, {<<out, from>>})
  /\ UNCHANGED <<place, id>>

Disconnect(out, in) ==
  /\ Edited
  /\ Linked(out, in)
  /\ conns' = Unlinked({<<out, in>>})
  /\ refs' = Released({<<out, in>>})
  /\ UNCHANGED <<place, id, buffer, crashed>>

(* The connections that am_dfg_graph_remove_node removes: its loop goes on *)
(* to the next index although the list has moved up by one, so that every  *)
(* other connection of a port remains.                                     *)
Reached(n) ==
  {l \in Links :
     \E i \in PortIdx(TypeOf[n]) :
       \E k \in DOMAIN conns[<<n, i>>] :
         k % 2 = 1 /\ {l[1], l[2]} = {<<n, i>>, conns[<<n, i>>][k]}}

(* keyPressEvent, deleteNode: am_dfg_graph_remove_node, then the node is   *)
(* destroyed and freed.                                                    *)
RemoveNode(n) ==
  /\ Edited
  /\ InGraph(n)
  /\ conns' = Unlinked(Reached(n))
  /\ refs' = Released(Reached(n))
  /\ place' = [place EXCEPT ![n] = "freed"]
  /\ UNCHANGED <<id, buffer, crashed>>

-----------------------------------------------------------------------------
(* Specification                                                           *)

GraphInit ==
  /\ phase = "nodes"
  /\ file \in Files
  /\ place = [n \in Node |-> "none"]
  /\ id = [n \in Node |-> 0]
  /\ conns = [p \in Port |-> <<>>]
  /\ buffer = [p \in Port |-> 0]
  /\ refs = <<>>
  /\ crashed = FALSE
  /\ edits = 0

GraphNext ==
  \/ LoadNode \/ LoadedNodes \/ LoadConnection \/ Loaded
  \/ \E n \in Node : CreateNodeAt(n) \/ RemoveNode(n)
  \/ \E out \in OutPort, in \in InPort :
       \/ Connect(out, in)
       \/ Disconnect(out, in)
       \/ \E from \in InPort : Move(out, from, in)

GraphSpec == GraphInit /\ [][GraphNext]_graphVars

-----------------------------------------------------------------------------
(* Properties                                                              *)

(* Both ends of a connection know of it, once, and it joins an output and  *)
(* an input of compatible types, whatever fails on the way (connectp,      *)
(* disconnect, remove_node).                                               *)
Symmetric ==
  \A p, q \in Port :
    InGraph(p[1]) /\ InGraph(q[1]) /\ Linked(p, q) =>
      /\ Linked(q, p)
      /\ {<<p, q>>, <<q, p>>} \cap Compatible # {}
      /\ Cardinality({k \in DOMAIN conns[p] : conns[p][k] = q}) = 1

(* Data reaches an input from the output it is connected to and from no    *)
(* other: connected ports share a buffer, two outputs never do, however    *)
(* often an input was connected to other outputs before.                   *)
DataFromProducer ==
  /\ \A l \in Links : buffer[l[1]] # 0 /\ buffer[l[1]] = buffer[l[2]]
  /\ \A p, q \in OutPort : p # q /\ buffer[p] # 0 => buffer[p] # buffer[q]

(* am_dfg_graph_to_object_notation: the nodes by id and, for each input    *)
(* port that has a connection, its first                                   *)
SavedLinks ==
  {<<conns[p][1], p>> : p \in {q \in InPort : InGraph(q[1]) /\ conns[q] # <<>>}}

(* A graph that is saved can be loaded again and is the same then: ids     *)
(* identify nodes and no connection is lost.                               *)
Reloads ==
  phase = "running" /\ ~ Dangling =>
    /\ \A m, n \in Nodes : id[m] = id[n] => m = n
    /\ SavedLinks = Links

(* Both ends of a connection agree about it and share a buffer, whatever   *)
(* was allocated, connected and removed before.                            *)
ConnectionsRight == Symmetric /\ DataFromProducer
=============================================================================
