------------------------------ MODULE DfgEditor ------------------------------
(***************************************************************************)
(* The mouse and the keys of the graph editor (DFGWidget).                 *)
(*                                                                         *)
(* A press on a port starts dragging: the port itself or, if it has a      *)
(* connection, the far end of that, in order to move or to cut it.  While  *)
(* the mouse moves, the editor shows whether a release would connect, for  *)
(* which it leaves the connection that is moved out of account; at the     *)
(* release it asks again, and leaves nothing out.  Nodes and connections   *)
(* are selected by a press and deleted with a key, also during a drag.     *)
(*                                                                         *)
(* What is under the cursor is any choice.  Coordinates and painting are   *)
(* left out, and a release is never lost.  HasCycle stands for             *)
(* am_dfg_graph_has_cycle, of which DfgCycle shows that it decides this.   *)
(***************************************************************************)
EXTENDS DfgPorts, FiniteSets, SequencesExt

CONSTANTS
  EditorNodes, \* nodes of the graph at first
  TypesFit,   \* pairs of an output and an input port of compatible types
  Wirings     \* the connections there may be at first, faulty ones too

VARIABLES
  wires,      \* connections of each port
  present,    \* nodes of the graph
  mode,       \* mouseMode: "none", "navigate", "node", "port"
  held,       \* the left button is held down
  draggedNode, \* draggedNode.node
  dragged,    \* draggedPort: [port, disconnect, ignore]
  selectedNode, selectedWire, \* those of the renderer
  hover,      \* history: the port of the last move and whether it is shown as fit
  stale,      \* history: the references that a deletion left behind, see below
  freed       \* history: memory that was freed was used

editorVars == <<wires, present, mode, held, draggedNode, dragged, selectedNode,
                selectedWire, hover, stale, freed>>
graphPart == <<wires, present>>

(* "node": the selected node was deleted with the key; "wire": the         *)
(* selected connection was dragged away; "drag": the connection that is    *)
(* moved was deleted with the key.                                         *)
Left == {"node", "wire", "drag"}

Nothing == <<>>   \* NULL, for nodes, ports and connections alike
NoDrag == [port |-> Nothing, disconnect |-> Nothing, ignore |-> Nothing]
NoHover == [port |-> Nothing, fits |-> FALSE]

ASSUME EditorAssumption ==
  /\ EditorNodes \subseteq Node /\ Nothing \notin EditorNodes
  /\ TypesFit \subseteq OutPort \X InPort
  /\ \A w \in Wirings :
       /\ w \in [Port -> Seq(Port)]
       /\ \A p \in InPort : Len(w[p]) <= 1
       /\ \A p \in Port : w[p] # <<>> => p[1] \in EditorNodes
       /\ \A p \in Port : \A k \in DOMAIN w[p] :
            /\ {p, w[p][k]} \cap InPort # {} /\ {p, w[p][k]} \cap OutPort # {}
            /\ p \in Range(w[w[p][k]])

-----------------------------------------------------------------------------
(* The graph                                                               *)

Wired(p, q) == q \in Range(wires[p])
Wires == {w \in OutPort \X InPort : Wired(w[1], w[2])}

(* am_dfg_sort_ports_inout                                                 *)
Sorted(p, q) == IF p \in OutPort THEN <<p, q>> ELSE <<q, p>>

(* Mutant: the input does not forget the output.                           *)
CutAtOutput(cut) ==
  [p \in Port |-> IF p \in InPort THEN wires[p]
                  ELSE Remaining(wires[p], {q \in Port : <<p, q>> \in cut})]

(* am_dfg_port_disconnect; nothing but a call of the nodes' functions if   *)
(* the ports are not connected                                             *)
Cut(cut) ==
  [p \in Port |-> Remaining(wires[p], {q \in Port : <<p, q>> \in cut \/ <<q, p>> \in cut})]

(* Some nodes each have a connection from one of them.                     *)
HasCycle(S) ==
  \E N \in (SUBSET Node) \ {{}} :
    \A n \in N : \E w \in S : w[1][1] \in N /\ w[2][1] = n

(* Mutant: cycles are not looked for.                                      *)
CompatibleAnyhow(p, q, ignore) ==
  /\ (p \in InPort) # (q \in InPort)
  /\ LET w == Sorted(p, q)
     IN /\ wires[w[2]] # <<>> => Wired(w[1], w[2])
        /\ w \in TypesFit

(* portsCompatible: two ports may be connected, or are.                    *)
CompatibleWhile(p, q, ignore) ==
  /\ (p \in InPort) # (q \in InPort)
  /\ LET w == Sorted(p, q)
     IN /\ wires[w[2]] # <<>> => Wired(w[1], w[2])
        /\ w \in TypesFit
        /\ ~HasCycle((Wires \ {ignore}) \cup {w})

PortsShown == {p \in Port : p[1] \in present}

-----------------------------------------------------------------------------
(* The mouse                                                               *)

(* Mutant: the connection that was left out of account still is.           *)
AbortDragOnly ==
  /\ mode' = "none"
  /\ hover' = NoHover
  /\ UNCHANGED dragged

(* abortDrag                                                               *)
AbortDrag ==
  /\ mode' = "none"
  /\ dragged' = [dragged EXCEPT !.ignore = Nothing]
  /\ hover' = NoHover

(* The mouse moves over port p, or over none, while a port is dragged.     *)
Hovering(d, p) ==
  [port |-> p, fits |-> p # Nothing /\ CompatibleWhile(d.port, p, d.ignore)]

DragPort(p) ==
  /\ mode = "port"
  /\ hover' = Hovering(dragged, p)
  /\ UNCHANGED <<graphPart, mode, held, draggedNode, dragged, selectedNode,
                 selectedWire, stale, freed>>

(* A move asks the node that is dragged for its id.                        *)
DragNode ==
  /\ mode = "node"
  /\ freed' = (freed \/ draggedNode \notin present)
  /\ UNCHANGED <<graphPart, mode, held, draggedNode, dragged, selectedNode,
                 selectedWire, hover, stale>>

PressLeft == ~held /\ held' = TRUE /\ UNCHANGED <<graphPart, freed>>

PressNode(n) ==
  /\ PressLeft
  /\ mode' = "node"
  /\ draggedNode' = n
  /\ selectedNode' = n
  /\ selectedWire' = Nothing
  /\ stale' = stale \ {"node", "wire"}
  /\ UNCHANGED <<dragged, hover>>

(* The far end of the port's first connection is dragged.                  *)
FarEnd(p) ==
  LET q == wires[p][1]
  IN [port |-> q, disconnect |-> p, ignore |-> Sorted(p, q)]

(* Mutant: what the last drag was to move is not forgotten.                *)
PortItselfOnly(p) == [dragged EXCEPT !.port = p]

PortItself(p) == [dragged EXCEPT !.port = p, !.disconnect = Nothing]

(* Mutant: the node stays selected.                                        *)
PressPortOnly(p, shift) ==
  /\ PressLeft
  /\ mode' = "port"
  /\ dragged' = IF ~shift /\ wires[p] # <<>> THEN FarEnd(p) ELSE PortItself(p)
  /\ hover' = Hovering(dragged', p)
  /\ stale' = stale \ {"drag"}
  /\ UNCHANGED <<draggedNode, selectedNode, selectedWire>>

(* Shift makes a new connection although the port has one.                 *)
PressPort(p, shift) ==
  /\ PressLeft
  /\ mode' = "port"
  /\ dragged' = IF ~shift /\ wires[p] # <<>> THEN FarEnd(p) ELSE PortItself(p)
  /\ hover' = Hovering(dragged', p)
  /\ selectedNode' = Nothing
  /\ stale' = stale \ {"drag", "node"}
  /\ UNCHANGED <<draggedNode, selectedWire>>

PressWire(w) ==
  /\ PressLeft
  /\ selectedNode' = Nothing
  /\ selectedWire' = w
  /\ stale' = stale \ {"node", "wire"}
  /\ UNCHANGED <<mode, draggedNode, dragged, hover>>

PressBackground ==
  /\ PressLeft
  /\ mode' = "navigate"
  /\ UNCHANGED <<draggedNode, dragged, selectedNode, selectedWire, hover, stale>>

(* The right button cancels any current action.                            *)
PressRight ==
  /\ AbortDrag
  /\ selectedWire' = Nothing
  /\ selectedNode' = Nothing
  /\ stale' = stale \ {"node", "wire"}
  /\ UNCHANGED <<graphPart, held, draggedNode, freed>>

Moved == IF dragged.disconnect = Nothing THEN {}
         ELSE {Sorted(dragged.port, dragged.disconnect)}

(* What mouseReleasePort cuts when a drag ends over port p, and whether it *)
(* connects                                                                *)
Connects(p) ==
  /\ p # Nothing
  /\ CompatibleWhile(dragged.port, p, Nothing)
  /\ ~Wired(dragged.port, p)

Cuts(p) == IF p = Nothing \/ Connects(p) THEN Moved ELSE {}

(* mouseReleasePort, am_dfg_graph_connectp                                 *)
ReleasePort(p) ==
  LET w == Sorted(dragged.port, p)
      cut == Cut(Cuts(p))
  IN wires' = IF Connects(p) /\ cut[w[2]] = <<>>
                THEN [cut EXCEPT ![w[1]] = Append(@, w[2]), ![w[2]] = Append(@, w[1])]
                ELSE cut

(* Any button that is released ends the drag.                              *)
ReleaseButton(p, left) ==
  /\ left => held
  /\ held' = (held /\ ~left)
  /\ IF mode = "port" THEN ReleasePort(p) ELSE UNCHANGED wires
  /\ stale' = IF mode = "port" /\ selectedWire \in Cuts(p) THEN stale \cup {"wire"} ELSE stale
  /\ AbortDrag
  /\ UNCHANGED <<present, draggedNode, selectedNode, selectedWire, freed>>

-----------------------------------------------------------------------------
(* The keys                                                                *)

(* Delete: the connection that is selected.  What the last move showed     *)
(* does not count any more.                                                *)
DeleteWire ==
  /\ selectedWire # Nothing
  /\ wires' = Cut({selectedWire})
  /\ stale' = (IF mode = "port" /\ selectedWire \in Moved THEN stale \cup {"drag"} ELSE stale)
                \ {"wire"}
  /\ selectedWire' = Nothing
  /\ hover' = NoHover
  /\ UNCHANGED <<present, mode, held, draggedNode, dragged, selectedNode, freed>>

(* The connections that am_dfg_graph_remove_node finds, which misses every *)
(* other one of a port                                                     *)
Found(n) ==
  {w \in Wires : \E i \in PortIdx(TypeOf[n]) : \E k \in DOMAIN wires[<<n, i>>] :
     k % 2 = 1 /\ w = Sorted(<<n, i>>, wires[<<n, i>>][k])}

(* Or the node, which stays selected                                       *)
DeleteNode ==
  /\ selectedWire = Nothing
  /\ selectedNode # Nothing
  /\ IF selectedNode \in present
       THEN /\ wires' = Cut(Found(selectedNode))
            /\ freed' = (freed \/ \E w \in Wires \ Found(selectedNode) :
                                    selectedNode \in {w[1][1], w[2][1]})
       ELSE freed' = TRUE /\ UNCHANGED wires
  /\ present' = present \ {selectedNode}
  /\ stale' = stale \cup {"node"}
  /\ UNCHANGED <<mode, held, draggedNode, dragged, selectedNode, selectedWire, hover>>

-----------------------------------------------------------------------------
EditorInit ==
  /\ wires \in Wirings
  /\ present = EditorNodes
  /\ mode = "none"
  /\ held = FALSE
  /\ draggedNode = Nothing
  /\ dragged = NoDrag
  /\ selectedNode = Nothing
  /\ selectedWire = Nothing
  /\ hover = NoHover
  /\ stale = {}
  /\ freed = FALSE

(* Bound: what the program does with memory that was freed is left open.   *)
EditorNext ==
  /\ ~freed
  /\ \/ \E p \in PortsShown \cup {Nothing} : DragPort(p)
     \/ DragNode
     \/ \E n \in present : PressNode(n)
     \/ \E p \in PortsShown, shift \in BOOLEAN : PressPort(p, shift)
     \/ \E w \in Wires : PressWire(w)
     \/ PressBackground
     \/ PressRight
     \/ \E p \in PortsShown \cup {Nothing}, left \in BOOLEAN : ReleaseButton(p, left)
     \/ DeleteWire
     \/ DeleteNode

EditorSpec == EditorInit /\ [][EditorNext]_editorVars

-----------------------------------------------------------------------------
(* Properties                                                              *)

(* Types; both ends know of a connection, and an input has at most one.    *)
EditorTypeOK ==
  /\ \A p, q \in Port : Wired(p, q) => Wired(q, p)
  /\ \A p \in InPort : Len(wires[p]) <= 1
  /\ mode \in {"none", "navigate", "node", "port"}
  /\ mode = "port" => dragged.port # Nothing
  /\ stale \subseteq Left

(* No sequence of drags makes an acyclic graph cyclic or connects ports    *)
(* whose types do not fit.                                                 *)
StaysAcyclic ==
  [][~HasCycle(Wires) => ~HasCycle(Wires') /\ Wires' \ Wires \subseteq TypesFit]_wires

(* The editor keeps its word: a release over the port that the last move   *)
(* went over leaves both connected if the port was shown as fit, although  *)
(* the check then left out the connection that is moved and now does not;  *)
(* otherwise it changes nothing.  Graphs that are cyclic already, which a  *)
(* file may hold, are excepted.                                            *)
AsShown ==
  [][mode = "port" /\ hover.port # Nothing /\ ~HasCycle(Wires)
     /\ (\E left \in BOOLEAN : ReleaseButton(hover.port, left))
       => IF hover.fits THEN Sorted(dragged.port, hover.port) \in Wires'
          ELSE wires' = wires]_mode

Living(p) == p = Nothing \/ p[1] \in present

(* A drag of a port: the nodes of its port, of the far end of what it      *)
(* moves and of the port it was moved over are there, since no node can be *)
(* deleted meanwhile, and the connection that it moves is there, but for   *)
(* one that the key deleted (DFGWidget.cpp:815-819).                       *)
DragAlive ==
  mode = "port" =>
    /\ dragged.port[1] \in present
    /\ Living(dragged.disconnect) /\ Living(hover.port)
    /\ Moved \subseteq Wires <=> "drag" \notin stale

(* What is selected is there, but for a node that the key deleted, which   *)
(* stays selected (DFGWidget.cpp:820-824), and a connection that was       *)
(* dragged away.  The node that is dragged is the selected one.            *)
SelectionAlive ==
  /\ selectedNode # Nothing => (selectedNode \in present <=> "node" \notin stale)
  /\ selectedWire # Nothing =>
       /\ Living(selectedWire[1]) /\ Living(selectedWire[2])
       /\ selectedWire \in Wires \/ "wire" \in stale
  /\ mode = "node" => draggedNode = selectedNode

(* A deleted node is reached through the selection and, when it has left   *)
(* connections behind, through these, and in no other way.                 *)
GraphAlive ==
  IF freed THEN selectedNode # Nothing /\ selectedNode \notin present
  ELSE \A w \in Wires : Living(w[1]) /\ Living(w[2])

(* Of what the editor remembers between two events of the mouse - hovered, *)
(* selected, dragged - exactly three references can be left behind by a    *)
(* deletion: the selected node, also while it is dragged, the selected     *)
(* connection and the connection that is moved; everything else is there   *)
(* whatever was deleted in between.                                        *)
ReferencesLive == EditorTypeOK /\ DragAlive /\ SelectionAlive /\ GraphAlive

(* Releasing the button does what the editor has shown while dragging, and *)
(* never closes a cycle.                                                   *)
ReleaseRight == StaysAcyclic /\ AsShown
=============================================================================
