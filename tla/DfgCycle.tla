------------------------------ MODULE DfgCycle ------------------------------
(***************************************************************************)
(* The cycle check of the graph editor (am_dfg_graph_has_cycle).           *)
(*                                                                         *)
(* While a connection is dragged, the editor asks whether the graph would  *)
(* be cyclic with an extra connection and without the one that is moved.   *)
(* A depth-first search from the roots marks the nodes of its path and     *)
(* the nodes from which it found no cycle.  When it meets a node of its    *)
(* path it returns, and on the way back the connections of the cycle are   *)
(* collected for display, the last one first.  The recursion is a stack of *)
(* frames here, one per node of the path, whose first connection left is   *)
(* the one that is being followed.                                         *)
(***************************************************************************)
EXTENDS DfgPorts, FiniteSets, SequencesExt

CONSTANTS
  Order,    \* the nodes of the graph by id
  Checks    \* [links, extra, ignore]: the calls; see CheckAssumption

VARIABLES
  check,    \* the arguments of the call
  marking,  \* marking of each node
  waiting,  \* nodes that the loop over the roots has left
  path,     \* frames of the recursion, the innermost first
  found,    \* the recursion is returning 1
  cycle,    \* the connections of the cycle collected so far
  open,     \* *add_to_cycle
  returned    \* "none" until the call returns "acyclic" (0) or "cycle" (1)

cycleVars == <<check, marking, waiting, path, found, cycle, open, returned>>

(* A connection is a pair of an output and an input port.                  *)
Connection == OutPort \X InPort

ASSUME CheckAssumption ==
  /\ Order \in Seq(Node)
  /\ \A n \in Node : \E k \in DOMAIN Order : Order[k] = n
  /\ \A c \in Checks : /\ c.links \in [Port -> Seq(Port)]
                       /\ \A p \in OutPort : c.links[p] \in Seq(InPort)
                       /\ \A p \in InPort : Len(c.links[p]) <= 1
                       /\ c.extra \in Connection
                       /\ c.ignore \subseteq Connection
                       /\ \A e \in c.ignore : c.links[e[2]] \in {<<>>, <<e[1]>>}

links == check.links
extra == check.extra
ignore == check.ignore

-----------------------------------------------------------------------------
(* What the search follows                                                 *)

(* The connections of output port i of node n, none for an input port      *)
Existing(n, i) ==
  IF i \in InPorts(TypeOf[n]) THEN <<>>
  ELSE [k \in DOMAIN links[<<n, i>>] |-> <<<<n, i>>, links[<<n, i>>][k]>>]

Actual(n) == FlattenSeq([i \in PortIdx(TypeOf[n]) |-> Existing(n, i)])

(* Mutants: the dragged connection still counts, the new one does not.     *)
OutgoingAll(n) ==
  (IF extra[1][1] = n THEN <<extra>> ELSE <<>>) \o Actual(n)
OutgoingActual(n) == Remaining(Actual(n), ignore)

(* The extra connection first, then the actual ones unless ignored         *)
Outgoing(n) ==
  (IF extra[1][1] = n THEN <<extra>> ELSE <<>>)
    \o Remaining(Actual(n), ignore)

(* Mutant, the comment of am_dfg_node_is_root_ign: "a node that does not   *)
(* have any incoming connection besides the connection indicated by        *)
(* ignore_src and ignore_dst"                                              *)
IsRootAsDocumented(n) ==
  \A i \in InPorts(TypeOf[n]) :
    \A k \in DOMAIN links[<<n, i>>] : <<links[<<n, i>>][k], <<n, i>>>> \in ignore

(* am_dfg_node_is_root_ign: unlike its comment says, a single connection   *)
(* only counts at ignore_dst, so that the search starts at all nodes.      *)
IsRootIgn(n) ==
  \A p \in {<<n, i>> : i \in InPorts(TypeOf[n])} :
    /\ Len(links[p]) <= 1
    /\ Len(links[p]) = 1 /\ p \in {e[2] : e \in ignore} =>
         <<links[p][1], p>> \in ignore

-----------------------------------------------------------------------------
(* The search                                                              *)

Searching == returned = "none" /\ ~ found

Top == Head(path)
Followed == Head(Top.left)   \* the connection that is followed
Target == Followed[2][1]     \* and the node it leads to

Pushed(n) == <<[node |-> n, left |-> Outgoing(n)]>> \o path

(* Mutants: the search stays at a connection; a node stays marked.         *)
Stay(frames) == frames
KeepMarked(n) == marking

(* The frames after the followed connection was found not to lead to a     *)
(* cycle; there are none when a root was left.                             *)
Advanced(frames) ==
  IF frames = <<>> THEN <<>>
  ELSE <<[Head(frames) EXCEPT !.left = Tail(@)]>> \o Tail(frames)

Visited(n) == [marking EXCEPT ![n] = "visited"]

Enter(n) ==
  /\ marking' = [marking EXCEPT ![n] = "marked"]
  /\ path' = Pushed(n)

(* The loop over the roots comes to its next node.                         *)
CheckRoot ==
  /\ Searching
  /\ path = <<>> /\ waiting # <<>>
  /\ waiting' = Tail(waiting)
  /\ IF IsRootIgn(Head(waiting)) /\ marking[Head(waiting)] = "unmarked"
       THEN Enter(Head(waiting))
       ELSE UNCHANGED <<marking, path>>
  /\ UNCHANGED <<check, found, cycle, open, returned>>

Following == Searching /\ path # <<>> /\ Top.left # <<>>

Descend ==
  /\ Following
  /\ marking[Target] = "unmarked"
  /\ Enter(Target)
  /\ UNCHANGED <<check, waiting, found, cycle, open, returned>>

(* "Already checked, prune this subgraph"                                  *)
Prune ==
  /\ Following
  /\ marking[Target] = "visited"
  /\ path' = Advanced(path)
  /\ UNCHANGED <<check, marking, waiting, found, cycle, open, returned>>

(* A node of the path is met.                                              *)
Meet ==
  /\ Following
  /\ marking[Target] = "marked"
  /\ found' = TRUE
  /\ UNCHANGED <<check, marking, waiting, path, cycle, open, returned>>

Leave ==
  /\ Searching /\ path # <<>> /\ Top.left = <<>>
  /\ marking' = Visited(Top.node)
  /\ path' = Advanced(Tail(path))
  /\ UNCHANGED <<check, waiting, found, cycle, open, returned>>

(* am_dfg_revpath_ends_closed                                              *)
EndsClosed(legs) == Head(legs)[2][1] = Last(legs)[1][1]

(* A call of the recursion returns 1 and adds its connection to the cycle  *)
(* unless the cycle is complete.                                           *)
Unwind ==
  /\ found /\ path # <<>>
  /\ IF open
       THEN /\ cycle' = Append(cycle, Followed)
            /\ open' = ~ EndsClosed(cycle')
       ELSE UNCHANGED <<cycle, open>>
  /\ path' = Tail(path)
  /\ UNCHANGED <<check, marking, waiting, found, returned>>

Return(r) ==
  /\ returned = "none" /\ path = <<>>
  /\ returned' = r
  /\ UNCHANGED <<check, marking, waiting, path, found, cycle, open>>

ReturnFound == found /\ Return("cycle")

(* "Unmarked nodes belong to cycles that do not have any entry point."     *)
ReturnUnfound ==
  /\ ~ found /\ waiting = <<>>
  /\ Return(IF \E n \in Node : marking[n] = "unmarked" THEN "cycle" ELSE "acyclic")

-----------------------------------------------------------------------------
(* Specification                                                           *)

CycleInit ==
  /\ check \in Checks
  /\ marking = [n \in Node |-> "unmarked"]
  /\ waiting = Order
  /\ path = <<>>
  /\ found = FALSE
  /\ cycle = <<>>
  /\ open = TRUE
  /\ returned = "none"

CycleNext ==
  \/ CheckRoot \/ Descend \/ Prune \/ Meet \/ Leave
  \/ Unwind \/ ReturnFound \/ ReturnUnfound

CycleSpec == CycleInit /\ [][CycleNext]_cycleVars

FairCycleSpec == CycleSpec /\ WF_cycleVars(CycleNext)

-----------------------------------------------------------------------------
(* Properties                                                              *)

(* The graph as it would be, independently of how the search visits it     *)
Legs ==
  ((UNION {{<<p, links[p][k]>> : k \in DOMAIN links[p]} : p \in OutPort}) \ ignore)
    \cup {extra}

Altered ==
  [p \in Port |-> IF p \notin OutPort THEN <<>>
                  ELSE SetToSeq({e[2] : e \in {f \in Legs : f[1] = p}})]

(* The search finds a cycle if and only if the graph with the extra        *)
(* connection and without the ignored one has one.                         *)
Decided ==
  returned # "none" =>
    (returned = "cycle"
       <=> \E e \in Legs : e[1][1] \in Downstream(Altered, e[2][1]))

(* "If a cycle is detected, the connections of the detected cycle will     *)
(* also be returned in reverse order", and nothing but the cycle.          *)
CycleReturned ==
  returned = "cycle" =>
    /\ cycle # <<>>
    /\ Range(cycle) \subseteq Legs
    /\ EndsClosed(cycle)
    /\ \A k \in 1 .. Len(cycle) - 1 : cycle[k][1][1] = cycle[k + 1][2][1]
    /\ \A j, k \in DOMAIN cycle : cycle[j][2][1] = cycle[k][2][1] => j = k

(* Only what was searched to the end is pruned: everything that is reached *)
(* from a visited node is visited too.                                     *)
VisitedSafe ==
  \A e \in Legs : marking[e[1][1]] = "visited" => marking[e[2][1]] = "visited"

(* "All nodes marked, but not visited are on the current path, so this     *)
(* must be a cycle": each once, and the path follows connections.          *)
MarkedOnPath ==
  ~ found =>
    /\ {n \in Node : marking[n] = "marked"} = {path[k].node : k \in DOMAIN path}
    /\ \A j, k \in DOMAIN path : path[j].node = path[k].node => j = k
    /\ \A k \in 2 .. Len(path) :
         path[k].left # <<>> /\ Head(path[k].left)[2][1] = path[k - 1].node

(* A search that has begun comes to an end, in graphs with cycles too.     *)
Ends == waiting # Order ~> returned # "none"

(* The search of am_dfg_graph_has_cycle is right, and for the reason that  *)
(* its comments give: its verdict, the connections it returns, what it may *)
(* leave out when it meets a node again, and its marks.                    *)
SearchRight == Decided /\ CycleReturned /\ VisitedSafe /\ MarkedOnPath
=============================================================================
