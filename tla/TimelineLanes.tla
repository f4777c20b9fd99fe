--------------------------- MODULE TimelineLanes ----------------------------
(***************************************************************************)
(* The lanes of a timeline (libaftermath-render, timeline/renderer.c and   *)
(* timeline/layers/hierarchy.c).                                           *)
(*                                                                         *)
(* A timeline shows a hierarchy: every leaf has a lane, a node with        *)
(* children shares the lane of its first child, and a collapsed node has   *)
(* one lane for everything below it.  The lanes are scrolled by pixels.    *)
(* The renderer does not keep the lanes; it keeps how many of them are     *)
(* above the top and how many are visible, and the first node on the first *)
(* visible lane with the node's index, from which it walks down and up the *)
(* hierarchy whenever it draws or looks for what is under the cursor.      *)
(*                                                                         *)
(* Lengths are in units of half a pixel, as the lanes begin at .5 pixels;  *)
(* this stands for the doubles of the code.  The lane mode is the one that *)
(* am_timeline_renderer_init sets, since nothing calls set_lane_mode.      *)
(***************************************************************************)
EXTENDS Integers, Sequences, SequencesExt, FiniteSets

CONSTANTS
  Trees,        \* the hierarchies: the depths of the nodes in preorder, the
                \* root, which is node 0, first; <<>> is none
  Heights,      \* heights of the timeline, multiples of a pixel, in units
  LaneHeights,  \* heights of a lane, in units
  Offsets,      \* lane offsets that are asked for, in units
  XDesc         \* the initial height of the legend below the lanes, in units

VARIABLE view

Pixel == 2
LanesTop == 1  \* half a pixel
NoNode == -1

ASSUME LanesAssumption ==
  /\ Heights \subseteq Nat /\ LaneHeights \subseteq Nat \ {0} /\ Offsets \subseteq Int
  /\ XDesc \in Nat \ {0}
  /\ \A t \in Trees : \A i \in DOMAIN t :
       IF i = 1 THEN t[i] = 0 ELSE t[i] \in 1 .. t[i - 1] + 1

(***************************************************************************)
(* The hierarchy                                                           *)
(***************************************************************************)
Nodes(t) == 0 .. Len(t) - 1
Depth(t, n) == t[n + 1]
Below(t, n) ==
  {m \in Nodes(t) : m > n /\ \A k \in n + 1 .. m : Depth(t, k) > Depth(t, n)}
NumDescendants(t, n) == Cardinality(Below(t, n))
Children(t, n) ==
  SetToSortSeq({m \in Below(t, n) : Depth(t, m) = Depth(t, n) + 1}, <)
Parent(t, n) ==
  IF n = 0 THEN NoNode ELSE Max({p \in Nodes(t) : n \in Below(t, p)})
Siblings(t, n) == Range(Children(t, Parent(t, n)))
IsFirstChild(t, p, n) == Head(Children(t, p)) = n

HasChildren(v, n) == Below(v.tree, n) # {}

(* am_timeline_renderer_is_leaf_lane; the bits belong to indices.          *)
IsLeafLane(v, n, idx) == ~HasChildren(v, n) \/ idx \in v.collapsed

(***************************************************************************)
(* The first visible lane                                                  *)
(***************************************************************************)
RECURSIVE FindFirst(_, _, _, _), FindFirstAmong(_, _, _, _)
FindFirst(v, n, idx, lane) ==
  LET next == IF IsLeafLane(v, n, idx) THEN lane + 1 ELSE lane
  IN  IF lane >= v.invisible
        THEN [node |-> n, index |-> idx, lane |-> lane]
      ELSE IF idx \in v.collapsed
        THEN [node |-> NoNode, index |-> 0, lane |-> next]
      ELSE FindFirstAmong(v, Children(v.tree, n), idx, next)

(* The children of a node, from the first of a sequence; idx is the index  *)
(* of the node before it in preorder.                                      *)
FindFirstAmong(v, children, idx, lane) ==
  IF children = <<>>
    THEN [node |-> NoNode, index |-> 0, lane |-> lane]
    ELSE LET r == FindFirst(v, Head(children), idx + 1, lane)
         IN  IF r.node # NoNode
               THEN r
               ELSE FindFirstAmong(v, Tail(children),
                                                   idx + NumDescendants(v.tree, Head(children)) + 1, r.lane)

(* Mutant: the first lane is looked for only when there is none.           *)
UpdateFirstLaneOnce(v) ==
  IF v.first.node # NoNode /\ v.tree # <<>> THEN v
  ELSE IF v.tree = <<>> THEN [v EXCEPT !.first.node = NoNode]
  ELSE LET r == FindFirst(v, 0, 0, 0)
       IN  [v EXCEPT !.first = [node |-> r.node,
                                index |-> IF r.node = NoNode THEN @.index ELSE r.index]]
UpdateFirstLane(v) ==
  IF v.tree = <<>> THEN [v EXCEPT !.first.node = NoNode]
  ELSE LET r == FindFirst(v, 0, 0, 0)
       IN  [v EXCEPT !.first = [node |-> r.node,
                                index |-> IF r.node = NoNode THEN @.index ELSE r.index]]

(***************************************************************************)
(* The number of visible lanes                                             *)
(***************************************************************************)
RECURSIVE CountLanes(_, _, _, _), CountLanesAmong(_, _, _, _)
CountLanes(v, n, idx, lane) ==
  LET next == IF IsLeafLane(v, n, idx) THEN lane + 1 ELSE lane
  IN  IF idx \in v.collapsed THEN next
      ELSE CountLanesAmong(v, Children(v.tree, n), idx, next)
CountLanesAmong(v, children, idx, lane) ==
  IF children = <<>> \/ lane >= v.invisible + v.max THEN lane
  ELSE CountLanesAmong(v, Tail(children), idx + NumDescendants(v.tree, Head(children)) + 1,
                       CountLanes(v, Head(children), idx + 1, lane))

(* Mutant: lanes above the top are counted below zero.                     *)
LanesLeftUnchecked(count, inv) == count - inv
LanesLeft(count, inv) == IF count >= inv THEN count - inv ELSE 0

(* AM_DIV_ROUND_UP, made for integers, with lengths: the quotient is       *)
(* rounded up unless its fraction is less than a pixel.                    *)
(* Mutant: the quotient is rounded down.                                   *)
RoundDown(length, laneHeight) == length \div laneHeight
DivRoundUp(length, laneHeight) == (length + laneHeight - Pixel) \div laneHeight

UpdateNumVisible(v) ==
  LET inv == v.offset \div v.laneHeight
      top == (inv + 1) * v.laneHeight - v.offset
      w == [v EXCEPT !.invisible = inv,
                     !.max = DivRoundUp(v.height - top, v.laneHeight) + 1]
      count == IF v.tree = <<>> THEN 0 ELSE CountLanes(w, 0, 0, 0)
  IN  [w EXCEPT !.visible = LanesLeft(count, inv)]

(***************************************************************************)
(* The walks over what is visible.  The lane layers visit the nodes that   *)
(* have a lane (am_timeline_renderer_foreach_visible_lane), the hierarchy  *)
(* layer visits every node (foreach_visible); otherwise they are the same. *)
(***************************************************************************)
Visit(n, idx, lane) == [node |-> n, index |-> idx, lane |-> lane]

RECURSIVE WalkDown(_, _, _, _, _), WalkDownAmong(_, _, _, _, _)
WalkDown(v, every, n, idx, lane) ==
  IF lane > v.visible THEN [lane |-> lane, visits |-> <<>>]
  ELSE LET leaf == IsLeafLane(v, n, idx)
           own == IF every \/ leaf THEN <<Visit(n, idx, lane)>> ELSE <<>>
           rest == IF idx \in v.collapsed
                     THEN [lane |-> lane, visits |-> <<>>]
                     ELSE WalkDownAmong(v, every, Children(v.tree, n), idx + 1, lane)
       IN  [lane |-> IF leaf THEN rest.lane + 1 ELSE rest.lane,
            visits |-> own \o rest.visits]
WalkDownAmong(v, every, children, idx, lane) ==
  IF children = <<>> THEN [lane |-> lane, visits |-> <<>>]
  ELSE LET one == WalkDown(v, every, Head(children), idx, lane)
           others == WalkDownAmong(v, every, Tail(children),
                                   idx + NumDescendants(v.tree, Head(children)) + 1, one.lane)
       IN  [lane |-> others.lane, visits |-> one.visits \o others.visits]

(* The index of the parent: one less, and less the subtrees of the         *)
(* siblings before the node.                                               *)
(* Mutant: the subtrees are counted without their roots.                   *)
ParentIndexWithoutRoots(v, n, idx) ==
  idx - 1 - MapThenSumSet(LAMBDA s : NumDescendants(v.tree, s),
                          {s \in Siblings(v.tree, n) : s < n})
ParentIndex(v, n, idx) ==
  idx - 1 - MapThenSumSet(LAMBDA s : NumDescendants(v.tree, s) + 1,
                          {s \in Siblings(v.tree, n) : s < n})

(* Visits node n, if it is on the first lane, the children of n after the  *)
(* child the walk comes from, and goes on with the parent.                 *)
RECURSIVE WalkUp(_, _, _, _, _, _, _, _)
WalkUp(v, every, n, idx, child, childIdx, lane, onFirst) ==
  LET leaf == IsLeafLane(v, n, idx)
      own == IF onFirst /\ (every \/ (leaf /\ child = NoNode))
               THEN <<Visit(n, idx, lane)>> ELSE <<>>
      next == IF onFirst /\ leaf THEN lane + 1 ELSE lane
      later == SelectSeq(Children(v.tree, n), LAMBDA c : c > child)
      from == IF child = NoNode THEN idx + 1
              ELSE childIdx + NumDescendants(v.tree, child) + 1
      rest == IF next <= v.visible /\ idx \notin v.collapsed
                THEN WalkDownAmong(v, every, later, from, next)
                ELSE [lane |-> next, visits |-> <<>>]
      parent == Parent(v.tree, n)
  IN  own \o rest.visits \o
        IF parent = NoNode THEN <<>>
        ELSE WalkUp(v, every, parent, ParentIndex(v, n, idx), n, idx, rest.lane,
                    onFirst /\ IsFirstChild(v.tree, parent, n))

Visits(v, every) ==
  IF v.first.node = NoNode THEN <<>>
  ELSE WalkUp(v, every, v.first.node, v.first.index, NoNode, 0, 0, TRUE)
VisibleLanes(v) == Visits(v, FALSE)
VisibleNodes(v) == Visits(v, TRUE)

(* am_timeline_renderer_lane_at_y: the lane at y, in units, or NoLane      *)
NoLane == -1
LaneAtY(v, y) ==
  LET absY == y - LanesTop + v.offset
      lane == absY \div v.laneHeight - v.invisible
  IN  IF absY < 0 \/ lane < 0 \/ lane >= v.visible THEN NoLane ELSE lane

(* am_timeline_renderer_hierarchy_node_at_y stops at the first match.      *)
NodeAtY(v, y) ==
  LET lane == LaneAtY(v, y)
      hits == {i \in DOMAIN VisibleLanes(v) : VisibleLanes(v)[i].lane = lane}
  IN  IF lane = NoLane \/ hits = {} THEN NoNode ELSE VisibleLanes(v)[Min(hits)].node

(***************************************************************************)
(* The operations                                                          *)
(***************************************************************************)
SetHierarchy(t) ==
  view' = UpdateFirstLane(UpdateNumVisible([view EXCEPT !.tree = t, !.collapsed = {}]))

(* Resizing the widget; the rectangles follow.                             *)
LanesBottom(height, xdesc) == LanesTop + (IF height > xdesc THEN height - xdesc ELSE 0)
SetHeight(h) ==
  view' = UpdateNumVisible([view EXCEPT !.height = h, !.bottom = LanesBottom(h, view.xdesc)])

(* Dragging the horizontal axis to y, at least a pixel from either end     *)
SetHorizontalAxisY(y) ==
  LET at == IF y < Pixel THEN Pixel ELSE IF y > view.height - Pixel THEN view.height - Pixel ELSE y
  IN  /\ view.height > 0
      /\ view' = UpdateNumVisible([view EXCEPT !.bottom = at, !.xdesc = view.height - at])

(* am_timeline_renderer_set_lane_offset                                    *)
WithOffset(v, o) ==
  UpdateFirstLane(UpdateNumVisible([v EXCEPT !.offset = IF o < 0 THEN 0 ELSE o]))

(* The wheel over the hierarchy: scrolls, or changes the height of the     *)
(* lanes and scrolls such that the lane under the cursor stays.            *)
Scroll(o) == view' = WithOffset(view, o)
ZoomLanes(h, o) ==
  view' = WithOffset(UpdateFirstLane(UpdateNumVisible([view EXCEPT !.laneHeight = h])), o)

(* A click on the circle of a node that has children                       *)
Toggle ==
  \E i \in DOMAIN VisibleNodes(view) :
    LET button == VisibleNodes(view)[i]
        bit == {button.index}
    IN  /\ HasChildren(view, button.node)
        /\ view' = UpdateNumVisible([view EXCEPT !.collapsed = (@ \ bit) \cup (bit \ @)])

LanesInit ==
  view = [tree |-> <<>>, collapsed |-> {}, laneHeight |-> 50 * Pixel, offset |-> 0,
          height |-> 0, bottom |-> LanesTop, xdesc |-> XDesc,
          invisible |-> 0, max |-> 0, visible |-> 0,
          first |-> [node |-> NoNode, index |-> 0]]

LanesNext ==
  \/ \E t \in Trees : SetHierarchy(t)
  \/ \E h \in Heights : SetHeight(h)
  \/ \E y \in Heights : SetHorizontalAxisY(y)
  \/ \E o \in Offsets : Scroll(o)
  \/ \E h \in LaneHeights, o \in Offsets : ZoomLanes(h, o)
  \/ Toggle

LanesSpec == LanesInit /\ [][LanesNext]_view

-----------------------------------------------------------------------------
(***************************************************************************)
(* Properties, against the sequence of lanes itself                        *)
(***************************************************************************)
Shown == {n \in Nodes(view.tree) : \A a \in view.collapsed : n \notin Below(view.tree, a)}
LanesOf == SetToSortSeq({n \in Shown : ~HasChildren(view, n) \/ n \in view.collapsed}, <)
LaneOf(n) == Cardinality({i \in DOMAIN LanesOf : LanesOf[i] < n})

(* Type correctness; nothing is counted below zero.                        *)
LanesTypeOK ==
  /\ view.collapsed \subseteq Nodes(view.tree)
  /\ view.first.node \in Nodes(view.tree) \cup {NoNode}
  /\ \A c \in {view.max, view.visible, view.invisible, view.offset} : c \in Nat
  /\ \A c \in {view.height, view.bottom, view.xdesc} : c \in Int

(* The first visible lane and the index of its node are right at any time, *)
(* although neither toggle_node_idx nor set_height looks for them anew:    *)
(* only nodes from the first visible lane on can be clicked.               *)
FirstLaneRight ==
  LET there == {n \in Shown : LaneOf(n) >= view.invisible}
  IN  /\ view.first.node = IF there = {} THEN NoNode ELSE Min(there)
      /\ view.first.node # NoNode => view.first.index = view.first.node

(* The node found under the cursor is the one whose lane is there          *)
(* (am_timeline_renderer_hierarchy_node_at_y), at every pixel of the       *)
(* lanes, and none is found below the last lane.                           *)
NodeUnderCursor ==
  \A y \in {p * Pixel : p \in 1 .. view.height \div Pixel} : LanesTop <= y /\ y < view.bottom =>
    LET lane == (y - LanesTop + view.offset) \div view.laneHeight
    IN  NodeAtY(view, y) = IF lane < Len(LanesOf) THEN LanesOf[lane + 1] ELSE NoNode

(* The hierarchy layer draws exactly the nodes whose lane is visible, each *)
(* once, with its index, on its lane (foreach_visible); one more lane may  *)
(* be drawn at the bottom.                                                 *)
NodesDrawn ==
  LET drawn == VisibleNodes(view)
      must == {n \in Shown : LaneOf(n) \in view.invisible .. view.invisible + view.visible - 1}
  IN  /\ must \subseteq {drawn[i].node : i \in DOMAIN drawn}
      /\ IsInjective([i \in DOMAIN drawn |-> drawn[i].node])
      /\ \A i \in DOMAIN drawn :
           /\ drawn[i].node \in Shown
           /\ drawn[i].index = drawn[i].node
           /\ drawn[i].lane = LaneOf(drawn[i].node) - view.invisible

(* What is drawn in a lane, what is found under the cursor and the lane    *)
(* that is kept as the first one agree with each other after any sequence  *)
(* of scrolling, collapsing and resizing.                                  *)
LanesRight == LanesTypeOK /\ FirstLaneRight /\ NodeUnderCursor /\ NodesDrawn
=============================================================================
