----------------------------- MODULE MCTimeline ------------------------------
(***************************************************************************)
(* The parts of a timeline on small instances: its lanes, its selections,  *)
(* the layer that draws stack frames and those that draw events.  They     *)
(* share no state, so each runs by itself while the others stay as they    *)
(* are initially.                                                          *)
(***************************************************************************)
EXTENDS TimelineLanes, TimelineSelections, FrameLayer, EventLayers

VARIABLE part  \* the part that runs

timelineVars == <<part, view, selectionVars, frameVars, layerVars>>

(* Hierarchies of up to four nodes, and some of five: the depths of the    *)
(* nodes in preorder                                                       *)
MCTrees ==
  {<<>>, <<0>>, <<0, 1>>, <<0, 1, 1>>, <<0, 1, 2>>, <<0, 1, 1, 2>>, <<0, 1, 2, 1>>,
   <<0, 1, 2, 2, 1>>, <<0, 1, 2, 1, 2>>}
MCHeights == {2, 4, 8, 14}
MCLaneHeights == {3, 4}
MCOffsets == {-1, 0, 2, 5, 9}

(* A frame with two frames above it, which take each other's place, and a  *)
(* frame of a function that is not shown, with one above it                *)
Frame(p, f, d) == [parent |-> p, function |-> f, depth |-> d]
Period(s, e, f) == [start |-> s, end |-> e, frame |-> f]
MCTraces == {
  [frames |-> <<Frame(0, 1, 1), Frame(1, 2, 2), Frame(1, 2, 2)>>,
   periods |-> <<<<Period(0, 1, 1), Period(2, 2, 3), Period(3, 3, 2)>>, <<Period(1, 3, 2)>>>>],
  [frames |-> <<Frame(0, 3, 1), Frame(1, 2, 2)>>,
   periods |-> <<<<Period(0, 1, 2), Period(4, 5, 2)>>, <<Period(3, 5, 1)>>>>] }

(* Three traces for the layers of events: one whose arrays have two        *)
(* elements, one with three, and one with hardly any arrays but with more  *)
(* instances of loops than there are colors                                *)
Sizes(loops, instances, sets, tasks, nodes, descriptions) ==
  [for_loop_type |-> loops, for_loop_instance |-> instances, iteration_set |-> sets,
   task_type |-> tasks, task_instance |-> tasks, node |-> nodes,
   state_description |-> descriptions]
Event(s, e, k) ==
  [start |-> s, end |-> e, at |-> s, state |-> k - 1,
   of |-> [x \in {"for_loop_type", "for_loop_instance", "iteration_set", "task_type",
                  "task_instance", "node"} |-> k]]
AllEvents(c) == [type \in {LayerTypes[x].events : x \in DOMAIN LayerTypes} |-> c]
MCEventTraces == <<
  [sizes |-> Sizes(2, 2, 2, 2, 2, 2),
   events |-> AllEvents(<<<<Event(0, 1, 1), Event(2, 3, 2), Event(5, 5, 1)>>, <<Event(4, 6, 2)>>>>)],
  [sizes |-> Sizes(3, 3, 3, 3, 3, 3),
   events |-> AllEvents(<<<<Event(0, 0, 3), Event(1, 3, 1), Event(4, 4, 2)>>>>)],
  [sizes |-> Sizes(0, 9, 2, 0, 0, 0),
   events |-> AllEvents(<<<<Event(0, 3, 1), Event(5, 5, 2)>>>>)] >>
MCWanted ==
  {<<x>> : x \in DOMAIN LayerTypes}
  \cup {<<"iteration_period", "state">>, <<"node_execution", "iteration_set">>,
        <<"iteration_period", "iteration_period">>}

TimelineInit ==
  /\ part \in {"lanes", "selections", "frames", "layers"}
  /\ LanesInit /\ SelectionsInit /\ FrameInit /\ LayersInit
  /\ part # "frames" => trace = CHOOSE t \in MCTraces : TRUE
  /\ part # "layers" => pending = <<"thread">> /\ duration = 6

TimelineNext ==
  \/ part = "lanes" /\ LanesNext /\ UNCHANGED <<part, selectionVars, frameVars, layerVars>>
  \/ part = "selections" /\ SelectionsNext /\ UNCHANGED <<part, view, frameVars, layerVars>>
  \/ part = "frames" /\ FrameNext /\ UNCHANGED <<part, view, selectionVars, layerVars>>
  \/ part = "layers" /\ LayersNext /\ UNCHANGED <<part, view, selectionVars, frameVars>>

TimelineSpec == TimelineInit /\ [][TimelineNext]_timelineVars
=============================================================================
