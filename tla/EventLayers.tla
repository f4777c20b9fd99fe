----------------------------- MODULE EventLayers -----------------------------
(***************************************************************************)
(* The layers of a timeline that draw events (libaftermath-render,         *)
(* timeline/layers; the nodes in dfg/nodes/timeline/layers).               *)
(*                                                                         *)
(* Each type of layer names the events it draws and how an event becomes   *)
(* an index: the position of something in an array of the trace, a member  *)
(* of the event, a constant.  A layer adds up, for every pixel, the time   *)
(* (or the number of events) of each index in an array with max + 1        *)
(* entries, and takes the index with the most.  The array and the place of *)
(* the trace's array are set when the trace changes, and used when the     *)
(* layer is drawn and when a node asks for the index under the cursor.     *)
(*                                                                         *)
(* Timestamps are counted from the first visible one.  Stack frames are    *)
(* the subject of FrameLayer.                                              *)
(***************************************************************************)
EXTENDS Integers, Sequences, FiniteSets, SequencesExt

CONSTANTS
  EventTraces, \* a sequence of traces: sizes, how many elements an array
               \* has (0: there is none), and events, for a type of event
               \* the events of each collection of the node, in order
  Wanted,      \* sequences of types: the layers that are added in turn
  Palette,     \* the number of colors of static_colors
  WorkColor,   \* the color the indexer has given to identifier 0
  Pixels,      \* the width of the lanes
  Durations    \* the durations of the visible interval

VARIABLES
  duration,    \* of the visible interval
  pending,     \* the types of the layers still to add
  layers,      \* [type, enabled, colored, max (-1 before it is set),
               \* extra (<<>> is NULL, <<trace, array>>)]
  shown,       \* the trace that is shown, 0 is NULL
  alternation, \* the static variables of the iteration periods: [count, prior]
  lanes,       \* for each layer, the index at each pixel (-1: nothing) when last drawn
  hovered,     \* the result of the last search: an index, Nothing or Failed
  broken       \* something was read or written outside of an array

layerVars == <<duration, pending, layers, shown, alternation, lanes, hovered, broken>>

ASSUME EventLayersAssumption ==
  /\ Palette \in Nat /\ Palette >= 8 /\ WorkColor \in 1 .. Palette - 1
  /\ Pixels \in Nat \ {0} /\ Durations \subseteq Nat \ {0}

(***************************************************************************)
(* The types of layers.  element is the structure whose size and offsets   *)
(* are used to go through the events.                                      *)
(***************************************************************************)
IntervalLayer(events, kind, of) ==
  [shape |-> "interval", events |-> events, element |-> events, kind |-> kind, of |-> of]
DiscreteLayer(events) ==
  [shape |-> "discrete", events |-> events, element |-> events, kind |-> "constant", of |-> 1]
Region(events, index) == IntervalLayer(events, "constant", index)

LoopLayers ==
  [for_loop_type |-> IntervalLayer("iteration_period", "position", "for_loop_type"),
   for_loop_instance |-> IntervalLayer("iteration_period", "position", "for_loop_instance"),
   iteration_set |-> IntervalLayer("iteration_period", "position", "iteration_set")]
IterationLayer == [iteration_period |-> IntervalLayer("iteration_period", "alternating", 4)]
TaskLayers ==
  [task_type |-> [IntervalLayer("task_period", "position", "task_type")
                    EXCEPT !.element = "iteration_period"],
   task_instance |-> IntervalLayer("task_period", "position", "task_instance")]
TaskPeriodLayer == [task_period |-> IntervalLayer("task_period", "address", "task_instance")]
ThreadLayers == [thread |-> Region("thread", 0), parallel |-> Region("parallel", 1)]
TaskEventLayers ==
  [task_create |-> DiscreteLayer("task_create"), task_schedule |-> DiscreteLayer("task_schedule")]
WaitLayers ==
  [implicit_task |-> Region("implicit_task", 2), sync_region_wait |-> Region("sync_region_wait", 3)]
DependenceLayers ==
  [mutex_released |-> DiscreteLayer("mutex_released"), dependences |-> DiscreteLayer("dependences")]
WorkLayers ==
  [task_dependence |-> DiscreteLayer("task_dependence"), work |-> IntervalLayer("work", "indexer", 0)]
MasterLayers == [master |-> Region("master", 5), sync_region |-> Region("sync_region", 6)]
LockLayers ==
  [lock_init |-> DiscreteLayer("lock_init"), lock_destroy |-> DiscreteLayer("lock_destroy")]
MutexLayers ==
  [mutex_acquire |-> DiscreteLayer("mutex_acquire"), mutex_acquired |-> DiscreteLayer("mutex_acquired")]
LastLayers ==
  [nest_lock |-> Region("nest_lock", 7), flush |-> DiscreteLayer("flush"), cancel |-> DiscreteLayer("cancel")]
StateLayer == [state |-> IntervalLayer("state_event", "member", "state_description")]
NodeLayer == [node_execution |-> IntervalLayer("node_execution", "position", "node")]

LayerTypes ==
  LoopLayers @@ IterationLayer @@ TaskLayers @@ TaskPeriodLayer @@ ThreadLayers
  @@ TaskEventLayers @@ WaitLayers @@ DependenceLayers @@ WorkLayers @@ MasterLayers
  @@ LockLayers @@ MutexLayers @@ LastLayers @@ StateLayer @@ NodeLayer
TypeOf(l) == LayerTypes[l.type]

SizeIn(t, array) == IF t = 0 THEN 0 ELSE EventTraces[t].sizes[array]
EventsOf(type) == EventTraces[shown].events[LayerTypes[type].events]

(* The types for which there is a node that filters and one that configures *)
EarlyNodes == DOMAIN (LoopLayers @@ IterationLayer @@ TaskLayers @@ TaskPeriodLayer @@ ThreadLayers)
MiddleNodes == DOMAIN (TaskEventLayers @@ WaitLayers @@ DependenceLayers @@ WorkLayers @@ MasterLayers)
LateNodes == DOMAIN (LockLayers @@ MutexLayers @@ LastLayers)
OpenMPNodes == EarlyNodes \cup MiddleNodes
AllOpenMPNodes == OpenMPNodes \cup LateNodes
OtherNodes == {"state", "node_execution"}

(***************************************************************************)
(* Adding layers and changing the trace                                    *)
(***************************************************************************)
NewLayer(type) ==
  [type |-> type, enabled |-> TRUE, colored |-> FALSE, max |-> -1, extra |-> <<>>]

(* trace_changed of each type, without its last step: a layer of positions *)
(* keeps the old array when the trace has none.                            *)
(* Mutant: the array of a trace is only looked up once.                    *)
FoundOnce(l, t) ==
  IF SizeIn(t, TypeOf(l).of) > 0 /\ l.extra = <<>>
    THEN [l EXCEPT !.extra = <<t, TypeOf(l).of>>, !.colored = TRUE] ELSE l
Found(l, t) ==
  IF SizeIn(t, TypeOf(l).of) > 0
    THEN [l EXCEPT !.extra = <<t, TypeOf(l).of>>, !.colored = TRUE] ELSE l
Colored(l, t) == [l EXCEPT !.colored = TypeOf(l).shape = "interval"]
NodesFound(l, t) ==
  [l EXCEPT !.extra = IF SizeIn(t, "node") > 0 THEN <<t, "node">> ELSE <<>>, !.colored = TRUE]
Largest(l, t, array) == IF SizeIn(t, array) > 0 THEN SizeIn(t, array) - 1 ELSE 0

(* What the layer is and the maximum index it asks for                     *)
Changed(l, t) ==
  IF l.type = "node_execution"
    THEN [NodesFound(l, t) EXCEPT !.max = Largest(l, t, "node")]
  ELSE IF l.type = "state"
    THEN [Colored(l, t) EXCEPT !.max = Largest(l, t, "state_description")]
  ELSE IF TypeOf(l).kind = "position" THEN [Found(l, t) EXCEPT !.max = Palette - 1]
  ELSE [Colored(l, t) EXCEPT !.max = Palette - 1]
(* am_timeline_interval_layer_set_max_index, without memory                *)
Unset(l) == [l EXCEPT !.max = -1]

(* renderer_changed, and the layer at the end of the list                  *)
AddLayer ==
  /\ ~broken /\ pending # <<>>
  /\ LET new == NewLayer(Head(pending))
     IN  layers' = Append(layers, IF shown = 0 THEN new ELSE Changed(new, shown))
  /\ lanes' = Append(lanes, <<>>)
  /\ pending' = Tail(pending)
  /\ UNCHANGED <<duration, shown, alternation, hovered, broken>>

(* am_timeline_renderer_set_trace.  When there is no memory for layer k,   *)
(* every layer is told that there is no trace, which the layer for states  *)
(* does not survive.                                                       *)
AllChanged(ls, t) == [i \in DOMAIN ls |-> Changed(ls[i], t)]
Survives(t) == t # 0 \/ \A i \in DOMAIN layers : layers[i].type # "state"
SetTrace(t) ==
  /\ ~broken
  /\ shown' = t
  /\ broken' = ~Survives(t)
  /\ layers' = AllChanged(layers, t)
  /\ UNCHANGED <<duration, pending, alternation, lanes, hovered>>
SetTraceFails(t, k) ==
  /\ ~broken
  /\ shown' = 0
  /\ broken' = ~Survives(0)
  /\ LET told == [i \in DOMAIN layers |-> IF i < k THEN Changed(layers[i], t)
                                          ELSE IF i = k THEN Unset(Changed(layers[i], t))
                                          ELSE layers[i]]
     IN  layers' = AllChanged(told, 0)
  /\ UNCHANGED <<duration, pending, alternation, lanes, hovered>>

(* The filter node picks the layers of a type out of those of the          *)
(* timeline, and the configuration node enables or disables them.          *)
Filtered(type) == {i \in DOMAIN layers : layers[i].type = type}
Configure(type, enable) ==
  /\ ~broken
  /\ type \in AllOpenMPNodes \cup OtherNodes
  /\ layers' = [i \in DOMAIN layers |->
                  IF i \in Filtered(type) THEN [layers[i] EXCEPT !.enabled = enable]
                  ELSE layers[i]]
  /\ UNCHANGED <<duration, pending, shown, alternation, lanes, hovered, broken>>

(***************************************************************************)
(* Indexes                                                                 *)
(***************************************************************************)
(* calculate_index_iteration_period keeps a counter and the set it saw     *)
(* last in static variables.                                               *)
(* Mutant: the set that was seen last is not kept.                         *)
AlternatedForgetting(s, set) ==
  IF s.prior # set THEN [s EXCEPT !.count = (s.count + 1) % 4] ELSE s
Alternated(s, set) ==
  [count |-> IF s.prior # set THEN (s.count + 1) % 4 ELSE s.count, prior |-> set]

Nothing == -1
Failed == -2
(* The index of an event; Wild for a position in another trace's array,    *)
(* which the addresses put anywhere                                        *)
Wild == -3
IndexIn(l, e, s) ==
  LET type == TypeOf(l)
  IN  CASE type.kind = "position" ->
             IF l.extra # <<>> /\ l.extra[1] = shown THEN e.of[type.of] - 1 ELSE Wild
        [] type.kind = "member" -> e.state
        [] type.kind = "constant" -> type.of
        [] type.kind = "alternating" -> s.count
        [] type.kind = "address" -> e.of[type.of] % (Palette - 1)
        [] type.kind = "indexer" -> WorkColor % (Palette \div 2 - 1)

(***************************************************************************)
(* Drawing                                                                 *)
(***************************************************************************)
StartOf(p) == (p * duration) \div Pixels
(* The last timestamp is left to the next pixel, if there is more than one. *)
DrawnTimes(p) ==
  LET s == StartOf(p)
      e == StartOf(p + 1)
  IN  s .. (IF e > s + 1 THEN e - 1 ELSE e)
Weight(type, e, times) ==
  IF LayerTypes[type].shape = "interval" THEN Cardinality((e.start .. e.end) \cap times)
  ELSE IF e.at \in times THEN 1 ELSE 0
EventsIn(type, times) ==
  SelectSeq(FlattenSeq(EventsOf(type)), LAMBDA e : Weight(type, e, times) > 0)

(* The statistics of a layer for some timestamps, with room for max + 1    *)
(* indexes: the time of each, and whether one was out of bounds            *)
Count(l, s, e, times) ==
  LET a == IF TypeOf(l).kind = "alternating" THEN Alternated(s.alternation, e.of["iteration_set"])
           ELSE s.alternation
      index == IndexIn(l, e, a)
  IN  [alternation |-> a,
       outside |-> s.outside \/ index \notin 0 .. l.max,
       times |-> IF index \in 0 .. l.max
                   THEN [s.times EXCEPT ![index] = @ + Weight(l.type, e, times)] ELSE s.times]
Statistics(l, times, a) ==
  FoldLeft(LAMBDA s, e : Count(l, s, e, times),
           [alternation |-> a, outside |-> FALSE, times |-> [i \in 0 .. l.max |-> 0]],
           EventsIn(l.type, times))
(* The lowest of the indexes with the most                                 *)
Dominant(times) ==
  LET most == Max({times[i] : i \in DOMAIN times})
  IN  IF most = 0 THEN Nothing ELSE Min({i \in DOMAIN times : times[i] = most})

DrawnPixel(l, d, p) ==
  LET s == Statistics(l, DrawnTimes(p), d.alternation)
  IN  [d EXCEPT !.alternation = s.alternation, !.outside = d.outside \/ s.outside,
                !.lane = Append(@, Dominant(s.times))]

Rendered(l) ==
  /\ l.enabled /\ l.max >= 0 /\ shown # 0
  /\ TypeOf(l).shape = "interval" => l.colored
(* An array that is read with elements of another structure: any outcome,  *)
(* of which only a crash is told apart                                     *)
Misread(l) == TypeOf(l).element # TypeOf(l).events /\ FlattenSeq(EventsOf(l.type)) # <<>>
DrawnLane(l, d, crash) ==
  IF ~Rendered(l) THEN [d EXCEPT !.lane = <<>>]
  ELSE IF Misread(l) THEN [d EXCEPT !.lane = <<>>, !.outside = d.outside \/ crash]
  ELSE FoldLeft(LAMBDA x, p : DrawnPixel(l, x, p), [d EXCEPT !.lane = <<>>],
                [i \in 1 .. Pixels |-> i - 1])

(* am_timeline_renderer_render, for one lane: each layer in order          *)
Render(crash) ==
  /\ ~broken /\ layers # <<>>
  /\ LET d == FoldLeft(LAMBDA x, l : LET n == DrawnLane(l, x, crash)
                                     IN  [n EXCEPT !.lanes = Append(@, n.lane)],
                       [alternation |-> alternation, outside |-> FALSE,
                        lane |-> <<>>, lanes |-> <<>>], layers)
     IN  alternation' = d.alternation /\ lanes' = d.lanes /\ broken' = d.outside
  /\ UNCHANGED <<duration, pending, layers, shown, hovered>>

(***************************************************************************)
(* The nodes for the dominant state and the dominant node at a timestamp.  *)
(* They do not ask whether the layer is enabled.                           *)
(***************************************************************************)
PixelAt(t) == (t * Pixels) \div duration
(* Mutant: the next pixel is looked at.                                    *)
HoverTimesNext(p) == StartOf(p + 1) .. StartOf(p + 2)
HoverTimes(p) ==
  LET s == StartOf(p)
      e == StartOf(p + 1)
  IN  s .. (IF s # e THEN e - 1 ELSE e)

Hover(i, t) ==
  /\ ~broken /\ i \in DOMAIN layers /\ shown # 0
  /\ layers[i].type \in {"state", "node_execution"}
  /\ LET l == layers[i]
         s == Statistics(l, HoverTimes(PixelAt(t)), alternation)
         index == Dominant(s.times)
     IN  /\ broken' = s.outside
         /\ hovered' = IF index = Nothing THEN Nothing
                       ELSE IF index >= SizeIn(shown, TypeOf(l).of) THEN Failed
                       ELSE index
  /\ UNCHANGED <<duration, pending, layers, shown, alternation, lanes>>

LayersInit ==
  /\ duration \in Durations /\ pending \in Wanted /\ layers = <<>> /\ shown = 0
  /\ alternation = [count |-> 0, prior |-> 0]
  /\ lanes = <<>> /\ hovered = Nothing /\ broken = FALSE

LayersNext ==
  \/ AddLayer
  \/ \E t \in 0 .. Len(EventTraces) : SetTrace(t)
  \/ \E t \in 0 .. Len(EventTraces) : \E k \in DOMAIN layers : SetTraceFails(t, k)
  \/ \E i \in DOMAIN layers : \E enable \in BOOLEAN : Configure(layers[i].type, enable)
  \/ \E crash \in BOOLEAN : Render(crash)
  \/ \E i \in DOMAIN layers : \E t \in 0 .. duration - 1 : Hover(i, t)

LayersSpec == LayersInit /\ [][LayersNext]_layerVars

-----------------------------------------------------------------------------
(***************************************************************************)
(* Properties                                                              *)
(***************************************************************************)
(* Type correctness; and a trace is only shown if every layer has room for *)
(* its statistics (set_trace, set_max_index).                              *)
LayersTypeOK ==
  /\ shown \in 0 .. Len(EventTraces) /\ Len(lanes) = Len(layers)
  /\ alternation.count \in 0 .. 3
  /\ ~broken /\ shown # 0 => \A i \in DOMAIN layers : layers[i].max >= 0

(* What the program does not guard against: positions in an array with     *)
(* more elements than colors or in one the trace does not have, states     *)
(* without a description, events read with another structure.              *)
Unguarded(l) ==
  LET type == TypeOf(l)
      size == SizeIn(shown, type.of)
      events == FlattenSeq(EventsOf(l.type))
  IN  \/ type.kind = "position" /\ (size = 0 \/ (size > Palette /\ l.type # "node_execution"))
      \/ type.kind = "member" /\ \E k \in DOMAIN events : events[k].state > Largest(l, shown, type.of)
      \/ Misread(l)

(* Nothing is read or written outside of an array but for these reasons:   *)
(* whatever traces have been shown before, a position is one in the array  *)
(* of the trace that is shown and max is at least any index                *)
(* (am_timeline_interval_layer_set_max_index).                             *)
InBounds ==
  [][broken' => IF shown' = 0 THEN \E i \in DOMAIN layers : layers[i].type = "state"
                ELSE \E i \in DOMAIN layers : Unguarded(layers[i])]_layerVars

(* What a node finds under the cursor is what a layer draws there, or just *)
(* before where pixels and timestamps do not divide evenly; and it is      *)
(* something that is there (dominant_state_at_pos, dominant_node_at_pos).  *)
HoverShown ==
  [][\A i \in DOMAIN layers : \A t \in 0 .. duration - 1 :
       Hover(i, t) /\ ~broken' /\ hovered' # Failed =>
         LET l == [layers[i] EXCEPT !.enabled = TRUE]
             lane == DrawnLane(l, [alternation |-> alternation, outside |-> FALSE, lane |-> <<>>],
                               FALSE).lane
             p == PixelAt(t)
         IN  /\ StartOf(p + 1) > StartOf(p) + 1 => hovered' = lane[p + 1]
             /\ t \in StartOf(p) .. StartOf(p + 1)
             /\ duration % Pixels = 0 => t < StartOf(p + 1)]_layerVars

SetsAt(p) == {EventsIn("iteration_period", DrawnTimes(p))[k].of["iteration_set"] :
                k \in DOMAIN EventsIn("iteration_period", DrawnTimes(p))}
(* Two pixels side by side, each of one iteration set only, have the same  *)
(* index if and only if it is the same set: "adjacent colours are always   *)
(* distinct" (calculate_index_iteration_period).                           *)
SetsTold ==
  [][\A crash \in BOOLEAN : Render(crash) =>
       \A i \in DOMAIN layers : \A p \in 1 .. Pixels - 1 :
         /\ layers[i].type = "iteration_period" /\ Rendered(layers[i])
         /\ Cardinality(SetsAt(p - 1)) = 1 /\ Cardinality(SetsAt(p)) = 1
         => (lanes'[i][p] = lanes'[i][p + 1]) <=> (SetsAt(p - 1) = SetsAt(p))]_layerVars

(* Layers stay within the arrays of the trace they show, and what a node   *)
(* or the eye tells from them is there.                                    *)
LayersRight == []LayersTypeOK /\ InBounds /\ HoverShown /\ SetsTold
=============================================================================
