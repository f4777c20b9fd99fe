----------------------------- MODULE FrameLayer -----------------------------
(***************************************************************************)
(* Stack frames on the timeline: the two filters, the colors and the way a *)
(* lane is drawn (libaftermath-render, timeline/layers/interval.c and      *)
(* lane/openmp/openmp.c; the filter nodes of the GUI).                     *)
(*                                                                         *)
(* A lane shows periods during which a frame was on top of the stack.  The *)
(* filters mark functions and frames as included; a period whose frame is  *)
(* not takes the color of the nearest ancestor that is, made pale.  Colors *)
(* are numbered: 0 and Half are transparent, 1 .. Half - 1 are full, and   *)
(* Half + i is the pale form of i.  A lane is drawn pixel by pixel, and    *)
(* pixels of the same color are drawn together, with a label.              *)
(*                                                                         *)
(* Every pixel is Scale timestamps wide.  The collections of the node that *)
(* is drawn are mapped to it all of the time.                              *)
(***************************************************************************)
EXTENDS Integers, Sequences, FiniteSets, SequencesExt

CONSTANTS
  Traces, \* a trace: its frames, Seq([parent, function, depth]) with
             \* parent 0 for none, and for every collection of the node its
             \* periods, a sequence of [start, end, frame], in order
  NumFunctions, \* functions 1 .. NumFunctions, in the order in which the filter offers them
  Outlined,  \* those whose name begins with .omp_outlined
  Half,      \* half of the number of colors
  Width,     \* of the lanes, in pixels
  Scale

VARIABLES
  trace,    \* the trace that is shown
  keep,     \* the functions with post_filter_include
  keepFrame, \* the frames with post_filter_include
  given,    \* allocated_identifiers: what has been given a color, in order
  layer,    \* what identifies a color: "frame" or "function"
  pixel,    \* the next pixel to draw, -1: not drawing
  run,      \* the run of pixels not drawn yet: [valid, index, from]
  label,    \* extra_data: the function last looked at, 0 is NULL
  drawn,    \* the rectangles: Seq([from, to, index, label])
  picked    \* the period found by the last search, <<>> is NULL

frameVars == <<trace, keep, keepFrame, given, layer, pixel, run, label, drawn, picked>>

ASSUME FrameAssumption ==
  /\ Half \in Nat /\ Half >= 3 /\ Width \in Nat \ {0} /\ Scale \in Nat \ {0}

FunctionIds == 1 .. NumFunctions
Frames == DOMAIN trace.frames
FunctionOf(f) == trace.frames[f].function
ParentOf(f) == trace.frames[f].parent

(***************************************************************************)
(* The filters                                                             *)
(***************************************************************************)
(* The node of the function filter assigns the number of the option to a   *)
(* string, which then is the character with that code; it compares the     *)
(* names of the functions with this string.                                *)
NameOf(function) == <<"function", function>>
Character(option) == <<"character", option>>
FilterFunctions(option) ==
  /\ pixel = -1
  /\ keep' = {f \in FunctionIds : NameOf(f) = Character(option)}
  /\ UNCHANGED <<trace, keepFrame, given, layer, pixel, run, label, drawn, picked>>

OfDepth(d) == {f \in Frames : trace.frames[f].depth = d \/ d = 0}
FilterDepth(d) ==
  /\ pixel = -1
  /\ keepFrame' = OfDepth(d)
  /\ UNCHANGED <<trace, keep, given, layer, pixel, run, label, drawn, picked>>

(***************************************************************************)
(* Colors                                                                  *)
(***************************************************************************)
Included(f) == f \in keepFrame /\ FunctionOf(f) \in keep

(* The nearest frame that is included, from f on, or 0                     *)
RECURSIVE FirstIncluded(_)
FirstIncluded(f) ==
  IF f = 0 \/ Included(f) THEN f ELSE FirstIncluded(ParentOf(f))

(* am_stateful_color_map_indexer_get_color_index, with the sequence of     *)
(* identifiers in place of the state                                       *)
NewColor(n) == (n % (2 * Half - 1)) + 1
(* Mutant: an identifier is given a color each time.                       *)
WithIdentifierAgain(ids, id) == Append(ids, id)
WithIdentifier(ids, id) == IF id \in Range(ids) THEN ids ELSE Append(ids, id)
ColorIndex(ids, id) == NewColor(Min({i \in DOMAIN ids : ids[i] = id}) - 1)

(* calculate_index_stack_frame_period and calculate_index_function_symbol  *)
(* Mutant: the color of the frame itself, not of the one that is included. *)
IdentifierOfTop(kind, f, shown) == IF kind = "frame" THEN <<kind, f>> ELSE <<kind, FunctionOf(f)>>
Identifier(kind, f, shown) ==
  IF kind = "frame" THEN <<kind, shown>> ELSE <<kind, FunctionOf(shown)>>
Shade(color, pale) ==
  IF pale THEN (color % (Half - 1)) + Half ELSE color % (Half - 1)

(* What calculating the index of frame f leaves: the identifiers, the      *)
(* label and the index                                                     *)
Calculated(kind, f, ids, name) ==
  LET shown == FirstIncluded(f)
      id == Identifier(kind, f, shown)
      newIds == WithIdentifier(ids, id)
  IN  IF FunctionOf(f) \in Outlined \/ shown = 0
        THEN [ids |-> ids, label |-> name, index |-> 0]
        ELSE [ids |-> newIds, label |-> FunctionOf(shown),
              index |-> Shade(ColorIndex(newIds, id), shown # f)]

(***************************************************************************)
(* Drawing                                                                 *)
(***************************************************************************)
(* The timestamps of a pixel; the last is left to the next pixel unless    *)
(* only two are there.                                                     *)
TimesOf(p) ==
  [start |-> p * Scale,
   end |-> IF Scale > 1 THEN (p + 1) * Scale - 1 ELSE (p + 1) * Scale]
Overlap(a, b) ==
  LET s == IF a.start <= b.start THEN b.start ELSE a.start
      e == IF a.end <= b.end THEN a.end ELSE b.end
  IN  IF s > e THEN 0 ELSE e - s + 1

(* The periods of a pixel, collection by collection, in order              *)
PeriodsAt(p) ==
  FlattenSeq([c \in DOMAIN trace.periods |->
                SelectSeq(trace.periods[c], LAMBDA e : Overlap(e, TimesOf(p)) > 0)])

(* am_interval_stats_by_index_fun_collect                                  *)
RECURSIVE Collect(_, _, _)
Collect(periods, p, s) ==
  IF periods = <<>> THEN s
  ELSE LET e == Head(periods)
           c == Calculated(layer, e.frame, s.ids, s.label)
       IN  Collect(Tail(periods), p,
                   [ids |-> c.ids, label |-> c.label,
                    times |-> [s.times EXCEPT ![c.index] = @ + Overlap(e, TimesOf(p))]])
StatsAt(p) ==
  Collect(PeriodsAt(p), p,
          [ids |-> given, label |-> label, times |-> [i \in 0 .. 2 * Half - 1 |-> 0]])

(* am_interval_stats_by_index_max: the lowest of the indices with the      *)
(* longest time                                                            *)
Longest(times) ==
  LET most == Max(Range(times))
  IN  Min({i \in DOMAIN times : times[i] = most})

NoRun == [valid |-> FALSE, index |-> 0, from |-> 0]
Rectangle(r, to, name) == [from |-> r.from, to |-> to, index |-> r.index, label |-> name]

StartDrawing(kind) ==
  /\ pixel = -1
  /\ pixel' = 0 /\ run' = NoRun /\ drawn' = <<>>
  /\ layer' = kind
  /\ UNCHANGED <<trace, keep, keepFrame, given, label, picked>>

(* One pixel: the run before it is drawn if its color is another, with the *)
(* label that has been set last.                                           *)
(* Mutant: a run goes on over pixels where nothing is.                     *)
EndsRunByColor(valid, index) == run.valid /\ valid /\ run.index # index
EndsRun(valid, index) == run.valid /\ (~valid \/ run.index # index)

DrawPixel ==
  /\ pixel \in 0 .. Width - 1
  /\ LET s == StatsAt(pixel)
         valid == \E i \in DOMAIN s.times : s.times[i] > 0
         index == Longest(s.times)
     IN  /\ given' = s.ids /\ label' = s.label
         /\ drawn' = IF EndsRun(valid, index)
                       THEN Append(drawn, Rectangle(run, pixel, s.label)) ELSE drawn
         /\ run' = IF valid
                     THEN [valid |-> TRUE, index |-> index,
                           from |-> IF run.valid /\ run.index = index THEN run.from ELSE pixel]
                     ELSE [run EXCEPT !.valid = FALSE]
  /\ pixel' = pixel + 1
  /\ UNCHANGED <<trace, keep, keepFrame, layer, picked>>

(* The last run ends with the lane.                                        *)
EndDrawing ==
  /\ pixel = Width
  /\ drawn' = IF run.valid THEN Append(drawn, Rectangle(run, Width, label)) ELSE drawn
  /\ pixel' = -1 /\ run' = NoRun
  /\ UNCHANGED <<trace, keep, keepFrame, given, layer, label, picked>>

(***************************************************************************)
(* am_timeline_interval_layer_get_dominant_filterable_stack_frame_period   *)
(* under the cursor, at one timestamp: the last period that is drawn and   *)
(* whose own frame is included; every collection replaces what was found   *)
(* in those before it.                                                     *)
(***************************************************************************)
(* Mutant: the filter of the frames is ignored.                            *)
IgnoringFrames(f) == FunctionOf(f) \in keep
Pickable(f) == Included(f)

RECURSIVE Search(_, _)
Search(periods, s) ==
  IF periods = <<>> THEN s
  ELSE LET e == Head(periods)
           c == Calculated(layer, e.frame, s.ids, s.label)
       IN  Search(Tail(periods),
                  IF ~Pickable(e.frame) THEN s
                  ELSE [ids |-> c.ids, label |-> c.label,
                        found |-> IF c.index = 0 THEN s.found ELSE <<e>>])
RECURSIVE SearchAll(_, _, _)
SearchAll(t, collections, s) ==
  IF collections = <<>> THEN s
  ELSE SearchAll(t, Tail(collections),
                 Search(SelectSeq(Head(collections),
                                  LAMBDA e : Overlap(e, [start |-> t, end |-> t]) > 0),
                        [s EXCEPT !.found = <<>>]))
Pick(t) ==
  /\ pixel = -1
  /\ LET s == SearchAll(t, trace.periods, [ids |-> given, label |-> label, found |-> <<>>])
     IN  given' = s.ids /\ label' = s.label /\ picked' = s.found
  /\ UNCHANGED <<trace, keep, keepFrame, layer, pixel, run, drawn>>

FrameInit ==
  /\ trace \in Traces
  /\ keep = FunctionIds /\ keepFrame = Frames
  /\ given = <<>> /\ layer = "frame"
  /\ pixel = -1 /\ run = NoRun /\ label = 0 /\ drawn = <<>> /\ picked = <<>>

FrameNext ==
  \/ \E option \in 0 .. NumFunctions : FilterFunctions(option)
  \/ \E d \in 0 .. Max({trace.frames[f].depth : f \in Frames}) : FilterDepth(d)
  \/ \E kind \in {"frame", "function"} : StartDrawing(kind)
  \/ DrawPixel
  \/ EndDrawing
  \/ \E t \in 0 .. Width * Scale : Pick(t)

FrameSpec == FrameInit /\ [][FrameNext]_frameVars

-----------------------------------------------------------------------------
(***************************************************************************)
(* Properties                                                              *)
(***************************************************************************)
Transparent == {0, Half}

(* Type correctness, and colors that are in the palette.                   *)
FrameTypeOK ==
  /\ keep \subseteq FunctionIds /\ keepFrame \subseteq Frames
  /\ IsInjective(given)
  /\ pixel \in -1 .. Width
  /\ \A i \in DOMAIN drawn : drawn[i].index \in 0 .. 2 * Half - 1

IndexOf(f) == Calculated(layer, f, given, 0).index
TimeOf(index, p) ==
  LET s == SelectSeq(PeriodsAt(p), LAMBDA e : IndexOf(e.frame) = index)
  IN  FoldLeft(LAMBDA n, e : n + Overlap(e, TimesOf(p)), 0, s)
Drawn(p) == {i \in DOMAIN drawn : p \in drawn[i].from .. drawn[i].to - 1}

(* Once a lane is drawn, every pixel with a period has the color of a      *)
(* frame that is there for the longest time, in one rectangle, and the     *)
(* other pixels have none (render and am_interval_stats_by_index_max).     *)
LaneDrawn ==
  [][EndDrawing => (\A p \in 0 .. Width - 1 :
       LET here == Drawn(p)'
       IN  IF PeriodsAt(p) = <<>> THEN here = {}
           ELSE \E i \in DOMAIN drawn' :
                  /\ here = {i}
                  /\ \A k \in 0 .. 2 * Half - 1 :
                       TimeOf(k, p) <= TimeOf(drawn'[i].index, p))]_frameVars

HasColor(f) ==
  FirstIncluded(f) # 0 /\ Identifier(layer, f, FirstIncluded(f)) \in Range(given)

(* A frame is transparent if and only if it is outlined or no frame from   *)
(* it down the stack is included, it has a full color if and only if it is *)
(* included itself, it has the pale form of the color of the frame shown   *)
(* for it otherwise, and two frames with the same full color are not told  *)
(* apart by the layer: as long as there are fewer identifiers than full    *)
(* colors (calculate_index_stack_frame_period).                            *)
ColorsTell ==
  Len(given) < Half - 1 =>
    \A f \in {g \in Frames : HasColor(g) \/ FirstIncluded(g) = 0} :
      LET i == IndexOf(f)
      IN  /\ (i \in Transparent) <=> (FunctionOf(f) \in Outlined \/ FirstIncluded(f) = 0)
          /\ i \notin Transparent => ((i < Half) <=> Included(f))
          /\ i > Half /\ FunctionOf(FirstIncluded(f)) \notin Outlined =>
               i - Half = IndexOf(FirstIncluded(f))
          /\ \A g \in Frames :
               /\ IndexOf(g) = i /\ HasColor(g)
               /\ i \in 1 .. Half - 1
               => IF layer = "frame" THEN f = g ELSE FunctionOf(f) = FunctionOf(g)

(* The frame that is picked under the cursor is one that both filters let  *)
(* through and that is drawn in full.                                      *)
PickedShown ==
  [][\A t \in 0 .. Width * Scale : Pick(t) /\ picked' # <<>> /\ Len(given') < Half - 1 =>
       LET f == picked'[1].frame
       IN  /\ FunctionOf(f) \in keep /\ f \in keepFrame
           /\ Calculated(layer, f, given', 0).index \in 1 .. Half - 1]_frameVars

(* Every pixel of a lane shows the frame at its time, in a color that      *)
(* tells its function from others.                                         *)
FramesRight == [](FrameTypeOK /\ ColorsTell) /\ LaneDrawn /\ PickedShown
=============================================================================
