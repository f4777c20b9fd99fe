------------------------ MODULE TimelineSelections --------------------------
(***************************************************************************)
(* Selecting intervals on a timeline with the mouse: the mouse events of   *)
(* TimelineWidget and the array of selections of the selection layer       *)
(* (timeline/layers/selection.c).                                          *)
(*                                                                         *)
(* The selections are sorted by their starts.  The widget keeps a pointer  *)
(* into the array to the selection whose start or end is being dragged.    *)
(* Other buttons may be pressed and released meanwhile.  Which selection   *)
(* is under the cursor is any choice here; the search for it is left out.  *)
(*                                                                         *)
(* Bounds: times 0 .. MaxTime, MaxSelections selections.                   *)
(***************************************************************************)
EXTENDS Integers, Sequences, SequencesExt

CONSTANTS MaxTime, MaxSelections,
          Byte       \* the number of values of a byte of a timestamp

VARIABLES
  selections, \* the array: Seq([start, end])
  current,    \* currentSelection: a position in the array, 0 is NULL
  mouse,      \* mouseMode
  crashed,    \* memory was overwritten
  anchor, cursor, \* history: the end that stays and the one that moves
  unsent,     \* history: the selections changed since the node of the widget
              \* last passed them on
  astray      \* history: a start was dragged past the start of another
              \* selection, an earlier selection was deleted during a drag,
              \* or a drag ended otherwise than by releasing a button

selectionVars == <<selections, current, mouse, crashed, anchor, cursor, unsent, astray>>

ASSUME SelectionsAssumption ==
  /\ MaxTime \in Nat /\ Byte \in Nat \ {0, 1}
  /\ MaxSelections \in 1 .. 8  \* what a memmove takes for bytes is one timestamp

Times == 0 .. MaxTime
Dragging == {"start", "end"}
Interval(s, e) == [start |-> s, end |-> e]

(* am_timeline_selection_array_insertpos: behind the last element whose    *)
(* start is not greater, in a sorted array; positions count from 0.        *)
RECURSIVE InsertPosIn(_, _, _)
InsertPosIn(t, l, r) ==
  LET m == (l + r) \div 2
  IN  IF l >= r THEN l
      ELSE IF selections[m + 1].start > t THEN InsertPosIn(t, l, m)
      ELSE InsertPosIn(t, m + 1, r)
(* Mutant: behind all elements.                                            *)
BehindAll(t) == Len(selections)
InsertPos(t) == InsertPosIn(t, 0, Len(selections))

(* The memory at the beginning of interval a after n bytes of b were moved *)
(* there                                                                   *)
MovedBytes(a, b, n) ==
  [a EXCEPT !.start = (@ \div Byte^n) * Byte^n + (b.start % Byte^n)]

(* am_timeline_selection_layer_update_selection on element i, with i and   *)
(* the results counted from 1.  It means to move the elements in between,  *)
(* but moves as many bytes as there are elements; to the right, their      *)
(* number is negative and the program crashes.                             *)
Updated(i, new) ==
  LET old == selections[i]
      pos == InsertPos(new.start)
      Set(s, at) == [selections |-> [s EXCEPT ![at] = new], current |-> at, crashed |-> FALSE]
  IN  IF \/ new.start = old.start
         \/ new.start > old.start /\ i = Len(selections)
        THEN Set(selections, i)
      ELSE IF pos > i - 1
        THEN Set(IF pos = i THEN selections
                 ELSE [selections EXCEPT ![i] = MovedBytes(@, selections[pos], pos - i)], pos)
      ELSE IF pos = i - 1
        THEN Set(selections, i)
      ELSE [selections |-> selections, current |-> i, crashed |-> TRUE]

NotAstray == ~astray
Passes(i, start) ==
  \E j \in DOMAIN selections :
    \/ j < i /\ selections[j].start > start
    \/ j > i /\ selections[j].start <= start

(***************************************************************************)
(* handleSelectionDragEvent: an end that is dragged past the other takes   *)
(* its place.                                                              *)
(***************************************************************************)
(* Mutant: it does not.                                                    *)
DraggedInPlace(sel, mode, t) ==
  IF mode = "start" THEN [interval |-> [sel EXCEPT !.start = t], mode |-> mode]
                    ELSE [interval |-> [sel EXCEPT !.end = t], mode |-> mode]
Dragged(sel, mode, t) ==
  CASE mode = "start" /\ t > sel.end -> [interval |-> Interval(sel.end, t), mode |-> "end"]
    [] mode = "start" /\ t <= sel.end -> [interval |-> Interval(t, sel.end), mode |-> mode]
    [] mode = "end" /\ t < sel.start -> [interval |-> Interval(t, sel.start), mode |-> "start"]
    [] mode = "end" /\ t >= sel.start -> [interval |-> Interval(sel.start, t), mode |-> mode]

(* A current selection behind the end of the array is none of it.          *)
Drag(t) ==
  /\ mouse \in Dragging
  /\ IF current \in DOMAIN selections
       THEN LET new == Dragged(selections[current], mouse, t)
                result == Updated(current, new.interval)
            IN  /\ selections' = result.selections
                /\ current' = result.current
                /\ crashed' = result.crashed
                /\ mouse' = new.mode
                /\ unsent' = TRUE
                /\ astray' = (astray \/ Passes(current, new.interval.start))
       ELSE /\ mouse' = "none" /\ current' = 0
            /\ UNCHANGED <<selections, crashed, unsent, astray>>
  /\ cursor' = t
  /\ UNCHANGED anchor

(***************************************************************************)
(* mousePressEvent                                                         *)
(***************************************************************************)
(* With shift and the left button: a new selection, which is dragged       *)
(* (checkStartCreateSelection)                                             *)
StartCreate(t) ==
  /\ Len(selections) < MaxSelections
  /\ selections' = InsertAt(selections, InsertPos(t) + 1, Interval(t, t))
  /\ current' = InsertPos(t) + 1
  /\ mouse' = "end"
  /\ anchor' = t /\ cursor' = t
  /\ unsent' = TRUE
  /\ UNCHANGED <<crashed, astray>>

(* With shift and the right button: the selection is deleted.              *)
Delete(i) ==
  /\ selections' = RemoveAt(selections, i)
  /\ unsent' = FALSE
  /\ astray' = (astray \/ (mouse \in Dragging /\ i <= current))
  /\ UNCHANGED <<current, mouse, crashed, anchor, cursor>>

(* Otherwise, on the start or the end of a selection: it is dragged.       *)
Press(i, part) ==
  /\ mouse' = part
  /\ current' = i
  /\ anchor' = IF part = "start" THEN selections[i].end ELSE selections[i].start
  /\ cursor' = IF part = "start" THEN selections[i].start ELSE selections[i].end
  /\ UNCHANGED <<selections, crashed, unsent, astray>>

(* On an axis or on the lanes                                              *)
PressElsewhere ==
  /\ mouse' = "other"
  /\ astray' = (astray \/ mouse \in Dragging)
  /\ UNCHANGED <<selections, current, crashed, anchor, cursor, unsent>>

(* mouseReleaseEvent, of any button                                        *)
(* Mutant: only the drag of an end passes the selections on.               *)
PassesOnAtEnd == mouse = "end"
PassesOn == mouse \in Dragging
Release ==
  /\ unsent' = (unsent /\ ~PassesOn)
  /\ mouse' = "none"
  /\ UNCHANGED <<selections, current, crashed, anchor, cursor, astray>>

SelectionsInit ==
  /\ selections = <<>> /\ current = 0 /\ mouse = "none"
  /\ crashed = FALSE /\ unsent = FALSE
  /\ anchor = 0 /\ cursor = 0 /\ astray = FALSE

SelectionsNext ==
  /\ ~crashed
  /\ \/ \E t \in Times : Drag(t) \/ StartCreate(t)
     \/ \E i \in DOMAIN selections : Delete(i) \/ \E part \in Dragging : Press(i, part)
     \/ PressElsewhere
     \/ Release

SelectionsSpec == SelectionsInit /\ [][SelectionsNext]_selectionVars

-----------------------------------------------------------------------------
(***************************************************************************)
(* Properties.  Those that say so hold unless something went astray.       *)
(***************************************************************************)
(* Type correctness: intervals and the modes of the mouse; the array is    *)
(* sorted and the dragged selection is one of it, unless astray.           *)
SelectionsTypeOK ==
  /\ mouse \in Dragging \cup {"none", "other"}
  /\ \A i \in DOMAIN selections : selections[i].start \in Nat /\ selections[i].end \in Times
  /\ current \in 0 .. MaxSelections
  /\ ~astray =>
       /\ \A i \in 2 .. Len(selections) : selections[i - 1].start <= selections[i].start
       /\ mouse \in Dragging => current \in DOMAIN selections

(* The selection being dragged reaches from the end that was not pressed   *)
(* to the cursor, whichever of them comes first and however often they     *)
(* pass each other (handleSelectionDragEvent), unless astray.              *)
Anchored ==
  ~astray /\ mouse \in Dragging =>
    LET ends == {anchor, cursor}
    IN  selections[current] = Interval(Min(ends), Max(ends))

(* While no selection is dragged, the node of the widget has passed on the *)
(* selections as they are (checkTriggerSelectionPort), unless astray.      *)
PassedOn == ~astray /\ mouse \notin Dragging => ~unsent

(* A selection that is dragged keeps its other end, also when it is turned *)
(* over, and what is passed on is what is shown.                           *)
SelectionRight == SelectionsTypeOK /\ Anchored /\ PassedOn

(* A drag changes one selection and leaves all others alone: the update of *)
(* a selection as its comment has it (selection.c:326), at any time.       *)
OneChanged ==
  [][(\E t \in Times : Drag(t)) /\ mouse' \in Dragging /\ ~astray
     => ~crashed' /\ RemoveAt(selections', current') = RemoveAt(selections, current)
    ]_selectionVars
=============================================================================
