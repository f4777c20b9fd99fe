---------------------------- MODULE EventQueries ----------------------------
(***************************************************************************)
(* Finding the events that overlap with intervals.  The intervals that     *)
(* reach a node for event mappings are sorted (core/qsort.h) and merged    *)
(* (core/interval.c); for each of them the elements of the mapping and,    *)
(* for each of these, the events of its collection are found by binary     *)
(* search (core/bsearch.h) and handed on                                   *)
(* (core/dfg/nodes/event_mapping_common.h).  The same search serves the    *)
(* statistics that decide what a pixel of the timeline shows               *)
(* (core/statistics).                                                      *)
(* Intervals are closed.  An event with a timestamp is one whose start is  *)
(* its end.                                                                *)
(***************************************************************************)
EXTENDS Arithmetic, Sequences, FiniteSets

CONSTANTS
  Filters,     \* sequences of intervals that may reach the node
  Mappings,    \* mappings: sequences of [span, events], events may be NoArray
  Queries,     \* intervals for which statistics are collected
  MaxIndex     \* statistics are about the indexes 0 .. MaxIndex

(* Intervals and events begin at the latest when they end.  The indexes of *)
(* events are those that statistics are collected about.                   *)
TimeInterval == {x \in [start : Unsigned, end : Unsigned] : x.start <= x.end}
IndexedEvent ==
  {x \in [start : Unsigned, end : Unsigned, index : 0 .. MaxIndex] : x.start <= x.end}
MappedEvents == [span : TimeInterval, events : Seq(IndexedEvent)]

ASSUME QueryAssumption ==
  /\ MaxIndex \in Nat
  /\ Filters \subseteq Seq(TimeInterval)
  /\ Mappings \subseteq Seq(MappedEvents)
  /\ Queries \subseteq TimeInterval

VARIABLES
  at,       \* what is done next
  given,    \* the intervals given to the node
  filtered, \* its input for intervals is connected
  sorted,   \* the copy of the intervals that is sorted and merged
  ranges,   \* the parts of it that are to be sorted, as <<index, length>>
  pass,     \* the part that is being sorted, or NoPass
  into, from, \* positions while intervals are merged
  mapping,  \* the event mapping
  nth,      \* the interval whose events are extracted
  element,  \* the element of the mapping
  upto,     \* the last one that overlaps with the interval
  search,   \* the search under way
  found,    \* the first event that was found
  out,      \* the events that were handed on, as <<element, event>>
  counted,  \* the statistics count events rather than add up durations
  times     \* the statistics of each index

input == <<given, filtered, counted>>
sorting == <<sorted, ranges, pass, into, from>>
walk == <<mapping, nth, element, upto>>
results == <<found, out, times>>
queryVars == <<at, input, sorting, walk, search, results>>

None == -1
NoPass == [lt |-> None]
NoArray == <<>>

-----------------------------------------------------------------------------
(* Relations between intervals; the duration of one that is as long as     *)
(* time itself is one less.                                                *)
Overlap(a, b) == ~(a.end < b.start \/ a.start > b.end)

Common(a, b) ==
  [start |-> IF a.start <= b.start THEN b.start ELSE a.start,
   end |-> IF a.end <= b.end THEN a.end ELSE b.end]

Duration(a) == SatU(AddSafeU(a.end - a.start, 1)).out

CommonDuration(a, b) == IF Overlap(a, b) THEN Duration(Common(a, b)) ELSE 0

Compare(a, b) == IF a.end < b.start THEN -1 ELSE IF a.start > b.end THEN 1 ELSE 0

-----------------------------------------------------------------------------
(* Quicksort: a pass over a part leaves what is smaller than the pivot in  *)
(* front, what is greater behind, and these two parts to be sorted.  The   *)
(* pivot is kept as a pointer to an element that moves.                    *)
Swap(s, a, b) == [s EXCEPT ![a] = s[b], ![b] = s[a]]

StartPass ==
  /\ at = "sort" /\ pass = NoPass /\ ranges # <<>>
  /\ LET first == Head(ranges)[1]
         n == Head(ranges)[2]
     IN  IF n < 2 THEN UNCHANGED <<pass, sorted>>
         ELSE /\ sorted' = Swap(sorted, first, first + n \div 2)
              /\ pass' = [first |-> first, n |-> n, lt |-> first, i |-> first,
                          gt |-> first + n - 1, pivot |-> first]
  /\ ranges' = Tail(ranges)
  /\ UNCHANGED <<at, input, into, from, walk, search, results>>

(* Mutant: the pointer to the pivot is not moved with it.                  *)
PivotStays(p) == [p EXCEPT !.lt = @ + 1, !.i = @ + 1]

MoveSmaller(p) ==
  [p EXCEPT !.lt = @ + 1, !.i = @ + 1, !.pivot = IF @ = p.lt THEN @ + 1 ELSE @]

MoveGreater(p) == [p EXCEPT !.gt = @ - 1, !.pivot = IF @ = p.gt THEN @ - 1 ELSE @]

SortElement ==
  /\ at = "sort" /\ pass # NoPass /\ pass.i <= pass.gt
  /\ LET value == sorted[pass.i].start
         pivot == sorted[pass.pivot].start
     IN  \/ /\ value < pivot
            /\ sorted' = Swap(sorted, pass.lt, pass.i)
            /\ pass' = MoveSmaller(pass)
         \/ /\ value > pivot
            /\ sorted' = Swap(sorted, pass.gt, pass.i)
            /\ pass' = MoveGreater(pass)
         \/ /\ value = pivot
            /\ pass' = [pass EXCEPT !.i = @ + 1]
            /\ UNCHANGED sorted
  /\ UNCHANGED <<at, input, ranges, into, from, walk, search, results>>

EndPass ==
  /\ at = "sort" /\ pass # NoPass /\ pass.i > pass.gt
  /\ ranges' = <<<<pass.first, pass.lt - pass.first>>,
                 <<pass.gt + 1, pass.first + pass.n - 1 - pass.gt>>>> \o ranges
  /\ pass' = NoPass
  /\ UNCHANGED <<at, input, sorted, into, from, walk, search, results>>

-----------------------------------------------------------------------------
(* Merging: an interval that starts within the last one is joined to it,   *)
(* which then ends where the new one does, even if that is earlier.        *)
StartMerge ==
  /\ at = "sort" /\ pass = NoPass /\ ranges = <<>>
  /\ at' = "merge" /\ into' = 1 /\ from' = 2
  /\ UNCHANGED <<input, sorted, ranges, pass, walk, search, results>>

(* Mutant: intervals that have one timestamp in common are kept apart.     *)
TouchesInside(a, b) == b.start < a.end

Touches(a, b) == b.start <= a.end

Merge ==
  /\ at = "merge" /\ from <= Len(sorted)
  /\ IF Touches(sorted[into], sorted[from])
     THEN sorted' = [sorted EXCEPT ![into].end = sorted[from].end] /\ UNCHANGED into
     ELSE sorted' = [sorted EXCEPT ![into + 1] = sorted[from]] /\ into' = into + 1
  /\ from' = from + 1
  /\ UNCHANGED <<at, input, ranges, pass, walk, search, results>>

EndMerge ==
  /\ at = "merge" /\ from > Len(sorted)
  /\ sorted' = SubSeq(sorted, 1, into)
  /\ at' = "interval" /\ nth' = 1
  /\ mapping' \in Mappings
  /\ UNCHANGED <<input, ranges, pass, into, from, element, upto, search, results>>

-----------------------------------------------------------------------------
(* Binary search for the first or last interval that overlaps with query.  *)
(* The array is counted from 0.                                            *)
Center(a, b) == (a \div 2) + (b \div 2) + ((a % 2) + (b % 2)) \div 2

Search(of, query, goal, then) ==
  [of |-> of, query |-> query, goal |-> goal, then |-> then, hit |-> None,
   l |-> 0, r |-> Len(of) - 1, done |-> of = <<>>]

(* What remains of a search after the element m was looked at              *)
RightOf(s, m) == IF m = Len(s.of) - 1 THEN [s EXCEPT !.done = TRUE] ELSE [s EXCEPT !.l = m + 1]
LeftOf(s, m) == IF m = 0 THEN [s EXCEPT !.done = TRUE] ELSE [s EXCEPT !.r = m - 1]

(* Mutant: the search for the last one ends with the first that is met.    *)
LookedAtOnce(s, m) ==
  LET c == Compare(s.of[m + 1], s.query)
      hit == [s EXCEPT !.hit = m]
  IN  IF c < 0 THEN RightOf(s, m) ELSE IF c > 0 THEN LeftOf(s, m)
      ELSE IF s.goal = "first" THEN LeftOf(hit, m) ELSE [hit EXCEPT !.done = TRUE]

LookedAt(s, m) ==
  LET c == Compare(s.of[m + 1], s.query)
      hit == [s EXCEPT !.hit = m]
  IN  IF c < 0 THEN RightOf(s, m) ELSE IF c > 0 THEN LeftOf(s, m)
      ELSE IF s.goal = "first" THEN LeftOf(hit, m) ELSE RightOf(hit, m)

SearchStep ==
  /\ at = "search" /\ ~search.done
  /\ search' = IF search.l <= search.r THEN LookedAt(search, Center(search.l, search.r))
               ELSE [search EXCEPT !.done = TRUE]
  /\ UNCHANGED <<at, input, sorting, walk, results>>

Found(then) == at = "search" /\ search.done /\ search.then = then

-----------------------------------------------------------------------------
(* The node: for each interval the elements of the mapping, for each of    *)
(* these the events of its collection                                      *)
Spans == [k \in DOMAIN mapping |-> mapping[k].span]
Events == mapping[element].events

Everything == [start |-> 0, end |-> UMax]
Interval == IF filtered THEN sorted[nth] ELSE Everything

NextInterval ==
  /\ at = "interval"
  /\ IF nth > (IF filtered THEN Len(sorted) ELSE 1)
     THEN at' = "done" /\ UNCHANGED search
     ELSE at' = "search" /\ search' = Search(Spans, Interval, "first", "elements")
  /\ UNCHANGED <<input, sorting, walk, results>>

FirstElement ==
  /\ Found("elements")
  /\ IF search.hit = None
     THEN /\ at' = "interval" /\ nth' = nth + 1
          /\ UNCHANGED <<element, search>>
     ELSE /\ element' = search.hit + 1
          /\ search' = Search(Spans, Interval, "last", "last element")
          /\ UNCHANGED <<at, nth>>
  /\ UNCHANGED <<input, sorting, mapping, upto, results>>

LastElement ==
  /\ Found("last element")
  /\ upto' = search.hit + 1
  /\ at' = "element"
  /\ UNCHANGED <<input, sorting, mapping, nth, element, search, results>>

(* A collection without such events is passed over; without intervals all  *)
(* events are handed on.  There may be no room for them.                   *)
HandOn(a, b) ==
  \/ /\ out' = out \o [k \in 1 .. b - a + 1 |-> <<element, a + k - 1>>]
     /\ at' = "element" /\ element' = element + 1
  \/ at' = "failed" /\ UNCHANGED <<out, element>>

NextElement ==
  /\ at = "element"
  /\ \/ /\ element > upto
        /\ at' = "interval" /\ nth' = nth + 1
        /\ UNCHANGED <<element, search, out>>
     \/ /\ element <= upto /\ Events = NoArray
        /\ element' = element + 1
        /\ UNCHANGED <<at, nth, search, out>>
     \/ /\ element <= upto /\ Events # NoArray /\ ~filtered
        /\ HandOn(1, Len(Events))
        /\ UNCHANGED <<nth, search>>
     \/ /\ element <= upto /\ Events # NoArray /\ filtered
        /\ search' = Search(Events, Interval, "first", "events")
        /\ at' = "search"
        /\ UNCHANGED <<element, nth, out>>
  /\ UNCHANGED <<input, sorting, mapping, upto, found, times>>

FirstEvent ==
  /\ Found("events")
  /\ IF search.hit = None
     THEN /\ at' = "element" /\ element' = element + 1
          /\ UNCHANGED <<search, found>>
     ELSE /\ found' = search.hit + 1
          /\ search' = Search(Events, Interval, "last", "last event")
          /\ UNCHANGED <<at, element>>
  /\ UNCHANGED <<input, sorting, mapping, nth, upto, out, times>>

LastEvent ==
  /\ Found("last event")
  /\ HandOn(found, search.hit + 1)
  /\ UNCHANGED <<input, sorting, mapping, nth, upto, search, found, times>>

-----------------------------------------------------------------------------
(* Statistics: how long the events of each index last within the query, or *)
(* how many events of each index are in it, and the index with most of it  *)
CollectFirst(q) ==
  /\ at = "stats"
  /\ search' = Search(mapping[1].events, q, "first", "stats")
  /\ at' = "search"
  /\ UNCHANGED <<input, sorting, walk, results>>

CollectLast ==
  /\ Found("stats")
  /\ IF search.hit = None
     THEN at' = "told" /\ UNCHANGED <<search, found>>
     ELSE /\ found' = search.hit + 1
          /\ search' = Search(search.of, search.query, "last", "last stats")
          /\ UNCHANGED at
  /\ UNCHANGED <<input, sorting, walk, out, times>>

Weight(event) == IF counted THEN 1 ELSE CommonDuration(event, search.query)

Accumulate ==
  /\ Found("last stats")
  /\ IF found > search.hit + 1
     THEN at' = "told" /\ UNCHANGED <<times, found>>
     ELSE LET event == search.of[found]
          IN  /\ times' = [times EXCEPT ![event.index] =
                             SatU(AddSafeU(@, Weight(event))).out]
              /\ found' = found + 1
              /\ UNCHANGED at
  /\ UNCHANGED <<input, sorting, walk, search, out>>

(* The lowest of the indexes with the greatest value, unless all are 0     *)
MostIndex ==
  LET Best(k) == times[k] > 0 /\ \A m \in 0 .. MaxIndex :
                   times[m] < times[k] \/ (times[m] = times[k] /\ k <= m)
  IN  IF \E k \in 0 .. MaxIndex : Best(k) THEN CHOOSE k \in 0 .. MaxIndex : Best(k) ELSE None

-----------------------------------------------------------------------------
(* A node that gets intervals, no intervals or none at all, or statistics  *)
(* of the events of a collection; events have indexes only then.           *)
QueryInit ==
  /\ filtered \in BOOLEAN /\ counted \in BOOLEAN
  /\ given \in Filters /\ sorted = given
  /\ \/ /\ filtered /\ given # <<>> /\ ~counted
        /\ at = "sort" /\ mapping = <<>>
     \/ /\ filtered /\ given = <<>> /\ ~counted
        /\ at = "done" /\ mapping = <<>>
     \/ /\ ~filtered /\ given = <<>> /\ ~counted
        /\ at = "interval" /\ mapping \in Mappings
     \/ /\ ~filtered /\ given = <<>>
        /\ at = "stats" /\ mapping \in {m \in Mappings : Len(m) = 1}
  /\ ranges = <<<<1, Len(given)>>>> /\ pass = NoPass /\ into = 1 /\ from = 2
  /\ nth = 1 /\ element = 1 /\ upto = 0
  /\ search = Search(<<>>, Everything, "first", "none")
  /\ found = 0 /\ out = <<>> /\ times = [k \in 0 .. MaxIndex |-> 0]

QueryNext ==
  \/ StartPass \/ SortElement \/ EndPass
  \/ StartMerge \/ Merge \/ EndMerge
  \/ SearchStep
  \/ NextInterval \/ FirstElement \/ LastElement \/ NextElement \/ FirstEvent \/ LastEvent
  \/ \E q \in Queries : CollectFirst(q)
  \/ CollectLast \/ Accumulate

QuerySpec == QueryInit /\ [][QueryNext]_queryVars

-----------------------------------------------------------------------------
(* Properties                                                              *)

(* What is merged are the given intervals in the order of their starts     *)
(* (am_qsort_intervals_start).                                             *)
SortedRight ==
  at = "merge" /\ from = 2 =>
    /\ \A k \in 2 .. Len(sorted) : sorted[k - 1].start <= sorted[k].start
    /\ \A x \in {given[k] : k \in DOMAIN given} :
         Cardinality({k \in DOMAIN sorted : sorted[k] = x})
           = Cardinality({k \in DOMAIN given : given[k] = x})

(* Merged intervals are apart from each other and cover nothing that no    *)
(* given one covers; they cover all of it, unless one of the given         *)
(* intervals begins within another and ends before it                      *)
(* (am_intervals_merge_overlapping).                                       *)
Apart(s) == \A k \in 2 .. Len(s) : s[k - 1].end < s[k].start
Covered(s) == UNION {s[k].start .. s[k].end : k \in DOMAIN s}
Nested(s) == \E k, m \in DOMAIN s : s[k].start <= s[m].start /\ s[m].end < s[k].end

MergedRight ==
  filtered /\ at \notin {"sort", "merge"} =>
    /\ Apart(sorted) /\ Covered(sorted) \subseteq Covered(given)
    /\ Nested(given) \/ Covered(sorted) = Covered(given)

(* A search in intervals that are sorted by their starts and by their ends *)
(* finds the first or the last that overlaps with the query, if any does   *)
(* (am_interval_array_bsearch_first_strided_overlapping, _last_).          *)
Monotone(s) ==
  \A k, m \in DOMAIN s : k < m => s[k].start <= s[m].start /\ s[k].end <= s[m].end

IsFound(s) ==
  IF s.hit = None THEN \A k \in DOMAIN s.of : ~Overlap(s.of[k], s.query)
  ELSE /\ s.hit + 1 \in DOMAIN s.of /\ Overlap(s.of[s.hit + 1], s.query)
       /\ \A k \in DOMAIN s.of :
            Overlap(s.of[k], s.query) =>
              IF s.goal = "first" THEN s.hit + 1 <= k ELSE k <= s.hit + 1

SearchFinds == search.done /\ Monotone(search.of) => IsFound(search)

(* An event is handed on once for each of the merged intervals with which  *)
(* both it and the element of the mapping with its collection overlap.     *)
Searchable == Monotone(Spans) /\ \A k \in DOMAIN mapping : Monotone(mapping[k].events)

Reasons(e, k) ==
  IF filtered
  THEN Cardinality({n \in DOMAIN sorted : /\ Overlap(mapping[e].span, sorted[n])
                                          /\ Overlap(mapping[e].events[k], sorted[n])})
  ELSE 1

Extracted ==
  at = "done" /\ Searchable =>
    \A e \in DOMAIN mapping : \A k \in DOMAIN mapping[e].events :
      Cardinality({n \in DOMAIN out : out[n] = <<e, k>>}) = Reasons(e, k)

(* The statistics are those of the timestamps that an event and the query  *)
(* have in common, or of the events that have any, as long as they fit,    *)
(* and the index that a pixel shows is the first of those with most        *)
(* (am_interval_stats_by_index_collect, am_discrete_stats_by_index_max).   *)
Total(k) ==
  Cardinality(UNION {{<<n, t>> : t \in (IF counted THEN {0} ELSE
                                           {t \in Unsigned : t >= search.query.start
                                              /\ t <= search.query.end
                                              /\ t >= search.of[n].start
                                              /\ t <= search.of[n].end})} :
                     n \in {n \in DOMAIN search.of :
                              search.of[n].index = k /\ Overlap(search.of[n], search.query)}})

StatsRight ==
  at = "told" /\ Monotone(search.of) /\ (\A k \in 0 .. MaxIndex : Total(k) <= UMax) =>
    /\ \A k \in 0 .. MaxIndex : times[k] = Total(k)
    /\ IF MostIndex = None THEN \A k \in 0 .. MaxIndex : Total(k) = 0
       ELSE /\ \A k \in 0 .. MaxIndex : Total(k) <= Total(MostIndex)
            /\ \A k \in 0 .. MostIndex - 1 : Total(k) < Total(MostIndex)

(* What overlaps is found, once per reason, and nothing else.              *)
QueriesRight == SortedRight /\ MergedRight /\ SearchFinds /\ Extracted /\ StatsRight
=============================================================================
