------------------------- MODULE EventQueriesProof -------------------------
(***************************************************************************)
(* What EventQueries sorts, merges, finds, hands on and adds up is right,  *)
(* for all intervals, mappings and queries, however long the arrays are,   *)
(* and for every number of bits.                                           *)
(***************************************************************************)
EXTENDS EventQueries, NaturalFacts

-----------------------------------------------------------------------------
(* Binary search                                                           *)

(* What a search is for                                                    *)
Thens ==
  {"none", "elements", "last element", "events", "last event", "stats", "last stats"}

SearchRecord ==
  [of : Seq(TimeInterval) \cup Seq(IndexedEvent), query : TimeInterval,
   goal : {"first", "last"}, then : Thens, hit : Int, l : Int, r : Int, done : BOOLEAN]

(* Sequences of intervals, whatever else their elements hold               *)
Spanned(s) ==
  /\ Len(s) \in Nat /\ DOMAIN s = 1 .. Len(s)
  /\ \A k \in 1 .. Len(s) : s[k].start \in Int /\ s[k].end \in Int

IsInterval(q) == q.start \in Int /\ q.end \in Int

SearchType(s) ==
  /\ Spanned(s.of) /\ IsInterval(s.query)
  /\ s.goal \in {"first", "last"} /\ s.done \in BOOLEAN
  /\ s.hit \in -1 .. Len(s.of) - 1
  /\ s.l \in Nat /\ s.r \in Int /\ s.r < Len(s.of)

(* Outside of what remains nothing overlaps with the query, but for the    *)
(* element next to it that was found last.                                 *)
Before(s, k) == s.of[k].end < s.query.start
After(s, k) == s.of[k].start > s.query.end

Narrowed(s) ==
  /\ s.goal = "first" =>
       /\ \A k \in 1 .. Len(s.of) : k - 1 < s.l => Before(s, k)
       /\ s.hit = None => \A k \in 1 .. Len(s.of) : k - 1 > s.r => After(s, k)
       /\ s.hit # None => s.hit = s.r + 1 /\ Overlap(s.of[s.hit + 1], s.query)
  /\ s.goal = "last" =>
       /\ \A k \in 1 .. Len(s.of) : k - 1 > s.r => After(s, k)
       /\ s.hit = None => \A k \in 1 .. Len(s.of) : k - 1 < s.l => Before(s, k)
       /\ s.hit # None => s.hit = s.l - 1 /\ Overlap(s.of[s.hit + 1], s.query)

SearchInv(s) ==
  /\ SearchType(s)
  /\ Monotone(s.of) => IF s.done THEN IsFound(s) ELSE Narrowed(s)

(* The middle of what remains is within it.                                *)
LEMMA CenterWithin ==
  ASSUME NEW a \in Nat, NEW b \in Nat, a <= b
  PROVE  Center(a, b) \in a .. b
BY DEF Center

LEMMA SearchStarts ==
  ASSUME NEW of, Spanned(of), of = <<>> <=> Len(of) = 0, NEW query, IsInterval(query),
         NEW goal \in {"first", "last"}, NEW then
  PROVE  SearchInv(Search(of, query, goal, then))
<1> DEFINE s == Search(of, query, goal, then)
<1>1. /\ s.of = of /\ s.query = query /\ s.goal = goal /\ s.hit = -1 /\ s.l = 0
      /\ s.r = Len(of) - 1
  BY DEF Search, None
<1>2. s.done = (of = <<>>)
  BY DEF Search
<1>3. s.done \in BOOLEAN /\ (s.done <=> Len(of) = 0)
  BY <1>2
<1> HIDE DEF s
<1>4. SearchType(s)
  BY <1>1, <1>3 DEF SearchType, Spanned
<1>5. IF s.done THEN IsFound(s) ELSE Narrowed(s)
  BY <1>1, <1>3 DEF Spanned, IsFound, Narrowed, None
<1> QED BY <1>4, <1>5 DEF SearchInv, s

(* In intervals in the order of both ends, what comes before one that is   *)
(* before the query is so, too; and likewise behind one that is after it.  *)
LEMMA MonotoneNeighbours ==
  ASSUME NEW s, SearchType(s), Monotone(s.of), NEW k \in 1 .. Len(s.of)
  PROVE  /\ Before(s, k) => \A j \in 1 .. k : Before(s, j)
         /\ After(s, k) => \A j \in k .. Len(s.of) : After(s, j)
<1>1. /\ Len(s.of) \in Nat /\ DOMAIN s.of = 1 .. Len(s.of)
      /\ \A j \in 1 .. Len(s.of) : s.of[j].start \in Int /\ s.of[j].end \in Int
      /\ s.query.start \in Int /\ s.query.end \in Int
  BY DEF SearchType, Spanned, IsInterval
<1>2. ASSUME Before(s, k), NEW j \in 1 .. k PROVE Before(s, j)
  <2>1. j \in 1 .. Len(s.of) /\ (j = k \/ j < k)
    BY <1>1
  <2>2. j < k => s.of[j].end <= s.of[k].end
    BY <2>1, <1>1 DEF Monotone
  <2> QED BY <1>1, <1>2, <2>1, <2>2 DEF Before
<1>3. ASSUME After(s, k), NEW j \in k .. Len(s.of) PROVE After(s, j)
  <2>1. j \in 1 .. Len(s.of) /\ (j = k \/ k < j)
    BY <1>1
  <2>2. k < j => s.of[k].start <= s.of[j].start
    BY <2>1, <1>1 DEF Monotone
  <2> QED BY <1>1, <1>3, <2>1, <2>2 DEF After
<1> QED BY <1>2, <1>3

(* What a step leaves of a search: everything but the given fields         *)
Rest(s, t) ==
  /\ t \in SearchRecord
  /\ t.of = s.of /\ t.query = s.query /\ t.goal = s.goal /\ t.then = s.then

(* The search goes on behind m, or in front of it, or is over.             *)
WentRight(s, m, t) ==
  /\ Rest(s, t) /\ t.r = s.r
  /\ \/ m = Len(s.of) - 1 /\ t.done /\ t.l = s.l
     \/ m # Len(s.of) - 1 /\ ~t.done /\ t.l = m + 1

WentLeft(s, m, t) ==
  /\ Rest(s, t) /\ t.l = s.l
  /\ \/ m = 0 /\ t.done /\ t.r = s.r
     \/ m # 0 /\ ~t.done /\ t.r = m - 1

LEMMA WentOn ==
  ASSUME NEW s \in SearchRecord, ~s.done, NEW m \in Nat
  PROVE  /\ WentRight(s, m, RightOf(s, m)) /\ RightOf(s, m).hit = s.hit
         /\ WentLeft(s, m, LeftOf(s, m)) /\ LeftOf(s, m).hit = s.hit
<1>1. m + 1 \in Int /\ m - 1 \in Int
  OBVIOUS
<1>2. WentRight(s, m, RightOf(s, m)) /\ RightOf(s, m).hit = s.hit
  <2>1. CASE m = Len(s.of) - 1
    BY <1>1, <2>1 DEF SearchRecord, Rest, RightOf, WentRight
  <2>2. CASE m # Len(s.of) - 1
    <3> DEFINE t == [s EXCEPT !.l = m + 1]
    <3>1. RightOf(s, m) = t
      BY <2>2 DEF RightOf
    <3>2. Rest(s, t) /\ t.hit = s.hit /\ t.l = m + 1 /\ t.r = s.r /\ t.done = s.done
      BY <1>1 DEF SearchRecord, Rest
    <3> HIDE DEF t
    <3> QED BY <2>2, <3>1, <3>2 DEF WentRight
  <2> QED BY <2>1, <2>2
<1>3. WentLeft(s, m, LeftOf(s, m)) /\ LeftOf(s, m).hit = s.hit
  <2>1. CASE m = 0
    BY <1>1, <2>1 DEF SearchRecord, Rest, LeftOf, WentLeft
  <2>2. CASE m # 0
    <3> DEFINE t == [s EXCEPT !.r = m - 1]
    <3>1. LeftOf(s, m) = t
      BY <2>2 DEF LeftOf
    <3>2. Rest(s, t) /\ t.hit = s.hit /\ t.l = s.l /\ t.r = m - 1 /\ t.done = s.done
      BY <1>1 DEF SearchRecord, Rest
    <3> HIDE DEF t
    <3> QED BY <2>2, <3>1, <3>2 DEF WentLeft
  <2> QED BY <2>1, <2>2
<1> QED BY <1>2, <1>3

(* What becomes of a search when the element m of what remains was looked  *)
(* at                                                                      *)
Became(s, m, t) ==
  \/ Before(s, m + 1) /\ WentRight(s, m, t) /\ t.hit = s.hit
  \/ After(s, m + 1) /\ WentLeft(s, m, t) /\ t.hit = s.hit
  \/ /\ Overlap(s.of[m + 1], s.query) /\ t.hit = m
     /\ s.goal = "first" => WentLeft(s, m, t)
     /\ s.goal = "last" => WentRight(s, m, t)

LEMMA LookedAtBecame ==
  ASSUME NEW s \in SearchRecord, SearchType(s), ~s.done, NEW m \in Nat, s.l <= m, m <= s.r
  PROVE  Became(s, m, LookedAt(s, m))
<1> DEFINE c == Compare(s.of[m + 1], s.query)
           u == [s EXCEPT !.hit = m]
<1>1. /\ s.of[m + 1].start \in Int /\ s.of[m + 1].end \in Int
      /\ s.query.start \in Int /\ s.query.end \in Int /\ s.goal \in {"first", "last"}
  BY SMTT(30) DEF SearchType, Spanned, IsInterval
<1>2. \/ c < 0 /\ Before(s, m + 1)
      \/ ~(c < 0) /\ c > 0 /\ After(s, m + 1)
      \/ ~(c < 0) /\ ~(c > 0) /\ Overlap(s.of[m + 1], s.query)
  BY <1>1 DEF Compare, Before, After, Overlap
<1>3. CASE c < 0 /\ Before(s, m + 1)
  <2>1. LookedAt(s, m) = RightOf(s, m)
    BY <1>3, Zenon DEF LookedAt
  <2> QED BY <1>3, <2>1, WentOn DEF Became
<1>4. CASE ~(c < 0) /\ c > 0 /\ After(s, m + 1)
  <2>1. LookedAt(s, m) = LeftOf(s, m)
    BY <1>4, Zenon DEF LookedAt
  <2> QED BY <1>4, <2>1, WentOn DEF Became
<1>5. CASE ~(c < 0) /\ ~(c > 0) /\ Overlap(s.of[m + 1], s.query)
  <2>1. /\ Rest(s, u) /\ u \in SearchRecord /\ ~u.done /\ u.hit = m
        /\ u.l = s.l /\ u.r = s.r
    <3>1. /\ Rest(s, u) /\ u.hit = m /\ u.done = s.done
          /\ u.l = s.l /\ u.r = s.r
      BY <1>1, SMTT(30) DEF SearchRecord, Rest
    <3> HIDE DEF u
    <3> QED BY <3>1 DEF Rest
  <2>2. LookedAt(s, m) = IF s.goal = "first" THEN LeftOf(u, m) ELSE RightOf(u, m)
    BY <1>5, Zenon DEF LookedAt
  <2> HIDE DEF u
  <2>3. CASE s.goal = "first"
    <3>1. WentLeft(u, m, LeftOf(u, m)) /\ LeftOf(u, m).hit = m
      BY <2>1, WentOn
    <3>2. WentLeft(s, m, LeftOf(u, m))
      BY <2>1, <3>1 DEF WentLeft, Rest
    <3> QED BY <1>5, <2>2, <2>3, <3>1, <3>2 DEF Became
  <2>4. CASE s.goal = "last"
    <3>1. WentRight(u, m, RightOf(u, m)) /\ RightOf(u, m).hit = m
      BY <2>1, WentOn
    <3>2. WentRight(s, m, RightOf(u, m))
      BY <2>1, <3>1 DEF WentRight, Rest
    <3> QED BY <1>5, <2>2, <2>4, <3>1, <3>2 DEF Became
  <2> QED BY <1>1, <2>3, <2>4
<1> QED BY <1>2, <1>3, <1>4, <1>5

LEMMA BecameInv ==
  ASSUME NEW s, SearchInv(s), ~s.done, NEW m \in Nat, s.l <= m, m <= s.r,
         NEW t, Became(s, m, t)
  PROVE  SearchInv(t)
<1> DEFINE n == Len(s.of)
<1>1. /\ SearchType(s) /\ n \in Nat /\ DOMAIN s.of = 1 .. n /\ m + 1 \in 1 .. n
      /\ \A k \in 1 .. n : s.of[k].start \in Int /\ s.of[k].end \in Int
      /\ s.query.start \in Int /\ s.query.end \in Int
      /\ s.goal \in {"first", "last"} /\ s.hit \in -1 .. n - 1
      /\ s.l \in Nat /\ s.r \in Int /\ s.r < n
  BY DEF SearchInv, SearchType, Spanned, IsInterval
<1>2. /\ Rest(s, t) /\ t.done \in BOOLEAN
      /\ t.hit \in -1 .. n - 1 /\ t.l \in Nat /\ t.r \in Int /\ t.r < n
  <2>1. WentRight(s, m, t) \/ WentLeft(s, m, t)
    BY <1>1 DEF Became
  <2>2. t.hit = s.hit \/ t.hit = m
    BY DEF Became
  <2> QED BY <1>1, <2>1, <2>2 DEF WentRight, WentLeft, Rest, SearchRecord
<1>3. SearchType(t)
  <2>1. t.of = s.of /\ t.query = s.query /\ t.goal = s.goal
    BY <1>2 DEF Rest
  <2> QED BY <1>1, <1>2, <2>1 DEF SearchType
<1>4. ASSUME Monotone(s.of) PROVE IF t.done THEN IsFound(t) ELSE Narrowed(t)
  <2>1. Narrowed(s)
    BY <1>4 DEF SearchInv
  <2>2. /\ Before(s, m + 1) => \A j \in 1 .. m + 1 : Before(s, j)
        /\ After(s, m + 1) => \A j \in m + 1 .. n : After(s, j)
    BY <1>1, <1>4, MonotoneNeighbours
  <2>3. /\ t.of = s.of /\ t.query = s.query /\ t.goal = s.goal
        /\ \A k \in 1 .. n :
             /\ Before(t, k) <=> Before(s, k)
             /\ After(t, k) <=> After(s, k)
             /\ Overlap(s.of[k], s.query) <=> ~Before(s, k) /\ ~After(s, k)
    BY <1>1, <1>2 DEF Rest, Before, After, Overlap
  <2>6. s.hit # None =>
          s.hit + 1 \in 1 .. n /\ ~Before(s, s.hit + 1) /\ ~After(s, s.hit + 1)
    <3> SUFFICES ASSUME s.hit # None
                 PROVE  s.hit + 1 \in 1 .. n /\ ~Before(s, s.hit + 1) /\ ~After(s, s.hit + 1)
      OBVIOUS
    <3>1. Overlap(s.of[s.hit + 1], s.query)
      <4>1. s.goal = "first" \/ s.goal = "last"
        BY <1>1
      <4> QED BY ONLY <2>1, <4>1, s.hit # None DEF Narrowed
    <3> DEFINE h == s.hit
    <3>2. h \in -1 .. n - 1 /\ h # -1
      BY <1>1 DEF None
    <3> HIDE DEF h, n
    <3>3. h + 1 \in 1 .. n
      BY <1>1, <3>2
    <3>4. s.hit + 1 \in 1 .. n
      BY <3>3 DEF h
    <3> QED BY <2>3, <3>1, <3>4
  <2>4. CASE s.goal = "first"
    <3>1. CASE Before(s, m + 1) /\ WentRight(s, m, t) /\ t.hit = s.hit
      BY <2>1, <2>2, <2>3, <2>4, <3>1, <1>1, SMTT(30) DEF WentRight, Narrowed, IsFound, None
    <3>2. CASE After(s, m + 1) /\ WentLeft(s, m, t) /\ t.hit = s.hit
      <4>1. \A k \in m + 1 .. n : ~Overlap(s.of[k], s.query)
        BY <1>1, <2>2, <2>3, <3>2
      <4>2. s.hit = None
        BY <1>1, <2>1, <2>4, <2>6, <2>2, <3>2 DEF Narrowed, None
      <4>3. CASE t.done
        BY <1>1, <2>3, <3>2, <4>1, <4>2, <4>3 DEF WentLeft, IsFound, None
      <4>4. CASE ~t.done
        BY <1>1, <2>1, <2>2, <2>3, <2>4, <3>2, <4>2, <4>4 DEF WentLeft, Narrowed, None
      <4> QED BY <4>3, <4>4
    <3>3. CASE Overlap(s.of[m + 1], s.query) /\ WentLeft(s, m, t) /\ t.hit = m
      BY <2>1, <2>2, <2>3, <2>4, <3>3, <1>1, SMTT(30) DEF WentLeft, Narrowed, IsFound, None
    <3> QED BY <2>4, <3>1, <3>2, <3>3 DEF Became
  <2>5. CASE s.goal = "last"
    <3>1. CASE Before(s, m + 1) /\ WentRight(s, m, t) /\ t.hit = s.hit
      <4>1. \A k \in 1 .. m + 1 : ~Overlap(s.of[k], s.query)
        BY <1>1, <2>2, <2>3, <3>1
      <4>2. s.hit = None
        BY <1>1, <2>1, <2>5, <2>6, <2>2, <3>1 DEF Narrowed, None
      <4>3. CASE t.done
        BY <1>1, <2>3, <3>1, <4>1, <4>2, <4>3 DEF WentRight, IsFound, None
      <4>4. CASE ~t.done
        BY <1>1, <2>1, <2>2, <2>3, <2>5, <3>1, <4>2, <4>4 DEF WentRight, Narrowed, None
      <4> QED BY <4>3, <4>4
    <3>2. CASE After(s, m + 1) /\ WentLeft(s, m, t) /\ t.hit = s.hit
      BY <2>1, <2>2, <2>3, <2>5, <3>2, <1>1, SMTT(30) DEF WentLeft, Narrowed, IsFound, None
    <3>3. CASE Overlap(s.of[m + 1], s.query) /\ WentRight(s, m, t) /\ t.hit = m
      <4>1. CASE t.done
        BY <1>1, <2>1, <2>3, <2>5, <3>3, <4>1 DEF WentRight, Narrowed, IsFound, None
      <4>2. CASE ~t.done
        BY <1>1, <2>1, <2>3, <2>5, <3>3, <4>2, SMTT(30) DEF WentRight, Narrowed, None
      <4> QED BY <4>1, <4>2
    <3> QED BY <2>5, <3>1, <3>2, <3>3 DEF Became
  <2> QED BY <2>4, <2>5, <1>1
<1> QED BY <1>2, <1>3, <1>4 DEF SearchInv, Rest

LEMMA SpannedArrays ==
  ASSUME NEW s \in Seq(TimeInterval) \cup Seq(IndexedEvent)
  PROVE  Spanned(s) /\ (s = <<>> <=> Len(s) = 0)
<1>1. CASE s \in Seq(TimeInterval)
  <2>1. \A k \in 1 .. Len(s) : s[k] \in TimeInterval
    BY <1>1, ElementOfSeq
  <2>2. Len(s) \in Nat /\ DOMAIN s = 1 .. Len(s) /\ (s = <<>> <=> Len(s) = 0)
    BY <1>1, LenProperties, EmptySeq
  <2> QED BY <2>1, <2>2 DEF Spanned, TimeInterval, Unsigned
<1>2. CASE s \in Seq(IndexedEvent)
  <2>1. \A k \in 1 .. Len(s) : s[k] \in IndexedEvent
    BY <1>2, ElementOfSeq
  <2>2. Len(s) \in Nat /\ DOMAIN s = 1 .. Len(s) /\ (s = <<>> <=> Len(s) = 0)
    BY <1>2, LenProperties, EmptySeq
  <2> QED BY <2>1, <2>2 DEF Spanned, IndexedEvent, Unsigned
<1> QED BY <1>1, <1>2

(* A search that begins                                                    *)
Begun(s, of, query, goal, then) ==
  /\ s \in SearchRecord /\ SearchInv(s)
  /\ s.of = of /\ s.query = query /\ s.goal = goal /\ s.then = then

LEMMA SearchBegins ==
  ASSUME NEW of \in Seq(TimeInterval) \cup Seq(IndexedEvent), NEW query \in TimeInterval,
         NEW goal \in {"first", "last"}, NEW then \in Thens
  PROVE  Begun(Search(of, query, goal, then), of, query, goal, then)
<1>1. Spanned(of) /\ (of = <<>> <=> Len(of) = 0) /\ Len(of) \in Nat
  BY SpannedArrays DEF Spanned
<1>2. IsInterval(query)
  BY DEF IsInterval, TimeInterval, Unsigned
<1>3. SearchInv(Search(of, query, goal, then))
  BY <1>1, <1>2, SearchStarts
<1>4. Search(of, query, goal, then) \in SearchRecord
  BY <1>1 DEF Search, SearchRecord, None
<1> QED BY <1>3, <1>4 DEF Search, Begun

(* A step of a search                                                      *)
LEMMA SearchGoesOn ==
  ASSUME search \in SearchRecord, SearchInv(search), SearchStep
  PROVE  Rest(search, search') /\ SearchInv(search')
<1> DEFINE n == Len(search.of)
<1>1. /\ SearchType(search) /\ ~search.done
      /\ n \in Nat /\ DOMAIN search.of = 1 .. n
      /\ \A k \in 1 .. n : search.of[k].start \in Int /\ search.of[k].end \in Int
      /\ search.query.start \in Int /\ search.query.end \in Int
      /\ search.goal \in {"first", "last"} /\ search.hit \in -1 .. n - 1
      /\ search.l \in Nat /\ search.r \in Int /\ search.r < n
  BY DEF SearchInv, SearchType, Spanned, IsInterval, SearchStep
<1>2. CASE search.l <= search.r
  <2> DEFINE m == Center(search.l, search.r)
  <2>1. m \in Nat /\ search.l <= m /\ m <= search.r
    <3>1. search.l \in Nat /\ search.r \in Nat
      BY <1>1, <1>2
    <3>2. m \in search.l .. search.r
      BY <1>2, <3>1, CenterWithin
    <3> HIDE DEF m
    <3> QED BY <3>1, <3>2
  <2>2. search' = LookedAt(search, m)
    BY <1>2 DEF SearchStep
  <2> HIDE DEF m
  <2>3. Became(search, m, search')
    BY <1>1, <2>1, <2>2, LookedAtBecame
  <2>4. SearchInv(search')
    BY <1>1, <2>1, <2>3, BecameInv
  <2>5. Rest(search, search')
    BY <1>1, <2>3 DEF Became, WentRight, WentLeft
  <2> QED BY <2>4, <2>5
<1>3. CASE ~(search.l <= search.r)
  <2> DEFINE t == [search EXCEPT !.done = TRUE]
  <2>1. search' = t
    BY <1>3 DEF SearchStep
  <2>2. /\ Rest(search, t) /\ t.hit = search.hit /\ t.l = search.l /\ t.r = search.r
        /\ t.done = TRUE
    BY DEF SearchRecord, Rest
  <2> HIDE DEF t
  <2>3. SearchType(t)
    BY <1>1, <2>2 DEF SearchType, Rest, Spanned, IsInterval
  <2>4. ASSUME Monotone(search.of) PROVE IsFound(t)
    <3>1. Narrowed(search)
      BY <1>1, <2>4 DEF SearchInv
    <3>2. \A k \in 1 .. n : Overlap(search.of[k], search.query)
                              <=> ~Before(search, k) /\ ~After(search, k)
      BY <1>1 DEF Before, After, Overlap
    <3>3. search.hit # None =>
            search.hit + 1 \in 1 .. n /\ Overlap(search.of[search.hit + 1], search.query)
      BY <1>1, <3>1 DEF Narrowed, None
    <3>4. t.of = search.of /\ t.query = search.query /\ t.goal = search.goal
      BY <2>2 DEF Rest
    <3>5. CASE search.hit = None
      <4>1. \A k \in 1 .. n : Before(search, k) \/ After(search, k)
        BY <1>1, <1>3, <3>1, <3>5 DEF Narrowed
      <4> QED BY <1>1, <2>2, <3>2, <3>4, <3>5, <4>1 DEF IsFound
    <3>6. CASE search.hit # None
      <4>1. ASSUME NEW k \in 1 .. n, Overlap(search.of[k], search.query)
            PROVE  IF search.goal = "first" THEN search.hit + 1 <= k ELSE k <= search.hit + 1
        <5>1. ~Before(search, k) /\ ~After(search, k)
          BY <3>2, <4>1
        <5>2. CASE search.goal = "first"
          BY <1>1, <1>3, <3>1, <3>6, <5>1, <5>2 DEF Narrowed
        <5>3. CASE search.goal = "last"
          BY <1>1, <1>3, <3>1, <3>6, <5>1, <5>3 DEF Narrowed
        <5> QED BY <1>1, <5>2, <5>3
      <4> QED BY <1>1, <2>2, <3>3, <3>4, <3>6, <4>1 DEF IsFound
    <3> QED BY <3>5, <3>6
  <2> QED BY <2>1, <2>2, <2>3, <2>4 DEF SearchInv, Rest
<1> QED BY <1>2, <1>3

(* In intervals in the order of both ends, what is between two that        *)
(* overlap with the query does so, too.                                    *)
LEMMA OverlapBetween ==
  ASSUME NEW s, Spanned(s), Monotone(s), NEW q, IsInterval(q),
         NEW i \in 1 .. Len(s), NEW j \in 1 .. Len(s), NEW k \in i .. j,
         Overlap(s[i], q), Overlap(s[j], q)
  PROVE  Overlap(s[k], q)
<1>1. /\ k \in 1 .. Len(s) /\ DOMAIN s = 1 .. Len(s) /\ Len(s) \in Nat
      /\ \A m \in 1 .. Len(s) : s[m].start \in Int /\ s[m].end \in Int
      /\ q.start \in Int /\ q.end \in Int /\ k \in Nat /\ i \in Nat /\ j \in Nat
  BY DEF Spanned, IsInterval
<1>2. k = i \/ i < k
  BY <1>1
<1>3. k = j \/ k < j
  BY <1>1
<1>4. s[i].end <= s[k].end
  BY <1>1, <1>2 DEF Monotone
<1>5. s[k].start <= s[j].start
  BY <1>1, <1>3 DEF Monotone
<1> QED BY <1>1, <1>4, <1>5 DEF Overlap

-----------------------------------------------------------------------------
(* Sorting                                                                 *)

PassRecord == [first : Nat, n : Nat, lt : Nat, i : Nat, gt : Nat, pivot : Nat]

Segment(r) == r[1] .. r[1] + r[2] - 1
PassSegment(p) == p.first .. p.first + p.n - 1

(* The parts that are left are apart from each other; what is not in the   *)
(* same part is in order.                                                  *)
SegmentsApart ==
  /\ \A m \in 1 .. Len(ranges) : Segment(ranges[m]) \subseteq 1 .. Len(sorted)
  /\ \A m, k \in 1 .. Len(ranges) : m # k => Segment(ranges[m]) \cap Segment(ranges[k]) = {}
  /\ pass # NoPass =>
       \A m \in 1 .. Len(ranges) : Segment(ranges[m]) \cap PassSegment(pass) = {}

Parts ==
  {Segment(ranges[m]) : m \in 1 .. Len(ranges)}
    \cup (IF pass = NoPass THEN {} ELSE {PassSegment(pass)})

InOrder(s, P) ==
  \A i, j \in 1 .. Len(s) :
    i < j => s[i].start <= s[j].start \/ \E A \in P : {i, j} \subseteq A

(* A pass has put what is smaller than the pivot in front of lt, what is   *)
(* greater behind gt, and the pivot, which is at lt, up to i.              *)
PassOver(p, s) ==
  /\ 1 <= p.first /\ p.first <= p.lt /\ p.lt <= p.i /\ p.i <= p.gt + 1
  /\ p.gt <= p.first + p.n - 1 /\ p.first + p.n - 1 <= Len(s)
  /\ p.lt <= p.gt /\ p.pivot = p.lt
  /\ \A k \in p.first .. p.lt - 1 : s[k].start < s[p.lt].start
  /\ \A k \in p.lt .. p.i - 1 : s[k].start = s[p.lt].start
  /\ \A k \in p.gt + 1 .. p.first + p.n - 1 : s[k].start > s[p.lt].start

(* The intervals are those that were given, as often as they were.         *)
Times(s, x) == Cardinality({k \in DOMAIN s : s[k] = x})

Permuted ==
  /\ Len(sorted) = Len(given) /\ Range(sorted) = Range(given)
  /\ \A x \in TimeInterval : Times(sorted, x) = Times(given, x)

SortInv ==
  at = "sort" =>
    /\ given # <<>>
    /\ Permuted
    /\ SegmentsApart
    /\ InOrder(sorted, Parts)
    /\ pass # NoPass => PassOver(pass, sorted)

SortTypeOK ==
  /\ given \in Seq(TimeInterval) /\ sorted \in Seq(TimeInterval)
  /\ ranges \in Seq(Nat \X Nat)
  /\ pass = NoPass \/ pass \in PassRecord

LEMMA SwapFacts ==
  ASSUME NEW s \in Seq(TimeInterval), NEW a \in 1 .. Len(s), NEW b \in 1 .. Len(s)
  PROVE  /\ Swap(s, a, b) \in Seq(TimeInterval) /\ Len(Swap(s, a, b)) = Len(s)
         /\ \A k \in 1 .. Len(s) :
              Swap(s, a, b)[k] = IF k = b THEN s[a] ELSE IF k = a THEN s[b] ELSE s[k]
         /\ Range(Swap(s, a, b)) = Range(s)
         /\ \A x : Times(Swap(s, a, b), x) = Times(s, x)
<1> DEFINE n == Len(s)
           t == Swap(s, a, b)
<1>1. /\ n \in Nat /\ DOMAIN s = 1 .. n /\ s[a] \in TimeInterval /\ s[b] \in TimeInterval
  BY LenProperties, ElementOfSeq
<1> DEFINE u == [s EXCEPT ![a] = s[b]]
<1>2. /\ u \in Seq(TimeInterval) /\ Len(u) = n
      /\ \A k \in 1 .. n : u[k] = IF k = a THEN s[b] ELSE s[k]
  BY <1>1, ExceptSeq
<1>3. t = [u EXCEPT ![b] = s[a]]
  BY <1>1 DEF Swap
<1> HIDE DEF u, t
<1>4. /\ t \in Seq(TimeInterval) /\ Len(t) = n
      /\ \A k \in 1 .. n : t[k] = IF k = b THEN s[a] ELSE u[k]
  BY <1>1, <1>2, <1>3, ExceptSeq
<1>5. \A k \in 1 .. n : t[k] = IF k = b THEN s[a] ELSE IF k = a THEN s[b] ELSE s[k]
  BY <1>2, <1>4
<1>6. DOMAIN t = 1 .. n
  BY <1>4, LenProperties
<1> DEFINE other(k) == IF k = a THEN b ELSE IF k = b THEN a ELSE k
<1>7. \A k \in 1 .. n : other(k) \in 1 .. n /\ other(other(k)) = k /\ t[k] = s[other(k)]
  BY <1>1, <1>5
<1>8. Range(t) = Range(s)
  BY <1>1, <1>6, <1>7 DEF Range
<1>9. ASSUME NEW x PROVE Times(t, x) = Times(s, x)
  <2> DEFINE S == {k \in 1 .. n : s[k] = x}
             T == {k \in 1 .. n : t[k] = x}
             f == [k \in S |-> other(k)]
  <2>1. \A k \in S : other(k) \in T
    BY <1>1, <1>5
  <2>2. \A k \in T : other(k) \in S
    BY <1>1, <1>7
  <2>3. \A k \in S : f[k] = other(k) /\ other(other(k)) = k
    BY <1>7
  <2>4. \A k \in T : f[other(k)] = k
    BY <2>2, <2>3, <1>7
  <2> HIDE DEF other
  <2>5. f \in [S -> T] /\ IsInjective(f)
    BY <2>1, <2>3 DEF IsInjective
  <2> HIDE DEF f, S, T
  <2>6. f \in Bijection(S, T)
    BY <2>2, <2>4, <2>5 DEF Bijection, Injection, Surjection
  <2>7. IsFiniteSet(S)
    <3>1. IsFiniteSet(1 .. n)
      BY <1>1, FS_Interval
    <3>2. S \in SUBSET (1 .. n)
      BY DEF S
    <3> QED BY <3>1, <3>2, FS_Subset
  <2>8. Cardinality(S) = Cardinality(T)
    BY <2>6, <2>7, FS_Bijection DEF ExistsBijection
  <2> QED BY <2>8, <1>1, <1>6 DEF Times, S, T
<1> QED BY <1>4, <1>5, <1>8, <1>9 DEF t

LEMMA PassTold ==
  ASSUME NEW p \in PassRecord
  PROVE  p # NoPass
<1>1. p.lt \in Nat
  BY DEF PassRecord
<1>2. NoPass.lt = -1
  BY DEF NoPass, None
<1> QED BY <1>1, <1>2

LEMMA Starts ==
  ASSUME NEW s \in Seq(TimeInterval)
  PROVE  /\ Len(s) \in Nat
         /\ \A k \in 1 .. Len(s) : s[k].start \in Int /\ s[k].end \in Int
BY SpannedArrays DEF Spanned

(* Parts that are apart are as sets, too.                                  *)
LEMMA PartsApart ==
  ASSUME SegmentsApart
  PROVE  \A A, B \in Parts : A # B => A \cap B = {}
<1>1. CASE pass = NoPass
  BY <1>1 DEF SegmentsApart, Parts
<1>2. CASE pass # NoPass
  <2> SUFFICES ASSUME NEW A \in Parts, NEW B \in Parts, A # B PROVE A \cap B = {}
    OBVIOUS
  <2>1. A = PassSegment(pass) \/ \E m \in 1 .. Len(ranges) : A = Segment(ranges[m])
    BY <1>2 DEF Parts
  <2>2. B = PassSegment(pass) \/ \E m \in 1 .. Len(ranges) : B = Segment(ranges[m])
    BY <1>2 DEF Parts
  <2> QED BY <1>2, <2>1, <2>2 DEF SegmentsApart
<1> QED BY <1>1, <1>2

(* Two elements of one part change places.                                 *)
LEMMA SwapInOrder ==
  ASSUME NEW s \in Seq(TimeInterval), NEW P, \A A, B \in P : A # B => A \cap B = {},
         NEW lo \in Int, NEW hi \in Int, lo .. hi \in P, lo .. hi \subseteq 1 .. Len(s),
         NEW a \in lo .. hi, NEW b \in lo .. hi, InOrder(s, P)
  PROVE  InOrder(Swap(s, a, b), P)
<1> DEFINE n == Len(s)
           t == Swap(s, a, b)
           D == lo .. hi
           other(k) == IF k = a THEN b ELSE IF k = b THEN a ELSE k
<1>1. /\ n \in Nat /\ Len(t) = n /\ a \in 1 .. n /\ b \in 1 .. n
      /\ \A k \in 1 .. n : s[k].start \in Int
  <2>1. a \in 1 .. n /\ b \in 1 .. n
    OBVIOUS
  <2>2. Len(t) = n
    BY <2>1, SwapFacts
  <2> QED BY <2>1, <2>2, Starts
<1>2. \A k \in 1 .. n : t[k] = s[other(k)] /\ other(k) \in 1 .. n
  <2>1. \A k \in 1 .. n : t[k] = IF k = b THEN s[a] ELSE IF k = a THEN s[b] ELSE s[k]
    <3>1. a \in 1 .. Len(s) /\ b \in 1 .. Len(s)
      BY <1>1
    <3> QED BY ONLY <3>1, SwapFacts, s \in Seq(TimeInterval)
  <2> HIDE DEF t
  <2> QED BY <1>1, <2>1
<1>3. \A k \in 1 .. n : IF k \in D THEN other(k) \in D ELSE other(k) = k
  OBVIOUS
<1> SUFFICES ASSUME NEW i \in 1 .. n, NEW j \in 1 .. n, i < j
             PROVE  t[i].start <= t[j].start \/ \E A \in P : {i, j} \subseteq A
  BY <1>1 DEF InOrder
<1> HIDE DEF t
<1>4. CASE i \in D /\ j \in D
  BY <1>4
<1>5. CASE ~(i \in D /\ j \in D)
  <2> DEFINE x == other(i)
             y == other(j)
  <2>1. x \in 1 .. n /\ y \in 1 .. n /\ t[i] = s[x] /\ t[j] = s[y]
    BY <1>2
  <2>2. x < y
    BY <1>1, <1>3, <1>5
  <2>3. /\ IF i \in D THEN x \in D ELSE x = i
        /\ IF j \in D THEN y \in D ELSE y = j
    BY <1>3
  <2> HIDE DEF x, y, other
  <2>4. s[x].start <= s[y].start \/ \E A \in P : {x, y} \subseteq A
    BY <2>1, <2>2 DEF InOrder
  <2>5. ASSUME NEW A \in P, {x, y} \subseteq A PROVE {i, j} \subseteq A
    <3>1. A = D \/ A \cap D = {}
      OBVIOUS
    <3> QED BY <1>5, <2>3, <2>5, <3>1
  <2> QED BY <2>1, <2>4, <2>5
<1> QED BY <1>4, <1>5

LEMMA TailElements ==
  ASSUME NEW S, NEW s \in Seq(S), s # <<>>
  PROVE  /\ Head(s) = s[1] /\ s[1] \in S /\ Tail(s) \in Seq(S)
         /\ Len(s) \in Nat \ {0} /\ Len(Tail(s)) = Len(s) - 1
         /\ \A m \in 1 .. Len(s) - 1 : Tail(s)[m] = s[m + 1]
<1>1. Len(s) \in Nat \ {0} /\ Tail(s) \in Seq(S) /\ Len(Tail(s)) = Len(s) - 1
  BY HeadTailProperties, EmptySeq
<1>2. Tail(s) = SubSeq(s, 2, Len(s))
  BY TailIsSubSeq
<1>3. \A i \in 2 .. Len(s) : s[i] \in S
  BY <1>1, ElementOfSeq
<1>4. \A i \in 1 .. Len(s) - 2 + 1 : SubSeq(s, 2, Len(s))[i] = s[2 + i - 1]
  BY <1>1, <1>3, SubSeqProperties
<1>5. \A m \in 1 .. Len(s) - 1 : Tail(s)[m] = s[m + 1]
  BY <1>1, <1>2, <1>4
<1>6. s[1] \in S
  BY <1>1, ElementOfSeq
<1> QED BY <1>1, <1>5, <1>6

(* The part that is at the front of the list                               *)
LEMMA FirstPart ==
  ASSUME SortTypeOK, SegmentsApart, pass = NoPass, ranges # <<>>
  PROVE  /\ ranges[1][1] \in Nat /\ ranges[1][2] \in Nat
         /\ Tail(ranges) \in Seq(Nat \X Nat)
         /\ Segment(ranges[1]) \subseteq 1 .. Len(sorted)
         /\ Parts = {Segment(Tail(ranges)[m]) : m \in 1 .. Len(Tail(ranges))}
                       \cup {Segment(ranges[1])}
         /\ \A m \in 1 .. Len(Tail(ranges)) :
              Segment(Tail(ranges)[m]) \subseteq 1 .. Len(sorted)
         /\ \A m \in 1 .. Len(Tail(ranges)) :
              Segment(Tail(ranges)[m]) \cap Segment(ranges[1]) = {}
         /\ \A m, k \in 1 .. Len(Tail(ranges)) :
              m # k => Segment(Tail(ranges)[m]) \cap Segment(Tail(ranges)[k]) = {}
<1> DEFINE n == Len(ranges)
<1>1. /\ n \in Nat \ {0} /\ Len(Tail(ranges)) = n - 1 /\ Tail(ranges) \in Seq(Nat \X Nat)
      /\ ranges[1] \in Nat \X Nat
      /\ \A m \in 1 .. n - 1 : Tail(ranges)[m] = ranges[m + 1]
  BY TailElements DEF SortTypeOK
<1>2. \A m \in 1 .. n - 1 : m + 1 \in 1 .. n /\ m + 1 # 1
  BY <1>1
<1>3. \A m, k \in 1 .. n - 1 : m # k => m + 1 # k + 1
  BY <1>1
<1>4. 1 \in 1 .. n
  BY <1>1
<1> DEFINE T == Tail(ranges)
<1> HIDE DEF T
<1>5. /\ \A m \in 1 .. n : Segment(ranges[m]) \subseteq 1 .. Len(sorted)
      /\ \A m, k \in 1 .. n : m # k => Segment(ranges[m]) \cap Segment(ranges[k]) = {}
  BY DEF SegmentsApart
<1>6. /\ \A m \in 1 .. n - 1 : Segment(T[m]) \subseteq 1 .. Len(sorted)
      /\ \A m \in 1 .. n - 1 : Segment(T[m]) \cap Segment(ranges[1]) = {}
      /\ \A m, k \in 1 .. n - 1 : m # k => Segment(T[m]) \cap Segment(T[k]) = {}
  BY <1>1, <1>2, <1>3, <1>4, <1>5 DEF T
<1>7. Parts = {Segment(T[m]) : m \in 1 .. n - 1} \cup {Segment(ranges[1])}
  <2>1. Parts = {Segment(ranges[m]) : m \in 1 .. n}
    BY DEF Parts
  <2>2. \A m \in 1 .. n : m = 1 \/ (m - 1 \in 1 .. n - 1 /\ ranges[m] = T[m - 1])
    <3> SUFFICES ASSUME NEW m \in 1 .. n, m # 1
                 PROVE  m - 1 \in 1 .. n - 1 /\ ranges[m] = T[m - 1]
      OBVIOUS
    <3>1. m - 1 \in 1 .. n - 1 /\ (m - 1) + 1 = m
      BY <1>1
    <3> QED BY <1>1, <3>1 DEF T
  <2>3. \A m \in 1 .. n - 1 : T[m] = ranges[m + 1]
    BY <1>1 DEF T
  <2> HIDE DEF n
  <2> QED BY <2>1, <2>2, <2>3, <1>2, <1>4
<1>8. /\ Len(T) = n - 1 /\ T \in Seq(Nat \X Nat)
      /\ ranges[1][1] \in Nat /\ ranges[1][2] \in Nat
      /\ Segment(ranges[1]) \subseteq 1 .. Len(sorted)
  BY <1>1, <1>4, <1>5 DEF T
<1>9. T = Tail(ranges)
  BY DEF T
<1> HIDE DEF n
<1> QED BY <1>6, <1>7, <1>8, <1>9

LEMMA StartPassSorts ==
  ASSUME SortTypeOK, SortInv, StartPass
  PROVE  SortTypeOK' /\ SortInv'
<1> DEFINE first == ranges[1][1]
           n == ranges[1][2]
           T == Tail(ranges)
<1>1. /\ at = "sort" /\ pass = NoPass /\ ranges # <<>> /\ ranges' = T
      /\ at' = at /\ given' = given
      /\ given # <<>> /\ Permuted /\ SegmentsApart /\ InOrder(sorted, Parts)
      /\ given \in Seq(TimeInterval) /\ sorted \in Seq(TimeInterval)
  BY DEF StartPass, SortInv, SortTypeOK, input
<1>2. /\ first \in Nat /\ n \in Nat /\ T \in Seq(Nat \X Nat)
      /\ Segment(ranges[1]) \subseteq 1 .. Len(sorted)
      /\ Parts = {Segment(T[m]) : m \in 1 .. Len(T)} \cup {Segment(ranges[1])}
      /\ \A m \in 1 .. Len(T) : Segment(T[m]) \subseteq 1 .. Len(sorted)
      /\ \A m \in 1 .. Len(T) : Segment(T[m]) \cap Segment(ranges[1]) = {}
      /\ \A m, k \in 1 .. Len(T) : m # k => Segment(T[m]) \cap Segment(T[k]) = {}
  BY <1>1, FirstPart
<1>3. Segment(ranges[1]) = first .. first + n - 1 /\ Len(sorted) \in Nat
  BY <1>1, LenProperties DEF Segment
<1>4. Head(ranges) = ranges[1]
  BY <1>1, TailElements DEF SortTypeOK
<1> HIDE DEF T
<1>5. CASE n < 2
  <2>1. sorted' = sorted /\ pass' = NoPass
    BY <1>1, <1>4, <1>5 DEF StartPass
  <2>2. SortTypeOK'
    BY <1>1, <1>2, <2>1 DEF SortTypeOK
  <2>3. Permuted'
    BY <1>1, <2>1 DEF Permuted
  <2>4. SegmentsApart'
    BY <1>1, <1>2, <2>1 DEF SegmentsApart, Segment
  <2>5. Parts' = {Segment(T[m]) : m \in 1 .. Len(T)}
    BY <1>1, <2>1 DEF Parts, Segment
  <2>6. InOrder(sorted, Parts')
    <3> SUFFICES ASSUME NEW i \in 1 .. Len(sorted), NEW j \in 1 .. Len(sorted), i < j
                 PROVE  \/ sorted[i].start <= sorted[j].start
                        \/ \E A \in Parts' : {i, j} \subseteq A
      BY DEF InOrder
    <3>1. \/ sorted[i].start <= sorted[j].start
          \/ \E A \in Parts : {i, j} \subseteq A
      BY <1>1 DEF InOrder
    <3>2. ~({i, j} \subseteq Segment(ranges[1]))
      BY <1>2, <1>3, <1>5
    <3> QED BY <1>2, <2>5, <3>1, <3>2
  <2> QED BY <1>1, <2>1, <2>2, <2>3, <2>4, <2>6 DEF SortInv, InOrder
<1>6. CASE ~(n < 2)
  <2> DEFINE p == [first |-> first, n |-> n, lt |-> first, i |-> first,
                   gt |-> first + n - 1, pivot |-> first]
             a == first
             b == first + n \div 2
  <2>1. sorted' = Swap(sorted, a, b) /\ pass' = p
    BY <1>1, <1>4, <1>6 DEF StartPass
  <2>2. /\ a \in 1 .. Len(sorted) /\ b \in 1 .. Len(sorted)
        /\ a \in first .. first + n - 1 /\ b \in first .. first + n - 1
        /\ first + n - 1 \in 1 .. Len(sorted)
    <3>1. n \div 2 \in 0 .. n - 1
      BY <1>2, <1>6
    <3>2. \A k \in first .. first + n - 1 : k \in 1 .. Len(sorted)
      BY <1>2, <1>3
    <3>3. /\ a \in first .. first + n - 1 /\ b \in first .. first + n - 1
          /\ first + n - 1 \in first .. first + n - 1
      BY <1>2, <1>6, <3>1, SMTT(30)
    <3> HIDE DEF a, b
    <3> QED BY <3>2, <3>3
  <2>3. /\ p \in PassRecord /\ p.first = first /\ p.n = n /\ p.lt = first /\ p.i = first
        /\ p.gt = first + n - 1 /\ p.pivot = first
    BY <1>2, <1>6, <2>2 DEF PassRecord
  <2> HIDE DEF p
  <2>4. PassSegment(pass') = Segment(ranges[1]) /\ pass' # NoPass
    BY <1>3, <2>1, <2>3, PassTold DEF PassSegment
  <2>5. /\ sorted' \in Seq(TimeInterval) /\ Len(sorted') = Len(sorted)
        /\ Range(sorted') = Range(sorted)
        /\ \A x \in TimeInterval : Times(sorted', x) = Times(sorted, x)
    <3> HIDE DEF a, b
    <3> QED BY <1>1, <2>1, <2>2, SwapFacts
  <2>6. SortTypeOK'
    BY <1>1, <1>2, <2>1, <2>3, <2>5 DEF SortTypeOK
  <2>7. Permuted'
    BY <1>1, <2>5 DEF Permuted, Times
  <2>8. SegmentsApart'
    BY <1>1, <1>2, <2>4, <2>5 DEF SegmentsApart, Segment, PassSegment
  <2>9. Parts' = Parts
    BY <1>1, <1>2, <2>4 DEF Parts, Segment, PassSegment
  <2>10. InOrder(sorted', Parts)
    <3>1. \A A, B \in Parts : A # B => A \cap B = {}
      BY <1>1, PartsApart
    <3>2. first .. first + n - 1 \in Parts /\ first .. first + n - 1 \subseteq 1 .. Len(sorted)
      BY <1>2, <1>3
    <3>3. first \in Int /\ first + n - 1 \in Int
      BY <1>2
    <3> HIDE DEF a, b
    <3> QED BY <1>1, <2>1, <2>2, <3>1, <3>2, <3>3, SwapInOrder
  <2>11. PassOver(p, sorted')
    <3>1. /\ 1 <= first /\ first <= first + n - 1 /\ first + n - 1 <= Len(sorted')
          /\ first <= first + n - 1 + 1
      BY <1>2, <1>6, <2>2, <2>5
    <3>2. /\ \A k \in first .. first - 1 : FALSE
          /\ \A k \in first + n - 1 + 1 .. first + n - 1 : FALSE
      BY <1>2
    <3> QED BY <1>2, <2>3, <3>1, <3>2 DEF PassOver
  <2> QED BY <1>1, <2>1, <2>6, <2>7, <2>8, <2>9, <2>10, <2>11, SMTT(30) DEF SortInv, InOrder, PassOver
<1> QED BY <1>5, <1>6

(* What a step makes of a pass                                             *)
LEMMA PassGoesOn ==
  ASSUME NEW p \in PassRecord, p.pivot = p.lt
  PROVE  /\ MoveSmaller(p) \in PassRecord
         /\ MoveSmaller(p).first = p.first /\ MoveSmaller(p).n = p.n
         /\ MoveSmaller(p).lt = p.lt + 1 /\ MoveSmaller(p).i = p.i + 1
         /\ MoveSmaller(p).gt = p.gt /\ MoveSmaller(p).pivot = p.lt + 1
         /\ p.lt < p.gt =>
              /\ MoveGreater(p) \in PassRecord
              /\ MoveGreater(p).first = p.first /\ MoveGreater(p).n = p.n
              /\ MoveGreater(p).lt = p.lt /\ MoveGreater(p).i = p.i
              /\ MoveGreater(p).gt = p.gt - 1 /\ MoveGreater(p).pivot = p.lt
         /\ [p EXCEPT !.i = @ + 1] \in PassRecord
         /\ [p EXCEPT !.i = @ + 1].first = p.first /\ [p EXCEPT !.i = @ + 1].n = p.n
         /\ [p EXCEPT !.i = @ + 1].lt = p.lt /\ [p EXCEPT !.i = @ + 1].i = p.i + 1
         /\ [p EXCEPT !.i = @ + 1].gt = p.gt /\ [p EXCEPT !.i = @ + 1].pivot = p.lt
<1>1. /\ MoveSmaller(p) \in PassRecord
      /\ MoveSmaller(p).first = p.first /\ MoveSmaller(p).n = p.n
      /\ MoveSmaller(p).lt = p.lt + 1 /\ MoveSmaller(p).i = p.i + 1
      /\ MoveSmaller(p).gt = p.gt /\ MoveSmaller(p).pivot = p.lt + 1
  <2>1. MoveSmaller(p) = [p EXCEPT !.lt = p.lt + 1, !.i = p.i + 1, !.pivot = p.lt + 1]
    BY DEF MoveSmaller
  <2>2. p.lt + 1 \in Nat /\ p.i + 1 \in Nat
    BY DEF PassRecord
  <2> QED BY <2>1, <2>2 DEF PassRecord
<1>2. ASSUME p.lt < p.gt
      PROVE  /\ MoveGreater(p) \in PassRecord
             /\ MoveGreater(p).first = p.first /\ MoveGreater(p).n = p.n
             /\ MoveGreater(p).lt = p.lt /\ MoveGreater(p).i = p.i
             /\ MoveGreater(p).gt = p.gt - 1 /\ MoveGreater(p).pivot = p.lt
  <2>1. MoveGreater(p) = [p EXCEPT !.gt = p.gt - 1, !.pivot = p.lt]
    <3>1. p.pivot # p.gt
      BY <1>2 DEF PassRecord
    <3> QED BY <3>1 DEF MoveGreater
  <2>2. p.gt - 1 \in Nat /\ p.lt \in Nat
    BY <1>2 DEF PassRecord
  <2> QED BY <2>1, <2>2 DEF PassRecord
<1>3. /\ [p EXCEPT !.i = @ + 1] \in PassRecord
      /\ [p EXCEPT !.i = @ + 1].first = p.first /\ [p EXCEPT !.i = @ + 1].n = p.n
      /\ [p EXCEPT !.i = @ + 1].lt = p.lt /\ [p EXCEPT !.i = @ + 1].i = p.i + 1
      /\ [p EXCEPT !.i = @ + 1].gt = p.gt /\ [p EXCEPT !.i = @ + 1].pivot = p.lt
  BY DEF PassRecord
<1> QED BY <1>1, <1>2, <1>3

LEMMA SortElementSorts ==
  ASSUME SortTypeOK, SortInv, SortElement
  PROVE  SortTypeOK' /\ SortInv'
<1> DEFINE p == pass
           s == sorted
           last == p.first + p.n - 1
           v == s[p.lt].start
<1>1. /\ at = "sort" /\ pass # NoPass /\ p.i <= p.gt /\ ranges' = ranges
      /\ at' = at /\ given' = given
      /\ given # <<>> /\ Permuted /\ SegmentsApart /\ InOrder(s, Parts) /\ PassOver(p, s)
      /\ given \in Seq(TimeInterval) /\ s \in Seq(TimeInterval) /\ p \in PassRecord
  BY DEF SortElement, SortInv, SortTypeOK, input
<1>2. /\ p.first \in Nat /\ p.n \in Nat /\ p.lt \in Nat /\ p.i \in Nat /\ p.gt \in Nat
      /\ 1 <= p.first /\ p.first <= p.lt /\ p.lt <= p.i /\ p.i <= p.gt
      /\ p.gt <= last /\ last <= Len(s) /\ Len(s) \in Nat /\ p.pivot = p.lt
      /\ \A k \in 1 .. Len(s) : s[k].start \in Int
  BY <1>1, Starts DEF PassRecord, PassOver
<1>3. PassSegment(p) = p.first .. last
  BY DEF PassSegment
<1>4. /\ \A k \in p.first .. p.lt - 1 : s[k].start < v
      /\ \A k \in p.lt .. p.i - 1 : s[k].start = v
      /\ \A k \in p.gt + 1 .. last : s[k].start > v
  BY <1>1 DEF PassOver
<1>5. ASSUME NEW q \in PassRecord, pass' = q, q.first = p.first, q.n = p.n,
             sorted' \in Seq(TimeInterval), Len(sorted') = Len(s), Range(sorted') = Range(s),
             \A x \in TimeInterval : Times(sorted', x) = Times(s, x),
             InOrder(sorted', Parts), PassOver(q, sorted')
      PROVE  SortTypeOK' /\ SortInv'
  <2>1. SortTypeOK'
    BY <1>1, <1>5 DEF SortTypeOK
  <2>2. Permuted'
    BY <1>1, <1>5 DEF Permuted, Times
  <2>3. PassSegment(pass') = PassSegment(p) /\ pass' # NoPass
    BY <1>5, PassTold DEF PassSegment
  <2>4. SegmentsApart'
    BY <1>1, <1>5, <2>3 DEF SegmentsApart, Segment, PassSegment
  <2>5. Parts' = Parts
    BY <1>1, <2>3 DEF Parts, Segment, PassSegment
  <2> QED BY <1>1, <1>5, <2>1, <2>2, <2>4, <2>5 DEF SortInv, InOrder, PassOver
<1>6. ASSUME NEW a \in p.first .. last, NEW b \in p.first .. last, sorted' = Swap(s, a, b)
      PROVE  /\ sorted' \in Seq(TimeInterval) /\ Len(sorted') = Len(s)
             /\ Range(sorted') = Range(s)
             /\ \A x \in TimeInterval : Times(sorted', x) = Times(s, x)
             /\ InOrder(sorted', Parts)
             /\ \A k \in 1 .. Len(s) :
                  sorted'[k] = IF k = b THEN s[a] ELSE IF k = a THEN s[b] ELSE s[k]
  <2>1. a \in 1 .. Len(s) /\ b \in 1 .. Len(s)
    BY <1>2
  <2>2. \A A, B \in Parts : A # B => A \cap B = {}
    BY <1>1, PartsApart
  <2>3. p.first .. last \in Parts /\ p.first .. last \subseteq 1 .. Len(s)
    BY <1>1, <1>2, <1>3, SMTT(30) DEF Parts
  <2>4. p.first \in Int /\ last \in Int
    BY <1>2
  <2>5. InOrder(Swap(s, a, b), Parts)
    <3> HIDE DEF last
    <3> QED BY <1>1, <2>2, <2>3, <2>4, SwapInOrder
  <2>6. /\ Swap(s, a, b) \in Seq(TimeInterval) /\ Len(Swap(s, a, b)) = Len(s)
        /\ \A k \in 1 .. Len(s) :
             Swap(s, a, b)[k] = IF k = b THEN s[a] ELSE IF k = a THEN s[b] ELSE s[k]
        /\ Range(Swap(s, a, b)) = Range(s)
        /\ \A x : Times(Swap(s, a, b), x) = Times(s, x)
    BY ONLY <2>1, SwapFacts, <1>1
  <2> QED BY <1>6, <2>5, <2>6
<1>7. CASE s[p.i].start < v /\ sorted' = Swap(s, p.lt, p.i) /\ pass' = MoveSmaller(p)
  <2> DEFINE q == MoveSmaller(p)
             t == sorted'
  <2>1. p.lt < p.i
    <3>1. p.lt \in 1 .. Len(s) /\ p.i \in 1 .. Len(s)
      BY <1>2
    <3>2. ~(s[p.i].start < s[p.i].start)
      BY <1>2, <3>1
    <3> QED BY <1>2, <1>7, <3>2
  <2>2. /\ q \in PassRecord /\ q.first = p.first /\ q.n = p.n /\ q.lt = p.lt + 1
        /\ q.i = p.i + 1 /\ q.gt = p.gt /\ q.pivot = p.lt + 1
    BY <1>1, <1>2, PassGoesOn
  <2>3. p.lt \in p.first .. last /\ p.i \in p.first .. last
    BY <1>2
  <2>4. \A k \in 1 .. Len(s) :
          t[k] = IF k = p.i THEN s[p.lt] ELSE IF k = p.lt THEN s[p.i] ELSE s[k]
    BY <1>6, <1>7, <2>3
  <2>5. t[p.lt + 1].start = v
    <3>1. p.lt + 1 \in 1 .. Len(s) /\ p.lt + 1 # p.lt
      BY <1>2, <2>1
    <3>2. p.lt + 1 = p.i \/ p.lt + 1 \in p.lt .. p.i - 1
      BY <1>2, <2>1
    <3> HIDE DEF t
    <3> QED BY <1>4, <2>4, <3>1, <3>2
  <2>6. Len(t) = Len(s)
    BY <1>6, <1>7, <2>3
  <2> HIDE DEF q, t, v
  <2>7. \A k \in q.first .. q.lt - 1 : t[k].start < v
    <3> SUFFICES ASSUME NEW k \in p.first .. p.lt PROVE t[k].start < v
      BY <1>2, <2>2
    <3>1. k \in 1 .. Len(s) /\ k # p.i
      BY <1>2, <2>1
    <3>2. CASE k = p.lt
      BY <1>7, <2>4, <3>1, <3>2
    <3>3. CASE k # p.lt
      <4>1. k \in p.first .. p.lt - 1
        BY <1>2, <3>3
      <4> QED BY <1>4, <2>4, <3>1, <3>3, <4>1
    <3> QED BY <3>2, <3>3
  <2>8. \A k \in q.lt .. q.i - 1 : t[k].start = v
    <3> SUFFICES ASSUME NEW k \in p.lt + 1 .. p.i PROVE t[k].start = v
      BY <1>2, <2>2
    <3>1. k \in 1 .. Len(s) /\ k # p.lt
      BY <1>2, <2>1, SMTT(30)
    <3>2. k = p.i \/ k \in p.lt .. p.i - 1
      BY <1>2, <2>1
    <3> QED BY <1>4, <2>4, <3>1, <3>2 DEF v
  <2>9. \A k \in q.gt + 1 .. q.first + q.n - 1 : t[k].start > v
    <3> SUFFICES ASSUME NEW k \in p.gt + 1 .. last PROVE t[k].start > v
      BY <1>2, <2>2
    <3>1. k \in 1 .. Len(s) /\ k # p.lt /\ k # p.i
      BY <1>2, <2>1
    <3> QED BY <1>4, <2>4, <3>1
  <2>10. PassOver(q, t)
    BY <1>2, <2>1, <2>2, <2>5, <2>6, <2>7, <2>8, <2>9 DEF PassOver
  <2>11. pass' = q
    BY <1>7 DEF q
  <2> QED BY <1>5, <1>6, <1>7, <2>2, <2>3, <2>10, <2>11 DEF t
<1>8. CASE s[p.i].start > v /\ sorted' = Swap(s, p.gt, p.i) /\ pass' = MoveGreater(p)
  <2> DEFINE q == MoveGreater(p)
             t == sorted'
  <2>1. p.lt < p.i
    <3>1. p.lt \in 1 .. Len(s) /\ p.i \in 1 .. Len(s)
      BY <1>2
    <3>2. ~(s[p.i].start > s[p.i].start)
      BY <1>2, <3>1
    <3> QED BY <1>2, <1>8, <3>2
  <2>2. /\ q \in PassRecord /\ q.first = p.first /\ q.n = p.n /\ q.lt = p.lt
        /\ q.i = p.i /\ q.gt = p.gt - 1 /\ q.pivot = p.lt
    <3>1. p.lt < p.gt
      BY <1>2, <2>1
    <3> QED BY <1>1, <1>2, <3>1, PassGoesOn
  <2>3. p.gt \in p.first .. last /\ p.i \in p.first .. last
    BY <1>2
  <2>4. \A k \in 1 .. Len(s) :
          t[k] = IF k = p.i THEN s[p.gt] ELSE IF k = p.gt THEN s[p.i] ELSE s[k]
    BY <1>6, <1>8, <2>3
  <2>5. t[p.lt].start = v
    <3>1. p.lt \in 1 .. Len(s) /\ p.lt # p.i /\ p.lt # p.gt
      BY <1>2, <2>1, SMTT(30)
    <3> HIDE DEF t
    <3> QED BY <2>4, <3>1
  <2>6. Len(t) = Len(s)
    BY <1>6, <1>8, <2>3
  <2> HIDE DEF q, t, v
  <2>7. \A k \in p.first .. p.lt - 1 : t[k].start < v
    <3> SUFFICES ASSUME NEW k \in p.first .. p.lt - 1 PROVE t[k].start < v
      OBVIOUS
    <3>1. k \in 1 .. Len(s) /\ k # p.i /\ k # p.gt
      BY <1>2, <2>1, SMTT(30)
    <3> QED BY <1>4, <2>4, <3>1
  <2>8. \A k \in p.lt .. p.i - 1 : t[k].start = v
    <3> SUFFICES ASSUME NEW k \in p.lt .. p.i - 1 PROVE t[k].start = v
      OBVIOUS
    <3>1. k \in 1 .. Len(s) /\ k # p.gt /\ k # p.i
      BY <1>2, <2>1, SMTT(30)
    <3> QED BY <1>4, <2>4, <3>1
  <2>9. \A k \in p.gt .. last : t[k].start > v
    <3> SUFFICES ASSUME NEW k \in p.gt .. last PROVE t[k].start > v
      OBVIOUS
    <3>1. k \in 1 .. Len(s) /\ (k = p.gt \/ (k \in p.gt + 1 .. last /\ k # p.gt /\ k # p.i))
      BY <1>2, <2>1
    <3>2. CASE k = p.gt
      BY <1>8, <2>4, <3>1, <3>2
    <3> QED BY <1>4, <2>4, <3>1, <3>2
  <2>10. PassOver(q, t)
    <3>1. q.gt + 1 = p.gt /\ p.lt <= p.gt - 1
      BY <1>2, <2>1, <2>2
    <3> QED BY <1>2, <2>1, <2>2, <2>5, <2>6, <2>7, <2>8, <2>9, <3>1 DEF PassOver
  <2>11. pass' = q
    BY <1>8 DEF q
  <2> QED BY <1>5, <1>6, <1>8, <2>2, <2>3, <2>10, <2>11 DEF t
<1>9. CASE s[p.i].start = v /\ sorted' = s /\ pass' = [p EXCEPT !.i = @ + 1]
  <2> DEFINE q == [p EXCEPT !.i = @ + 1]
  <2>1. /\ q \in PassRecord /\ q.first = p.first /\ q.n = p.n /\ q.lt = p.lt
        /\ q.i = p.i + 1 /\ q.gt = p.gt /\ q.pivot = p.lt
    BY <1>1, <1>2, PassGoesOn
  <2>2. pass' = q
    BY <1>9
  <2> HIDE DEF q, v
  <2>3. \A k \in p.lt .. p.i : s[k].start = v
    <3> SUFFICES ASSUME NEW k \in p.lt .. p.i PROVE s[k].start = v
      OBVIOUS
    <3>1. k = p.i \/ k \in p.lt .. p.i - 1
      BY <1>2
    <3> QED BY <1>4, <1>9, <3>1
  <2>4. PassOver(q, s)
    BY <1>2, <1>4, <2>1, <2>3, SMTT(30) DEF PassOver, v
  <2> QED BY <1>1, <1>5, <1>9, <2>1, <2>2, <2>4
<1> QED BY <1>1, <1>2, <1>7, <1>8, <1>9 DEF SortElement

LEMMA EndPassSorts ==
  ASSUME SortTypeOK, SortInv, EndPass
  PROVE  SortTypeOK' /\ SortInv'
<1> DEFINE p == pass
           s == sorted
           last == p.first + p.n - 1
           v == s[p.lt].start
           front == <<p.first, p.lt - p.first>>
           back == <<p.gt + 1, p.first + p.n - 1 - p.gt>>
           R == <<front, back>> \o ranges
           r == Len(ranges)
<1>0. ranges' = R
  BY DEF EndPass
<1> HIDE DEF R, front, back, last, v
<1>1. /\ at = "sort" /\ pass # NoPass /\ p.i > p.gt /\ pass' = NoPass
      /\ at' = at /\ given' = given /\ sorted' = sorted
      /\ given # <<>> /\ Permuted /\ SegmentsApart /\ InOrder(s, Parts) /\ PassOver(p, s)
      /\ given \in Seq(TimeInterval) /\ s \in Seq(TimeInterval) /\ p \in PassRecord
      /\ ranges \in Seq(Nat \X Nat)
  BY DEF EndPass, SortInv, SortTypeOK, input
<1>2. /\ p.first \in Nat /\ p.n \in Nat /\ p.lt \in Nat /\ p.i \in Nat /\ p.gt \in Nat
      /\ 1 <= p.first /\ p.first <= p.lt /\ p.i = p.gt + 1 /\ p.lt <= p.gt
      /\ p.gt <= last /\ last <= Len(s) /\ Len(s) \in Nat
      /\ last = p.first + p.n - 1 /\ last \in Int
      /\ \A k \in 1 .. Len(s) : s[k].start \in Int
  <2>1. /\ p.first \in Nat /\ p.n \in Nat /\ p.lt \in Nat /\ p.i \in Nat /\ p.gt \in Nat
    BY <1>1 DEF PassRecord
  <2>2. Len(s) \in Nat /\ \A k \in 1 .. Len(s) : s[k].start \in Int
    BY <1>1, Starts
  <2>3. /\ 1 <= p.first /\ p.first <= p.lt /\ p.i <= p.gt + 1 /\ p.lt <= p.gt
        /\ p.gt <= p.first + p.n - 1 /\ p.first + p.n - 1 <= Len(s)
    BY <1>1 DEF PassOver
  <2>4. p.i > p.gt
    BY <1>1
  <2> QED BY <2>1, <2>2, <2>3, <2>4 DEF last
<1>3. /\ PassSegment(p) = p.first .. last
      /\ Segment(front) = p.first .. p.lt - 1
      /\ Segment(back) = p.gt + 1 .. last
  <2>1. front[1] = p.first /\ front[2] = p.lt - p.first
    BY DEF front
  <2>2. back[1] = p.gt + 1 /\ back[2] = last - p.gt
    BY <1>2 DEF back
  <2>3. /\ p.first + (p.lt - p.first) - 1 = p.lt - 1
        /\ (p.gt + 1) + (last - p.gt) - 1 = last
    <3>1. p.first \in Int /\ p.lt \in Int /\ p.gt \in Int /\ last \in Int
      BY <1>2
    <3> QED BY ONLY <3>1
  <2>4. Segment(front) = p.first .. p.lt - 1
    BY ONLY <2>1, <2>3 DEF Segment
  <2>5. Segment(back) = p.gt + 1 .. last
    BY ONLY <2>2, <2>3 DEF Segment
  <2>6. PassSegment(p) = p.first .. last
    BY ONLY <1>2 DEF PassSegment
  <2> QED BY ONLY <2>4, <2>5, <2>6
<1>4. /\ \A k \in p.first .. p.lt - 1 : s[k].start < v
      /\ \A k \in p.lt .. p.gt : s[k].start = v
      /\ \A k \in p.gt + 1 .. last : s[k].start > v
  BY <1>1, <1>2 DEF PassOver, v
<1>5. /\ R \in Seq(Nat \X Nat) /\ Len(R) = r + 2 /\ r \in Nat
      /\ R[1] = front /\ R[2] = back
      /\ \A m \in 3 .. r + 2 : R[m] = ranges[m - 2] /\ m - 2 \in 1 .. r
  <2>1. front \in Nat \X Nat /\ back \in Nat \X Nat
    <3>1. p.lt - p.first \in Nat /\ p.gt + 1 \in Nat /\ last - p.gt \in Nat
      BY <1>2
    <3> QED BY <1>2, <3>1, SMTT(30) DEF front, back
  <2> DEFINE two == <<front, back>>
  <2>2. two \in Seq(Nat \X Nat) /\ Len(two) = 2 /\ two[1] = front /\ two[2] = back
    BY <2>1
  <2>3. r \in Nat
    BY <1>1, LenProperties
  <2>4. R = two \o ranges
    BY DEF two, R
  <2> HIDE DEF two
  <2>5. /\ two \o ranges \in Seq(Nat \X Nat) /\ Len(two \o ranges) = Len(two) + r
        /\ \A i \in 1 .. Len(two) + r :
             (two \o ranges)[i] = IF i <= Len(two) THEN two[i] ELSE ranges[i - Len(two)]
    BY <1>1, <2>2, ConcatProperties
  <2>6. /\ R \in Seq(Nat \X Nat) /\ Len(R) = 2 + r
        /\ \A i \in 1 .. 2 + r : R[i] = IF i <= 2 THEN two[i] ELSE ranges[i - 2]
    BY <2>2, <2>4, <2>5
  <2> HIDE DEF r
  <2>7. 1 \in 1 .. 2 + r /\ 2 \in 1 .. 2 + r
    BY <2>3
  <2>8. R[1] = front /\ R[2] = back
    <3>1. R[1] = IF 1 <= 2 THEN two[1] ELSE ranges[1 - 2]
      BY <2>6, <2>7
    <3>2. R[2] = IF 2 <= 2 THEN two[2] ELSE ranges[2 - 2]
      BY <2>6, <2>7
    <3> QED BY ONLY <2>2, <3>1, <3>2
  <2>9. ASSUME NEW m \in 3 .. r + 2 PROVE R[m] = ranges[m - 2] /\ m - 2 \in 1 .. r
    <3>1. m \in 1 .. 2 + r /\ ~(m <= 2) /\ m - 2 \in 1 .. r
      BY <2>3
    <3> QED BY <2>6, <3>1
  <2> QED BY <2>3, <2>6, <2>8, <2>9
<1>6. \A m \in 1 .. r + 2 :
        \/ m = 1 /\ Segment(R[m]) = p.first .. p.lt - 1
        \/ m = 2 /\ Segment(R[m]) = p.gt + 1 .. last
        \/ m \in 3 .. r + 2 /\ m - 2 \in 1 .. r /\ Segment(R[m]) = Segment(ranges[m - 2])
  BY <1>3, <1>5
<1>7. /\ \A m \in 1 .. r : Segment(ranges[m]) \subseteq 1 .. Len(s)
      /\ \A m, k \in 1 .. r : m # k => Segment(ranges[m]) \cap Segment(ranges[k]) = {}
      /\ \A m \in 1 .. r : Segment(ranges[m]) \cap (p.first .. last) = {}
  BY <1>1, <1>3 DEF SegmentsApart
<1>8. /\ p.first .. p.lt - 1 \subseteq p.first .. last
      /\ p.gt + 1 .. last \subseteq p.first .. last
      /\ (p.first .. p.lt - 1) \cap (p.gt + 1 .. last) = {}
      /\ p.first .. last \subseteq 1 .. Len(s)
  BY <1>2
<1>9. SegmentsApart'
  <2>1. \A m \in 1 .. r + 2 : Segment(R[m]) \subseteq 1 .. Len(s)
    BY <1>6, <1>7, <1>8
  <2>2. ASSUME NEW m \in 1 .. r + 2, NEW k \in 1 .. r + 2, m # k
        PROVE  Segment(R[m]) \cap Segment(R[k]) = {}
    <3>1. m \in 3 .. r + 2 /\ k \in 3 .. r + 2 => m - 2 # k - 2
      BY <2>2
    <3> HIDE DEF last, r
    <3> QED BY <1>6, <1>7, <1>8, <2>2, <3>1, ZenonT(30)
  <2> QED BY <1>0, <1>1, <1>5, <2>1, <2>2 DEF SegmentsApart, Segment
<1>10. Parts' = {Segment(R[m]) : m \in 1 .. r + 2}
  BY <1>0, <1>1, <1>5 DEF Parts, Segment
<1>11. \A m \in 1 .. r : Segment(ranges[m]) \in Parts'
  <2> SUFFICES ASSUME NEW m \in 1 .. r PROVE Segment(ranges[m]) \in Parts'
    OBVIOUS
  <2>1. m + 2 \in 3 .. r + 2 /\ (m + 2) - 2 = m /\ m + 2 \in 1 .. r + 2
    BY <1>5
  <2> QED BY <1>5, <1>10, <2>1
<1>12. p.first .. p.lt - 1 \in Parts' /\ p.gt + 1 .. last \in Parts'
  <2>1. 1 \in 1 .. r + 2 /\ 2 \in 1 .. r + 2
    BY <1>5
  <2> QED BY <1>3, <1>5, <1>10, <2>1
<1>13. InOrder(s, Parts')
  <2> SUFFICES ASSUME NEW i \in 1 .. Len(s), NEW j \in 1 .. Len(s), i < j
               PROVE  s[i].start <= s[j].start \/ \E A \in Parts' : {i, j} \subseteq A
    BY DEF InOrder
  <2>1. s[i].start <= s[j].start \/ \E A \in Parts : {i, j} \subseteq A
    BY <1>1 DEF InOrder
  <2>2. ASSUME NEW m \in 1 .. r, {i, j} \subseteq Segment(ranges[m])
        PROVE  \E A \in Parts' : {i, j} \subseteq A
    BY <1>11, <2>2
  <2>3. ASSUME {i, j} \subseteq p.first .. last
        PROVE  s[i].start <= s[j].start \/ \E A \in Parts' : {i, j} \subseteq A
    <3>1. \/ {i, j} \subseteq p.first .. p.lt - 1
          \/ {i, j} \subseteq p.gt + 1 .. last
          \/ i \in p.first .. p.lt - 1 /\ (j \in p.lt .. p.gt \/ j \in p.gt + 1 .. last)
          \/ i \in p.lt .. p.gt /\ (j \in p.lt .. p.gt \/ j \in p.gt + 1 .. last)
      BY <1>2, <2>3, SMTT(30)
    <3>2. /\ s[i].start \in Int /\ s[j].start \in Int /\ v \in Int
      <4>1. p.lt \in 1 .. Len(s)
        BY <1>2, SMTT(30)
      <4> QED BY <1>2, <4>1 DEF v
    <3>3. CASE {i, j} \subseteq p.first .. p.lt - 1
      BY <1>12, <3>3
    <3>4. CASE {i, j} \subseteq p.gt + 1 .. last
      BY <1>12, <3>4
    <3>5. CASE i \in p.first .. p.lt - 1 /\ (j \in p.lt .. p.gt \/ j \in p.gt + 1 .. last)
      BY <1>4, <3>2, <3>5
    <3>6. CASE i \in p.lt .. p.gt /\ (j \in p.lt .. p.gt \/ j \in p.gt + 1 .. last)
      BY <1>4, <3>2, <3>6
    <3> QED BY <3>1, <3>3, <3>4, <3>5, <3>6
  <2> QED BY <1>1, <1>3, <2>1, <2>2, <2>3, ZenonT(30) DEF Parts
<1>14. Permuted'
  BY <1>1 DEF Permuted, Times
<1>15. SortTypeOK'
  BY <1>0, <1>1, <1>5 DEF SortTypeOK
<1> QED BY <1>1, <1>9, <1>13, <1>14, <1>15 DEF SortInv, InOrder

(* At first all of the intervals are to be sorted.                         *)
LEMMA SortsAtFirst ==
  ASSUME QueryInit
  PROVE  SortTypeOK /\ SortInv
<1>1. /\ given \in Seq(TimeInterval) /\ sorted = given /\ pass = NoPass
      /\ ranges = <<<<1, Len(given)>>>> /\ (at = "sort" => given # <<>>)
  BY QueryAssumption DEF QueryInit
<1>2. Len(given) \in Nat
  BY <1>1, LenProperties
<1>3. /\ ranges \in Seq(Nat \X Nat) /\ Len(ranges) = 1
      /\ Segment(ranges[1]) = 1 .. Len(sorted)
  BY <1>1, <1>2 DEF Segment
<1>4. Permuted
  BY <1>1 DEF Permuted
<1>5. SegmentsApart
  BY <1>1, <1>3 DEF SegmentsApart
<1>6. 1 .. Len(sorted) \in Parts
  <2>1. 1 \in 1 .. Len(ranges)
    BY <1>3
  <2> QED BY <1>1, <1>3, <2>1 DEF Parts
<1>7. InOrder(sorted, Parts)
  BY <1>6 DEF InOrder
<1> QED BY <1>1, <1>3, <1>4, <1>5, <1>7 DEF SortTypeOK, SortInv

-----------------------------------------------------------------------------
(* Merging                                                                 *)

CoveredAt(s, t) == \E k \in 1 .. Len(s) : s[k].start <= t /\ t <= s[k].end

(* What is covered by the merged intervals and those that are left         *)
KeptAt(t) ==
  \E k \in 1 .. into \cup from .. Len(sorted) : sorted[k].start <= t /\ t <= sorted[k].end

(* Merged intervals are apart; those that are left start behind the last   *)
(* of them and are in order.  The last one ends where a given interval     *)
(* does that starts before all that are left.                              *)
MergeInv ==
  at = "merge" =>
    /\ into \in Nat /\ from \in Nat /\ 1 <= into /\ into < from /\ from <= Len(sorted) + 1
    /\ \A k \in 2 .. into : sorted[k - 1].end < sorted[k].start
    /\ \A k \in from .. Len(sorted) :
         sorted[k] \in Range(given) /\ sorted[into].start <= sorted[k].start
    /\ \A j, k \in from .. Len(sorted) : j < k => sorted[j].start <= sorted[k].start
    /\ \E g \in Range(given) :
         g.end = sorted[into].end /\ \A k \in from .. Len(sorted) : g.start <= sorted[k].start
    /\ \A t \in Int : KeptAt(t) => CoveredAt(given, t)
    /\ Nested(given) \/ \A t \in Int : CoveredAt(given, t) => KeptAt(t)

LEMMA CoveredTold ==
  ASSUME NEW s \in Seq(TimeInterval), NEW t
  PROVE  t \in Covered(s) <=> t \in Int /\ CoveredAt(s, t)
<1>1. DOMAIN s = 1 .. Len(s) /\ \A k \in 1 .. Len(s) : s[k].start \in Int /\ s[k].end \in Int
  BY Starts, LenProperties
<1> QED BY <1>1 DEF Covered, CoveredAt

(* Whatever is among the given intervals is at some place of them.         *)
LEMMA GivenPlaces ==
  ASSUME NEW s \in Seq(TimeInterval)
  PROVE  /\ \A g \in Range(s) : g \in TimeInterval /\ g.start \in Int /\ g.end \in Int
                                  /\ g.start <= g.end
         /\ \A t \in Int : CoveredAt(s, t) <=> \E g \in Range(s) : g.start <= t /\ t <= g.end
         /\ \A k \in 1 .. Len(s) : s[k] \in Range(s)
<1>1. DOMAIN s = 1 .. Len(s) /\ \A k \in 1 .. Len(s) : s[k] \in TimeInterval
  BY LenProperties, ElementOfSeq
<1>2. \A g \in TimeInterval : g.start \in Int /\ g.end \in Int /\ g.start <= g.end
  BY DEF TimeInterval, Unsigned
<1> QED BY <1>1, <1>2 DEF Range, CoveredAt

(* Sorting is done; nothing is merged yet.                                 *)
LEMMA StartMergeMerges ==
  ASSUME SortTypeOK, SortInv, StartMerge
  PROVE  SortTypeOK' /\ MergeInv' /\ SortedRight'
<1> DEFINE n == Len(sorted)
<1>1. /\ at = "sort" /\ pass = NoPass /\ ranges = <<>> /\ at' = "merge" /\ into' = 1 /\ from' = 2
      /\ given' = given /\ sorted' = sorted /\ ranges' = ranges /\ pass' = pass
      /\ given # <<>> /\ Permuted /\ InOrder(sorted, Parts)
      /\ given \in Seq(TimeInterval) /\ sorted \in Seq(TimeInterval)
  BY DEF StartMerge, SortInv, SortTypeOK, input
<1>2. SortTypeOK'
  BY <1>1 DEF SortTypeOK
<1>3. /\ n \in Nat /\ n >= 1 /\ DOMAIN sorted = 1 .. n
      /\ Range(sorted) = Range(given) /\ \A k \in 1 .. n : sorted[k] \in Range(sorted)
      /\ \A k \in 1 .. n : sorted[k].start \in Int
  <2>1. Len(given) \in Nat \ {0} /\ n = Len(given)
    BY <1>1, EmptySeq DEF Permuted
  <2> QED BY <1>1, <2>1, GivenPlaces, Starts, LenProperties DEF Permuted
<1>4. Parts = {}
  <2>1. \A m \in 1 .. Len(ranges) : FALSE
    BY <1>1
  <2> QED BY <1>1, <2>1 DEF Parts
<1>5. \A i, j \in 1 .. n : i < j => sorted[i].start <= sorted[j].start
  BY <1>1, <1>4 DEF InOrder
<1>6. SortedRight'
  <2>1. \A k \in 2 .. n : sorted[k - 1].start <= sorted[k].start
    BY <1>3, <1>5
  <2>2. ASSUME NEW x \in {given[k] : k \in DOMAIN given}
        PROVE  Cardinality({k \in DOMAIN sorted : sorted[k] = x})
                 = Cardinality({k \in DOMAIN given : given[k] = x})
    <3>1. x \in TimeInterval
      BY <1>1, <2>2, LenProperties, ElementOfSeq
    <3> QED BY <1>1, <3>1 DEF Permuted, Times
  <2> DEFINE Alike(s, g) ==
               /\ \A k \in 2 .. Len(s) : s[k - 1].start <= s[k].start
               /\ \A x \in {g[k] : k \in DOMAIN g} :
                    Cardinality({k \in DOMAIN s : s[k] = x})
                      = Cardinality({k \in DOMAIN g : g[k] = x})
  <2>3. Alike(sorted, given)
    BY ONLY <2>1, <2>2
  <2>4. Alike(sorted', given') => SortedRight'
    BY ONLY DEF SortedRight
  <2> HIDE DEF Alike
  <2> QED BY ONLY <1>1, <2>3, <2>4
<1>7. MergeInv'
  <2>1. 1 \in 1 .. n /\ \A k \in 2 .. n : k \in 1 .. n /\ 1 < k
    BY <1>3
  <2>2. \A k \in 2 .. n : sorted[k] \in Range(given) /\ sorted[1].start <= sorted[k].start
    BY <1>3, <1>5, <2>1
  <2>3. \A j, k \in 2 .. n : j < k => sorted[j].start <= sorted[k].start
    BY <1>5, <2>1
  <2>4. sorted[1] \in Range(given)
    BY <1>3, <2>1
  <2>5. 1 .. 1 \cup 2 .. n = 1 .. n
    BY <1>3
  <2>6. \A t \in Int : CoveredAt(given, t)
                         <=> \E k \in 1 .. n : sorted[k].start <= t /\ t <= sorted[k].end
    <3>1. \A t \in Int : CoveredAt(given, t) <=> CoveredAt(sorted, t)
      BY <1>1, <1>3, GivenPlaces
    <3> QED BY <3>1 DEF CoveredAt
  <2>7. \A k \in 2 .. 1 : FALSE
    OBVIOUS
  <2>8. \A t \in Int : KeptAt(t)' <=> CoveredAt(given, t)
    BY <1>1, <2>5, <2>6 DEF KeptAt
  <2> QED BY <1>1, <1>3, <2>2, <2>3, <2>4, <2>7, <2>8 DEF MergeInv, CoveredAt
<1> QED BY <1>2, <1>6, <1>7

LEMMA NestedTold ==
  ASSUME NEW s \in Seq(TimeInterval), NEW g \in Range(s), NEW h \in Range(s),
         g.start <= h.start, h.end < g.end
  PROVE  Nested(s)
BY DEF Nested, Range

LEMMA MergeMerges ==
  ASSUME SortTypeOK, MergeInv, Merge
  PROVE  SortTypeOK' /\ MergeInv' /\ SortedRight'
<1> DEFINE s == sorted
           n == Len(sorted)
           a == sorted[into]
           b == sorted[from]
           t == sorted'
<1>1. /\ at = "merge" /\ at' = at /\ from <= n /\ from' = from + 1
      /\ given' = given /\ ranges' = ranges /\ pass' = pass
      /\ given \in Seq(TimeInterval) /\ s \in Seq(TimeInterval)
  BY DEF Merge, SortTypeOK, input
<1>2. /\ into \in Nat /\ from \in Nat /\ 1 <= into /\ into < from /\ from <= n
      /\ \A k \in 2 .. into : s[k - 1].end < s[k].start
      /\ \A k \in from .. n : s[k] \in Range(given) /\ a.start <= s[k].start
      /\ \A j, k \in from .. n : j < k => s[j].start <= s[k].start
      /\ \A x \in Int : KeptAt(x) => CoveredAt(given, x)
      /\ Nested(given) \/ \A x \in Int : CoveredAt(given, x) => KeptAt(x)
  BY <1>1 DEF MergeInv
<1>3. PICK g \in Range(given) : g.end = a.end /\ \A k \in from .. n : g.start <= s[k].start
  BY <1>1 DEF MergeInv
<1>4. /\ n \in Nat /\ DOMAIN s = 1 .. n
      /\ \A k \in 1 .. n : s[k] \in TimeInterval /\ s[k].start \in Int /\ s[k].end \in Int
                             /\ s[k].start <= s[k].end
  BY <1>1, LenProperties, ElementOfSeq DEF TimeInterval, Unsigned
<1>5. /\ into \in 1 .. n /\ into + 1 \in 1 .. n /\ from \in 1 .. n /\ from \in from .. n
      /\ \A k \in from + 1 .. n : k \in from .. n /\ k \in 1 .. n /\ k # into /\ k # into + 1
                                   /\ k # from /\ from < k
      /\ \A k \in from .. n : k = from \/ k \in from + 1 .. n
  BY <1>2, <1>4
<1>6. /\ a \in TimeInterval /\ a.start \in Int /\ a.end \in Int /\ a.start <= a.end
      /\ b \in TimeInterval /\ b.start \in Int /\ b.end \in Int /\ b.start <= b.end
      /\ a.start <= b.start /\ b \in Range(given)
  BY <1>2, <1>4, <1>5
<1>7. \A x \in Int :
        KeptAt(x) <=> \/ \E k \in 1 .. into - 1 : s[k].start <= x /\ x <= s[k].end
                      \/ a.start <= x /\ x <= a.end
                      \/ b.start <= x /\ x <= b.end
                      \/ \E k \in from + 1 .. n : s[k].start <= x /\ x <= s[k].end
  <2>1. 1 .. into \cup from .. n = 1 .. into - 1 \cup {into} \cup {from} \cup from + 1 .. n
    BY <1>2, <1>4
  <2> QED BY <2>1 DEF KeptAt
<1>8. SortedRight'
  BY <1>1, <1>2 DEF SortedRight
<1>9. \A j, k \in from + 1 .. n : j < k => s[j].start <= s[k].start
  BY <1>2, <1>5
<1>10. CASE Touches(a, b)
  <2> DEFINE c == [a EXCEPT !.end = b.end]
  <2>1. /\ c \in TimeInterval /\ c.start = a.start /\ c.end = b.end
    BY <1>6, <1>4 DEF TimeInterval
  <2>2. t = [s EXCEPT ![into] = c] /\ into' = into
    BY <1>10 DEF Merge
  <2> HIDE DEF c
  <2>3. /\ t \in Seq(TimeInterval) /\ Len(t) = n
        /\ \A k \in 1 .. n : t[k] = IF k = into THEN c ELSE s[k]
    BY <1>1, <1>5, <2>1, <2>2, ExceptSeq
  <2>4. /\ b.start <= a.end
        /\ t[into] = c /\ \A k \in from + 1 .. n : t[k] = s[k]
        /\ \A k \in 1 .. into - 1 : t[k] = s[k]
    BY <1>10, <1>2, <1>4, <1>5, <2>3 DEF Touches
  <2>5. \A x \in Int :
          KeptAt(x)' <=> \/ \E k \in 1 .. into - 1 : s[k].start <= x /\ x <= s[k].end
                         \/ a.start <= x /\ x <= b.end
                         \/ \E k \in from + 1 .. n : s[k].start <= x /\ x <= s[k].end
    <3>1. 1 .. into' \cup from' .. Len(t) = 1 .. into - 1 \cup {into} \cup from + 1 .. n
      BY <1>1, <1>2, <1>4, <2>2, <2>3
    <3>2. \A x \in Int : KeptAt(x)' <=>
            \E k \in 1 .. into - 1 \cup {into} \cup from + 1 .. n : t[k].start <= x /\ x <= t[k].end
      BY <3>1 DEF KeptAt
    <3> HIDE DEF t
    <3> QED BY <2>1, <2>4, <3>2
  <2>6. ASSUME NEW x \in Int, KeptAt(x)' PROVE CoveredAt(given, x)
    BY <1>2, <1>6, <1>7, <2>4, <2>5, <2>6
  <2>7. Nested(given) \/ \A x \in Int : CoveredAt(given, x) => KeptAt(x)'
    <3>1. CASE b.end < a.end
      <4>1. g.start <= b.start /\ b.end < g.end
        BY <1>3, <1>5, <3>1
      <4> QED BY <1>1, <1>6, <4>1, NestedTold
    <3>2. CASE ~(b.end < a.end)
      <4>1. \A x \in Int : KeptAt(x) => KeptAt(x)'
        BY <1>6, <1>7, <2>5, <3>2
      <4> QED BY <1>2, <4>1
    <3> QED BY <3>1, <3>2
  <2>8. \A k \in 2 .. into : t[k - 1].end < t[k].start
    <3> SUFFICES ASSUME NEW k \in 2 .. into PROVE t[k - 1].end < t[k].start
      OBVIOUS
    <3>1. k - 1 \in 1 .. into - 1 /\ (k = into \/ k \in 1 .. into - 1)
      BY <1>2
    <3>2. t[k - 1] = s[k - 1] /\ t[k].start = s[k].start
      BY <2>1, <2>4, <3>1
    <3> QED BY <1>2, <3>2
  <2>9. \A k \in from + 1 .. n : t[k] \in Range(given) /\ t[into].start <= t[k].start
    BY <1>2, <1>5, <2>1, <2>4
  <2>10. \A j, k \in from + 1 .. n : j < k => t[j].start <= t[k].start
    BY <1>9, <2>4
  <2>11. b.end = t[into].end /\ \A k \in from + 1 .. n : b.start <= t[k].start
    BY <1>2, <1>5, <2>1, <2>4
  <2>12. MergeInv'
    <3>1. into \in Nat /\ from + 1 \in Nat /\ 1 <= into /\ into < from + 1 /\ from + 1 <= n + 1
      BY <1>2, <1>4
    <3>2. \A x \in Int : KeptAt(x)' => CoveredAt(given, x)
      BY <2>6
    <3>3. b \in Range(given) /\ t[into].end = b.end
      BY <1>6, <2>11
    <3>4. \E h \in Range(given) :
            h.end = t[into].end /\ \A k \in from + 1 .. n : h.start <= t[k].start
      BY <2>11, <3>3
    <3> HIDE DEF s, n, a, b, t
    <3>5. /\ at' = "merge" /\ into' = into /\ from' = from + 1 /\ given' = given
          /\ sorted' = t /\ Len(t) = n
      BY ONLY <1>1, <2>2, <2>3 DEF t
    <3>6. (\A x \in Int : KeptAt(x)' => CoveredAt(given', x))
            /\ (Nested(given') \/ \A x \in Int : CoveredAt(given', x) => KeptAt(x)')
      BY ONLY <2>7, <3>2, <3>5
    <3>7. (\A k \in 2 .. into : t[k - 1].end < t[k].start)
            /\ (\A k \in from + 1 .. n : t[k] \in Range(given) /\ t[into].start <= t[k].start)
            /\ (\A j, k \in from + 1 .. n : j < k => t[j].start <= t[k].start)
      BY ONLY <2>8, <2>9, <2>10
    <3> QED BY ONLY <3>1, <3>4, <3>5, <3>6, <3>7 DEF MergeInv
  <2> QED BY <1>1, <1>8, <2>3, <2>12 DEF SortTypeOK
<1>11. CASE ~Touches(a, b)
  <2>2. t = [s EXCEPT ![into + 1] = b] /\ into' = into + 1
    BY <1>11 DEF Merge
  <2>3. /\ t \in Seq(TimeInterval) /\ Len(t) = n
        /\ \A k \in 1 .. n : t[k] = IF k = into + 1 THEN b ELSE s[k]
    BY <1>1, <1>5, <1>6, <2>2, ExceptSeq
  <2>4. /\ a.end < b.start
        /\ t[into + 1] = b /\ \A k \in from + 1 .. n : t[k] = s[k]
        /\ \A k \in 1 .. into : t[k] = s[k]
    BY <1>11, <1>2, <1>4, <1>5, <1>6, <2>3 DEF Touches
  <2>5. \A x \in Int :
          KeptAt(x)' <=> \/ \E k \in 1 .. into : s[k].start <= x /\ x <= s[k].end
                         \/ b.start <= x /\ x <= b.end
                         \/ \E k \in from + 1 .. n : s[k].start <= x /\ x <= s[k].end
    <3>1. 1 .. into' \cup from' .. Len(t) = 1 .. into \cup {into + 1} \cup from + 1 .. n
      BY <1>1, <1>2, <1>4, <2>2, <2>3
    <3>2. \A x \in Int : KeptAt(x)' <=>
            \E k \in 1 .. into \cup {into + 1} \cup from + 1 .. n : t[k].start <= x /\ x <= t[k].end
      BY <3>1 DEF KeptAt
    <3> HIDE DEF t
    <3> QED BY <2>4, <3>2
  <2>6. \A x \in Int : KeptAt(x)' <=> KeptAt(x)
    <3>1. 1 .. into = 1 .. into - 1 \cup {into}
      BY <1>2
    <3>2. \A x \in Int : (\E k \in 1 .. into : s[k].start <= x /\ x <= s[k].end)
                           <=> \/ \E k \in 1 .. into - 1 : s[k].start <= x /\ x <= s[k].end
                               \/ a.start <= x /\ x <= a.end
      BY <3>1
    <3> QED BY <1>7, <2>5, <3>2
  <2>8. \A k \in 2 .. into + 1 : t[k - 1].end < t[k].start
    <3> SUFFICES ASSUME NEW k \in 2 .. into + 1 PROVE t[k - 1].end < t[k].start
      OBVIOUS
    <3>1. k = into + 1 \/ (k \in 2 .. into /\ k \in 1 .. into)
      BY <1>2
    <3>2. k - 1 \in 1 .. into /\ (k = into + 1 => k - 1 = into)
      BY <1>2
    <3> QED BY <1>2, <2>4, <3>1, <3>2
  <2>9. \A k \in from + 1 .. n : t[k] \in Range(given) /\ t[into + 1].start <= t[k].start
    BY <1>2, <1>5, <2>4
  <2>10. \A j, k \in from + 1 .. n : j < k => t[j].start <= t[k].start
    BY <1>9, <2>4
  <2>11. b.end = t[into + 1].end /\ \A k \in from + 1 .. n : b.start <= t[k].start
    BY <1>2, <1>5, <2>4
  <2>12. MergeInv'
    <3>1. /\ into + 1 \in Nat /\ from + 1 \in Nat /\ 1 <= into + 1 /\ into + 1 < from + 1
          /\ from + 1 <= n + 1
      BY <1>2, <1>4
    <3>2. \A x \in Int : KeptAt(x)' => CoveredAt(given, x)
      BY <1>2, <2>6
    <3>3. Nested(given) \/ \A x \in Int : CoveredAt(given, x) => KeptAt(x)'
      BY <1>2, <2>6
    <3> QED BY ONLY <1>1, <1>6, <2>2, <2>3, <2>8, <2>9, <2>10, <2>11, <3>1, <3>2, <3>3
            DEF MergeInv, CoveredAt
  <2> QED BY <1>1, <1>8, <2>3, <2>12 DEF SortTypeOK
<1> QED BY <1>10, <1>11

LEMMA EndMergeMerges ==
  ASSUME SortTypeOK, MergeInv, EndMerge
  PROVE  SortTypeOK' /\ MergedRight'
<1> DEFINE s == sorted
           t == sorted'
<1>1. /\ at = "merge" /\ from > Len(s) /\ t = SubSeq(s, 1, into) /\ at' = "interval"
      /\ given' = given /\ ranges' = ranges /\ pass' = pass
      /\ given \in Seq(TimeInterval) /\ s \in Seq(TimeInterval)
  BY DEF EndMerge, SortTypeOK, input
<1>2. /\ into \in Nat /\ from \in Nat /\ 1 <= into /\ into < from /\ from <= Len(s) + 1
      /\ \A k \in 2 .. into : s[k - 1].end < s[k].start
      /\ \A x \in Int : KeptAt(x) => CoveredAt(given, x)
      /\ Nested(given) \/ \A x \in Int : CoveredAt(given, x) => KeptAt(x)
  BY <1>1 DEF MergeInv
<1>3. Len(s) \in Nat /\ \A k \in 1 .. Len(s) : s[k] \in TimeInterval
  BY <1>1, LenProperties, ElementOfSeq
<1>4. into \in 1 .. Len(s) /\ \A k \in 1 .. into : k \in 1 .. Len(s)
  BY <1>1, <1>2, <1>3
<1>5. /\ t \in Seq(TimeInterval) /\ Len(t) = into /\ \A k \in 1 .. into : t[k] = s[k]
  <2>1. \A k \in 1 .. into : s[k] \in TimeInterval
    BY <1>3, <1>4
  <2>2. /\ SubSeq(s, 1, into) \in Seq(TimeInterval)
        /\ Len(SubSeq(s, 1, into)) = IF 1 <= into THEN into - 1 + 1 ELSE 0
        /\ \A i \in 1 .. into - 1 + 1 : SubSeq(s, 1, into)[i] = s[1 + i - 1]
    BY <1>2, <2>1, SubSeqProperties
  <2>3. into - 1 + 1 = into /\ \A i \in 1 .. into : 1 + i - 1 = i
    BY <1>2
  <2> QED BY <1>1, <1>2, <2>2, <2>3
<1> HIDE DEF t
<1>6. \A x \in Int : CoveredAt(t, x) <=> KeptAt(x)
  <2>1. 1 .. into \cup from .. Len(s) = 1 .. Len(t)
    BY <1>1, <1>2, <1>3, <1>5
  <2> QED BY <1>5, <2>1 DEF KeptAt, CoveredAt
<1>7. Apart(t)
  <2> SUFFICES ASSUME NEW k \in 2 .. into PROVE t[k - 1].end < t[k].start
    BY <1>5 DEF Apart
  <2>1. k \in 1 .. into /\ k - 1 \in 1 .. into
    BY <1>2
  <2> QED BY <1>2, <1>5, <2>1
<1>8. Covered(t) \subseteq Covered(given)
  BY <1>1, <1>2, <1>5, <1>6, CoveredTold
<1>9. Nested(given) \/ Covered(t) = Covered(given)
  <2> SUFFICES ASSUME ~Nested(given) PROVE Covered(given) \subseteq Covered(t)
    BY <1>8
  <2> QED BY <1>1, <1>2, <1>5, <1>6, CoveredTold
<1> QED BY <1>1, <1>5, <1>7, <1>8, <1>9 DEF SortTypeOK, MergedRight, t

-----------------------------------------------------------------------------
(* Sorted and merged intervals as long as a node is at it and afterwards   *)

SortedInv == SortTypeOK /\ SortInv /\ MergeInv /\ SortedRight /\ MergedRight

LEMMA SortedAtFirst ==
  ASSUME QueryInit
  PROVE  SortedInv
<1>1. SortTypeOK /\ SortInv
  BY SortsAtFirst
<1>2. at \in {"sort", "done", "interval", "stats"} /\ sorted = given
  BY DEF QueryInit
<1>3. MergeInv /\ SortedRight
  BY <1>2 DEF MergeInv, SortedRight
<1>4. MergedRight
  <2> SUFFICES ASSUME filtered, at # "sort" PROVE Apart(sorted) /\ Covered(sorted) = Covered(given)
    BY DEF MergedRight
  <2>1. sorted = <<>>
    BY DEF QueryInit
  <2>2. \A k \in 2 .. Len(sorted) : FALSE
    BY <2>1
  <2> QED BY <1>2, <2>2 DEF Apart
<1> QED BY <1>1, <1>3, <1>4 DEF SortedInv

(* Whatever else a node does leaves them alone.                            *)
LEMMA SortedKept ==
  ASSUME SortedInv, at \notin {"sort", "merge"}, at' \notin {"sort", "merge"},
         UNCHANGED <<given, filtered, sorted, ranges, pass>>
  PROVE  SortedInv'
<1>1. SortTypeOK'
  BY DEF SortedInv, SortTypeOK
<1>2. SortInv' /\ MergeInv' /\ SortedRight'
  BY DEF SortInv, MergeInv, SortedRight
<1>3. MergedRight'
  BY DEF SortedInv, MergedRight, Apart
<1> QED BY <1>1, <1>2, <1>3 DEF SortedInv

LEMMA SortedStep ==
  ASSUME SortedInv, QueryNext
  PROVE  SortedInv'
<1>1. SortTypeOK /\ SortInv /\ MergeInv /\ SortedRight /\ MergedRight
  BY DEF SortedInv
<1>2. ASSUME StartPass \/ SortElement \/ EndPass PROVE SortedInv'
  <2>1. at' = "sort"
    BY <1>2 DEF StartPass, SortElement, EndPass
  <2>2. SortTypeOK' /\ SortInv'
    BY <1>1, <1>2, StartPassSorts, SortElementSorts, EndPassSorts
  <2> QED BY <2>1, <2>2 DEF SortedInv, MergeInv, SortedRight, MergedRight
<1>3. ASSUME StartMerge PROVE SortedInv'
  <2>1. at' = "merge"
    BY <1>3 DEF StartMerge
  <2> QED BY <1>1, <1>3, <2>1, StartMergeMerges DEF SortedInv, SortInv, MergedRight
<1>4. ASSUME Merge PROVE SortedInv'
  <2>1. at' = "merge"
    BY <1>4 DEF Merge
  <2> QED BY <1>1, <1>4, <2>1, MergeMerges DEF SortedInv, SortInv, MergedRight
<1>5. ASSUME EndMerge PROVE SortedInv'
  <2>1. at' = "interval"
    BY <1>5 DEF EndMerge
  <2> QED BY <1>1, <1>5, <2>1, EndMergeMerges DEF SortedInv, SortInv, MergeInv, SortedRight
<1>6. ASSUME SearchStep \/ NextInterval \/ FirstElement \/ LastElement \/ FirstEvent
               \/ CollectLast \/ Accumulate
      PROVE  SortedInv'
  <2>1. /\ at \notin {"sort", "merge"} /\ at' \notin {"sort", "merge"}
        /\ UNCHANGED <<given, filtered, sorted, ranges, pass>>
    BY <1>6 DEF SearchStep, NextInterval, FirstElement, LastElement, FirstEvent, CollectLast,
                Accumulate, Found, input, sorting
  <2> QED BY <2>1, SortedKept
<1>7. ASSUME NextElement \/ LastEvent \/ \E q \in Queries : CollectFirst(q) PROVE SortedInv'
  <2>1. /\ at \notin {"sort", "merge"} /\ at' \notin {"sort", "merge"}
        /\ UNCHANGED <<given, filtered, sorted, ranges, pass>>
    BY <1>7 DEF NextElement, LastEvent, HandOn, CollectFirst, Found, input, sorting
  <2> QED BY <2>1, SortedKept
<1> QED BY <1>2, <1>3, <1>4, <1>5, <1>6, <1>7 DEF QueryNext

-----------------------------------------------------------------------------
(* Extraction of events                                                    *)

VisitCount == IF filtered THEN Len(sorted) ELSE 1
VisitAt(n) == IF filtered THEN sorted[n] ELSE Everything

ElementThens == {"elements", "last element"}
EventThens == {"events", "last event"}
StatsThens == {"stats", "last stats"}

(* The node is at an interval, and at an element of the mapping.           *)
Visiting == at = "element" \/ (at = "search" /\ search.then \in ElementThens \cup EventThens)
Inside == at = "element" \/ (at = "search" /\ search.then \in EventThens)

FirstOf(s, q, m) ==
  /\ m \in 1 .. Len(s) /\ Overlap(s[m], q)
  /\ \A k \in 1 .. Len(s) : Overlap(s[k], q) => m <= k

(* The intervals for which an event was handed on, if they are a reason    *)
(* for it                                                                  *)
Reason(e, k, n) ==
  Overlap(mapping[e].span, VisitAt(n)) /\ Overlap(mapping[e].events[k], VisitAt(n))
DueAt(e, n) == n < nth \/ (n = nth /\ Inside /\ e < element)
Due(e, k) == {n \in 1 .. VisitCount : DueAt(e, n) /\ Reason(e, k, n)}
Handed(e, k) == {n \in 1 .. Len(out) : out[n] = <<e, k>>}

WalkType ==
  /\ filtered \in BOOLEAN /\ mapping \in Seq(MappedEvents)
  /\ nth \in Nat \ {0} /\ element \in Nat \ {0} /\ upto \in 0 .. Len(mapping)
  /\ out \in Seq(Nat \X Nat) /\ found \in Nat
  /\ search \in SearchRecord /\ SearchInv(search)
  /\ at \in {"sort", "merge", "interval", "search", "element", "stats", "told", "done",
              "failed"}

(* What a search is about, and what was found by the one before            *)
WalkPlace ==
  /\ Visiting => nth <= VisitCount
  /\ at = "done" => nth > VisitCount
  /\ at \in {"sort", "merge", "stats"} \/ (at = "search" /\ search.then \in StatsThens) =>
       nth = 1 /\ out = <<>> /\ upto = 0
  /\ at = "stats" => Len(mapping) = 1
  /\ at = "search" =>
       /\ search.then \in ElementThens \cup EventThens \cup StatsThens
       /\ search.goal = IF search.then \in {"elements", "events", "stats"} THEN "first" ELSE "last"
       /\ search.then \in ElementThens => search.of = Spans /\ search.query = Interval
       /\ search.then \in EventThens =>
            filtered /\ element <= upto /\ search.of = Events /\ search.query = Interval
       /\ search.then = "last element" /\ Searchable => FirstOf(Spans, Interval, element)
       /\ search.then = "last event" =>
            found # 0 /\ (Searchable => FirstOf(Events, Interval, found))
       /\ search.then \in StatsThens => search.of \in Seq(IndexedEvent)
  /\ Inside /\ Searchable =>
       \A e \in 1 .. Len(mapping) :
         element <= e => (Overlap(mapping[e].span, Interval) <=> e <= upto)

(* Events were handed on as often as there were reasons so far.            *)
Progress ==
  at # "failed" /\ Searchable =>
    \A e \in 1 .. Len(mapping) : \A k \in 1 .. Len(mapping[e].events) :
      Cardinality(Handed(e, k)) = Cardinality(Due(e, k))

WalkInv == WalkType /\ WalkPlace /\ Progress

LEMMA UnsignedTold == UMax \in Nat /\ 0 <= UMax /\ Unsigned \subseteq Int
BY HalfAssumption DEF UMax, Unsigned

LEMMA MappingTold ==
  ASSUME mapping \in Seq(MappedEvents)
  PROVE  /\ Len(mapping) \in Nat /\ DOMAIN mapping = 1 .. Len(mapping)
         /\ Spans \in Seq(TimeInterval) /\ Len(Spans) = Len(mapping)
         /\ \A e \in 1 .. Len(mapping) :
              /\ Spans[e] = mapping[e].span /\ mapping[e].span \in TimeInterval
              /\ mapping[e].events \in Seq(IndexedEvent)
              /\ Len(mapping[e].events) \in Nat
              /\ DOMAIN mapping[e].events = 1 .. Len(mapping[e].events)
              /\ \A k \in 1 .. Len(mapping[e].events) : mapping[e].events[k] \in IndexedEvent
<1>1. Len(mapping) \in Nat /\ DOMAIN mapping = 1 .. Len(mapping)
  BY LenProperties
<1>2. \A e \in 1 .. Len(mapping) :
        mapping[e].span \in TimeInterval /\ mapping[e].events \in Seq(IndexedEvent)
  <2>1. \A e \in 1 .. Len(mapping) : mapping[e] \in MappedEvents
    BY ElementOfSeq
  <2> QED BY <2>1 DEF MappedEvents
<1> DEFINE n == Len(mapping)
<1>3. Spans = [k \in 1 .. n |-> mapping[k].span]
  BY <1>1 DEF Spans
<1>4. Spans \in Seq(TimeInterval)
  BY <1>1, <1>2, <1>3, IsASeq
<1>5. DOMAIN Spans = 1 .. n /\ Len(Spans) \in Nat /\ DOMAIN Spans = 1 .. Len(Spans)
  BY <1>3, <1>4, LenProperties
<1>6. Len(Spans) = n
  BY <1>1, <1>5
<1>7. \A e \in 1 .. n : Spans[e] = mapping[e].span
  BY <1>3
<1> HIDE DEF n
<1> SUFFICES ASSUME NEW e \in 1 .. n
             PROVE  /\ Len(mapping[e].events) \in Nat
                    /\ DOMAIN mapping[e].events = 1 .. Len(mapping[e].events)
                    /\ \A k \in 1 .. Len(mapping[e].events) : mapping[e].events[k] \in IndexedEvent
  BY <1>1, <1>2, <1>4, <1>6, <1>7 DEF n
<1>8. mapping[e].events \in Seq(IndexedEvent)
  BY <1>2 DEF n
<1> QED BY <1>8, LenProperties, ElementOfSeq

LEMMA VisitTold ==
  ASSUME sorted \in Seq(TimeInterval), filtered \in BOOLEAN
  PROVE  /\ VisitCount \in Nat /\ Interval = VisitAt(nth)
         /\ \A n \in 1 .. VisitCount : VisitAt(n) \in TimeInterval
         /\ \A x \in TimeInterval \cup IndexedEvent : Overlap(x, Everything)
<1>1. Everything \in TimeInterval
  BY UnsignedTold DEF Everything, TimeInterval, Unsigned
<1>2. \A x \in TimeInterval \cup IndexedEvent : Overlap(x, Everything)
  BY UnsignedTold DEF Overlap, Everything, TimeInterval, IndexedEvent, Unsigned
<1>3. Len(sorted) \in Nat /\ \A n \in 1 .. Len(sorted) : sorted[n] \in TimeInterval
  BY LenProperties, ElementOfSeq
<1> QED BY <1>1, <1>2, <1>3 DEF VisitCount, VisitAt, Interval

(* What is due does not change when the place that is reached stands for   *)
(* the same.                                                               *)
LEMMA ProgressKept ==
  ASSUME Progress, at # "failed", UNCHANGED <<out, filtered, sorted, mapping>>,
         Searchable =>
           \A e \in 1 .. Len(mapping) : \A k \in 1 .. Len(mapping[e].events) :
             \A n \in 1 .. VisitCount : Reason(e, k, n) => (DueAt(e, n)' <=> DueAt(e, n))
  PROVE  Progress'
<1> SUFFICES ASSUME Searchable', NEW e \in 1 .. Len(mapping), NEW k \in 1 .. Len(mapping[e].events)
             PROVE  Cardinality(Handed(e, k)') = Cardinality(Due(e, k)')
  BY DEF Progress
<1>1. Searchable
  BY DEF Searchable, Spans
<1>2. Handed(e, k)' = Handed(e, k)
  BY DEF Handed
<1>3. VisitCount' = VisitCount /\ \A n \in 1 .. VisitCount : Reason(e, k, n)' <=> Reason(e, k, n)
  BY DEF VisitCount, Reason, VisitAt
<1>4. \A n \in 1 .. VisitCount : DueAt(e, n)' /\ Reason(e, k, n)' <=> DueAt(e, n) /\ Reason(e, k, n)
  BY <1>1, <1>3
<1>5. Due(e, k)' = Due(e, k)
  BY <1>3, <1>4 DEF Due
<1> QED BY <1>1, <1>2, <1>5 DEF Progress

(* Nothing is due before the first element of the first interval.          *)
LEMMA NothingDue ==
  ASSUME nth = 1, ~Inside, out = <<>>, NEW e, NEW k
  PROVE  Handed(e, k) = {} /\ Due(e, k) = {}
<1>1. \A n \in 1 .. Len(out) : FALSE
  BY EmptySeq
<1>2. \A n \in 1 .. VisitCount : ~(n < 1)
  OBVIOUS
<1> QED BY <1>1, <1>2 DEF Handed, Due, DueAt

LEMMA NothingDueNext ==
  ASSUME nth' = 1, ~Inside', out' = <<>>
  PROVE  Progress'
<1> SUFFICES ASSUME NEW e, NEW k PROVE Handed(e, k)' = {} /\ Due(e, k)' = {}
  BY DEF Progress
<1>1. \A n \in 1 .. Len(out') : FALSE
  BY EmptySeq
<1>2. \A n \in 1 .. VisitCount' : ~(n < 1)
  OBVIOUS
<1> QED BY <1>1, <1>2 DEF Handed, Due, DueAt

(* What does not change as long as a node is at the same interval          *)
LEMMA PlacesKept ==
  ASSUME UNCHANGED <<filtered, sorted, mapping>>
  PROVE  /\ Spans' = Spans /\ (Searchable' <=> Searchable) /\ VisitCount' = VisitCount
         /\ nth' = nth => Interval' = Interval
         /\ element' = element => Events' = Events
BY DEF Spans, Searchable, VisitCount, Interval, Events

LEMMA SearchStepWalks ==
  ASSUME WalkInv, SearchStep
  PROVE  WalkInv'
<1>1. WalkType /\ WalkPlace /\ Progress
  BY DEF WalkInv
<1>2. /\ at = "search" /\ at' = at /\ ~search.done
      /\ UNCHANGED <<filtered, sorted, mapping, nth, element, upto, found, out>>
  BY DEF SearchStep, input, sorting, walk, results
<1>3. /\ search' \in SearchRecord /\ SearchInv(search') /\ search'.of = search.of
      /\ search'.query = search.query /\ search'.goal = search.goal /\ search'.then = search.then
  BY <1>1, SearchGoesOn DEF WalkType, Rest
<1>4. WalkType'
  BY <1>1, <1>2, <1>3 DEF WalkType
<1>5. Inside' = Inside /\ Visiting' = Visiting
  BY <1>2, <1>3 DEF Inside, Visiting
<1>6. /\ Spans' = Spans /\ (Searchable' <=> Searchable) /\ VisitCount' = VisitCount
      /\ Interval' = Interval /\ Events' = Events
  BY <1>2, PlacesKept
<1>7. WalkPlace'
  BY <1>1, <1>2, <1>3, <1>5, <1>6 DEF WalkPlace
<1>8. Progress'
  BY <1>1, <1>2, <1>5, ProgressKept DEF DueAt
<1> QED BY <1>4, <1>7, <1>8 DEF WalkInv

LEMMA NextIntervalWalks ==
  ASSUME WalkInv, sorted \in Seq(TimeInterval), NextInterval
  PROVE  WalkInv'
<1>1. WalkType /\ WalkPlace /\ Progress
  BY DEF WalkInv
<1>2. /\ at = "interval"
      /\ UNCHANGED <<filtered, sorted, mapping, nth, element, upto, found, out>>
  BY DEF NextInterval, input, sorting, walk, results
<1>3. /\ Spans' = Spans /\ (Searchable' <=> Searchable) /\ VisitCount' = VisitCount
      /\ Interval' = Interval
  BY <1>2, PlacesKept
<1>4. CASE nth > VisitCount
  <2>1. at' = "done" /\ search' = search
    BY <1>4 DEF NextInterval, VisitCount
  <2>2. WalkType'
    BY <1>1, <1>2, <2>1 DEF WalkType
  <2>3. ~Inside /\ ~Inside' /\ ~Visiting'
    BY <1>2, <2>1 DEF Inside, Visiting
  <2>4. WalkPlace'
    BY <1>2, <1>3, <1>4, <2>1, <2>3 DEF WalkPlace
  <2>5. Progress'
    BY <1>1, <1>2, <2>3, ProgressKept DEF DueAt
  <2> QED BY <2>2, <2>4, <2>5 DEF WalkInv
<1>5. CASE ~(nth > VisitCount)
  <2>1. at' = "search" /\ search' = Search(Spans, Interval, "first", "elements")
    BY <1>5 DEF NextInterval, VisitCount
  <2>2. nth \in 1 .. VisitCount /\ Interval \in TimeInterval
    BY <1>1, <1>5, VisitTold DEF WalkType
  <2>3. Spans \in Seq(TimeInterval)
    BY <1>1, MappingTold DEF WalkType
  <2>4. /\ search' \in SearchRecord /\ SearchInv(search') /\ search'.of = Spans
        /\ search'.query = Interval /\ search'.goal = "first" /\ search'.then = "elements"
    <3>1. Spans \in Seq(TimeInterval) \cup Seq(IndexedEvent)
      BY <2>3
    <3>2. "elements" \in Thens
      BY DEF Thens
    <3>3. Begun(Search(Spans, Interval, "first", "elements"), Spans, Interval, "first", "elements")
      BY <2>2, <3>1, <3>2, SearchBegins
    <3> QED BY <2>1, <3>3 DEF Begun
  <2>5. WalkType'
    BY <1>1, <1>2, <2>1, <2>4 DEF WalkType
  <2>6. ~Inside /\ ~Inside'
    BY <1>2, <2>1, <2>4 DEF Inside, EventThens
  <2>7. WalkPlace'
    <3>1. nth' <= VisitCount'
      BY <1>2, <1>3, <1>5, <2>2
    <3>2. /\ "elements" \in ElementThens /\ "elements" \notin EventThens
          /\ "elements" \notin StatsThens
      BY DEF ElementThens, EventThens, StatsThens
    <3> QED BY ONLY <1>3, <2>1, <2>4, <2>6, <3>1, <3>2 DEF WalkPlace
  <2>8. Progress'
    BY <1>1, <1>2, <2>6, ProgressKept DEF DueAt
  <2> QED BY <2>5, <2>7, <2>8 DEF WalkInv
<1> QED BY <1>4, <1>5

(* What the searches found in an order that they can rely on               *)
LEMMA FoundFirst ==
  ASSUME NEW s, SearchInv(s), s.done, s.goal = "first", Monotone(s.of)
  PROVE  IF s.hit = None THEN \A k \in 1 .. Len(s.of) : ~Overlap(s.of[k], s.query)
         ELSE FirstOf(s.of, s.query, s.hit + 1)
<1>1. IsFound(s) /\ DOMAIN s.of = 1 .. Len(s.of)
  BY DEF SearchInv, SearchType, Spanned
<1> QED BY <1>1 DEF IsFound, FirstOf

LEMMA FoundLast ==
  ASSUME NEW s, SearchInv(s), s.done, s.goal = "last", Monotone(s.of),
         NEW m, FirstOf(s.of, s.query, m)
  PROVE  /\ s.hit \in Nat /\ m <= s.hit + 1 /\ s.hit + 1 <= Len(s.of)
         /\ \A k \in 1 .. Len(s.of) : Overlap(s.of[k], s.query) <=> m <= k /\ k <= s.hit + 1
<1>1. /\ IsFound(s) /\ DOMAIN s.of = 1 .. Len(s.of) /\ Len(s.of) \in Nat
      /\ s.hit \in -1 .. Len(s.of) - 1 /\ Spanned(s.of) /\ IsInterval(s.query)
  BY DEF SearchInv, SearchType, Spanned
<1>2. m \in 1 .. Len(s.of) /\ Overlap(s.of[m], s.query)
  BY DEF FirstOf
<1>3. s.hit # None
  BY <1>1, <1>2 DEF IsFound
<1>4. /\ s.hit + 1 \in 1 .. Len(s.of) /\ Overlap(s.of[s.hit + 1], s.query)
      /\ \A k \in 1 .. Len(s.of) : Overlap(s.of[k], s.query) => k <= s.hit + 1
  BY <1>1, <1>3 DEF IsFound
<1>5. ASSUME NEW k \in 1 .. Len(s.of), m <= k, k <= s.hit + 1 PROVE Overlap(s.of[k], s.query)
  <2>1. k \in m .. s.hit + 1
    BY <1>1, <1>2, <1>5
  <2> QED BY <1>1, <1>2, <1>4, <2>1, OverlapBetween, SMTT(30)
<1> QED BY <1>1, <1>2, <1>4, <1>5 DEF FirstOf

LEMMA FirstElementWalks ==
  ASSUME WalkInv, sorted \in Seq(TimeInterval), FirstElement
  PROVE  WalkInv'
<1>1. WalkType /\ WalkPlace /\ Progress
  BY DEF WalkInv
<1>2. /\ at = "search" /\ search.done /\ search.then = "elements"
      /\ UNCHANGED <<filtered, sorted, mapping, upto, found, out>>
  BY DEF FirstElement, Found, input, sorting, results
<1>3. /\ Spans' = Spans /\ (Searchable' <=> Searchable) /\ VisitCount' = VisitCount
      /\ nth' = nth => Interval' = Interval
  BY <1>2, PlacesKept
<1>4. "elements" \in ElementThens /\ "elements" \notin EventThens
  BY DEF ElementThens, EventThens
<1>5. /\ search.of = Spans /\ search.query = Interval /\ search.goal = "first"
      /\ nth <= VisitCount /\ ~Inside /\ SearchInv(search)
      /\ nth \in Nat \ {0} /\ element \in Nat \ {0}
  BY <1>1, <1>2, <1>4 DEF WalkPlace, Visiting, Inside, WalkType
<1>6. /\ Len(mapping) \in Nat /\ Spans \in Seq(TimeInterval) /\ Len(Spans) = Len(mapping)
      /\ \A e \in 1 .. Len(mapping) : Spans[e] = mapping[e].span
  BY <1>1, MappingTold DEF WalkType
<1>7. /\ VisitCount \in Nat /\ Interval = VisitAt(nth)
      /\ \A n \in 1 .. VisitCount : VisitAt(n) \in TimeInterval
  BY <1>1, VisitTold DEF WalkType
<1>8. nth \in 1 .. VisitCount /\ Interval \in TimeInterval
  BY <1>5, <1>7
<1>9. search.hit \in Int /\ -1 <= search.hit /\ search.hit < Len(mapping)
  BY <1>5, <1>6 DEF SearchInv, SearchType
<1>10. Searchable =>
         IF search.hit = None THEN \A e \in 1 .. Len(mapping) : ~Overlap(mapping[e].span, Interval)
         ELSE FirstOf(Spans, Interval, search.hit + 1)
  BY <1>2, <1>5, <1>6, FoundFirst DEF Searchable
<1>11. CASE search.hit = None
  <2>1. at' = "interval" /\ nth' = nth + 1 /\ element' = element /\ search' = search
    BY <1>11 DEF FirstElement
  <2>2. WalkType'
    BY <1>1, <1>2, <1>5, <2>1 DEF WalkType
  <2>3. ~Inside' /\ ~Visiting'
    BY <2>1 DEF Inside, Visiting
  <2>4. WalkPlace'
    BY <2>1, <2>3 DEF WalkPlace
  <2>5. ASSUME Searchable, NEW e \in 1 .. Len(mapping), NEW k \in 1 .. Len(mapping[e].events),
               NEW n \in 1 .. VisitCount, Reason(e, k, n)
        PROVE  DueAt(e, n)' <=> DueAt(e, n)
    <3>1. n # nth
      BY <1>7, <1>10, <1>11, <2>5 DEF Reason
    <3> QED BY <1>5, <1>7, <2>1, <2>3, <3>1 DEF DueAt
  <2>6. Progress'
    BY <1>1, <1>2, <2>5, ProgressKept
  <2> QED BY <2>2, <2>4, <2>6 DEF WalkInv
<1>12. CASE search.hit # None
  <2>1. /\ at' = "search" /\ nth' = nth /\ element' = search.hit + 1
        /\ search' = Search(Spans, Interval, "last", "last element")
    BY <1>2, <1>12 DEF FirstElement
  <2>2. /\ search' \in SearchRecord /\ SearchInv(search') /\ search'.of = Spans
        /\ search'.query = Interval /\ search'.goal = "last" /\ search'.then = "last element"
    <3>1. Spans \in Seq(TimeInterval) \cup Seq(IndexedEvent)
      BY <1>6
    <3>2. "last element" \in Thens
      BY DEF Thens
    <3>3. Begun(Search(Spans, Interval, "last", "last element"), Spans, Interval, "last",
                "last element")
      BY <1>8, <3>1, <3>2, SearchBegins
    <3> QED BY <2>1, <3>3 DEF Begun
  <2>3. element' \in Nat \ {0}
    <3> DEFINE h == search.hit
    <3>1. element' = h + 1 /\ h \in Int /\ -1 <= h /\ h # -1
      BY <1>9, <1>12, <2>1 DEF None
    <3> HIDE DEF h
    <3> QED BY <3>1
  <2>4. WalkType'
    BY <1>1, <1>2, <2>1, <2>2, <2>3 DEF WalkType
  <2>5. /\ "last element" \in ElementThens /\ "last element" \notin EventThens
        /\ "last element" \notin StatsThens
    BY DEF ElementThens, EventThens, StatsThens
  <2>6. ~Inside' /\ Interval' = Interval /\ nth' <= VisitCount'
    BY <1>3, <1>5, <2>1, <2>2, <2>5 DEF Inside
  <2>7. Searchable => FirstOf(Spans, Interval, element')
    BY <1>10, <1>12, <2>1
  <2>8. WalkPlace'
    BY ONLY <1>3, <2>1, <2>2, <2>5, <2>6, <2>7 DEF WalkPlace
  <2>9. Progress'
    BY <1>1, <1>2, <1>5, <2>1, <2>6, ProgressKept DEF DueAt
  <2> QED BY <2>4, <2>8, <2>9 DEF WalkInv
<1> QED BY <1>11, <1>12

LEMMA LastElementWalks ==
  ASSUME WalkInv, LastElement
  PROVE  WalkInv'
<1>1. WalkType /\ WalkPlace /\ Progress
  BY DEF WalkInv
<1>2. /\ at = "search" /\ search.done /\ search.then = "last element"
      /\ at' = "element" /\ upto' = search.hit + 1
      /\ UNCHANGED <<filtered, sorted, mapping, nth, element, search, found, out>>
  BY DEF LastElement, Found, input, sorting, results
<1>3. /\ Spans' = Spans /\ (Searchable' <=> Searchable) /\ VisitCount' = VisitCount
      /\ Interval' = Interval
  BY <1>2, PlacesKept
<1>4. "last element" \in ElementThens /\ "last element" \notin EventThens
  BY DEF ElementThens, EventThens
<1>5. /\ search.of = Spans /\ search.query = Interval /\ search.goal = "last"
      /\ nth <= VisitCount /\ ~Inside /\ SearchInv(search) /\ element \in Nat \ {0}
      /\ Searchable => FirstOf(Spans, Interval, element)
  BY <1>1, <1>2, <1>4 DEF WalkPlace, Visiting, Inside, WalkType
<1>6. /\ Len(mapping) \in Nat /\ Len(Spans) = Len(mapping)
      /\ \A e \in 1 .. Len(mapping) : Spans[e] = mapping[e].span
  BY <1>1, MappingTold DEF WalkType
<1>7. search.hit \in Int /\ -1 <= search.hit /\ search.hit < Len(mapping)
  BY <1>5, <1>6 DEF SearchInv, SearchType
<1>8. WalkType'
  <2>1. upto' \in 0 .. Len(mapping)
    <3> DEFINE h == search.hit
               n == Len(mapping)
    <3>1. upto' = h + 1 /\ h \in Int /\ -1 <= h /\ h < n /\ n \in Nat
      BY <1>2, <1>6, <1>7
    <3> HIDE DEF h, n
    <3>2. upto' \in 0 .. n
      BY <3>1
    <3> QED BY <3>2 DEF n
  <2> QED BY <1>1, <1>2, <2>1 DEF WalkType
<1>9. Searchable =>
        /\ \A e \in 1 .. Len(mapping) :
             Overlap(mapping[e].span, Interval) <=> element <= e /\ e <= upto'
  BY <1>2, <1>5, <1>6, FoundLast DEF Searchable
<1>10. Inside' /\ Visiting'
  BY <1>2 DEF Inside, Visiting
<1>11. WalkPlace'
  BY <1>2, <1>3, <1>5, <1>9 DEF WalkPlace
<1>12. ASSUME Searchable, NEW e \in 1 .. Len(mapping), NEW k \in 1 .. Len(mapping[e].events),
              NEW n \in 1 .. VisitCount, Reason(e, k, n)
       PROVE  DueAt(e, n)' <=> DueAt(e, n)
  <2>1. n = nth => ~(e < element)
    <3>1. Interval = VisitAt(nth)
      BY DEF Interval, VisitAt
    <3> QED BY <1>5, <1>9, <1>12, <3>1 DEF Reason
  <2> QED BY <1>2, <1>5, <1>10, <2>1 DEF DueAt
<1>13. Progress'
  BY <1>1, <1>2, <1>12, ProgressKept
<1> QED BY <1>8, <1>11, <1>13 DEF WalkInv

(* The events from a to b of an element are handed on.                     *)
LEMMA HandedMore ==
  ASSUME out \in Seq(Nat \X Nat), element \in Nat, NEW a \in Nat \ {0}, NEW b \in Nat,
         out' = out \o [k \in 1 .. b - a + 1 |-> <<element, a + k - 1>>]
  PROVE  /\ out' \in Seq(Nat \X Nat)
         /\ \A e, k \in Nat :
              /\ IsFiniteSet(Handed(e, k))
              /\ Cardinality(Handed(e, k)') =
                   Cardinality(Handed(e, k)) + IF e = element /\ a <= k /\ k <= b THEN 1 ELSE 0
<1> DEFINE m == IF a <= b THEN b - a + 1 ELSE 0
           more == [k \in 1 .. m |-> <<element, a + k - 1>>]
           n == Len(out)
<1>1. m \in Nat /\ 1 .. b - a + 1 = 1 .. m
  OBVIOUS
<1>2. out' = out \o more
  BY <1>1
<1>3. \A k \in 1 .. m : <<element, a + k - 1>> \in Nat \X Nat
  OBVIOUS
<1>4. more \in Seq(Nat \X Nat)
  BY <1>1, <1>3, IsASeq
<1>5. DOMAIN more = 1 .. m /\ Len(more) \in Nat /\ DOMAIN more = 1 .. Len(more)
  BY <1>4, LenProperties
<1>6. Len(more) = m
  BY <1>1, <1>5
<1>7. \A k \in 1 .. m : more[k] = <<element, a + k - 1>>
  OBVIOUS
<1> HIDE DEF more
<1>8. n \in Nat
  BY LenProperties
<1>9. /\ out' \in Seq(Nat \X Nat) /\ Len(out') = n + m
      /\ \A i \in 1 .. n + m : out'[i] = IF i <= n THEN out[i] ELSE more[i - n]
  <2>1. /\ out \o more \in Seq(Nat \X Nat) /\ Len(out \o more) = Len(out) + Len(more)
        /\ \A i \in 1 .. Len(out) + Len(more) :
             (out \o more)[i] = IF i <= Len(out) THEN out[i] ELSE more[i - Len(out)]
    BY <1>4, ConcatProperties
  <2> QED BY ONLY <1>2, <1>6, <2>1
<1>10. SUFFICES ASSUME NEW e \in Nat, NEW k \in Nat
       PROVE  /\ IsFiniteSet(Handed(e, k))
              /\ Cardinality(Handed(e, k)') =
                   Cardinality(Handed(e, k)) + IF e = element /\ a <= k /\ k <= b THEN 1 ELSE 0
  BY <1>9
<1>11. IsFiniteSet(Handed(e, k)) /\ \A i \in Handed(e, k) : i \in 1 .. n
  <2>1. IsFiniteSet(1 .. n) /\ Handed(e, k) \in SUBSET (1 .. n)
    BY <1>8, FS_Interval DEF Handed
  <2> QED BY <2>1, FS_Subset
<1>12. \A i \in 1 .. n : i \in 1 .. n + m /\ out'[i] = out[i]
  BY <1>1, <1>8, <1>9
<1>13. \A i \in n + 1 .. n + m :
         i \in 1 .. n + m /\ i - n \in 1 .. m /\ out'[i] = <<element, a + (i - n) - 1>>
  <2> SUFFICES ASSUME NEW i \in n + 1 .. n + m
               PROVE  i \in 1 .. n + m /\ i - n \in 1 .. m /\ out'[i] = <<element, a + (i - n) - 1>>
    OBVIOUS
  <2>1. i \in 1 .. n + m /\ i - n \in 1 .. m /\ ~(i <= n)
    BY <1>1, <1>8
  <2> QED BY <1>7, <1>9, <2>1
<1>14. Handed(e, k)' = {i \in 1 .. n + m : out'[i] = <<e, k>>}
  BY <1>9 DEF Handed
<1>15. CASE e = element /\ a <= k /\ k <= b
  <2> DEFINE x == n + (k - a) + 1
  <2>1. x \in n + 1 .. n + m /\ a + (x - n) - 1 = k
    BY <1>8, <1>15
  <2>2. \A i \in n + 1 .. n + m : out'[i] = <<e, k>> <=> i = x
    <3>1. \A i \in n + 1 .. n + m : out'[i] = <<e, k>> <=> a + (i - n) - 1 = k
      <4> SUFFICES ASSUME NEW i \in n + 1 .. n + m
                   PROVE  out'[i] = <<e, k>> <=> a + (i - n) - 1 = k
        OBVIOUS
      <4>1. out'[i] = <<e, a + (i - n) - 1>>
        BY <1>13, <1>15
      <4> QED BY ONLY <4>1
    <3>2. \A i \in n + 1 .. n + m : a + (i - n) - 1 = k <=> i = x
      BY <1>8, <1>15
    <3> QED BY <3>1, <3>2
  <2>3. \A i \in 1 .. n + m : i \in 1 .. n \/ i \in n + 1 .. n + m
    BY <1>8
  <2>4. x \notin 1 .. n
    BY <1>8, <1>15
  <2> HIDE DEF x, m, n
  <2>5. Handed(e, k)' = Handed(e, k) \cup {x}
    BY <1>12, <1>13, <1>14, <2>1, <2>2, <2>3 DEF Handed, n
  <2>6. x \notin Handed(e, k)
    BY <1>11, <2>4
  <2> QED BY <1>11, <1>15, <2>5, <2>6, FS_AddElement
<1>16. CASE ~(e = element /\ a <= k /\ k <= b)
  <2>1. \A i \in n + 1 .. n + m : out'[i] # <<e, k>>
    <3> SUFFICES ASSUME NEW i \in n + 1 .. n + m, out'[i] = <<e, k>> PROVE FALSE
      OBVIOUS
    <3>0. i - n \in 1 .. m /\ out'[i] = <<element, a + (i - n) - 1>> /\ out'[i] = <<e, k>>
      BY <1>13
    <3>1. i - n \in 1 .. m /\ element = e /\ a + (i - n) - 1 = k
      BY ONLY <3>0
    <3>2. a <= k /\ k <= b
      BY <1>8, <3>1
    <3> QED BY <1>16, <3>1, <3>2
  <2>2. \A i \in 1 .. n + m : i \in 1 .. n \/ i \in n + 1 .. n + m
    BY <1>8
  <2> HIDE DEF m, n
  <2>3. Handed(e, k)' = Handed(e, k)
    BY <1>12, <1>14, <2>1, <2>2 DEF Handed, n
  <2>4. Cardinality(Handed(e, k)) \in Nat
    BY <1>11, FS_CardinalityType
  <2> QED BY <1>11, <1>16, <2>3, <2>4
<1> QED BY <1>15, <1>16

(* Those that overlap with the interval are handed on, or there is no room *)
(* for them.                                                               *)
LEMMA HandOnWalks ==
  ASSUME WalkInv, Inside, nth <= VisitCount, element <= upto,
         NEW a \in Nat \ {0}, NEW b \in Nat, HandOn(a, b),
         UNCHANGED <<filtered, sorted, mapping, nth, upto, search, found>>,
         sorted \in Seq(TimeInterval),
         Searchable =>
           \A k \in 1 .. Len(Events) : Overlap(Events[k], Interval) <=> a <= k /\ k <= b
  PROVE  WalkInv'
<1>1. WalkType /\ WalkPlace /\ Progress
  BY DEF WalkInv
<1>2. /\ nth \in Nat \ {0} /\ element \in Nat \ {0} /\ upto \in 0 .. Len(mapping)
      /\ out \in Seq(Nat \X Nat) /\ filtered \in BOOLEAN
  BY <1>1 DEF WalkType
<1>3. /\ Spans' = Spans /\ (Searchable' <=> Searchable) /\ VisitCount' = VisitCount
      /\ Interval' = Interval
  BY PlacesKept
<1>4. CASE at' = "failed" /\ out' = out /\ element' = element
  <2>1. WalkType'
    BY <1>1, <1>4 DEF WalkType
  <2>2. ~Inside' /\ ~Visiting'
    BY <1>4 DEF Inside, Visiting
  <2>3. WalkPlace' /\ Progress'
    BY <1>4, <2>2 DEF WalkPlace, Progress
  <2> QED BY <2>1, <2>3 DEF WalkInv
<1>5. CASE /\ out' = out \o [k \in 1 .. b - a + 1 |-> <<element, a + k - 1>>]
           /\ at' = "element" /\ element' = element + 1
  <2>1. /\ out' \in Seq(Nat \X Nat)
        /\ \A e, k \in Nat :
             Cardinality(Handed(e, k)') =
               Cardinality(Handed(e, k)) + IF e = element /\ a <= k /\ k <= b THEN 1 ELSE 0
    <3>1. element \in Nat /\ out \in Seq(Nat \X Nat)
      BY <1>2
    <3>2. out' = out \o [k \in 1 .. b - a + 1 |-> <<element, a + k - 1>>]
      BY <1>5
    <3>3. /\ out' \in Seq(Nat \X Nat)
          /\ \A e, k \in Nat :
               /\ IsFiniteSet(Handed(e, k))
               /\ Cardinality(Handed(e, k)') =
                    Cardinality(Handed(e, k)) + IF e = element /\ a <= k /\ k <= b THEN 1 ELSE 0
      BY <3>1, <3>2, HandedMore, ZenonT(30)
    <3> QED BY <3>3
  <2>2. WalkType'
    BY <1>1, <1>2, <1>5, <2>1 DEF WalkType
  <2>3. Inside' /\ Visiting' /\ at # "failed"
    BY <1>5 DEF Inside, Visiting
  <2>4. Searchable => \A e \in 1 .. Len(mapping) :
          element <= e => (Overlap(mapping[e].span, Interval) <=> e <= upto)
    BY <1>1 DEF WalkPlace
  <2>5. WalkPlace'
    <3>1. \A e \in 1 .. Len(mapping) : element + 1 <= e => element <= e
      BY <1>2
    <3> QED BY <1>3, <1>5, <2>3, <2>4, <3>1 DEF WalkPlace
  <2>6. /\ VisitCount \in Nat /\ Interval = VisitAt(nth) /\ Len(mapping) \in Nat
        /\ nth \in 1 .. VisitCount /\ element \in 1 .. Len(mapping)
    BY <1>1, <1>2, VisitTold, MappingTold DEF WalkType
  <2>7. ASSUME Searchable', NEW e \in 1 .. Len(mapping), NEW k \in 1 .. Len(mapping[e].events)
        PROVE  Cardinality(Handed(e, k)') = Cardinality(Due(e, k)')
    <3>1. Searchable /\ e \in Nat /\ k \in Nat
      BY <1>3, <2>7
    <3>2. Cardinality(Handed(e, k)) = Cardinality(Due(e, k))
      BY <1>1, <2>3, <3>1 DEF Progress
    <3>3. \A n \in 1 .. VisitCount : DueAt(e, n)' <=> DueAt(e, n) \/ (n = nth /\ e = element)
      BY <1>2, <1>5, <2>3, <2>6 DEF DueAt
    <3>4. \A n \in 1 .. VisitCount : Reason(e, k, n)' <=> Reason(e, k, n)
      BY DEF Reason, VisitAt
    <3>5. Reason(e, k, nth) /\ e = element <=> e = element /\ a <= k /\ k <= b
      <4> SUFFICES ASSUME e = element PROVE Reason(e, k, nth) <=> a <= k /\ k <= b
        OBVIOUS
      <4>1. Overlap(mapping[e].span, Interval)
        BY <1>2, <2>4, <2>6, <3>1
      <4>2. Overlap(mapping[e].events[k], Interval) <=> a <= k /\ k <= b
        BY <3>1 DEF Events
      <4> QED BY <2>6, <4>1, <4>2 DEF Reason
    <3>6. IsFiniteSet(Due(e, k)) /\ Cardinality(Due(e, k)) \in Nat
      <4>1. IsFiniteSet(1 .. VisitCount) /\ Due(e, k) \in SUBSET (1 .. VisitCount)
        <5>1. 1 \in Int /\ VisitCount \in Int
          BY <2>6
        <5>2. Due(e, k) \subseteq 1 .. VisitCount
          BY DEF Due
        <5> QED BY <5>1, <5>2, FS_Interval
      <4> QED BY <4>1, FS_Subset, FS_CardinalityType
    <3>7. CASE e = element /\ a <= k /\ k <= b
      <4>1. Due(e, k)' = Due(e, k) \cup {nth}
        BY <1>3, <2>6, <3>3, <3>4, <3>5, <3>7 DEF Due
      <4>2. nth \notin Due(e, k)
        BY <1>2, <3>7 DEF Due, DueAt
      <4>3. Cardinality(Due(e, k) \cup {nth}) = Cardinality(Due(e, k)) + 1
        BY <3>6, <4>2, FS_AddElement
      <4> QED BY <2>1, <3>1, <3>2, <3>7, <4>1, <4>3
    <3>8. CASE ~(e = element /\ a <= k /\ k <= b)
      <4>1. Due(e, k)' = Due(e, k)
        BY <1>3, <2>6, <3>3, <3>4, <3>5, <3>8 DEF Due
      <4> QED BY <2>1, <3>1, <3>2, <3>6, <3>8, <4>1
    <3> QED BY <3>7, <3>8
  <2>8. Progress'
    BY <2>7 DEF Progress
  <2> QED BY <2>2, <2>5, <2>8 DEF WalkInv
<1> QED BY <1>4, <1>5 DEF HandOn

(* An element is passed over of whose events none overlaps.                *)
LEMMA ElementPassed ==
  ASSUME WalkInv, Inside, nth <= VisitCount, at' = "element", element' = element + 1,
         UNCHANGED <<filtered, sorted, mapping, nth, upto, search, found, out>>,
         Searchable => \A k \in 1 .. Len(Events) : ~Overlap(Events[k], Interval)
  PROVE  WalkInv'
<1>1. WalkType /\ WalkPlace /\ Progress
  BY DEF WalkInv
<1>2. nth \in Nat \ {0} /\ element \in Nat \ {0} /\ Len(mapping) \in Nat
  BY <1>1, MappingTold DEF WalkType
<1>3. /\ Spans' = Spans /\ (Searchable' <=> Searchable) /\ VisitCount' = VisitCount
      /\ Interval' = Interval
  BY PlacesKept
<1>4. Inside' /\ Visiting' /\ at # "failed"
  BY DEF Inside, Visiting
<1>5. WalkType'
  BY <1>1, <1>2 DEF WalkType
<1>6. WalkPlace'
  <2>1. Searchable => \A e \in 1 .. Len(mapping) :
          element <= e => (Overlap(mapping[e].span, Interval) <=> e <= upto)
    BY <1>1 DEF WalkPlace
  <2>2. \A e \in 1 .. Len(mapping) : element + 1 <= e => element <= e
    BY <1>2
  <2> QED BY <1>3, <1>4, <2>1, <2>2 DEF WalkPlace
<1>7. ASSUME Searchable, NEW e \in 1 .. Len(mapping), NEW k \in 1 .. Len(mapping[e].events),
             NEW n \in 1 .. VisitCount, Reason(e, k, n)
      PROVE  DueAt(e, n)' <=> DueAt(e, n)
  <2>1. ~(n = nth /\ e = element)
    <3> SUFFICES ASSUME n = nth, e = element PROVE FALSE
      OBVIOUS
    <3>1. Overlap(Events[k], Interval)
      BY <1>7 DEF Reason, Events, VisitAt, Interval
    <3> QED BY <1>7, <3>1 DEF Events
  <2> QED BY <1>2, <1>4, <2>1 DEF DueAt
<1>8. Progress'
  BY <1>1, <1>4, <1>7, ProgressKept
<1> QED BY <1>5, <1>6, <1>8 DEF WalkInv

LEMMA NextElementWalks ==
  ASSUME WalkInv, sorted \in Seq(TimeInterval), NextElement
  PROVE  WalkInv'
<1>1. WalkType /\ WalkPlace /\ Progress
  BY DEF WalkInv
<1>2. /\ at = "element" /\ UNCHANGED <<filtered, sorted, mapping, upto, found>>
      /\ Inside /\ Visiting
  BY DEF NextElement, input, sorting, Inside, Visiting
<1>3. /\ Spans' = Spans /\ (Searchable' <=> Searchable) /\ VisitCount' = VisitCount
      /\ nth' = nth => Interval' = Interval
      /\ element' = element => Events' = Events
  BY <1>2, PlacesKept
<1>4. /\ nth \in Nat \ {0} /\ element \in Nat \ {0} /\ upto \in 0 .. Len(mapping)
      /\ nth <= VisitCount /\ Len(mapping) \in Nat
      /\ Searchable => \A e \in 1 .. Len(mapping) :
           element <= e => (Overlap(mapping[e].span, Interval) <=> e <= upto)
  BY <1>1, <1>2, MappingTold DEF WalkType, WalkPlace
<1>5. /\ VisitCount \in Nat /\ Interval = VisitAt(nth)
      /\ \A n \in 1 .. VisitCount : VisitAt(n) \in TimeInterval
      /\ \A x \in TimeInterval \cup IndexedEvent : Overlap(x, Everything)
  BY <1>1, VisitTold DEF WalkType
<1>6. CASE /\ element > upto /\ at' = "interval" /\ nth' = nth + 1
           /\ UNCHANGED <<element, search, out>>
  <2>1. WalkType'
    BY <1>1, <1>2, <1>4, <1>6 DEF WalkType
  <2>2. ~Inside' /\ ~Visiting'
    BY <1>6 DEF Inside, Visiting
  <2>3. WalkPlace'
    BY <1>6, <2>2 DEF WalkPlace
  <2>4. ASSUME Searchable, NEW e \in 1 .. Len(mapping), NEW k \in 1 .. Len(mapping[e].events),
               NEW n \in 1 .. VisitCount, Reason(e, k, n)
        PROVE  DueAt(e, n)' <=> DueAt(e, n)
    <3>1. n = nth => e < element
      <4> SUFFICES ASSUME n = nth, element <= e PROVE FALSE
        BY <1>4
      <4>1. Overlap(mapping[e].span, Interval)
        BY <1>5, <2>4 DEF Reason
      <4> QED BY <1>4, <1>6, <2>4, <4>1
    <3> QED BY <1>2, <1>4, <1>6, <2>2, <3>1 DEF DueAt
  <2>5. Progress'
    BY <1>1, <1>2, <1>6, <2>4, ProgressKept
  <2> QED BY <2>1, <2>3, <2>5 DEF WalkInv
<1>7. CASE /\ element <= upto /\ Events = NoArray /\ element' = element + 1
           /\ UNCHANGED <<at, nth, search, out>>
  <2>1. \A k \in 1 .. Len(Events) : FALSE
    BY <1>7, EmptySeq DEF NoArray
  <2> QED BY <1>2, <1>4, <1>7, <2>1, ElementPassed
<1>8. CASE /\ element <= upto /\ Events # NoArray /\ ~filtered
           /\ HandOn(1, Len(Events)) /\ UNCHANGED <<nth, search>>
  <2>1. element \in 1 .. Len(mapping)
    BY <1>4, <1>8
  <2>2. /\ Len(Events) \in Nat
        /\ \A k \in 1 .. Len(Events) : Events[k] \in IndexedEvent
    BY <1>1, <2>1, MappingTold DEF WalkType, Events
  <2>3. \A k \in 1 .. Len(Events) : Overlap(Events[k], Interval) <=> 1 <= k /\ k <= Len(Events)
    BY <1>5, <1>8, <2>2 DEF Interval
  <2>4. 1 \in Nat \ {0}
    OBVIOUS
  <2> QED BY <1>2, <1>4, <1>8, <2>2, <2>3, <2>4, HandOnWalks
<1>9. CASE /\ element <= upto /\ Events # NoArray /\ filtered
           /\ search' = Search(Events, Interval, "first", "events") /\ at' = "search"
           /\ UNCHANGED <<element, nth, out>>
  <2>1. element \in 1 .. Len(mapping) /\ nth \in 1 .. VisitCount
    BY <1>4, <1>5, <1>9
  <2>2. Begun(Search(Events, Interval, "first", "events"), Events, Interval, "first", "events")
    <3>1. Events \in Seq(TimeInterval) \cup Seq(IndexedEvent)
      BY <1>1, <2>1, MappingTold DEF WalkType, Events
    <3>2. "events" \in Thens /\ Interval \in TimeInterval
      BY <1>5, <2>1 DEF Thens
    <3> QED BY <3>1, <3>2, SearchBegins
  <2>3. /\ search' \in SearchRecord /\ SearchInv(search') /\ search'.of = Events
        /\ search'.query = Interval /\ search'.goal = "first" /\ search'.then = "events"
    BY <1>9, <2>2 DEF Begun
  <2>4. WalkType'
    BY <1>1, <1>2, <1>9, <2>3 DEF WalkType
  <2>5. "events" \in EventThens /\ "events" \notin ElementThens /\ "events" \notin StatsThens
    BY DEF ElementThens, EventThens, StatsThens
  <2>6. Inside' /\ Visiting'
    BY <1>9, <2>3, <2>5 DEF Inside, Visiting
  <2>7. WalkPlace'
    <3>1. nth' <= VisitCount' /\ Interval' = Interval /\ Events' = Events
      BY <1>3, <1>4, <1>9
    <3>2. UNCHANGED <<element, filtered, mapping, upto>>
      BY <1>2, <1>9
    <3> QED BY ONLY <1>3, <1>4, <1>9, <2>3, <2>5, <2>6, <3>1, <3>2 DEF WalkPlace
  <2>8. Progress'
    BY <1>1, <1>2, <1>9, <2>6, ProgressKept DEF DueAt
  <2> QED BY <2>4, <2>7, <2>8 DEF WalkInv
<1> QED BY <1>6, <1>7, <1>8, <1>9 DEF NextElement

LEMMA FirstEventWalks ==
  ASSUME WalkInv, sorted \in Seq(TimeInterval), FirstEvent
  PROVE  WalkInv'
<1>1. WalkType /\ WalkPlace /\ Progress
  BY DEF WalkInv
<1>2. /\ at = "search" /\ search.done /\ search.then = "events"
      /\ UNCHANGED <<filtered, sorted, mapping, nth, upto, out>>
  BY DEF FirstEvent, Found, input, sorting
<1>3. /\ Spans' = Spans /\ (Searchable' <=> Searchable) /\ VisitCount' = VisitCount
      /\ Interval' = Interval /\ (element' = element => Events' = Events)
  BY <1>2, PlacesKept
<1>4. "events" \in EventThens /\ "events" \notin ElementThens
  BY DEF ElementThens, EventThens
<1>5. /\ search.of = Events /\ search.query = Interval /\ search.goal = "first"
      /\ nth <= VisitCount /\ Inside /\ SearchInv(search) /\ filtered /\ element <= upto
      /\ nth \in Nat \ {0} /\ element \in Nat \ {0} /\ upto \in 0 .. Len(mapping)
      /\ Searchable => \A e \in 1 .. Len(mapping) :
           element <= e => (Overlap(mapping[e].span, Interval) <=> e <= upto)
  BY <1>1, <1>2, <1>4 DEF WalkPlace, Visiting, Inside, WalkType
<1>6. /\ Len(mapping) \in Nat /\ DOMAIN mapping = 1 .. Len(mapping)
      /\ \A e \in 1 .. Len(mapping) :
           mapping[e].events \in Seq(IndexedEvent) /\ Len(mapping[e].events) \in Nat
  BY <1>1, MappingTold DEF WalkType
<1>7. element \in 1 .. Len(mapping) /\ Events \in Seq(IndexedEvent) /\ Len(Events) \in Nat
  <2>1. element \in 1 .. Len(mapping)
    BY <1>5, <1>6
  <2> QED BY <1>6, <2>1 DEF Events
<1>8. Interval \in TimeInterval
  <2>1. /\ VisitCount \in Nat /\ Interval = VisitAt(nth)
        /\ \A n \in 1 .. VisitCount : VisitAt(n) \in TimeInterval
    BY <1>1, VisitTold DEF WalkType
  <2> QED BY <1>5, <2>1
<1>9. search.hit \in -1 .. Len(Events) - 1
  BY <1>5 DEF SearchInv, SearchType
<1>10. Searchable => IF search.hit = None THEN \A k \in 1 .. Len(Events) : ~Overlap(Events[k], Interval)
                     ELSE FirstOf(Events, Interval, search.hit + 1)
  <2>1. Searchable => Monotone(Events)
    BY <1>6, <1>7 DEF Searchable, Events
  <2> QED BY <1>2, <1>5, <2>1, FoundFirst
<1>11. CASE search.hit = None
  <2>1. at' = "element" /\ element' = element + 1 /\ search' = search /\ found' = found
    BY <1>11 DEF FirstEvent
  <2> QED BY <1>2, <1>5, <1>10, <1>11, <2>1, ElementPassed
<1>12. CASE search.hit # None
  <2>1. /\ at' = "search" /\ element' = element /\ found' = search.hit + 1
        /\ search' = Search(Events, Interval, "last", "last event")
    BY <1>2, <1>12 DEF FirstEvent
  <2>2. Begun(Search(Events, Interval, "last", "last event"), Events, Interval, "last", "last event")
    <3>1. Events \in Seq(TimeInterval) \cup Seq(IndexedEvent)
      BY <1>7
    <3>2. "last event" \in Thens
      BY DEF Thens
    <3> QED BY <1>8, <3>1, <3>2, SearchBegins
  <2>3. /\ search' \in SearchRecord /\ SearchInv(search') /\ search'.of = Events
        /\ search'.query = Interval /\ search'.goal = "last" /\ search'.then = "last event"
    BY <2>1, <2>2 DEF Begun
  <2>4. found' \in Nat \ {0}
    <3> DEFINE h == search.hit
               n == Len(Events)
    <3>1. found' = h + 1 /\ h \in -1 .. n - 1 /\ h # -1 /\ n \in Nat
      BY <1>7, <1>9, <1>12, <2>1 DEF None
    <3> HIDE DEF h, n
    <3> QED BY <3>1
  <2>5. WalkType'
    BY <1>1, <1>2, <2>1, <2>3, <2>4 DEF WalkType
  <2>6. /\ "last event" \in EventThens /\ "last event" \notin ElementThens
        /\ "last event" \notin StatsThens
    BY DEF ElementThens, EventThens, StatsThens
  <2>7. Inside' /\ Visiting'
    BY <2>1, <2>3, <2>6 DEF Inside, Visiting
  <2>8. Searchable => FirstOf(Events, Interval, found')
    BY <1>10, <1>12, <2>1
  <2>9. WalkPlace'
    <3>1. nth' <= VisitCount' /\ Events' = Events
      BY <1>2, <1>3, <1>5, <2>1
    <3>2. UNCHANGED <<element, filtered, mapping, upto>> /\ found' # 0
      BY <1>2, <2>1, <2>4
    <3> QED BY ONLY <1>3, <1>5, <2>1, <2>3, <2>6, <2>7, <2>8, <3>1, <3>2 DEF WalkPlace
  <2>10. Progress'
    BY <1>1, <1>2, <1>5, <2>1, <2>7, ProgressKept DEF DueAt
  <2> QED BY <2>5, <2>9, <2>10 DEF WalkInv
<1> QED BY <1>11, <1>12

LEMMA LastEventWalks ==
  ASSUME WalkInv, sorted \in Seq(TimeInterval), LastEvent
  PROVE  WalkInv'
<1>1. WalkType /\ WalkPlace /\ Progress
  BY DEF WalkInv
<1>2. /\ at = "search" /\ search.done /\ search.then = "last event"
      /\ HandOn(found, search.hit + 1)
      /\ UNCHANGED <<filtered, sorted, mapping, nth, upto, search, found>>
  BY DEF LastEvent, Found, input, sorting
<1>3. "last event" \in EventThens /\ "last event" \notin ElementThens
  BY DEF ElementThens, EventThens
<1>4. /\ search.of = Events /\ search.query = Interval /\ search.goal = "last"
      /\ nth <= VisitCount /\ Inside /\ SearchInv(search) /\ element <= upto
      /\ element \in Nat \ {0} /\ upto \in 0 .. Len(mapping) /\ found \in Nat \ {0}
      /\ Searchable => FirstOf(Events, Interval, found)
  BY <1>1, <1>2, <1>3 DEF WalkPlace, Visiting, Inside, WalkType
<1>5. /\ Len(mapping) \in Nat /\ DOMAIN mapping = 1 .. Len(mapping)
      /\ \A e \in 1 .. Len(mapping) : Len(mapping[e].events) \in Nat
  BY <1>1, MappingTold DEF WalkType
<1>6. element \in DOMAIN mapping /\ Len(Events) \in Nat
  <2>1. element \in 1 .. Len(mapping)
    BY <1>4, <1>5
  <2> QED BY <1>5, <2>1 DEF Events
<1>7. Searchable =>
        \A k \in 1 .. Len(Events) :
          Overlap(Events[k], Interval) <=> found <= k /\ k <= search.hit + 1
  <2>1. Searchable => Monotone(Events)
    BY <1>6 DEF Searchable, Events
  <2> QED BY <1>2, <1>4, <2>1, FoundLast
<1>8. search.hit + 1 \in Nat
  <2> DEFINE h == search.hit
             n == Len(Events)
  <2>1. h \in -1 .. n - 1 /\ n \in Nat
    BY <1>4, <1>6 DEF SearchInv, SearchType
  <2> HIDE DEF h, n
  <2>2. h + 1 \in Nat
    BY <2>1
  <2> QED BY <2>2 DEF h
<1> QED BY <1>2, <1>4, <1>7, <1>8, HandOnWalks

(* Before the first interval                                               *)
LEMMA NotYetWalks ==
  ASSUME WalkInv, SortedInv',
         StartPass \/ SortElement \/ EndPass \/ StartMerge \/ Merge \/ EndMerge
  PROVE  WalkInv'
<1>1. WalkType /\ WalkPlace
  BY DEF WalkInv
<1>2. /\ at \in {"sort", "merge"} /\ at' \in {"sort", "merge", "interval"}
      /\ UNCHANGED <<filtered, element, upto, search, out, found>>
      /\ nth' = 1 \/ nth' = nth
      /\ mapping' = mapping \/ mapping' \in Mappings
  BY DEF StartPass, SortElement, EndPass, StartMerge, Merge, EndMerge, input, walk, results
<1>3. nth = 1 /\ out = <<>> /\ upto = 0
  BY <1>1, <1>2 DEF WalkPlace
<1>4. mapping' \in Seq(MappedEvents)
  BY <1>1, <1>2, QueryAssumption DEF WalkType
<1>5. WalkType'
  <2>1. Len(mapping') \in Nat
    BY <1>4, LenProperties
  <2>2. upto' \in 0 .. Len(mapping')
    BY <1>2, <1>3, <2>1
  <2> QED BY <1>1, <1>2, <1>3, <1>4, <2>2 DEF WalkType
<1>6. ~Inside' /\ ~Visiting'
  BY <1>2 DEF Inside, Visiting
<1>7. WalkPlace'
  BY <1>2, <1>3, <1>6 DEF WalkPlace
<1>8. Progress'
  BY <1>2, <1>3, <1>6, NothingDueNext
<1> QED BY <1>5, <1>7, <1>8 DEF WalkInv

LEMMA WalksAtFirst ==
  ASSUME QueryInit
  PROVE  WalkInv
<1>1. /\ filtered \in BOOLEAN /\ given \in Filters /\ sorted = given
      /\ mapping = <<>> \/ mapping \in Mappings
      /\ nth = 1 /\ element = 1 /\ upto = 0 /\ found = 0 /\ out = <<>>
      /\ at \in {"sort", "done", "interval", "stats"}
      /\ at = "stats" => Len(mapping) = 1
      /\ at = "done" => filtered /\ given = <<>>
      /\ search = Search(<<>>, Everything, "first", "none")
  BY DEF QueryInit
<1>2. mapping \in Seq(MappedEvents)
  BY <1>1, QueryAssumption, EmptySeq
<1>3. Begun(search, <<>>, Everything, "first", "none")
  <2>1. Everything \in TimeInterval
    BY UnsignedTold DEF Everything, TimeInterval, Unsigned
  <2>2. <<>> \in Seq(TimeInterval) \cup Seq(IndexedEvent) /\ "none" \in Thens
    BY EmptySeq DEF Thens
  <2> QED BY <1>1, <2>1, <2>2, SearchBegins
<1>4. WalkType
  <2>1. Len(mapping) \in Nat /\ out \in Seq(Nat \X Nat)
    BY <1>1, <1>2, LenProperties, EmptySeq
  <2>2. upto \in 0 .. Len(mapping)
    BY <1>1, <2>1
  <2>3. search \in SearchRecord /\ SearchInv(search)
    BY <1>3 DEF Begun
  <2> QED BY <1>1, <1>2, <2>1, <2>2, <2>3 DEF WalkType
<1>5. ~Inside /\ ~Visiting
  BY <1>1 DEF Inside, Visiting
<1>6. at = "done" => nth > VisitCount
  <2>1. at = "done" => VisitCount = 0
    BY <1>1, EmptySeq DEF VisitCount
  <2> QED BY <1>1, <2>1
<1>7. WalkPlace
  BY <1>1, <1>5, <1>6 DEF WalkPlace
<1>8. Progress
  BY <1>1, <1>5, NothingDue DEF Progress
<1> QED BY <1>4, <1>7, <1>8 DEF WalkInv

(* Statistics are about the events of one collection.                      *)
LEMMA StatsWalk ==
  ASSUME WalkInv, CollectLast \/ Accumulate \/ \E q \in Queries : CollectFirst(q)
  PROVE  WalkInv'
<1>1. WalkType /\ WalkPlace
  BY DEF WalkInv
<1>2. /\ UNCHANGED <<filtered, mapping, nth, element, upto, out>>
  BY DEF CollectLast, Accumulate, CollectFirst, input, sorting, walk, results
<1>3. /\ "stats" \in StatsThens /\ "stats" \notin ElementThens /\ "stats" \notin EventThens
      /\ "last stats" \in StatsThens /\ "last stats" \notin ElementThens
      /\ "last stats" \notin EventThens /\ "stats" \in Thens /\ "last stats" \in Thens
  BY DEF ElementThens, EventThens, StatsThens, Thens
<1>4. nth = 1 /\ out = <<>> /\ upto = 0
  BY <1>1, <1>3 DEF WalkPlace, CollectLast, Accumulate, CollectFirst, Found
<1>5. ASSUME at' = "told", found' = found, search' = search PROVE WalkInv'
  <2>1. ~Inside' /\ ~Visiting'
    BY <1>5 DEF Inside, Visiting
  <2>2. WalkType' /\ WalkPlace'
    BY <1>1, <1>2, <1>5, <2>1 DEF WalkType, WalkPlace
  <2> QED BY <1>2, <1>4, <2>1, <2>2, NothingDueNext DEF WalkInv
<1>6. ASSUME NEW of \in Seq(IndexedEvent), NEW q \in TimeInterval,
             NEW then \in StatsThens, then = "stats" \/ then = "last stats",
             at' = "search", found' \in Nat,
             \/ /\ search' = Search(of, q, IF then = "stats" THEN "first" ELSE "last", then)
             \/ /\ search' = search /\ then = "last stats" /\ search.of = of
                /\ search.query = q /\ search.goal = "last" /\ search.then = then
      PROVE  WalkInv'
  <2> DEFINE goal == IF then = "stats" THEN "first" ELSE "last"
  <2>1. Begun(search', of, q, goal, then)
    <3>1. CASE /\ search' = search /\ then = "last stats" /\ search.of = of
               /\ search.query = q /\ search.goal = "last" /\ search.then = then
      <4>1. goal = "last"
        BY <3>1
      <4> QED BY <1>1, <3>1, <4>1 DEF Begun, WalkType
    <3>2. CASE search' = Search(of, q, goal, then)
      <4>1. of \in Seq(TimeInterval) \cup Seq(IndexedEvent) /\ goal \in {"first", "last"}
            /\ then \in Thens
        BY <1>3, <1>6
      <4>2. Begun(Search(of, q, goal, then), of, q, goal, then)
        BY <4>1, SearchBegins
      <4> QED BY <3>2, <4>2
    <3> QED BY <1>6, <3>1, <3>2
  <2>2. /\ search' \in SearchRecord /\ SearchInv(search') /\ search'.of = of
        /\ search'.query = q /\ search'.goal = goal /\ search'.then = then
    BY <2>1 DEF Begun
  <2>3. WalkType'
    BY <1>1, <1>2, <1>6, <2>2 DEF WalkType
  <2>4. ~Inside' /\ ~Visiting'
    BY <1>3, <1>6, <2>2 DEF Inside, Visiting
  <2>5. WalkPlace'
    BY ONLY <1>2, <1>3, <1>4, <1>6, <2>2, <2>4 DEF WalkPlace
  <2> QED BY <1>2, <1>4, <2>3, <2>4, <2>5, NothingDueNext DEF WalkInv
<1>7. ASSUME NEW q \in Queries, CollectFirst(q) PROVE WalkInv'
  <2>1. /\ at = "stats" /\ at' = "search" /\ found' = found
        /\ search' = Search(mapping[1].events, q, "first", "stats")
    BY <1>7 DEF CollectFirst, results
  <2>2. mapping[1].events \in Seq(IndexedEvent)
    <3>1. Len(mapping) = 1
      BY <1>1, <2>1 DEF WalkPlace
    <3>2. 1 \in 1 .. Len(mapping)
      BY <3>1
    <3> QED BY <1>1, <3>2, MappingTold DEF WalkType
  <2>3. q \in TimeInterval /\ found' \in Nat
    BY <1>1, <2>1, QueryAssumption DEF WalkType
  <2> QED BY <1>3, <1>6, <2>1, <2>2, <2>3
<1>8. ASSUME CollectLast PROVE WalkInv'
  <2>1. /\ at = "search" /\ search.done /\ search.then = "stats"
        /\ search.of \in Seq(IndexedEvent)
    BY <1>1, <1>3, <1>8 DEF CollectLast, Found, WalkPlace
  <2>2. CASE search.hit = None
    BY <1>5, <1>8, <2>2 DEF CollectLast
  <2>3. CASE search.hit # None
    <3>1. /\ at' = "search" /\ found' = search.hit + 1
          /\ search' = Search(search.of, search.query, "last", "last stats")
      BY <1>8, <2>1, <2>3 DEF CollectLast
    <3>2. found' \in Nat
      <4> DEFINE h == search.hit
                 n == Len(search.of)
      <4>1. found' = h + 1 /\ h \in -1 .. n - 1 /\ n \in Nat
        BY <1>1, <3>1 DEF WalkType, SearchInv, SearchType, Spanned
      <4> HIDE DEF h, n
      <4> QED BY <4>1
    <3>3. search.query \in TimeInterval
      BY <1>1 DEF WalkType, SearchRecord
    <3>4. "last stats" # "stats"
      OBVIOUS
    <3> QED BY <1>3, <1>6, <2>1, <3>1, <3>2, <3>3, <3>4
  <2> QED BY <2>2, <2>3
<1>9. ASSUME Accumulate PROVE WalkInv'
  <2>1. /\ at = "search" /\ search.done /\ search.then = "last stats" /\ search' = search
        /\ search.of \in Seq(IndexedEvent) /\ search.goal = "last"
    BY <1>1, <1>3, <1>9 DEF Accumulate, Found, WalkPlace
  <2>2. CASE found > search.hit + 1
    BY <1>5, <1>9, <2>1, <2>2 DEF Accumulate
  <2>3. CASE ~(found > search.hit + 1)
    <3>1. at' = at /\ found' = found + 1
      BY <1>9, <2>3 DEF Accumulate
    <3>2. found' \in Nat
      BY <1>1, <3>1 DEF WalkType
    <3>3. search.query \in TimeInterval
      BY <1>1 DEF WalkType, SearchRecord
    <3> QED BY <1>3, <1>6, <2>1, <3>1, <3>2, <3>3
  <2> QED BY <2>2, <2>3
<1> QED BY <1>7, <1>8, <1>9

LEMMA WalkStep ==
  ASSUME SortedInv, WalkInv, QueryNext
  PROVE  WalkInv'
<1>1. sorted \in Seq(TimeInterval) /\ SortedInv'
  BY SortedStep DEF SortedInv, SortTypeOK
<1>2. ASSUME StartPass \/ SortElement \/ EndPass \/ StartMerge \/ Merge \/ EndMerge
      PROVE  WalkInv'
  BY <1>1, <1>2, NotYetWalks
<1>3. ASSUME CollectLast \/ Accumulate \/ \E q \in Queries : CollectFirst(q)
      PROVE  WalkInv'
  BY <1>3, StatsWalk
<1> QED BY <1>1, <1>2, <1>3, SearchStepWalks, NextIntervalWalks, FirstElementWalks,
           LastElementWalks, NextElementWalks, FirstEventWalks, LastEventWalks DEF QueryNext

(* All reasons for an event have been given in the end.                    *)
LEMMA WalkExtracts ==
  ASSUME SortedInv, WalkInv
  PROVE  Extracted
<1>1. WalkType /\ WalkPlace /\ Progress /\ sorted \in Seq(TimeInterval)
  BY DEF WalkInv, SortedInv, SortTypeOK
<1> SUFFICES ASSUME at = "done", Searchable,
                    NEW e \in DOMAIN mapping, NEW k \in DOMAIN mapping[e].events
             PROVE  Cardinality({n \in DOMAIN out : out[n] = <<e, k>>}) = Reasons(e, k)
  BY DEF Extracted
<1>2. /\ e \in 1 .. Len(mapping) /\ k \in 1 .. Len(mapping[e].events)
      /\ mapping[e].span \in TimeInterval /\ mapping[e].events[k] \in IndexedEvent
  BY <1>1, MappingTold DEF WalkType
<1>3. /\ VisitCount \in Nat /\ nth \in Nat /\ nth > VisitCount
      /\ \A x \in TimeInterval \cup IndexedEvent : Overlap(x, Everything)
  BY <1>1, VisitTold DEF WalkType, WalkPlace
<1>4. Cardinality(Handed(e, k)) = Cardinality(Due(e, k))
  BY <1>1, <1>2 DEF Progress
<1>5. Handed(e, k) = {n \in DOMAIN out : out[n] = <<e, k>>}
  <2>1. DOMAIN out = 1 .. Len(out)
    BY <1>1, LenProperties DEF WalkType
  <2> QED BY <2>1 DEF Handed
<1>6. Due(e, k) = {n \in 1 .. VisitCount : Reason(e, k, n)}
  BY <1>3 DEF Due, DueAt
<1>7. CASE filtered
  <2>1. DOMAIN sorted = 1 .. Len(sorted) /\ VisitCount = Len(sorted)
    BY <1>1, <1>7, LenProperties DEF VisitCount
  <2>2. Due(e, k) = {n \in DOMAIN sorted : /\ Overlap(mapping[e].span, sorted[n])
                                           /\ Overlap(mapping[e].events[k], sorted[n])}
    BY <1>6, <1>7, <2>1 DEF Reason, VisitAt
  <2> QED BY <1>4, <1>5, <1>7, <2>2 DEF Reasons
<1>8. CASE ~filtered
  <2>1. VisitCount = 1 /\ Reason(e, k, 1)
    BY <1>2, <1>3, <1>8 DEF VisitCount, Reason, VisitAt
  <2>2. Due(e, k) = {1}
    BY <1>6, <2>1
  <2>3. Cardinality(Due(e, k)) = 1
    BY <2>2, FS_Singleton
  <2> QED BY <1>4, <1>5, <1>8, <2>3 DEF Reasons
<1> QED BY <1>7, <1>8

-----------------------------------------------------------------------------
(* Statistics                                                              *)

(* What an event adds to the statistics, and what those before f add to    *)
(* those of an index                                                       *)
Share(n) ==
  IF counted THEN {0}
  ELSE {t \in Unsigned : t >= search.query.start /\ t <= search.query.end
                           /\ t >= search.of[n].start /\ t <= search.of[n].end}
Pairs(n) == {<<n, t>> : t \in Share(n)}
Adding(k, f) ==
  {n \in 1 .. Len(search.of) :
     n < f /\ search.of[n].index = k /\ Overlap(search.of[n], search.query)}
Added(k, f) == UNION {Pairs(n) : n \in Adding(k, f)}
All(k) == Added(k, Len(search.of) + 1)

Fits == \A k \in 0 .. MaxIndex : Cardinality(All(k)) <= UMax

(* The statistics are those of the events before the next one.             *)
StatsInv ==
  /\ counted \in BOOLEAN /\ times \in [0 .. MaxIndex -> Unsigned]
  /\ at \in {"sort", "merge", "stats"} \/ (at = "search" /\ search.then = "stats") =>
       \A k \in 0 .. MaxIndex : times[k] = 0
  /\ at = "search" /\ search.then = "last stats" => found # 0
  /\ at = "search" /\ search.then = "last stats" /\ Monotone(search.of) =>
       /\ \E m \in 1 .. found : FirstOf(search.of, search.query, m)
       /\ Fits => \A k \in 0 .. MaxIndex : times[k] = Cardinality(Added(k, found))
  /\ at = "told" =>
       /\ search.of \in Seq(IndexedEvent)
       /\ Monotone(search.of) /\ Fits => \A k \in 0 .. MaxIndex : times[k] = Cardinality(All(k))

(* A sum that fits is exact, and one that does not is still a number.      *)
LEMMA SaturatedSum ==
  ASSUME NEW a \in Unsigned, NEW b \in Unsigned
  PROVE  /\ SatU(AddSafeU(a, b)).out \in Unsigned
         /\ a + b <= UMax => SatU(AddSafeU(a, b)).out = a + b
<1>1. /\ a \in Int /\ b \in Int /\ 0 <= a /\ a <= UMax /\ 0 <= b /\ b <= UMax /\ UMax \in Int
      /\ 2 * Half = UMax + 1 /\ 2 * Half \in Int
  BY HalfAssumption DEF Unsigned, UMax
<1> DEFINE over == (a > b /\ UMax - a < b) \/ (b > a /\ UMax - b < a)
           r == AddSafeU(a, b)
<1>2. /\ r.status = IF over THEN "overflow" ELSE "exact"
      /\ r.out = WrapU(a + b)
  BY DEF AddSafeU, Result
<1>3. WrapU(a + b) \in 0 .. UMax /\ (a + b <= UMax => WrapU(a + b) = a + b /\ ~over)
  BY <1>1 DEF WrapU
<1> HIDE DEF r, over
<1>4. SatU(r).out = r.out \/ SatU(r).out = 0 \/ SatU(r).out = UMax
  BY <1>2 DEF SatU, Saturated
<1>5. ~over => SatU(r).out = r.out
  BY <1>2 DEF SatU, Saturated, Exact
<1> QED BY <1>1, <1>2, <1>3, <1>4, <1>5 DEF Unsigned, r

LEMMA CommonTold ==
  ASSUME NEW x, NEW q, x.start \in Unsigned, x.end \in Unsigned, x.start <= x.end,
         q.start \in Unsigned, q.end \in Unsigned, q.start <= q.end
  PROVE  /\ CommonDuration(x, q) \in Unsigned
         /\ Overlap(x, q) =>
              LET S == {t \in Unsigned : t >= q.start /\ t <= q.end /\ t >= x.start /\ t <= x.end}
              IN  /\ IsFiniteSet(S) /\ S \subseteq Unsigned
                  /\ Cardinality(S) <= UMax => CommonDuration(x, q) = Cardinality(S)
<1> DEFINE c == Common(x, q)
           lo == IF x.start <= q.start THEN q.start ELSE x.start
           hi == IF x.end <= q.end THEN x.end ELSE q.end
           S == {t \in Unsigned : t >= q.start /\ t <= q.end /\ t >= x.start /\ t <= x.end}
<1>1. /\ x.start \in Int /\ x.end \in Int /\ q.start \in Int /\ q.end \in Int /\ UMax \in Int
      /\ 0 <= x.start /\ x.end <= UMax /\ 0 <= q.start /\ q.end <= UMax
      /\ 0 <= x.end /\ x.start <= UMax /\ 0 <= q.end /\ q.start <= UMax
  BY UnsignedTold DEF Unsigned
<1>2. c.start = lo /\ c.end = hi
  BY DEF Common
<1>3. lo \in Int /\ hi \in Int /\ 0 <= lo /\ hi <= UMax
  BY <1>1
<1>4. S = lo .. hi
  <2>1. \A t \in Int : /\ t >= lo <=> t >= q.start /\ t >= x.start
                       /\ t <= hi <=> t <= q.end /\ t <= x.end
    BY <1>1
  <2> HIDE DEF lo, hi
  <2>2. \A t : t \in S <=> t \in lo .. hi
    BY <1>1, <1>3, <2>1 DEF Unsigned
  <2> HIDE DEF S
  <2> QED BY <2>2
<1>5. Overlap(x, q) => lo <= hi
  BY <1>1 DEF Overlap
<1>6. Overlap(x, q) => /\ hi - lo \in Unsigned /\ 1 \in Unsigned
                       /\ CommonDuration(x, q) = SatU(AddSafeU(hi - lo, 1)).out
  <2>1. 1 \in Unsigned
    BY HalfAssumption DEF Unsigned, UMax
  <2>2. Overlap(x, q) => hi - lo \in Unsigned
    BY <1>3, <1>5, <1>1 DEF Unsigned
  <2> HIDE DEF lo, hi, c
  <2> QED BY <1>2, <2>1, <2>2 DEF CommonDuration, Duration, c
<1> HIDE DEF lo, hi, c, S
<1>7. CASE ~Overlap(x, q)
  BY <1>1, <1>7 DEF CommonDuration, Unsigned
<1>8. CASE Overlap(x, q)
  <2>1. IsFiniteSet(S) /\ Cardinality(S) = hi - lo + 1
    BY <1>3, <1>4, <1>5, <1>8, FS_Interval
  <2>2. S \subseteq Unsigned
    BY DEF S
  <2>3. /\ CommonDuration(x, q) \in Unsigned
        /\ hi - lo + 1 <= UMax => CommonDuration(x, q) = hi - lo + 1
    BY <1>6, <1>8, SaturatedSum
  <2> QED BY <1>8, <2>1, <2>2, <2>3 DEF S
<1> QED BY <1>7, <1>8

LEMMA ShareTold ==
  ASSUME search \in SearchRecord, search.of \in Seq(IndexedEvent), counted \in BOOLEAN,
         NEW n \in 1 .. Len(search.of)
  PROVE  /\ Weight(search.of[n]) \in Unsigned /\ search.of[n].index \in 0 .. MaxIndex
         /\ Overlap(search.of[n], search.query) =>
              /\ IsFiniteSet(Share(n)) /\ Share(n) \subseteq Unsigned
              /\ Cardinality(Share(n)) <= UMax => Weight(search.of[n]) = Cardinality(Share(n))
<1> DEFINE x == search.of[n]
           q == search.query
<1>1. x \in IndexedEvent /\ q \in TimeInterval
  BY ElementOfSeq DEF SearchRecord
<1>2. /\ x.start \in Unsigned /\ x.end \in Unsigned /\ x.start <= x.end
      /\ q.start \in Unsigned /\ q.end \in Unsigned /\ q.start <= q.end
      /\ x.index \in 0 .. MaxIndex
  BY <1>1 DEF IndexedEvent, TimeInterval
<1> HIDE DEF x, q
<1>3. CASE counted
  <2>1. Weight(x) = 1 /\ Share(n) = {0}
    BY <1>3 DEF Weight, Share
  <2>2. IsFiniteSet({0}) /\ Cardinality({0}) = 1
    BY FS_Singleton
  <2>3. 1 \in Unsigned /\ 0 \in Unsigned
    BY HalfAssumption DEF Unsigned, UMax
  <2> QED BY <1>2, <2>1, <2>2, <2>3 DEF x
<1>4. CASE ~counted
  <2>1. Weight(x) = CommonDuration(x, q)
    BY <1>4 DEF Weight, q
  <2>2. Share(n) = {t \in Unsigned : t >= q.start /\ t <= q.end /\ t >= x.start /\ t <= x.end}
    BY <1>4 DEF Share, q, x
  <2> QED BY <1>2, <2>1, <2>2, CommonTold DEF x, q
<1> QED BY <1>3, <1>4

LEMMA PairsSize ==
  ASSUME NEW n, IsFiniteSet(Share(n))
  PROVE  IsFiniteSet(Pairs(n)) /\ Cardinality(Pairs(n)) = Cardinality(Share(n))
<1> DEFINE S == Share(n)
           f == [t \in S |-> <<n, t>>]
<1>1. f \in [S -> Pairs(n)]
  BY DEF Pairs
<1>2. IsInjective(f)
  BY DEF IsInjective
<1>3. \A z \in Pairs(n) : \E t \in S : f[t] = z
  BY DEF Pairs
<1> HIDE DEF f
<1>4. f \in Bijection(S, Pairs(n))
  BY <1>1, <1>2, <1>3 DEF Bijection, Injection, Surjection, IsInjective
<1>5. ExistsBijection(S, Pairs(n))
  BY <1>4 DEF ExistsBijection
<1> QED BY <1>5, FS_Bijection

(* The part of one event, which no other has                               *)
LEMMA AddedTold ==
  ASSUME search \in SearchRecord, search.of \in Seq(IndexedEvent), counted \in BOOLEAN,
         NEW k, NEW f \in 1 .. Len(search.of) + 1
  PROVE  /\ IsFiniteSet(Added(k, f)) /\ Cardinality(Added(k, f)) \in Nat
         /\ IsFiniteSet(All(k)) /\ Cardinality(Added(k, f)) <= Cardinality(All(k))
         /\ f <= Len(search.of) =>
              IF f \in Adding(k, f + 1)
              THEN Cardinality(Added(k, f + 1)) = Cardinality(Added(k, f)) + Cardinality(Share(f))
              ELSE Added(k, f + 1) = Added(k, f)
<1> DEFINE n == Len(search.of)
<1>1. n \in Nat
  BY LenProperties
<1>2. \A m \in 1 .. n : Overlap(search.of[m], search.query) =>
        IsFiniteSet(Share(m)) /\ Share(m) \subseteq Unsigned
  BY ShareTold
<1>3. \A g : Adding(k, g) \subseteq 1 .. n
  BY DEF Adding
<1>4. \A g : Added(k, g) \subseteq (1 .. n) \X Unsigned
  <2> SUFFICES ASSUME NEW g, NEW z \in Added(k, g) PROVE z \in (1 .. n) \X Unsigned
    OBVIOUS
  <2>1. PICK m \in Adding(k, g) : z \in Pairs(m)
    BY DEF Added
  <2>2. m \in 1 .. n /\ Share(m) \subseteq Unsigned
    BY <1>2, <2>1 DEF Adding
  <2> QED BY <2>1, <2>2 DEF Pairs
<1>5. IsFiniteSet((1 .. n) \X Unsigned)
  <2>1. IsFiniteSet(1 .. n) /\ IsFiniteSet(Unsigned)
    <3>1. 0 \in Int /\ 1 \in Int /\ n \in Int /\ UMax \in Int
      BY <1>1, UnsignedTold
    <3>2. IsFiniteSet(1 .. n) /\ IsFiniteSet(0 .. UMax)
      BY ONLY <3>1, FS_Interval
    <3> QED BY <3>2 DEF Unsigned
  <2> QED BY <2>1, FS_Product
<1>6. \A g : IsFiniteSet(Added(k, g)) /\ Cardinality(Added(k, g)) \in Nat
  <2> SUFFICES ASSUME NEW g PROVE IsFiniteSet(Added(k, g))
    BY FS_CardinalityType
  <2>1. Added(k, g) \in SUBSET ((1 .. n) \X Unsigned)
    BY <1>4
  <2> QED BY <1>5, <2>1, FS_Subset
<1>7. Added(k, f) \subseteq All(k)
  <2>1. Adding(k, f) \subseteq Adding(k, n + 1)
    BY <1>1 DEF Adding
  <2> QED BY <2>1 DEF Added, All
<1>8. IsFiniteSet(All(k)) /\ Cardinality(Added(k, f)) <= Cardinality(All(k))
  BY <1>6, <1>7, FS_Subset DEF All
<1>9. ASSUME f <= n, f \in Adding(k, f + 1)
      PROVE  Cardinality(Added(k, f + 1)) = Cardinality(Added(k, f)) + Cardinality(Share(f))
  <2>1. Adding(k, f + 1) = Adding(k, f) \cup {f}
    BY <1>1, <1>9 DEF Adding
  <2>2. Added(k, f + 1) = Added(k, f) \cup Pairs(f)
    BY <2>1 DEF Added
  <2>3. Added(k, f) \cap Pairs(f) = {}
    <3> SUFFICES ASSUME NEW z \in Added(k, f), z \in Pairs(f) PROVE FALSE
      OBVIOUS
    <3>1. PICK m \in Adding(k, f) : z \in Pairs(m)
      BY DEF Added
    <3>2. z[1] = m /\ z[1] = f
      BY <3>1 DEF Pairs
    <3>3. m < f /\ m \in Int
      BY <1>1, <3>1 DEF Adding
    <3> QED BY <3>2, <3>3
  <2>4. f \in 1 .. n /\ Overlap(search.of[f], search.query)
    BY <1>9 DEF Adding
  <2>5. IsFiniteSet(Pairs(f)) /\ Cardinality(Pairs(f)) = Cardinality(Share(f))
    BY <1>2, <2>4, PairsSize
  <2>6. Cardinality(Added(k, f) \cup Pairs(f))
          = Cardinality(Added(k, f)) + Cardinality(Pairs(f)) - Cardinality(Added(k, f) \cap Pairs(f))
    BY <1>6, <2>5, FS_Union
  <2>7. Cardinality(Added(k, f) \cap Pairs(f)) = 0
    BY <2>3, FS_EmptySet
  <2>8. Cardinality(Pairs(f)) \in Nat /\ Cardinality(Added(k, f)) \in Nat
    BY <1>6, <2>5, FS_CardinalityType
  <2> DEFINE a == Cardinality(Added(k, f))
             b == Cardinality(Pairs(f))
  <2>9. Cardinality(Added(k, f + 1)) = a + b - 0 /\ a \in Nat /\ b \in Nat
    BY <2>2, <2>6, <2>7, <2>8
  <2> HIDE DEF a, b
  <2>10. Cardinality(Added(k, f + 1)) = a + b
    BY ONLY <2>9
  <2> QED BY <2>5, <2>10 DEF a, b
<1>10. ASSUME f <= n, f \notin Adding(k, f + 1)
       PROVE  Added(k, f + 1) = Added(k, f)
  <2>1. Adding(k, f + 1) = Adding(k, f)
    BY <1>1, <1>10 DEF Adding
  <2> QED BY <2>1 DEF Added
<1> QED BY <1>6, <1>8, <1>9, <1>10

LEMMA AddedKept ==
  ASSUME search'.of = search.of, search'.query = search.query, counted' = counted
  PROVE  /\ \A k, f : Added(k, f)' = Added(k, f)
         /\ \A k : All(k)' = All(k)
         /\ Fits' <=> Fits
<1>1. \A n : Share(n)' = Share(n)
  BY DEF Share
<1>2. \A n : Pairs(n)' = Pairs(n)
  BY <1>1 DEF Pairs
<1>3. \A k, f : Adding(k, f)' = Adding(k, f)
  BY DEF Adding
<1>4. \A k, f : Added(k, f)' = Added(k, f)
  BY <1>2, <1>3 DEF Added
<1>5. \A k : All(k)' = All(k)
  BY <1>4 DEF All
<1> QED BY <1>4, <1>5 DEF Fits

LEMMA AddedNext ==
  ASSUME search'.of = search.of, search'.query = search.query, counted' = counted,
         NEW g, found' = g, NEW k
  PROVE  Added(k, found)' = Added(k, g)
<1>1. \A n : Share(n)' = Share(n)
  BY DEF Share
<1>2. \A n : Pairs(n)' = Pairs(n)
  BY <1>1 DEF Pairs
<1>3. Adding(k, found)' = Adding(k, g)
  BY DEF Adding
<1> QED BY <1>2, <1>3 DEF Added

(* What is found is neither counted nor added.                             *)
LEMMA StatsElsewhere ==
  ASSUME StatsInv, UNCHANGED <<counted, times>>,
         at' \in {"sort", "merge"} => at \in {"sort", "merge"},
         at' \notin {"stats", "told"},
         at' = "search" => search'.then \notin StatsThens
  PROVE  StatsInv'
BY DEF StatsInv, StatsThens

LEMMA SearchStepStats ==
  ASSUME WalkInv, StatsInv, SearchStep
  PROVE  StatsInv'
<1>1. /\ at = "search" /\ at' = at /\ UNCHANGED <<counted, times, found>>
      /\ search \in SearchRecord /\ SearchInv(search)
  BY DEF SearchStep, input, results, WalkInv, WalkType
<1>2. /\ search'.of = search.of /\ search'.query = search.query /\ search'.then = search.then
  BY <1>1, SearchGoesOn DEF Rest
<1>3. (Fits' <=> Fits) /\ \A k : Added(k, found)' = Added(k, found)
  <2>1. (Fits' <=> Fits) /\ \A k, f : Added(k, f)' = Added(k, f)
    BY <1>1, <1>2, AddedKept
  <2>2. \A k : Added(k, found)' = Added(k, found)
    BY <1>1, <1>2 DEF Added, Adding, Pairs, Share
  <2> QED BY <2>1, <2>2
<1> QED BY <1>1, <1>2, <1>3 DEF StatsInv

LEMMA CollectLastStats ==
  ASSUME WalkInv, StatsInv, CollectLast
  PROVE  StatsInv'
<1>1. WalkType /\ WalkPlace
  BY DEF WalkInv
<1>2. /\ at = "search" /\ search.done /\ search.then = "stats" /\ UNCHANGED <<counted, times>>
  BY DEF CollectLast, Found, input
<1>3. /\ search.of \in Seq(IndexedEvent) /\ search.goal = "first" /\ SearchInv(search)
      /\ search \in SearchRecord
  BY <1>1, <1>2 DEF WalkPlace, WalkType, StatsThens
<1>4. /\ counted \in BOOLEAN /\ times \in [0 .. MaxIndex -> Unsigned]
      /\ \A k \in 0 .. MaxIndex : times[k] = 0
  BY <1>2 DEF StatsInv
<1>5. Monotone(search.of) =>
        IF search.hit = None THEN \A k \in 1 .. Len(search.of) : ~Overlap(search.of[k], search.query)
        ELSE FirstOf(search.of, search.query, search.hit + 1)
  BY <1>2, <1>3, FoundFirst
<1>6. CASE search.hit = None
  <2>1. at' = "told" /\ search' = search
    BY <1>6 DEF CollectLast
  <2>2. ASSUME Monotone(search.of), NEW k PROVE Cardinality(All(k)) = 0
    <3>1. All(k) = {}
      BY <1>5, <1>6, <2>2 DEF All, Added, Adding
    <3> QED BY <3>1, FS_EmptySet
  <2>3. \A k : All(k)' = All(k)
    BY <1>2, <2>1, AddedKept
  <2> QED BY <1>2, <1>3, <1>4, <2>1, <2>2, <2>3 DEF StatsInv
<1>7. CASE search.hit # None
  <2>1. /\ at' = at /\ found' = search.hit + 1
        /\ search' = Search(search.of, search.query, "last", "last stats")
    BY <1>7 DEF CollectLast
  <2>2. Begun(search', search.of, search.query, "last", "last stats")
    <3>1. /\ search.of \in Seq(TimeInterval) \cup Seq(IndexedEvent) /\ "last stats" \in Thens
          /\ search.query \in TimeInterval
      BY <1>3 DEF Thens, SearchRecord
    <3> QED BY <2>1, <3>1, SearchBegins
  <2>3. /\ search'.of = search.of /\ search'.query = search.query /\ search'.then = "last stats"
    BY <2>2 DEF Begun
  <2>4. found' \in Nat \ {0}
    <3> DEFINE h == search.hit
               n == Len(search.of)
    <3>1. found' = h + 1 /\ h \in -1 .. n - 1 /\ h # -1 /\ n \in Nat
      BY <1>3, <1>7, <2>1 DEF SearchInv, SearchType, Spanned, None
    <3> HIDE DEF h, n
    <3> QED BY <3>1
  <2> DEFINE g == search.hit + 1
  <2>5. ASSUME Monotone(search.of), NEW k PROVE Cardinality(Added(k, found)') = 0
    <3>1. FirstOf(search.of, search.query, g) /\ g \in Nat
      BY <1>5, <1>7, <2>1, <2>4, <2>5
    <3> HIDE DEF g
    <3>2. \A n \in 1 .. Len(search.of) : Overlap(search.of[n], search.query) => ~(n < g)
      BY <3>1 DEF FirstOf
    <3>3. Added(k, g) = {}
      BY <3>2 DEF Added, Adding
    <3>4. found' = g
      BY <2>1 DEF g
    <3>5. Added(k, found)' = Added(k, g)
      BY <1>2, <2>3, <3>4, AddedNext
    <3> QED BY <3>3, <3>5, FS_EmptySet
  <2>6. Monotone(search.of) => \E m \in 1 .. found' : FirstOf(search.of, search.query, m)
    <3>1. found' \in 1 .. found'
      BY <2>4
    <3> QED BY <1>5, <1>7, <2>1, <3>1
  <2>7. ~(at' \in {"sort", "merge", "stats"}) /\ at' = "search"
    BY <1>2, <2>1
  <2> QED BY <1>2, <1>4, <2>3, <2>4, <2>5, <2>6, <2>7 DEF StatsInv
<1> QED BY <1>6, <1>7

LEMMA AccumulateStats ==
  ASSUME WalkInv, StatsInv, Accumulate
  PROVE  StatsInv'
<1> DEFINE n == Len(search.of)
           h == search.hit
<1>1. WalkType /\ WalkPlace
  BY DEF WalkInv
<1>2. /\ at = "search" /\ search.done /\ search.then = "last stats"
      /\ UNCHANGED <<counted, search>>
  BY DEF Accumulate, Found, input
<1>3. /\ search.of \in Seq(IndexedEvent) /\ search.goal = "last" /\ SearchInv(search)
      /\ search \in SearchRecord
  BY <1>1, <1>2 DEF WalkPlace, WalkType, StatsThens
<1>4. /\ n \in Nat /\ h \in Int /\ -1 <= h /\ h < n
  BY <1>3 DEF SearchInv, SearchType, Spanned
<1>5. /\ counted \in BOOLEAN /\ times \in [0 .. MaxIndex -> Unsigned] /\ found \in Nat \ {0}
      /\ Monotone(search.of) =>
           /\ \E m \in 1 .. found : FirstOf(search.of, search.query, m)
           /\ Fits => \A k \in 0 .. MaxIndex : times[k] = Cardinality(Added(k, found))
  BY <1>1, <1>2 DEF StatsInv, WalkType
<1>6. /\ \A k, f : Added(k, f)' = Added(k, f)
      /\ \A k : All(k)' = All(k)
      /\ Fits' <=> Fits
  BY <1>2, AddedKept
<1>7. ASSUME Monotone(search.of)
      PROVE  \E m \in 1 .. found : \A k \in 1 .. n :
               Overlap(search.of[k], search.query) <=> m <= k /\ k <= h + 1
  BY <1>2, <1>3, <1>5, <1>7, FoundLast
<1> HIDE DEF n, h
<1>8. CASE found > h + 1
  <2>1. at' = "told" /\ UNCHANGED <<times, found>>
    BY <1>8 DEF Accumulate, h
  <2>2. ASSUME Monotone(search.of), NEW k PROVE Added(k, found) = All(k)
    <3>1. \A x \in 1 .. n : Overlap(search.of[x], search.query) => x < found /\ x < n + 1
      BY <1>4, <1>5, <1>7, <1>8, <2>2
    <3>2. Adding(k, found) = Adding(k, n + 1)
      BY <3>1 DEF Adding, n
    <3> QED BY <3>2 DEF Added, All, n
  <2>3. Monotone(search.of) /\ Fits =>
          \A k \in 0 .. MaxIndex : times[k] = Cardinality(All(k))
    BY <1>5, <2>2
  <2> QED BY <1>2, <1>3, <1>5, <1>6, <2>1, <2>3 DEF StatsInv
<1>9. CASE ~(found > h + 1)
  <2> DEFINE x == search.of[found]
             v == SatU(AddSafeU(times[x.index], Weight(x))).out
  <2>1. /\ at' = at /\ found' = found + 1 /\ times' = [times EXCEPT ![x.index] = v]
    BY <1>9 DEF Accumulate, h
  <2>2. found \in 1 .. n /\ found \in 1 .. n + 1 /\ found + 1 \in 1 .. n + 1 /\ found <= n
    BY <1>4, <1>5, <1>9
  <2>3. /\ Weight(x) \in Unsigned /\ x.index \in 0 .. MaxIndex
        /\ Overlap(x, search.query) =>
             (Cardinality(Share(found)) <= UMax => Weight(x) = Cardinality(Share(found)))
    BY <1>3, <1>5, <2>2, ShareTold DEF n
  <2>4. times[x.index] \in Unsigned
    BY <1>5, <2>3
  <2>5. /\ v \in Unsigned
        /\ times[x.index] + Weight(x) <= UMax => v = times[x.index] + Weight(x)
    BY <2>3, <2>4, SaturatedSum
  <2> HIDE DEF x, v
  <2>6. times' \in [0 .. MaxIndex -> Unsigned]
    BY <1>5, <2>1, <2>3, <2>5
  <2>7. found' \in Nat \ {0}
    BY <1>5, <2>1
  <2>8. ASSUME Monotone(search.of)
        PROVE  /\ \E m \in 1 .. found + 1 : FirstOf(search.of, search.query, m)
               /\ Overlap(x, search.query)
    <3>1. \E m \in 1 .. found + 1 : FirstOf(search.of, search.query, m)
      <4>1. \A m \in 1 .. found : m \in 1 .. found + 1
        BY <1>5
      <4> QED BY <1>5, <2>8, <4>1
    <3>2. Overlap(x, search.query)
      <4>1. PICK m \in 1 .. found : \A k \in 1 .. n :
               Overlap(search.of[k], search.query) <=> m <= k /\ k <= h + 1
        BY <1>7, <2>8
      <4>2. m <= found /\ found <= h + 1
        BY <1>4, <1>5, <1>9
      <4> QED BY <2>2, <4>1, <4>2 DEF x
    <3> QED BY <3>1, <3>2
  <2>9. ASSUME Monotone(search.of), Fits, NEW k \in 0 .. MaxIndex
        PROVE  times'[k] = Cardinality(Added(k, found + 1))
    <3>1. /\ times[k] = Cardinality(Added(k, found)) /\ times[k] \in Nat
          /\ Cardinality(Added(k, found)) \in Nat
      <4>1. times[k] = Cardinality(Added(k, found))
        BY <1>5, <2>9
      <4>2. Cardinality(Added(k, found)) \in Nat
        BY <1>3, <1>5, <2>2, AddedTold DEF n
      <4> QED BY <4>1, <4>2
    <3>2. found \in Adding(k, found + 1) <=> k = x.index
      BY <1>5, <2>2, <2>8, <2>9 DEF Adding, x, n
    <3>3. IF found \in Adding(k, found + 1)
          THEN Cardinality(Added(k, found + 1)) = Cardinality(Added(k, found)) + Cardinality(Share(found))
          ELSE Added(k, found + 1) = Added(k, found)
      BY <1>3, <1>5, <2>2, AddedTold DEF n
    <3>4. Cardinality(Added(k, found + 1)) <= UMax
      <4>1. /\ Cardinality(Added(k, found + 1)) <= Cardinality(All(k))
            /\ Cardinality(Added(k, found + 1)) \in Nat /\ IsFiniteSet(All(k))
        BY <1>3, <1>5, <2>2, AddedTold DEF n
      <4>2. Cardinality(All(k)) <= UMax /\ Cardinality(All(k)) \in Nat
        BY <2>9, <4>1, FS_CardinalityType DEF Fits
      <4> QED BY <4>1, <4>2, UnsignedTold
    <3>5. CASE k = x.index
      <4>1. Cardinality(Share(found)) \in Nat
        <5>1. IsFiniteSet(Share(found))
          BY <1>3, <1>5, <2>2, <2>8, <2>9, ShareTold DEF n, x
        <5> QED BY <5>1, FS_CardinalityType
      <4>2. Cardinality(Added(k, found + 1)) = times[k] + Cardinality(Share(found))
        BY <3>1, <3>2, <3>3, <3>5
      <4>3. Cardinality(Share(found)) <= UMax
        BY <3>1, <3>4, <4>1, <4>2, UnsignedTold
      <4>4. Weight(x) = Cardinality(Share(found))
        BY <2>3, <2>8, <2>9, <4>3
      <4>5. v = Cardinality(Added(k, found + 1))
        BY <2>5, <3>4, <3>5, <4>2, <4>4
      <4> QED BY <1>5, <2>1, <3>5, <4>5
    <3>6. CASE k # x.index
      <4>1. times'[k] = times[k]
        BY <1>5, <2>1, <3>6
      <4> QED BY <3>1, <3>2, <3>3, <3>6, <4>1
    <3> QED BY <3>5, <3>6
  <2>10. ASSUME Monotone(search.of), Fits
         PROVE  \A k \in 0 .. MaxIndex : times'[k] = Cardinality(Added(k, found)')
    <3>1. \A k : Added(k, found)' = Added(k, found + 1)
      BY <1>2, <2>1, AddedNext
    <3> QED BY <2>9, <2>10, <3>1
  <2>11. at' = "search" /\ search'.then = "last stats"
    BY <1>2, <2>1
  <2> QED BY <1>2, <1>5, <1>6, <2>1, <2>6, <2>7, <2>8, <2>10, <2>11 DEF StatsInv
<1> QED BY <1>8, <1>9

LEMMA StatsStep ==
  ASSUME WalkInv, StatsInv, QueryNext
  PROVE  StatsInv'
<1>1. ASSUME StartPass \/ SortElement \/ EndPass \/ StartMerge \/ Merge \/ EndMerge
      PROVE  StatsInv'
  <2>1. /\ UNCHANGED <<counted, times>> /\ at \in {"sort", "merge"}
        /\ at' \in {"sort", "merge", "interval"}
    BY <1>1 DEF StartPass, SortElement, EndPass, StartMerge, Merge, EndMerge, input, results
  <2> QED BY <2>1, StatsElsewhere
<1>2. ASSUME NextInterval \/ FirstElement \/ LastElement \/ NextElement \/ FirstEvent \/ LastEvent
      PROVE  StatsInv'
  <2>1. UNCHANGED <<counted, times>>
    BY <1>2 DEF NextInterval, FirstElement, LastElement, NextElement, FirstEvent, LastEvent,
                input, results
  <2>3. /\ "elements" \notin StatsThens /\ "last element" \notin StatsThens
        /\ "events" \notin StatsThens /\ "last event" \notin StatsThens
    BY DEF StatsThens
  <2>4. /\ at' \in {"interval", "element", "failed", "done"}
           \/ (at' = "search" /\ search'.then \notin StatsThens)
    <3>1. CASE NextInterval
      <4>1. \/ at' = "done"
            \/ at' = "search" /\ search' = Search(Spans, Interval, "first", "elements")
        BY <3>1 DEF NextInterval
      <4>2. at' = "search" => search'.then = "elements"
        BY <4>1 DEF Search
      <4> QED BY <2>3, <4>1, <4>2
    <3>2. CASE FirstElement
      <4>1. \/ at' = "interval"
            \/ at' = "search" /\ search' = Search(Spans, Interval, "last", "last element")
        BY <3>2 DEF FirstElement, Found
      <4>2. at' = "search" => search' = Search(Spans, Interval, "last", "last element")
        BY ONLY <4>1
      <4>3. Search(Spans, Interval, "last", "last element").then = "last element"
        BY ONLY DEF Search
      <4>4. at' = "search" => search'.then = "last element"
        BY ONLY <4>2, <4>3
      <4> QED BY <2>3, <4>1, <4>4
    <3>3. CASE LastElement
      BY <3>3 DEF LastElement
    <3>4. CASE NextElement
      <4>1. \/ at' \in {"interval", "element", "failed"}
            \/ at' = "search" /\ search' = Search(Events, Interval, "first", "events")
        BY <3>4 DEF NextElement, HandOn
      <4>2. at' = "search" => search'.then = "events"
        BY <4>1 DEF Search
      <4> QED BY <2>3, <4>1, <4>2
    <3>5. CASE FirstEvent
      <4>1. \/ at' = "element"
            \/ at' = "search" /\ search' = Search(Events, Interval, "last", "last event")
        BY <3>5 DEF FirstEvent, Found
      <4>2. at' = "search" => search' = Search(Events, Interval, "last", "last event")
        BY ONLY <4>1
      <4>3. Search(Events, Interval, "last", "last event").then = "last event"
        BY ONLY DEF Search
      <4>4. at' = "search" => search'.then = "last event"
        BY ONLY <4>2, <4>3
      <4> QED BY <2>3, <4>1, <4>4
    <3>6. CASE LastEvent
      BY <3>6 DEF LastEvent, HandOn
    <3> QED BY <1>2, <3>1, <3>2, <3>3, <3>4, <3>5, <3>6
  <2> QED BY <2>1, <2>4, StatsElsewhere
<1>3. ASSUME NEW q \in Queries, CollectFirst(q) PROVE StatsInv'
  <2>1. /\ at = "stats" /\ at' = "search" /\ UNCHANGED <<counted, times>>
        /\ search' = Search(mapping[1].events, q, "first", "stats")
    BY <1>3 DEF CollectFirst, input, results
  <2>2. search'.then = "stats"
    BY <2>1 DEF Search
  <2> QED BY <2>1, <2>2 DEF StatsInv
<1> QED BY <1>1, <1>2, <1>3, SearchStepStats, CollectLastStats, AccumulateStats DEF QueryNext

LEMMA StatsAtFirst ==
  ASSUME QueryInit
  PROVE  StatsInv
<1>1. /\ counted \in BOOLEAN /\ times = [k \in 0 .. MaxIndex |-> 0]
      /\ at \in {"sort", "done", "interval", "stats"}
  BY DEF QueryInit
<1>2. 0 \in Unsigned
  BY UnsignedTold DEF Unsigned
<1> QED BY <1>1, <1>2 DEF StatsInv

LEMMA StatsTold ==
  ASSUME StatsInv
  PROVE  StatsRight
<1> SUFFICES ASSUME at = "told", Monotone(search.of), \A k \in 0 .. MaxIndex : Total(k) <= UMax
             PROVE  /\ \A k \in 0 .. MaxIndex : times[k] = Total(k)
                    /\ IF MostIndex = None THEN \A k \in 0 .. MaxIndex : Total(k) = 0
                       ELSE /\ \A k \in 0 .. MaxIndex : Total(k) <= Total(MostIndex)
                            /\ \A k \in 0 .. MostIndex - 1 : Total(k) < Total(MostIndex)
  BY DEF StatsRight
<1>1. /\ search.of \in Seq(IndexedEvent) /\ times \in [0 .. MaxIndex -> Unsigned]
      /\ Fits => \A k \in 0 .. MaxIndex : times[k] = Cardinality(All(k))
  BY DEF StatsInv
<1>2. Len(search.of) \in Nat /\ DOMAIN search.of = 1 .. Len(search.of)
  BY <1>1, LenProperties
<1>3. ASSUME NEW k PROVE Total(k) = Cardinality(All(k))
  <2> DEFINE S(n) == IF counted THEN {0}
                     ELSE {t \in Unsigned : t >= search.query.start /\ t <= search.query.end
                                              /\ t >= search.of[n].start /\ t <= search.of[n].end}
             P(n) == {<<n, t>> : t \in S(n)}
             A == {n \in DOMAIN search.of :
                     search.of[n].index = k /\ Overlap(search.of[n], search.query)}
  <2>1. Total(k) = Cardinality(UNION {P(n) : n \in A})
    BY DEF Total
  <2>2. A = Adding(k, Len(search.of) + 1)
    BY <1>2 DEF Adding
  <2>3. \A n : P(n) = Pairs(n)
    BY DEF Pairs, Share
  <2> HIDE DEF A, P
  <2>4. UNION {P(n) : n \in A} = All(k)
    BY <2>2, <2>3 DEF All, Added
  <2> QED BY <2>1, <2>4
<1>4. \A k \in 0 .. MaxIndex : times[k] = Total(k)
  BY <1>1, <1>3 DEF Fits
<1> DEFINE Best(k) == times[k] > 0 /\ \A m \in 0 .. MaxIndex :
                        times[m] < times[k] \/ (times[m] = times[k] /\ k <= m)
<1>5. MaxIndex \in Nat /\ \A k \in 0 .. MaxIndex : times[k] \in Nat
  <2>1. MaxIndex \in Nat /\ UMax \in Nat
    BY QueryAssumption, UnsignedTold
  <2> QED BY <1>1, <2>1 DEF Unsigned
<1>6. MostIndex = IF \E k \in 0 .. MaxIndex : Best(k) THEN CHOOSE k \in 0 .. MaxIndex : Best(k)
                  ELSE None
  BY DEF MostIndex
<1>7. CASE \E k \in 0 .. MaxIndex : Best(k)
  <2>1. MostIndex \in 0 .. MaxIndex /\ Best(MostIndex)
    BY <1>6, <1>7
  <2>2. MostIndex # None
    BY <1>5, <2>1 DEF None
  <2> DEFINE b == MostIndex
  <2> HIDE DEF b
  <2>3. \A m \in 0 .. MaxIndex : times[m] < times[b] \/ (times[m] = times[b] /\ b <= m)
    BY <2>1 DEF b
  <2>4. b \in 0 .. MaxIndex
    BY <2>1 DEF b
  <2>5. \A k \in 0 .. MaxIndex : times[k] <= times[b]
    BY <1>5, <2>3, <2>4
  <2>6. \A k \in 0 .. b - 1 : k \in 0 .. MaxIndex /\ times[k] < times[b]
    BY <1>5, <2>3, <2>4
  <2> QED BY <1>4, <2>2, <2>4, <2>5, <2>6 DEF b
<1>8. CASE ~\E k \in 0 .. MaxIndex : Best(k)
  <2>1. MostIndex = None
    BY <1>6, <1>8
  <2>2. ASSUME NEW k \in 0 .. MaxIndex, times[k] # 0 PROVE FALSE
    <3> DEFINE V == {times[m] : m \in 0 .. MaxIndex}
    <3>1. V \in SUBSET Nat /\ V # {} /\ V \subseteq Unsigned
      BY <1>1, <1>5
    <3>2. UMax \in Nat /\ \A x \in V : x <= UMax
      BY <3>1, UnsignedTold DEF Unsigned
    <3>3. PICK most \in V : \A x \in V : x <= most
      BY <3>1, <3>2, GreatestNumber
    <3>4. \A m \in 0 .. MaxIndex : times[m] <= most
      BY <3>3
    <3>5. most \in Nat
      BY <3>1
    <3> DEFINE T == {m \in 0 .. MaxIndex : times[m] = most}
    <3>6. T \in SUBSET Nat /\ T # {}
      BY <1>5, <3>3
    <3>7. PICK b \in T : \A m \in T : b <= m
      BY <3>6, LeastNumber
    <3>8. b \in 0 .. MaxIndex /\ times[b] = most
      BY <3>7
    <3>9. most > 0
      BY <1>5, <2>2, <3>4, <3>5
    <3>10. \A m \in 0 .. MaxIndex : times[m] < times[b] \/ (times[m] = times[b] /\ b <= m)
      BY <1>5, <3>4, <3>5, <3>7, <3>8
    <3>11. Best(b)
      BY <3>8, <3>9, <3>10
    <3> HIDE DEF Best
    <3> QED BY <1>8, <3>8, <3>11
  <2> QED BY <1>4, <2>1, <2>2
<1> QED BY <1>4, <1>7, <1>8

-----------------------------------------------------------------------------
(* What overlaps is found, once per reason, and nothing else, whatever     *)
(* intervals and events there are and however many: intervals are sorted   *)
(* and merged (am_qsort_intervals_start, am_intervals_merge_overlapping),  *)
(* searches find what they are to find                                     *)
(* (am_interval_array_bsearch_first_strided_overlapping, _last_), events   *)
(* are handed on (event_mapping_common.h) and statistics collected from    *)
(* them (am_interval_stats_by_index_collect).                              *)
QueryInv == SortedInv /\ WalkInv /\ StatsInv

LEMMA QueryInvRight ==
  ASSUME QueryInv
  PROVE  QueriesRight
<1>1. SortedRight /\ MergedRight
  BY DEF QueryInv, SortedInv
<1>2. SearchFinds
  BY DEF QueryInv, WalkInv, WalkType, SearchInv, SearchFinds
<1>3. Extracted /\ StatsRight
  BY WalkExtracts, StatsTold DEF QueryInv
<1> QED BY <1>1, <1>2, <1>3 DEF QueriesRight

THEOREM QueriesCorrect == QuerySpec => []QueriesRight
<1>1. QueryInit => QueryInv
  BY SortedAtFirst, WalksAtFirst, StatsAtFirst DEF QueryInv
<1>2. QueryInv /\ [QueryNext]_queryVars => QueryInv'
  <2> SUFFICES ASSUME QueryInv, [QueryNext]_queryVars PROVE QueryInv'
    OBVIOUS
  <2>1. CASE QueryNext
    BY <2>1, SortedStep, WalkStep, StatsStep DEF QueryInv
  <2>2. CASE UNCHANGED queryVars
    <3>1. UNCHANGED <<at, given, filtered, counted, sorted, ranges, pass, into, from, mapping,
                      nth, element, upto, search, found, out, times>>
      BY <2>2 DEF queryVars, input, sorting, walk, results
    <3>2. SortedInv'
      <4>1. SortedInv
        BY DEF QueryInv
      <4>2. SortTypeOK'
        BY ONLY <3>1, <4>1 DEF SortedInv, SortTypeOK
      <4>3. SortInv'
        <5>1. (Permuted' <=> Permuted) /\ (SegmentsApart' <=> SegmentsApart) /\ Parts' = Parts
          BY ONLY <3>1 DEF Permuted, SegmentsApart, Parts
        <5> QED BY ONLY <3>1, <4>1, <5>1 DEF SortedInv, SortInv
      <4>4. MergeInv'
        <5>1. \A t : KeptAt(t)' <=> KeptAt(t)
          BY ONLY <3>1 DEF KeptAt
        <5> QED BY ONLY <3>1, <4>1, <5>1 DEF SortedInv, MergeInv
      <4>5. SortedRight'
        <5> DEFINE Alike(s, g) ==
                     /\ \A k \in 2 .. Len(s) : s[k - 1].start <= s[k].start
                     /\ \A x \in {g[k] : k \in DOMAIN g} :
                          Cardinality({k \in DOMAIN s : s[k] = x})
                            = Cardinality({k \in DOMAIN g : g[k] = x})
        <5>1. at = "merge" /\ from = 2 => Alike(sorted, given)
          BY ONLY <4>1 DEF SortedInv, SortedRight
        <5>2. (at' = "merge" /\ from' = 2 => Alike(sorted', given')) => SortedRight'
          BY ONLY DEF SortedRight
        <5> HIDE DEF Alike
        <5> QED BY ONLY <3>1, <5>1, <5>2
      <4>6. MergedRight'
        BY ONLY <3>1, <4>1 DEF SortedInv, MergedRight
      <4> QED BY <4>2, <4>3, <4>4, <4>5, <4>6 DEF SortedInv
    <3>3. WalkInv'
      <4>1. Spans' = Spans /\ Searchable' = Searchable /\ Interval' = Interval /\ Events' = Events
            /\ VisitCount' = VisitCount /\ Inside' = Inside /\ Visiting' = Visiting
        BY <3>1 DEF Spans, Searchable, Interval, Events, VisitCount, Inside, Visiting
      <4>2. WalkType' /\ WalkPlace'
        <5>1. WalkType /\ WalkPlace
          BY DEF QueryInv, WalkInv
        <5>2. WalkType'
          BY ONLY <3>1, <5>1 DEF WalkType
        <5>3. WalkPlace'
          BY ONLY <3>1, <4>1, <5>1 DEF WalkPlace
        <5> QED BY <5>2, <5>3
      <4>3. Progress'
        <5>1. CASE at = "failed"
          BY <3>1, <5>1 DEF Progress
        <5>2. CASE at # "failed"
          BY <3>1, <4>1, <5>2, ProgressKept DEF QueryInv, WalkInv, DueAt
        <5> QED BY <5>1, <5>2
      <4> QED BY <4>2, <4>3 DEF WalkInv
    <3>4. StatsInv'
      <4>1. /\ (Fits' <=> Fits) /\ \A k : All(k)' = All(k)
            /\ \A k : Added(k, found)' = Added(k, found)
        BY <3>1, AddedKept, AddedNext
      <4> QED BY <3>1, <4>1 DEF QueryInv, StatsInv
    <3> QED BY <3>2, <3>3, <3>4 DEF QueryInv
  <2> QED BY <2>1, <2>2
<1>3. QueryInv => QueriesRight
  BY QueryInvRight
<1> QED BY <1>1, <1>2, <1>3, PTL DEF QuerySpec

=============================================================================
