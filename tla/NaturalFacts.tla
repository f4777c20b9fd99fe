---------------------------- MODULE NaturalFacts ----------------------------
(***************************************************************************)
(* Induction over the natural numbers, in a form that needs no operator as *)
(* a parameter: a set of numbers stands for the property.  It is derived   *)
(* from the fact that the finite sets are well-founded.  With it follows   *)
(* what the elements are that remain of a sequence.                        *)
(***************************************************************************)
EXTENDS Integers, Sequences, Functions, Subsequences, FiniteSetTheorems,
        SequenceTheorems, TLAPS

(* Every nonempty set of natural numbers has a least element.              *)
LEMMA LeastNumber ==
  ASSUME NEW T \in SUBSET Nat, T # {}
  PROVE  \E m \in T : \A k \in T : m <= k
<1> DEFINE F == FiniteSubsetsOf(Nat)
           R == StrictSubsetOrdering(Nat)
           U == {0 .. k : k \in T}
<1>1. U \subseteq F /\ U # {}
  <2>1. \A k \in T : IsFiniteSet(0 .. k) /\ 0 .. k \subseteq Nat
    BY FS_Interval
  <2> QED BY <2>1 DEF FiniteSubsetsOf
<1>2. PICK V \in U : \A W \in U : <<W, V>> \notin R
  <2>1. IsWellFoundedOn(R, F)
    BY FS_StrictSubsetOrderingWellFounded
  <2> HIDE DEF R, F, U
  <2> QED BY <1>1, <2>1, WFMin
<1>3. PICK m \in T : V = 0 .. m
  BY <1>2
<1>4. ASSUME NEW k \in T, k < m PROVE FALSE
  <2>1. 0 .. k \subseteq 0 .. m /\ m \notin 0 .. k /\ m \in 0 .. m
    BY <1>4
  <2>2. 0 .. k \in U
    OBVIOUS
  <2>3. <<0 .. k, 0 .. m>> \in R
    BY <1>1, <1>3, <2>1, <2>2 DEF StrictSubsetOrdering, FiniteSubsetsOf
  <2> QED BY <1>2, <1>3, <2>2, <2>3
<1>5. \A k \in T : m <= k
  BY <1>4
<1> QED BY <1>5

(* A set of natural numbers that has a bound has a greatest element.       *)
LEMMA GreatestNumber ==
  ASSUME NEW T \in SUBSET Nat, T # {}, NEW most \in Nat, \A k \in T : k <= most
  PROVE  \E m \in T : \A k \in T : k <= m
<1> DEFINE U == {most - k : k \in T}
<1>1. U \in SUBSET Nat
  BY DEF U
<1>2. U # {}
  OBVIOUS
<1>3. PICK d \in U : \A k \in U : d <= k
  <2> HIDE DEF U
  <2> QED BY <1>1, <1>2, LeastNumber
<1>4. PICK m \in T : d = most - m
  BY <1>3
<1>5. ASSUME NEW k \in T PROVE k <= m
  <2>1. most - k \in U
    OBVIOUS
  <2>2. most - m <= most - k
    BY <1>3, <1>4, <2>1
  <2>3. k \in Nat /\ m \in Nat
    OBVIOUS
  <2> QED BY <2>2, <2>3
<1> QED BY <1>5

(* What holds for 0, and for n + 1 whenever it holds for n, always holds.  *)
LEMMA NumberInduction ==
  ASSUME NEW T, 0 \in T, \A n \in Nat : n \in T => n + 1 \in T
  PROVE  \A n \in Nat : n \in T
<1> DEFINE S == {n \in Nat : n \notin T}
<1> SUFFICES ASSUME S # {} PROVE FALSE
  OBVIOUS
<1>1. PICK m \in S : \A k \in S : m <= k
  <2> HIDE DEF S
  <2>1. S \subseteq Nat
    BY DEF S
  <2> QED BY <2>1, LeastNumber
<1>2. m # 0 /\ m \in Nat
  OBVIOUS
<1>3. m - 1 \in Nat /\ ~(m <= m - 1) /\ (m - 1) + 1 = m
  BY <1>2
<1>4. m - 1 \in T
  BY <1>1, <1>3
<1> QED BY <1>1, <1>3, <1>4

-----------------------------------------------------------------------------
(* The recursive definition of RemainingIn has a solution.                 *)
RemainingStep(s, gone, g, k) ==
  IF k = 0 THEN <<>>
  ELSE IF s[k] \in gone THEN g[k - 1]
  ELSE Append(g[k - 1], s[k])

LEMMA RemainingDef ==
  ASSUME NEW s, NEW gone, Len(s) \in Nat
  PROVE  RemainingIn(s, gone) =
           [k \in 0 .. Len(s) |-> RemainingStep(s, gone, RemainingIn(s, gone), k)]
<1> DEFINE Solves(g, n) == g = [k \in 0 .. n |-> RemainingStep(s, gone, g, k)]
           T == {n \in Nat : \E g : Solves(g, n)}
<1>1. 0 \in T
  <2>1. Solves([k \in 0 .. 0 |-> <<>>], 0)
    BY DEF RemainingStep
  <2> QED BY <2>1
<1>2. ASSUME NEW n \in Nat, n \in T PROVE n + 1 \in T
  <2>1. PICK g : Solves(g, n)
    BY <1>2
  <2> DEFINE h == [k \in 0 .. n + 1 |-> IF k = n + 1 THEN RemainingStep(s, gone, g, n + 1)
                                        ELSE g[k]]
  <2>2. \A k \in 0 .. n : h[k] = g[k] /\ k # n + 1
    OBVIOUS
  <2>3. \A k \in 0 .. n + 1 : h[k] = RemainingStep(s, gone, h, k)
    <3> SUFFICES ASSUME NEW k \in 0 .. n + 1 PROVE h[k] = RemainingStep(s, gone, h, k)
      OBVIOUS
    <3>1. k # 0 => k - 1 \in 0 .. n
      OBVIOUS
    <3>2. k # 0 => h[k - 1] = g[k - 1]
      BY <3>1, <2>2
    <3>3. RemainingStep(s, gone, h, k) = RemainingStep(s, gone, g, k)
      BY <3>2 DEF RemainingStep
    <3>4. CASE k = n + 1
      BY <3>3, <3>4
    <3>5. CASE k # n + 1
      <4>1. k \in 0 .. n
        BY <3>5
      <4>2. g[k] = RemainingStep(s, gone, g, k)
        BY <2>1, <4>1
      <4> QED BY <3>3, <4>1, <4>2, <2>2
    <3> QED BY <3>4, <3>5
  <2>4. Solves(h, n + 1)
    <3>1. h = [k \in 0 .. n + 1 |-> h[k]]
      OBVIOUS
    <3> HIDE DEF h
    <3> QED BY <2>3, <3>1
  <2>5. \E f : Solves(f, n + 1)
    <3> HIDE DEF h, Solves
    <3> QED BY <2>4
  <2> HIDE DEF Solves
  <2> QED BY <2>5
<1>3. Len(s) \in T
  <2> HIDE DEF T
  <2> QED BY <1>1, <1>2, NumberInduction
<1>4. PICK g : Solves(g, Len(s))
  BY <1>3
<1>5. RemainingIn(s, gone) = CHOOSE f : Solves(f, Len(s))
  BY DEF RemainingIn, RemainingStep
<1>6. Solves(CHOOSE f : Solves(f, Len(s)), Len(s))
  <2> HIDE DEF Solves
  <2> QED BY <1>4
<1> QED BY <1>5, <1>6

(* Of a sequence remain the elements that are not gone, and all of it if   *)
(* none is.  None is there twice that was there once.                      *)
LEMMA RemainingProperties ==
  ASSUME NEW S, NEW s \in Seq(S), NEW gone
  PROVE  /\ Remaining(s, gone) \in Seq(S)
         /\ Range(Remaining(s, gone)) = Range(s) \ gone
         /\ Len(Remaining(s, gone)) <= Len(s)
         /\ Range(s) \cap gone = {} => Remaining(s, gone) = s
         /\ IsInjective(s) => IsInjective(Remaining(s, gone))
<1> DEFINE R == RemainingIn(s, gone)
           n == Len(s)
           Front(k) == {s[j] : j \in 1 .. k}
           Good(k) == /\ R[k] \in Seq(S)
                      /\ Range(R[k]) = Front(k) \ gone
                      /\ Len(R[k]) <= k
                      /\ Range(s) \cap gone = {} =>
                           Len(R[k]) = k /\ \A j \in 1 .. k : R[k][j] = s[j]
                      /\ IsInjective(s) => IsInjective(R[k])
           T == {k \in Nat : k <= n => Good(k)}
<1>1. n \in Nat /\ s \in [1 .. n -> S]
  BY LenProperties
<1>2. R = [k \in 0 .. n |-> RemainingStep(s, gone, R, k)]
  BY <1>1, RemainingDef
<1> HIDE DEF R
<1>3. R[0] = <<>>
  BY <1>1, <1>2 DEF RemainingStep
<1>4. \A k \in 1 .. n : R[k] = IF s[k] \in gone THEN R[k - 1] ELSE Append(R[k - 1], s[k])
  <2> SUFFICES ASSUME NEW k \in 1 .. n
               PROVE  R[k] = IF s[k] \in gone THEN R[k - 1] ELSE Append(R[k - 1], s[k])
    OBVIOUS
  <2>1. k \in 0 .. n /\ k # 0
    BY <1>1
  <2>2. R[k] = RemainingStep(s, gone, R, k)
    BY <1>2, <2>1
  <2> QED BY <2>1, <2>2 DEF RemainingStep
<1>5. 0 \in T
  <2>1. Good(0)
    BY <1>3 DEF Range, IsInjective
  <2> QED BY <2>1
<1>6. ASSUME NEW k \in Nat, k \in T PROVE k + 1 \in T
  <2> SUFFICES ASSUME k + 1 <= n PROVE Good(k + 1)
    <3> HIDE DEF Good
    <3> QED OBVIOUS
  <2>1. Good(k)
    BY <1>1, <1>6
  <2>2. k + 1 \in 1 .. n /\ (k + 1) - 1 = k /\ s[k + 1] \in S /\ s[k + 1] \in Range(s)
    BY <1>1 DEF Range
  <2>3. R[k + 1] = IF s[k + 1] \in gone THEN R[k] ELSE Append(R[k], s[k + 1])
    BY <1>4, <2>2
  <2>4. Front(k + 1) = Front(k) \cup {s[k + 1]}
    <3>1. 1 .. k + 1 = (1 .. k) \cup {k + 1}
      OBVIOUS
    <3> QED BY <3>1
  <2>5. CASE s[k + 1] \in gone
    <3>1. R[k + 1] = R[k]
      BY <2>3, <2>5
    <3> HIDE DEF Front
    <3>2. Len(R[k]) \in Nat
      BY <2>1, LenProperties
    <3> QED BY <1>1, <2>1, <2>2, <2>4, <2>5, <3>1, <3>2
  <2>6. CASE s[k + 1] \notin gone
    <3>1. R[k + 1] = Append(R[k], s[k + 1])
      BY <2>3, <2>6
    <3> HIDE DEF Front
    <3> DEFINE u == R[k]
               a == R[k + 1]
               x == s[k + 1]
    <3>2. u \in Seq(S) /\ Len(u) \in Nat /\ DOMAIN u = 1 .. Len(u)
      BY <2>1, LenProperties
    <3>3. /\ a \in Seq(S)
          /\ Len(a) = Len(u) + 1
          /\ \A i \in 1 .. Len(u) : a[i] = u[i]
          /\ a[Len(u) + 1] = x
      BY <2>2, <3>1, <3>2, AppendProperties
    <3>4. DOMAIN a = (1 .. Len(u)) \cup {Len(u) + 1}
      BY <3>2, <3>3, LenProperties, SMTT(30)
    <3>5. Range(a) = Range(u) \cup {x}
      <4> HIDE DEF a, u, x
      <4> QED BY <3>2, <3>3, <3>4 DEF Range
    <3>6. Range(a) = Front(k + 1) \ gone
      BY <2>1, <2>4, <2>6, <3>5
    <3>7. Len(a) <= k + 1
      BY <2>1, <3>2, <3>3
    <3>8. Range(s) \cap gone = {} => Len(a) = k + 1 /\ \A j \in 1 .. k + 1 : a[j] = s[j]
      <4> SUFFICES ASSUME Range(s) \cap gone = {}
                   PROVE  Len(a) = k + 1 /\ \A j \in 1 .. k + 1 : a[j] = s[j]
        OBVIOUS
      <4>1. Len(u) = k /\ \A j \in 1 .. k : u[j] = s[j]
        BY <2>1
      <4> HIDE DEF a, u
      <4> QED BY <3>3, <4>1
    <3>9. ASSUME IsInjective(s) PROVE IsInjective(a)
      <4>1. IsInjective(u)
        BY <2>1, <3>9
      <4>2. x \notin Range(u)
        <5>1. ASSUME NEW j \in 1 .. k PROVE s[j] # s[k + 1]
          BY <1>1, <2>2, <3>9 DEF IsInjective
        <5> QED BY <2>1, <5>1 DEF Front
      <4> HIDE DEF a, u, x
      <4>3. \A i \in DOMAIN u : a[i] # x
        BY <3>2, <3>3, <4>2 DEF Range
      <4> QED BY <3>2, <3>3, <3>4, <4>1, <4>3 DEF IsInjective
    <3> QED BY <3>3, <3>6, <3>7, <3>8, <3>9
  <2> HIDE DEF Good
  <2> QED BY <2>5, <2>6
<1>7. Good(n)
  <2>1. \A k \in Nat : k \in T
    <3> HIDE DEF T
    <3> QED BY <1>5, <1>6, NumberInduction
  <2>2. n \in T
    BY <1>1, <2>1
  <2> HIDE DEF Good
  <2> QED BY <1>1, <2>2
<1>8. Front(n) = Range(s)
  BY <1>1 DEF Range
<1>9. ASSUME Range(s) \cap gone = {} PROVE R[n] = s
  <2>1. R[n] \in Seq(S) /\ Len(R[n]) = n /\ \A j \in 1 .. n : R[n][j] = s[j]
    BY <1>7, <1>9
  <2> QED BY <1>1, <2>1, LenProperties
<1>10. Remaining(s, gone) = R[n]
  BY DEF Remaining, R
<1> HIDE DEF Front
<1> QED BY <1>7, <1>8, <1>9, <1>10
=============================================================================
