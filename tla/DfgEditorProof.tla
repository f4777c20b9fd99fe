--------------------------- MODULE DfgEditorProof ---------------------------
(***************************************************************************)
(* The search of the cycle check is right for all graphs: its verdict, the *)
(* connections that it collects, and what it relies on when it meets a     *)
(* node again.  What the graph editor remembers between two events exists, *)
(* and a release does what the editor has shown, for all graphs and all    *)
(* sequences of events of the mouse and the keys.  HasCycle, by which the  *)
(* editor decides, is what the search decides.                             *)
(***************************************************************************)
EXTENDS DfgEditor, DfgCycle, NaturalFacts

-----------------------------------------------------------------------------
(* Sequences                                                               *)

LEMMA ConcatRange ==
  ASSUME NEW S, NEW s \in Seq(S), NEW t \in Seq(S)
  PROVE  /\ s \o t \in Seq(S)
         /\ Range(s \o t) = Range(s) \cup Range(t)
<1> DEFINE u == s \o t
<1>1. /\ Len(s) \in Nat /\ DOMAIN s = 1 .. Len(s)
      /\ Len(t) \in Nat /\ DOMAIN t = 1 .. Len(t)
  BY LenProperties
<1>2. /\ u \in Seq(S)
      /\ Len(u) = Len(s) + Len(t)
      /\ \A i \in 1 .. Len(s) + Len(t) : u[i] = IF i <= Len(s) THEN s[i] ELSE t[i - Len(s)]
  BY ConcatProperties
<1>3. DOMAIN u = 1 .. Len(s) + Len(t)
  <2> HIDE DEF u
  <2> QED BY <1>2, LenProperties
<1> HIDE DEF u
<1>4. ASSUME NEW x \in Range(u) PROVE x \in Range(s) \cup Range(t)
  <2>1. PICK i \in 1 .. Len(s) + Len(t) : u[i] = x
    BY <1>3 DEF Range
  <2>2. CASE i <= Len(s)
    <3>1. i \in DOMAIN s /\ s[i] = x
      BY <1>1, <1>2, <2>1, <2>2
    <3> QED BY <3>1 DEF Range
  <2>3. CASE ~(i <= Len(s))
    <3>1. i - Len(s) \in DOMAIN t /\ t[i - Len(s)] = x
      BY <1>1, <1>2, <2>1, <2>3
    <3> QED BY <3>1 DEF Range
  <2> QED BY <2>2, <2>3
<1>5. ASSUME NEW x \in Range(s) PROVE x \in Range(u)
  <2>1. PICK i \in 1 .. Len(s) : s[i] = x
    BY <1>1 DEF Range
  <2>2. i \in DOMAIN u /\ u[i] = x
    BY <1>1, <1>2, <1>3, <2>1
  <2> QED BY <2>2 DEF Range
<1>6. ASSUME NEW x \in Range(t) PROVE x \in Range(u)
  <2>1. PICK i \in 1 .. Len(t) : t[i] = x
    BY <1>1 DEF Range
  <2>2. i + Len(s) \in 1 .. Len(s) + Len(t) /\ ~(i + Len(s) <= Len(s)) /\ (i + Len(s)) - Len(s) = i
    BY <1>1
  <2>3. i + Len(s) \in DOMAIN u /\ u[i + Len(s)] = x
    BY <1>2, <1>3, <2>1, <2>2
  <2> QED BY <2>3 DEF Range
<1>7. u \in Seq(S) /\ Range(u) = Range(s) \cup Range(t)
  BY <1>2, <1>4, <1>5, <1>6
<1> QED BY <1>7 DEF u

(* The recursive definition within FlattenSeq has a solution.              *)
FlattenStep(s, f, i) == IF i = 1 THEN s[i] ELSE f[i - 1] \o s[i]

LEMMA FlattenDef ==
  ASSUME NEW s, Len(s) \in Nat, Len(s) # 0
  PROVE  \E f : /\ f = [i \in 1 .. Len(s) |-> FlattenStep(s, f, i)]
                /\ FlattenSeq(s) = f[Len(s)]
<1> DEFINE Solves(f, n) == f = [i \in 1 .. n |-> FlattenStep(s, f, i)]
           T == {n \in Nat : \E f : Solves(f, n)}
<1>1. 0 \in T
  <2>1. Solves([i \in 1 .. 0 |-> s[i]], 0)
    OBVIOUS
  <2> QED BY <2>1
<1>2. ASSUME NEW n \in Nat, n \in T PROVE n + 1 \in T
  <2>1. PICK g : Solves(g, n)
    BY <1>2
  <2> DEFINE h == [i \in 1 .. n + 1 |-> IF i = n + 1 THEN FlattenStep(s, g, n + 1) ELSE g[i]]
  <2>2. \A i \in 1 .. n : h[i] = g[i] /\ i # n + 1
    OBVIOUS
  <2>3. \A i \in 1 .. n + 1 : h[i] = FlattenStep(s, h, i)
    <3> SUFFICES ASSUME NEW i \in 1 .. n + 1 PROVE h[i] = FlattenStep(s, h, i)
      OBVIOUS
    <3>1. i # 1 => i - 1 \in 1 .. n
      OBVIOUS
    <3>2. i # 1 => h[i - 1] = g[i - 1]
      BY <2>2, <3>1
    <3>3. FlattenStep(s, h, i) = FlattenStep(s, g, i)
      BY <3>2 DEF FlattenStep
    <3>4. CASE i = n + 1
      BY <3>3, <3>4
    <3>5. CASE i # n + 1
      <4>1. i \in 1 .. n
        BY <3>5
      <4>2. g[i] = FlattenStep(s, g, i)
        BY <2>1, <4>1
      <4> QED BY <2>2, <3>3, <4>1, <4>2
    <3> QED BY <3>4, <3>5
  <2>4. Solves(h, n + 1)
    <3>1. h = [i \in 1 .. n + 1 |-> h[i]]
      OBVIOUS
    <3> HIDE DEF h
    <3> QED BY <2>3, <3>1
  <2>5. \E f : Solves(f, n + 1)
    <3> HIDE DEF h, Solves
    <3> QED BY <2>4
  <2> HIDE DEF Solves
  <2> QED BY <2>5
<1>3. Len(s) \in T
  <2> HIDE DEF T
  <2> QED BY <1>1, <1>2, NumberInduction
<1>4. PICK g : Solves(g, Len(s))
  BY <1>3
<1> DEFINE f == CHOOSE h : Solves(h, Len(s))
<1>5. FlattenSeq(s) = f[Len(s)]
  BY DEF FlattenSeq, FlattenStep
<1>6. Solves(f, Len(s))
  <2> HIDE DEF Solves
  <2> QED BY <1>4
<1> HIDE DEF f
<1> QED BY <1>5, <1>6

(* The elements of the concatenation are those of the parts.               *)
LEMMA FlattenRange ==
  ASSUME NEW S, NEW s \in Seq(Seq(S))
  PROVE  /\ FlattenSeq(s) \in Seq(S)
         /\ Range(FlattenSeq(s)) = UNION {Range(s[i]) : i \in DOMAIN s}
<1>1. Len(s) \in Nat /\ DOMAIN s = 1 .. Len(s) /\ \A i \in 1 .. Len(s) : s[i] \in Seq(S)
  BY LenProperties, ElementOfSeq
<1>2. CASE Len(s) = 0
  <2>1. s = <<>>
    BY <1>2, EmptySeq
  <2>2. FlattenSeq(s) = <<>>
    BY <1>2, <2>1 DEF FlattenSeq
  <2>3. DOMAIN s = {} /\ Range(<<>>) = {}
    BY <1>1, <1>2 DEF Range
  <2> QED BY <2>2, <2>3
<1>3. CASE Len(s) # 0
  <2>1. PICK f : /\ f = [i \in 1 .. Len(s) |-> FlattenStep(s, f, i)]
                 /\ FlattenSeq(s) = f[Len(s)]
    BY <1>1, <1>3, FlattenDef
  <2> DEFINE Parts(k) == UNION {Range(s[i]) : i \in 1 .. k}
             Good(k) == f[k] \in Seq(S) /\ Range(f[k]) = Parts(k)
             T == {k \in Nat : k + 1 <= Len(s) => Good(k + 1)}
  <2>2. \A i \in 1 .. Len(s) : f[i] = IF i = 1 THEN s[1] ELSE f[i - 1] \o s[i]
    <3> SUFFICES ASSUME NEW i \in 1 .. Len(s)
                 PROVE  f[i] = IF i = 1 THEN s[1] ELSE f[i - 1] \o s[i]
      OBVIOUS
    <3>1. f[i] = FlattenStep(s, f, i)
      BY <2>1
    <3> QED BY <3>1 DEF FlattenStep
  <2>3. 0 \in T
    <3>1. 1 \in 1 .. Len(s)
      BY <1>1, <1>3
    <3>2. f[1] = s[1] /\ s[1] \in Seq(S)
      BY <1>1, <2>2, <3>1
    <3>3. Parts(1) = Range(s[1])
      <4>1. 1 .. 1 = {1}
        OBVIOUS
      <4> QED BY <4>1
    <3>4. Good(0 + 1)
      BY <3>2, <3>3
    <3> QED BY <3>4
  <2>4. ASSUME NEW k \in Nat, k \in T PROVE k + 1 \in T
    <3> SUFFICES ASSUME (k + 1) + 1 <= Len(s) PROVE Good((k + 1) + 1)
      <4> HIDE DEF Good
      <4> QED OBVIOUS
    <3> DEFINE j == k + 1
    <3>1. /\ j \in 1 .. Len(s) /\ j + 1 \in 1 .. Len(s)
          /\ j + 1 # 1 /\ (j + 1) - 1 = j /\ j <= Len(s) /\ j \in Nat /\ j >= 1
      BY <1>1
    <3>2. Good(j)
      <4> HIDE DEF Good
      <4> QED BY <2>4, <3>1
    <3> HIDE DEF j
    <3>3. f[j + 1] = f[j] \o s[j + 1] /\ s[j + 1] \in Seq(S)
      BY <1>1, <2>2, <3>1
    <3>4. f[j + 1] \in Seq(S) /\ Range(f[j + 1]) = Range(f[j]) \cup Range(s[j + 1])
      BY <3>2, <3>3, ConcatRange
    <3>5. Parts(j + 1) = Parts(j) \cup Range(s[j + 1])
      <4>1. 1 .. j + 1 = (1 .. j) \cup {j + 1}
        BY <3>1
      <4> QED BY <4>1
    <3>6. Good(j + 1)
      <4> HIDE DEF Parts
      <4> QED BY <3>2, <3>4, <3>5
    <3> HIDE DEF Good
    <3> QED BY <3>6 DEF j
  <2>5. \A k \in Nat : k \in T
    <3> HIDE DEF T
    <3> QED BY <2>3, <2>4, NumberInduction
  <2>6. Good(Len(s))
    <3>1. Len(s) - 1 \in Nat /\ (Len(s) - 1) + 1 = Len(s) /\ Len(s) <= Len(s)
      BY <1>1, <1>3
    <3>2. Len(s) - 1 \in T
      BY <2>5, <3>1
    <3> HIDE DEF Good
    <3> QED BY <3>1, <3>2
  <2> QED BY <1>1, <2>1, <2>6
<1> QED BY <1>2, <1>3

(* An element in front, and one less there                                 *)
LEMMA Consed ==
  ASSUME NEW S, NEW x \in S, NEW s \in Seq(S)
  PROVE  /\ <<x>> \o s \in Seq(S)
         /\ Len(<<x>> \o s) = Len(s) + 1
         /\ (<<x>> \o s)[1] = x
         /\ \A k \in 2 .. Len(s) + 1 : (<<x>> \o s)[k] = s[k - 1]
<1>1. <<x>> \in Seq(S) /\ Len(<<x>>) = 1 /\ <<x>>[1] = x
  OBVIOUS
<1>2. Len(s) \in Nat
  BY LenProperties
<1>3. /\ <<x>> \o s \in Seq(S)
      /\ Len(<<x>> \o s) = Len(<<x>>) + Len(s)
      /\ \A i \in 1 .. Len(<<x>>) + Len(s) :
           (<<x>> \o s)[i] = IF i <= Len(<<x>>) THEN <<x>>[i] ELSE s[i - Len(<<x>>)]
  BY <1>1, ConcatProperties
<1> QED BY <1>1, <1>2, <1>3

LEMMA Beheaded ==
  ASSUME NEW S, NEW s \in Seq(S), s # <<>>
  PROVE  /\ Len(s) \in Nat /\ Len(s) >= 1
         /\ Head(s) = s[1] /\ s[1] \in S
         /\ Tail(s) \in Seq(S)
         /\ Len(Tail(s)) = Len(s) - 1
         /\ \A k \in 1 .. Len(s) - 1 : Tail(s)[k] = s[k + 1]
         /\ Range(s) = {s[1]} \cup Range(Tail(s))
<1>1. Len(s) \in Nat /\ Len(s) >= 1 /\ DOMAIN s = 1 .. Len(s)
  BY EmptySeq, LenProperties
<1>2. s[1] \in S
  BY <1>1, ElementOfSeq
<1>3. Head(s) = s[1]
  OBVIOUS
<1>4. /\ Tail(s) \in Seq(S)
      /\ Len(Tail(s)) = Len(s) - 1
      /\ \A k \in 1 .. Len(s) - 1 : Tail(s)[k] = s[k + 1]
  BY HeadTailProperties
<1>5. Range(s) = {s[1]} \cup Range(Tail(s))
  <2> DEFINE t == Tail(s)
  <2>1. DOMAIN t = 1 .. Len(s) - 1
    BY <1>4, LenProperties
  <2>2. \A k \in 1 .. Len(s) - 1 : t[k] = s[k + 1]
    BY <1>4
  <2> HIDE DEF t
  <2>3. ASSUME NEW x \in Range(s) PROVE x \in {s[1]} \cup Range(t)
    <3>1. PICK k \in 1 .. Len(s) : s[k] = x
      BY <1>1 DEF Range
    <3>2. CASE k # 1
      <4>1. k - 1 \in 1 .. Len(s) - 1 /\ (k - 1) + 1 = k
        BY <1>1, <3>2
      <4>2. k - 1 \in DOMAIN t /\ t[k - 1] = x
        BY <2>1, <2>2, <3>1, <4>1
      <4> QED BY <4>2 DEF Range
    <3> QED BY <3>1, <3>2
  <2>4. ASSUME NEW x \in Range(t) PROVE x \in Range(s)
    <3>1. PICK k \in 1 .. Len(s) - 1 : t[k] = x
      BY <2>1 DEF Range
    <3>2. k + 1 \in DOMAIN s /\ s[k + 1] = x
      BY <1>1, <2>2, <3>1
    <3> QED BY <3>2 DEF Range
  <2>5. s[1] \in Range(s)
    BY <1>1 DEF Range
  <2> QED BY <2>3, <2>4, <2>5 DEF t
<1> QED BY <1>1, <1>2, <1>3, <1>4, <1>5

-----------------------------------------------------------------------------
(* What the search follows                                                 *)

(* The connections that leave a node, and sets of nodes that none leaves   *)
LegsFrom(n) == {e \in Legs : e[1][1] = n}
ClosedSet(S) == \A e \in Legs : e[1][1] \in S => e[2][1] \in S

(* A connection is part of a cycle if its source is reached from its       *)
(* target.                                                                 *)
OnCycle(e) == \A S \in SUBSET Node : e[2][1] \in S /\ ClosedSet(S) => e[1][1] \in S

LEMMA CheckPorts ==
  /\ \A p \in OutPort : p[1] \in Node /\ p = <<p[1], p[2]>> /\ p[2] \in OutPorts(TypeOf[p[1]])
  /\ \A p \in InPort : p[1] \in Node /\ p = <<p[1], p[2]>> /\ p[2] \in InPorts(TypeOf[p[1]])
  /\ \A n \in Node : \A i \in PortIdx(TypeOf[n]) :
       /\ i \in InPorts(TypeOf[n]) => <<n, i>> \in InPort
       /\ i \notin InPorts(TypeOf[n]) => i \in OutPorts(TypeOf[n]) /\ <<n, i>> \in OutPort
  /\ \A t : InPorts(t) \cap OutPorts(t) = {}
  /\ \A p \in InPort \cup OutPort : p \in Port
<1>1. \A t \in NodeType : \A i \in PortIdx(t) : PortDir[t][i] \in Dir
  BY TypesAssumption, ElementOfSeq, LenProperties DEF PortIdx
<1>2. \A n \in Node : TypeOf[n] \in NodeType
  BY TypesAssumption
<1> QED BY <1>1, <1>2 DEF Port, InPort, OutPort, InPorts, OutPorts, Dir

LEMMA CheckFacts ==
  ASSUME check \in Checks
  PROVE  /\ links \in [Port -> Seq(Port)]
         /\ \A p \in OutPort : links[p] \in Seq(InPort)
         /\ \A p \in InPort : Len(links[p]) <= 1
         /\ extra \in Connection
         /\ ignore \subseteq Connection
         /\ \A e \in ignore : links[e[2]] \in {<<>>, <<e[1]>>}
BY CheckAssumption DEF links, extra, ignore

(* The search may start at every node.                                     *)
LEMMA AllRoots ==
  ASSUME check \in Checks, NEW n \in Node
  PROVE  IsRootIgn(n)
<1> SUFFICES ASSUME NEW i \in InPorts(TypeOf[n])
             PROVE  /\ Len(links[<<n, i>>]) <= 1
                    /\ Len(links[<<n, i>>]) = 1 /\ <<n, i>> \in {e[2] : e \in ignore} =>
                         <<links[<<n, i>>][1], <<n, i>>>> \in ignore
  BY DEF IsRootIgn
<1> DEFINE p == <<n, i>>
<1>1. p \in InPort
  BY DEF InPort
<1>2. Len(links[p]) <= 1
  BY <1>1, CheckFacts
<1>3. ASSUME Len(links[p]) = 1, NEW e \in ignore, p = e[2] PROVE <<links[p][1], p>> \in ignore
  <2>1. links[p] \in {<<>>, <<e[1]>>}
    BY <1>3, CheckFacts
  <2>2. links[p] = <<e[1]>>
    BY <1>3, <2>1, EmptySeq
  <2>3. e = <<e[1], e[2]>>
    BY CheckFacts DEF Connection
  <2>4. links[p][1] = e[1]
    BY <2>2
  <2> HIDE DEF p
  <2> QED BY <1>3, <2>3, <2>4
<1> QED BY <1>2, <1>3

LEMMA LegsTyped ==
  ASSUME check \in Checks
  PROVE  /\ Legs \subseteq Connection
         /\ \A e \in Legs : /\ e[1] \in OutPort /\ e[2] \in InPort
                            /\ e[1][1] \in Node /\ e[2][1] \in Node
                            /\ e = <<e[1], e[2]>>
<1>1. ASSUME NEW p \in OutPort, NEW k \in DOMAIN links[p]
      PROVE  <<p, links[p][k]>> \in Connection
  BY CheckFacts, ElementOfSeq, LenProperties DEF Connection
<1>2. ASSUME NEW e \in Legs, e # extra PROVE e \in Connection
  <2>1. PICK p \in OutPort : e \in {<<p, links[p][k]>> : k \in DOMAIN links[p]}
    BY <1>2 DEF Legs
  <2> QED BY <1>1, <2>1
<1>3. Legs \subseteq Connection
  BY <1>2, CheckFacts
<1> QED BY <1>3, CheckPorts DEF Connection

LEMMA ExistingLegs ==
  ASSUME check \in Checks, NEW n \in Node, NEW i \in PortIdx(TypeOf[n])
  PROVE  /\ Existing(n, i) \in Seq(Connection)
         /\ Range(Existing(n, i)) =
              IF i \in InPorts(TypeOf[n]) THEN {}
              ELSE {<<<<n, i>>, links[<<n, i>>][k]>> : k \in DOMAIN links[<<n, i>>]}
<1>1. CASE i \in InPorts(TypeOf[n])
  <2>1. Existing(n, i) = <<>>
    BY <1>1 DEF Existing
  <2> QED BY <1>1, <2>1 DEF Range
<1>2. CASE i \notin InPorts(TypeOf[n])
  <2> DEFINE p == <<n, i>>
             w == links[p]
  <2>1. p \in OutPort
    BY <1>2, CheckPorts
  <2>2. w \in Seq(InPort)
    BY <2>1, CheckFacts
  <2>3. Existing(n, i) = [k \in DOMAIN w |-> <<p, w[k]>>]
    BY <1>2 DEF Existing
  <2> HIDE DEF p, w
  <2>4. Len(w) \in Nat /\ DOMAIN w = 1 .. Len(w) /\ \A k \in 1 .. Len(w) : w[k] \in InPort
    BY <2>2, ElementOfSeq, LenProperties
  <2>5. [k \in 1 .. Len(w) |-> <<p, w[k]>>] \in [1 .. Len(w) -> Connection]
    BY <2>1, <2>4 DEF Connection
  <2>6. [k \in 1 .. Len(w) |-> <<p, w[k]>>] \in Seq(Connection)
    BY <2>4, <2>5, SeqDef
  <2>7. Range([k \in DOMAIN w |-> <<p, w[k]>>]) = {<<p, w[k]>> : k \in DOMAIN w}
    BY DEF Range
  <2> QED BY <1>2, <2>3, <2>4, <2>6, <2>7 DEF p, w
<1> QED BY <1>1, <1>2

(* Each node of the path has all connections of the altered graph that     *)
(* leave it to follow.                                                     *)
LEMMA OutgoingLegs ==
  ASSUME check \in Checks, NEW n \in Node
  PROVE  /\ Outgoing(n) \in Seq(Connection)
         /\ Range(Outgoing(n)) = LegsFrom(n)
<1> DEFINE D == PortIdx(TypeOf[n])
           s == [i \in D |-> Existing(n, i)]
           F == IF extra[1][1] = n THEN <<extra>> ELSE <<>>
           R == Remaining(Actual(n), ignore)
<1>1. D = 1 .. Len(PortDir[TypeOf[n]]) /\ Len(PortDir[TypeOf[n]]) \in Nat
  BY TypesAssumption, LenProperties DEF PortIdx
<1>2. s \in Seq(Seq(Connection)) /\ DOMAIN s = D
  <2>1. \A i \in D : Existing(n, i) \in Seq(Connection)
    BY ExistingLegs
  <2>2. s \in [D -> Seq(Connection)]
    BY <2>1
  <2> HIDE DEF s, D
  <2> QED BY <1>1, <2>2, SeqDef
<1>3. /\ Actual(n) \in Seq(Connection)
      /\ Range(Actual(n)) = UNION {Range(Existing(n, i)) : i \in D}
  <2>1. Actual(n) = FlattenSeq(s)
    BY DEF Actual
  <2>2. \A i \in D : s[i] = Existing(n, i)
    OBVIOUS
  <2> HIDE DEF s, D
  <2>3. /\ FlattenSeq(s) \in Seq(Connection)
        /\ Range(FlattenSeq(s)) = UNION {Range(s[i]) : i \in DOMAIN s}
    BY <1>2, FlattenRange
  <2> QED BY <1>2, <2>1, <2>2, <2>3
<1>4. R \in Seq(Connection) /\ Range(R) = Range(Actual(n)) \ ignore
  BY <1>3, RemainingProperties
<1>5. F \in Seq(Connection) /\ Range(F) = IF extra[1][1] = n THEN {extra} ELSE {}
  <2>1. extra \in Connection
    BY CheckFacts
  <2>2. Range(<<extra>>) = {extra} /\ Range(<<>>) = {}
    BY DEF Range
  <2>3. <<extra>> \in Seq(Connection) /\ <<>> \in Seq(Connection)
    BY <2>1
  <2> QED BY <2>2, <2>3
<1>6. Outgoing(n) = F \o R
  BY DEF Outgoing
<1>7. Outgoing(n) \in Seq(Connection) /\ Range(Outgoing(n)) = Range(F) \cup Range(R)
  <2> HIDE DEF F, R
  <2> QED BY <1>4, <1>5, <1>6, ConcatRange
<1> DEFINE W == UNION {{<<p, links[p][k]>> : k \in DOMAIN links[p]} : p \in OutPort}
<1>8. Range(Actual(n)) = {e \in W : e[1][1] = n}
  <2>1. ASSUME NEW e \in Range(Actual(n)) PROVE e \in W /\ e[1][1] = n
    <3>1. PICK i \in D : e \in Range(Existing(n, i))
      BY <1>3, <2>1
    <3>2. i \notin InPorts(TypeOf[n])
      BY <3>1, ExistingLegs
    <3>3. PICK k \in DOMAIN links[<<n, i>>] : e = <<<<n, i>>, links[<<n, i>>][k]>>
      BY <3>1, <3>2, ExistingLegs
    <3>4. <<n, i>> \in OutPort
      BY <3>2, CheckPorts
    <3> QED BY <3>3, <3>4
  <2>2. ASSUME NEW e \in W, e[1][1] = n PROVE e \in Range(Actual(n))
    <3>1. PICK p \in OutPort : \E k \in DOMAIN links[p] : e = <<p, links[p][k]>>
      BY <2>2
    <3>2. p[1] = n /\ p = <<n, p[2]>> /\ p[2] \in OutPorts(TypeOf[n])
      BY <2>2, <3>1, CheckPorts
    <3>3. p[2] \in D /\ p[2] \notin InPorts(TypeOf[n])
      BY <3>2, CheckPorts DEF OutPorts
    <3>4. e \in Range(Existing(n, p[2]))
      BY <3>1, <3>2, <3>3, ExistingLegs
    <3> QED BY <1>3, <3>3, <3>4
  <2> HIDE DEF W
  <2> QED BY <2>1, <2>2
<1>9. Legs = (W \ ignore) \cup {extra}
  BY DEF Legs
<1> HIDE DEF W, F, R
<1> QED BY <1>4, <1>5, <1>7, <1>8, <1>9 DEF LegsFrom

-----------------------------------------------------------------------------
(* What is reached in the altered graph                                    *)

LEMMA SequenceOfSet ==
  ASSUME NEW T, IsFiniteSet(T)
  PROVE  {SetToSeq(T)[k] : k \in DOMAIN SetToSeq(T)} = T
<1> DEFINE n == Cardinality(T)
           I == 1 .. n
           Good(f) == f \in [I -> T] /\ IsInjective(f)
<1>1. n \in Nat /\ ExistsBijection(I, T)
  BY FS_CardinalityType
<1>2. \E f : Good(f)
  BY <1>1 DEF ExistsBijection, Bijection, Injection
<1>3. Good(CHOOSE f : Good(f))
  <2> HIDE DEF Good
  <2> QED BY <1>2
<1>4. SetToSeq(T) = CHOOSE f \in [I -> T] : IsInjective(f)
  BY DEF SetToSeq
<1> DEFINE g == SetToSeq(T)
<1>5. Good(g)
  BY <1>2, <1>4
<1>6. g \in Injection(I, T)
  BY <1>5 DEF Injection
<1>7. Cardinality(I) = n
  BY <1>1, FS_Interval
<1>8. g \in Surjection(I, T)
  <2> HIDE DEF g
  <2> QED BY <1>6, <1>7, FS_Injection
<1> HIDE DEF g
<1>9. \A t \in T : \E k \in I : g[k] = t
  BY <1>8 DEF Surjection
<1>10. DOMAIN g = I /\ \A k \in I : g[k] \in T
  BY <1>5
<1>11. {g[k] : k \in DOMAIN g} = T
  BY <1>9, <1>10
<1> QED BY <1>11 DEF g

LEMMA AlteredLegs ==
  ASSUME check \in Checks, NEW p \in OutPort
  PROVE  {Altered[p][k] : k \in DOMAIN Altered[p]} = {e[2] : e \in {f \in Legs : f[1] = p}}
<1> DEFINE T == {e[2] : e \in {f \in Legs : f[1] = p}}
           w == links[p]
           R == {w[k] : k \in DOMAIN w}
<1>1. Altered[p] = SetToSeq(T)
  BY CheckPorts DEF Altered
<1>2. IsFiniteSet(R)
  <2>1. Len(w) \in Nat /\ DOMAIN w = 1 .. Len(w)
    BY CheckFacts, LenProperties
  <2>2. IsFiniteSet(DOMAIN w)
    BY <2>1, FS_Interval
  <2>3. [k \in DOMAIN w |-> w[k]] \in Surjection(DOMAIN w, R)
    BY DEF Surjection
  <2> HIDE DEF w, R
  <2> QED BY <2>2, <2>3, FS_Surjection
<1>3. IsFiniteSet(R \cup {extra[2]})
  <2> HIDE DEF R
  <2> QED BY <1>2, FS_AddElement
<1>4. ASSUME NEW e \in Legs, e[1] = p PROVE e[2] \in R \cup {extra[2]}
  <2>1. CASE e # extra
    <3>1. PICK q \in OutPort : e \in {<<q, links[q][k]>> : k \in DOMAIN links[q]}
      BY <2>1 DEF Legs
    <3> QED BY <1>4, <3>1
  <2> QED BY <2>1
<1>5. T \in SUBSET (R \cup {extra[2]})
  <2> HIDE DEF R
  <2> QED BY <1>4
<1>6. IsFiniteSet(T)
  <2> HIDE DEF T, R
  <2> QED BY <1>3, <1>5, FS_Subset
<1> HIDE DEF T
<1>7. {SetToSeq(T)[k] : k \in DOMAIN SetToSeq(T)} = T
  BY <1>6, SequenceOfSet
<1> QED BY <1>1, <1>7 DEF T

LEMMA CyclesReached ==
  ASSUME check \in Checks, NEW e \in Legs
  PROVE  e[1][1] \in Downstream(Altered, e[2][1]) <=> OnCycle(e)
<1>1. ASSUME NEW S \in SUBSET Node
      PROVE  (\A p \in OutPort : p[1] \in S =>
                {Altered[p][k][1] : k \in DOMAIN Altered[p]} \subseteq S)
             <=> ClosedSet(S)
  <2>1. ASSUME NEW p \in OutPort
        PROVE  {Altered[p][k][1] : k \in DOMAIN Altered[p]} \subseteq S
               <=> \A f \in Legs : f[1] = p => f[2][1] \in S
    <3> DEFINE A == {Altered[p][k] : k \in DOMAIN Altered[p]}
    <3>1. {Altered[p][k][1] : k \in DOMAIN Altered[p]} \subseteq S <=> \A q \in A : q[1] \in S
      OBVIOUS
    <3>2. A = {f[2] : f \in {g \in Legs : g[1] = p}}
      BY AlteredLegs
    <3> HIDE DEF A
    <3>3. (\A q \in A : q[1] \in S) <=> \A f \in Legs : f[1] = p => f[2][1] \in S
      BY <3>2
    <3> QED BY <3>1, <3>3
  <2>2. \A f \in Legs : f[1] \in OutPort
    BY LegsTyped
  <2> QED BY <2>1, <2>2 DEF ClosedSet
<1>2. e[1][1] \in Node
  BY LegsTyped
<1> QED BY <1>1, <1>2 DEF Downstream, OnCycle

-----------------------------------------------------------------------------
(* The inductive invariant                                                 *)

Frame == [node : Node, left : Seq(Connection)]

CycleTypeOK ==
  /\ check \in Checks
  /\ marking \in [Node -> {"unmarked", "marked", "visited"}]
  /\ waiting \in Seq(Node)
  /\ path \in Seq(Frame)
  /\ found \in BOOLEAN
  /\ cycle \in Seq(Connection)
  /\ open \in BOOLEAN
  /\ returned \in {"none", "acyclic", "cycle"}

(* Frames have connections of their node left, no node is on the path      *)
(* twice, and each frame follows the connection to the one further in.     *)
PathRight(p) ==
  /\ \A k \in 1 .. Len(p) : Range(p[k].left) \subseteq LegsFrom(p[k].node)
  /\ \A j, k \in 1 .. Len(p) : p[j].node = p[k].node => j = k
  /\ \A k \in 2 .. Len(p) : p[k].left # <<>> /\ p[k].left[1][2][1] = p[k - 1].node

(* Until a cycle is found, the marked nodes are those of the path, and     *)
(* what they do not have left leads to visited nodes.                      *)
MarksRight ==
  ~ found =>
    /\ \A n \in Node : marking[n] = "marked" <=> \E k \in 1 .. Len(path) : path[k].node = n
    /\ \A k \in 1 .. Len(path) : \A e \in LegsFrom(path[k].node) :
         e \in Range(path[k].left) \/ marking[e[2][1]] = "visited"

VisitedNodes == {n \in Node : marking[n] = "visited"}

(* Connections of visited nodes lead to visited nodes and in no circle.    *)
VisitedRight ==
  /\ ClosedSet(VisitedNodes)
  /\ \A e \in Legs : e[1][1] \in VisitedNodes => ~ OnCycle(e)

(* A node that was not met yet is a root that was not tried yet.           *)
RestRight == \A n \in Node : marking[n] = "unmarked" => n \in Range(waiting)

(* The connections collected so far follow each other, backwards, and lead *)
(* to different nodes.                                                     *)
ChainRight ==
  /\ Range(cycle) \subseteq Legs
  /\ \A k \in 1 .. Len(cycle) - 1 : cycle[k][1][1] = cycle[k + 1][2][1]
  /\ \A j, k \in 1 .. Len(cycle) : cycle[j][2][1] = cycle[k][2][1] => j = k

(* While the cycle is not complete, the next connection leads to the node  *)
(* that the last one leaves, no node of the path has been left before, and *)
(* the node that was met is still on the path.                             *)
OpenRight ==
  /\ path # <<>> /\ path[1].left # <<>>
  /\ \A j, k \in 1 .. Len(cycle) : cycle[j][1][1] = cycle[k][1][1] => j = k
  /\ \A k \in 1 .. Len(cycle), i \in 1 .. Len(path) : cycle[k][1][1] # path[i].node
  /\ IF cycle = <<>>
       THEN \E i \in 1 .. Len(path) : path[i].node = path[1].left[1][2][1]
       ELSE /\ path[1].left[1][2][1] = cycle[Len(cycle)][1][1]
            /\ \E i \in 1 .. Len(path) : path[i].node = cycle[1][2][1]

CollectedRight ==
  /\ ~ found => cycle = <<>> /\ open
  /\ ChainRight
  /\ found /\ open => OpenRight
  /\ ~ open => cycle # <<>> /\ EndsClosed(cycle)

FoundRight == found => \E e \in Legs : OnCycle(e)

ReturnedRight ==
  /\ returned # "none" => path = <<>>
  /\ returned = "cycle" => found
  /\ returned = "acyclic" => ~ found /\ VisitedNodes = Node

CycleInv ==
  /\ CycleTypeOK
  /\ PathRight(path)
  /\ MarksRight
  /\ VisitedRight
  /\ RestRight
  /\ CollectedRight
  /\ FoundRight
  /\ ReturnedRight

-----------------------------------------------------------------------------
(* The path grows and shrinks.                                             *)

LEMMA SameLegs ==
  ASSUME check' = check
  PROVE  Legs' = Legs
BY DEF Legs, links, extra, ignore

LEMMA PushedRight ==
  ASSUME check \in Checks, path \in Seq(Frame), PathRight(path),
         NEW n \in Node, \A k \in 1 .. Len(path) : path[k].node # n,
         path # <<>> => path[1].left # <<>> /\ path[1].left[1][2][1] = n
  PROVE  /\ Pushed(n) \in Seq(Frame)
         /\ Len(Pushed(n)) = Len(path) + 1 /\ Len(path) \in Nat
         /\ Pushed(n)[1] = [node |-> n, left |-> Outgoing(n)]
         /\ \A k \in 2 .. Len(path) + 1 : Pushed(n)[k] = path[k - 1]
         /\ PathRight(Pushed(n))
<1> DEFINE f == [node |-> n, left |-> Outgoing(n)]
           p == Pushed(n)
<1>1. f \in Frame /\ Range(f.left) = LegsFrom(f.node)
  BY OutgoingLegs DEF Frame
<1>2. p = <<f>> \o path
  BY DEF Pushed
<1> HIDE DEF f, p
<1>3. /\ p \in Seq(Frame) /\ Len(p) = Len(path) + 1 /\ p[1] = f
      /\ \A k \in 2 .. Len(path) + 1 : p[k] = path[k - 1]
  BY <1>1, <1>2, Consed
<1>4. Len(path) \in Nat /\ (path # <<>> => Len(path) >= 1)
  BY LenProperties, EmptySeq
<1>5. \A k \in 1 .. Len(p) : Range(p[k].left) \subseteq LegsFrom(p[k].node)
  <2> SUFFICES ASSUME NEW k \in 1 .. Len(p) PROVE Range(p[k].left) \subseteq LegsFrom(p[k].node)
    OBVIOUS
  <2>1. CASE k = 1
    BY <1>1, <1>3, <2>1
  <2>2. CASE k # 1
    <3>1. k \in 2 .. Len(path) + 1 /\ k - 1 \in 1 .. Len(path)
      BY <1>3, <1>4, <2>2
    <3> QED BY <1>3, <3>1 DEF PathRight
  <2> QED BY <2>1, <2>2
<1>6. f.node = n
  BY DEF f
<1>7. ASSUME NEW j \in 1 .. Len(p), NEW k \in 1 .. Len(p), p[j].node = p[k].node PROVE j = k
  <2>1. \A i \in 1 .. Len(p) : i # 1 => i \in 2 .. Len(path) + 1 /\ i - 1 \in 1 .. Len(path)
    BY <1>3, <1>4
  <2>2. \A i \in 1 .. Len(p) : i # 1 => p[i] = path[i - 1] /\ p[i].node # n
    BY <1>3, <2>1
  <2>3. CASE j = 1 \/ k = 1
    BY <1>3, <1>6, <1>7, <2>2, <2>3
  <2>4. CASE j # 1 /\ k # 1
    <3>1. path[j - 1].node = path[k - 1].node
      BY <1>7, <2>2, <2>4
    <3>2. j - 1 = k - 1
      BY <2>1, <2>4, <3>1 DEF PathRight
    <3> QED BY <1>3, <1>4, <3>2
  <2> QED BY <2>3, <2>4
<1>8. ASSUME NEW k \in 2 .. Len(p)
      PROVE  p[k].left # <<>> /\ p[k].left[1][2][1] = p[k - 1].node
  <2>1. p[k] = path[k - 1] /\ k - 1 \in 1 .. Len(path)
    BY <1>3, <1>4
  <2>2. CASE k = 2
    <3>1. path # <<>> /\ k - 1 = 1
      BY <1>4, <2>1, <2>2, EmptySeq
    <3> QED BY <1>3, <1>6, <2>1, <3>1
  <2>3. CASE k # 2
    <3>1. k - 1 \in 2 .. Len(path) /\ k - 1 \in 2 .. Len(path) + 1
      BY <1>3, <1>4, <2>3
    <3>2. p[k - 1] = path[(k - 1) - 1]
      BY <1>3, <3>1
    <3> QED BY <2>1, <3>1, <3>2 DEF PathRight
  <2> QED BY <2>2, <2>3
<1> QED BY <1>3, <1>4, <1>5, <1>7, <1>8 DEF PathRight, f, p

(* The followed connection of the innermost frame is done.                 *)
LEMMA AdvancedRight ==
  ASSUME check \in Checks, NEW s \in Seq(Frame), PathRight(s), s # <<>>, s[1].left # <<>>
  PROVE  /\ Advanced(s) \in Seq(Frame)
         /\ Len(Advanced(s)) = Len(s)
         /\ \A k \in 1 .. Len(s) : Advanced(s)[k].node = s[k].node
         /\ \A k \in 2 .. Len(s) : Advanced(s)[k] = s[k]
         /\ Range(s[1].left) = {s[1].left[1]} \cup Range(Advanced(s)[1].left)
         /\ PathRight(Advanced(s))
<1> DEFINE h == [s[1] EXCEPT !.left = Tail(@)]
           a == Advanced(s)
<1>1. /\ Len(s) \in Nat /\ Len(s) >= 1 /\ Head(s) = s[1] /\ s[1] \in Frame
      /\ Tail(s) \in Seq(Frame) /\ Len(Tail(s)) = Len(s) - 1
      /\ \A k \in 1 .. Len(s) - 1 : Tail(s)[k] = s[k + 1]
  BY Beheaded
<1>2. s[1].left \in Seq(Connection) /\ s[1].node \in Node
  BY <1>1 DEF Frame
<1>3. Tail(s[1].left) \in Seq(Connection)
      /\ Range(s[1].left) = {s[1].left[1]} \cup Range(Tail(s[1].left))
  BY <1>2, Beheaded
<1>4. h \in Frame /\ h.node = s[1].node /\ h.left = Tail(s[1].left)
  BY <1>1, <1>2, <1>3 DEF Frame
<1>5. a = <<h>> \o Tail(s)
  BY <1>1 DEF Advanced
<1> HIDE DEF h, a
<1>6. /\ a \in Seq(Frame) /\ Len(a) = (Len(s) - 1) + 1 /\ a[1] = h
      /\ \A k \in 2 .. (Len(s) - 1) + 1 : a[k] = Tail(s)[k - 1]
  BY <1>1, <1>4, <1>5, Consed
<1>7. Len(a) = Len(s) /\ \A k \in 2 .. Len(s) : a[k] = s[k]
  <2>1. Len(a) = Len(s)
    BY <1>1, <1>6
  <2>2. ASSUME NEW k \in 2 .. Len(s) PROVE a[k] = s[k]
    <3>1. k - 1 \in 1 .. Len(s) - 1 /\ (k - 1) + 1 = k /\ k \in 2 .. (Len(s) - 1) + 1
      BY <1>1
    <3> QED BY <1>1, <1>6, <3>1
  <2> QED BY <2>1, <2>2
<1>8. \A k \in 1 .. Len(s) : a[k].node = s[k].node
  <2>1. \A k \in 1 .. Len(s) : k # 1 => k \in 2 .. Len(s)
    BY <1>1
  <2> QED BY <1>4, <1>6, <1>7, <2>1
<1>9. PathRight(a)
  <2>1. \A k \in 1 .. Len(s) : Range(a[k].left) \subseteq LegsFrom(a[k].node)
    <3>1. \A k \in 1 .. Len(s) : k # 1 => k \in 2 .. Len(s)
      BY <1>1
    <3>2. Range(h.left) \subseteq Range(s[1].left) /\ 1 \in 1 .. Len(s)
      BY <1>1, <1>3, <1>4
    <3> QED BY <1>6, <1>7, <1>8, <3>1, <3>2 DEF PathRight
  <2>2. \A j, k \in 1 .. Len(s) : a[j].node = a[k].node => j = k
    BY <1>8 DEF PathRight
  <2>3. ASSUME NEW k \in 2 .. Len(s)
        PROVE  a[k].left # <<>> /\ a[k].left[1][2][1] = a[k - 1].node
    <3>1. k - 1 \in 1 .. Len(s)
      BY <1>1
    <3>2. a[k] = s[k] /\ a[k - 1].node = s[k - 1].node
      BY <1>7, <1>8, <3>1
    <3> QED BY <3>2 DEF PathRight
  <2> QED BY <1>7, <2>1, <2>2, <2>3 DEF PathRight
<1> QED BY <1>3, <1>4, <1>6, <1>7, <1>8, <1>9 DEF a

LEMMA TailRight ==
  ASSUME NEW s \in Seq(Frame), PathRight(s), s # <<>>
  PROVE  PathRight(Tail(s))
<1> DEFINE t == Tail(s)
<1>1. /\ Len(s) \in Nat /\ Len(s) >= 1 /\ Len(t) = Len(s) - 1
      /\ \A k \in 1 .. Len(s) - 1 : t[k] = s[k + 1]
  BY Beheaded
<1> HIDE DEF t
<1>2. \A k \in 1 .. Len(t) : t[k] = s[k + 1] /\ k + 1 \in 1 .. Len(s)
  BY <1>1
<1>3. \A k \in 1 .. Len(t) : Range(t[k].left) \subseteq LegsFrom(t[k].node)
  BY <1>2 DEF PathRight
<1>4. ASSUME NEW j \in 1 .. Len(t), NEW k \in 1 .. Len(t), t[j].node = t[k].node PROVE j = k
  <2>1. /\ j + 1 \in 1 .. Len(s) /\ k + 1 \in 1 .. Len(s)
        /\ s[j + 1].node = s[k + 1].node
    BY <1>2, <1>4
  <2>2. j + 1 = k + 1
    BY <2>1 DEF PathRight
  <2> QED BY <1>1, <2>2
<1>5. ASSUME NEW k \in 2 .. Len(t)
      PROVE  t[k].left # <<>> /\ t[k].left[1][2][1] = t[k - 1].node
  <2>1. /\ k + 1 \in 2 .. Len(s) /\ k \in 1 .. Len(t) /\ k - 1 \in 1 .. Len(t)
        /\ (k + 1) - 1 = k /\ (k - 1) + 1 = k
    BY <1>1
  <2>2. t[k] = s[k + 1] /\ t[k - 1] = s[k]
    BY <1>2, <2>1
  <2> QED BY <2>1, <2>2 DEF PathRight
<1> QED BY <1>3, <1>4, <1>5 DEF PathRight, t

-----------------------------------------------------------------------------
(* Every step preserves the invariant.                                     *)

LEMMA CycleInitially ==
  CycleInit => CycleInv
<1> SUFFICES ASSUME CycleInit PROVE CycleInv
  OBVIOUS
<1> USE DEF CycleInit
<1>1. CycleTypeOK
  <2>1. path \in Seq(Frame) /\ cycle \in Seq(Connection)
    BY EmptySeq
  <2>2. waiting \in Seq(Node)
    BY CheckAssumption
  <2>3. marking \in [Node -> {"unmarked", "marked", "visited"}]
    OBVIOUS
  <2> QED BY <2>1, <2>2, <2>3 DEF CycleTypeOK
<1>2. Len(path) = 0 /\ Len(cycle) = 0 /\ Range(cycle) = {}
  BY DEF Range
<1>3. PathRight(path)
  BY <1>2 DEF PathRight
<1>4. MarksRight
  BY <1>2 DEF MarksRight
<1>5. VisitedRight
  <2>1. VisitedNodes = {}
    BY DEF VisitedNodes
  <2> QED BY <2>1 DEF VisitedRight, ClosedSet
<1>6. RestRight
  BY CheckAssumption DEF RestRight, Range
<1>7. CollectedRight
  BY <1>2 DEF CollectedRight, ChainRight
<1> QED BY <1>1, <1>3, <1>4, <1>5, <1>6, <1>7 DEF CycleInv, FoundRight, ReturnedRight

(* What does not change carries over.                                      *)
LEMMA SameMarks ==
  ASSUME VisitedRight, RestRight, UNCHANGED <<check, marking, waiting>>
  PROVE  VisitedRight' /\ RestRight'
<1>1. Legs' = Legs /\ VisitedNodes' = VisitedNodes
  BY SameLegs DEF VisitedNodes
<1> QED BY <1>1 DEF VisitedRight, RestRight, ClosedSet, OnCycle

LEMMA SameCollected ==
  ASSUME CollectedRight, ~ found, UNCHANGED <<check, found, cycle, open>>
  PROVE  CollectedRight'
<1>1. Legs' = Legs
  BY SameLegs
<1> QED BY <1>1 DEF CollectedRight, ChainRight, EndsClosed, OpenRight

LEMMA SameSets ==
  ASSUME Legs' = Legs
  PROVE  \A S : ClosedSet(S)' <=> ClosedSet(S)
BY DEF ClosedSet

(* A node is entered: a root or the target of the followed connection.     *)
LEMMA EnterRight ==
  ASSUME CycleInv, NEW n \in Node, Searching, Enter(n), marking[n] = "unmarked",
         path # <<>> => path[1].left # <<>> /\ path[1].left[1][2][1] = n,
         waiting' \in Seq(Node),
         \A m \in Node : m \in Range(waiting) /\ m # n => m \in Range(waiting'),
         UNCHANGED <<check, found, cycle, open, returned>>
  PROVE  CycleInv'
<1> USE DEF CycleInv
<1>1. CycleTypeOK /\ ~ found /\ returned = "none" /\ Legs' = Legs
  BY SameLegs DEF Searching
<1>2. \A k \in 1 .. Len(path) : path[k].node # n
  BY <1>1 DEF MarksRight
<1>3. /\ path' \in Seq(Frame)
      /\ Len(path') = Len(path) + 1 /\ Len(path) \in Nat
      /\ path'[1] = [node |-> n, left |-> Outgoing(n)]
      /\ \A k \in 2 .. Len(path) + 1 : path'[k] = path[k - 1]
      /\ PathRight(path')
  <2>1. path' = Pushed(n)
    BY DEF Enter
  <2> QED BY <1>1, <1>2, <2>1, PushedRight DEF CycleTypeOK
<1>4. /\ marking' \in [Node -> {"unmarked", "marked", "visited"}]
      /\ marking'[n] = "marked"
      /\ \A m \in Node : m # n => marking'[m] = marking[m]
  BY <1>1 DEF Enter, CycleTypeOK
<1>5. CycleTypeOK'
  BY <1>1, <1>3, <1>4 DEF CycleTypeOK
<1>6. PathRight(path)'
  BY <1>1, <1>3 DEF PathRight, LegsFrom
<1>7. VisitedNodes' = VisitedNodes
  BY <1>4 DEF VisitedNodes
<1>8. \A k \in 1 .. Len(path') : k # 1 => k - 1 \in 1 .. Len(path) /\ path'[k] = path[k - 1]
  BY <1>3
<1>9. MarksRight'
  <2>1. ASSUME NEW m \in Node
        PROVE  marking'[m] = "marked" <=> \E k \in 1 .. Len(path') : path'[k].node = m
    <3>1. CASE m = n
      BY <1>3, <1>4, <3>1
    <3>2. CASE m # n
      <4>1. marking'[m] = "marked" <=> \E k \in 1 .. Len(path) : path[k].node = m
        BY <1>1, <1>4, <3>2 DEF MarksRight
      <4>2. ASSUME NEW k \in 1 .. Len(path), path[k].node = m
            PROVE  \E j \in 1 .. Len(path') : path'[j].node = m
        <5>1. k + 1 \in 2 .. Len(path) + 1 /\ k + 1 \in 1 .. Len(path') /\ (k + 1) - 1 = k
          BY <1>3
        <5>2. path'[k + 1] = path[k]
          BY <1>3, <5>1
        <5> QED BY <4>2, <5>1, <5>2
      <4>3. ASSUME NEW j \in 1 .. Len(path'), path'[j].node = m
            PROVE  \E k \in 1 .. Len(path) : path[k].node = m
        <5>1. j # 1
          BY <1>3, <3>2, <4>3
        <5> QED BY <1>8, <4>3, <5>1
      <4> QED BY <4>1, <4>2, <4>3
    <3> QED BY <3>1, <3>2
  <2>2. ASSUME NEW k \in 1 .. Len(path'), NEW e \in Legs, e[1][1] = path'[k].node
        PROVE  e \in Range(path'[k].left) \/ marking'[e[2][1]] = "visited"
    <3>1. CASE k = 1
      <4>1. e \in LegsFrom(n)
        BY <1>3, <2>2, <3>1 DEF LegsFrom
      <4>2. e \in Range(Outgoing(n))
        BY <1>1, <4>1, OutgoingLegs DEF CycleTypeOK
      <4> QED BY <1>3, <3>1, <4>2
    <3>2. CASE k # 1
      <4>1. k - 1 \in 1 .. Len(path) /\ path'[k] = path[k - 1]
        BY <1>8, <3>2
      <4>2. e \in LegsFrom(path[k - 1].node)
        BY <2>2, <4>1 DEF LegsFrom
      <4>3. e \in Range(path[k - 1].left) \/ marking[e[2][1]] = "visited"
        BY <1>1, <4>1, <4>2 DEF MarksRight
      <4>4. e[2][1] \in Node
        BY <1>1, LegsTyped DEF CycleTypeOK
      <4>5. marking[e[2][1]] = "visited" => marking'[e[2][1]] = "visited"
        BY <1>4, <4>4
      <4> QED BY <4>1, <4>3, <4>5
    <3> QED BY <3>1, <3>2
  <2>3. \A k \in 1 .. Len(path') : \A e \in LegsFrom(path[k].node)' :
          e \in Range(path'[k].left) \/ marking'[e[2][1]] = "visited"
    BY <1>1, <2>2 DEF LegsFrom
  <2> QED BY <2>1, <2>3 DEF MarksRight
<1>10. VisitedRight'
  BY <1>1, <1>7 DEF VisitedRight, ClosedSet, OnCycle
<1>11. RestRight'
  BY <1>4 DEF RestRight
<1>12. CollectedRight'
  BY <1>1, SameCollected
<1> QED BY <1>1, <1>5, <1>6, <1>9, <1>10, <1>11, <1>12 DEF FoundRight, ReturnedRight

LEMMA CheckRootRight ==
  ASSUME CycleInv, CheckRoot
  PROVE  CycleInv'
<1> USE DEF CycleInv
<1> DEFINE n == Head(waiting)
<1>1. /\ CycleTypeOK /\ ~ found /\ path = <<>>
      /\ n \in Node /\ Tail(waiting) \in Seq(Node)
      /\ Range(waiting) = {n} \cup Range(Tail(waiting))
  BY Beheaded DEF CheckRoot, Searching, CycleTypeOK
<1>2. waiting' \in Seq(Node) /\ Range(waiting) = {n} \cup Range(waiting')
  BY <1>1 DEF CheckRoot
<1> HIDE DEF n
<1>3. CASE marking[n] = "unmarked"
  <2>1. Searching /\ Enter(n) /\ UNCHANGED <<check, found, cycle, open, returned>>
    BY <1>1, <1>3, AllRoots DEF CheckRoot, CycleTypeOK, n
  <2>2. \A m \in Node : m \in Range(waiting) /\ m # n => m \in Range(waiting')
    BY <1>2
  <2> HIDE DEF CycleInv
  <2> QED BY <1>1, <1>2, <1>3, <2>1, <2>2, EnterRight
<1>4. CASE marking[n] # "unmarked"
  <2>1. UNCHANGED <<check, marking, path, found, cycle, open, returned>>
    BY <1>4 DEF CheckRoot, n
  <2>2. Legs' = Legs /\ VisitedNodes' = VisitedNodes
    BY <2>1, SameLegs DEF VisitedNodes
  <2>3. CycleTypeOK'
    BY <1>1, <1>2, <2>1 DEF CycleTypeOK
  <2>4. PathRight(path)' /\ MarksRight'
    BY <2>1, <2>2 DEF PathRight, MarksRight, LegsFrom
  <2>5. VisitedRight'
    BY <2>2 DEF VisitedRight, ClosedSet, OnCycle
  <2>6. RestRight'
    BY <1>2, <1>4, <2>1 DEF RestRight
  <2>7. CollectedRight'
    BY <1>1, <2>1, SameCollected
  <2> QED BY <1>1, <2>1, <2>2, <2>3, <2>4, <2>5, <2>6, <2>7 DEF FoundRight, ReturnedRight
<1> QED BY <1>3, <1>4

(* The followed connection leaves the innermost node.                      *)
LEMMA FollowedRight ==
  ASSUME CycleInv, Following
  PROVE  /\ ~ found /\ path # <<>> /\ returned = "none"
         /\ Len(path) \in Nat /\ 1 \in 1 .. Len(path)
         /\ path[1].left # <<>>
         /\ Followed = path[1].left[1]
         /\ Followed \in Legs /\ Followed[1][1] = path[1].node
         /\ Target = path[1].left[1][2][1] /\ Target \in Node
<1>1. CycleTypeOK /\ ~ found /\ path # <<>> /\ returned = "none" /\ Top.left # <<>>
  BY DEF CycleInv, Following, Searching
<1>2. Len(path) \in Nat /\ 1 \in 1 .. Len(path) /\ Top = path[1] /\ path[1] \in Frame
  BY <1>1, Beheaded DEF CycleTypeOK, Top
<1>3. /\ path[1].left \in Seq(Connection)
      /\ Followed = path[1].left[1]
      /\ path[1].left[1] \in Range(path[1].left)
  BY <1>1, <1>2, Beheaded DEF Frame, Followed
<1>4. path[1].left[1] \in LegsFrom(path[1].node)
  BY <1>2, <1>3 DEF CycleInv, PathRight
<1>5. Followed \in Legs /\ Followed[1][1] = path[1].node
  BY <1>3, <1>4 DEF LegsFrom
<1>6. Target \in Node
  BY <1>1, <1>5, LegsTyped DEF Target, CycleTypeOK
<1> QED BY <1>1, <1>2, <1>3, <1>5, <1>6 DEF Target

LEMMA DescendRight ==
  ASSUME CycleInv, Descend
  PROVE  CycleInv'
<1>1. Following /\ Searching /\ marking[Target] = "unmarked" /\ Enter(Target)
      /\ UNCHANGED <<check, waiting, found, cycle, open, returned>>
  BY DEF Descend, Following
<1>2. path[1].left # <<>> /\ Target = path[1].left[1][2][1] /\ Target \in Node
  BY <1>1, FollowedRight
<1>3. waiting' \in Seq(Node)
  BY <1>1 DEF CycleInv, CycleTypeOK
<1> QED BY <1>1, <1>2, <1>3, EnterRight

(* A frame whose followed connection led to a visited node advances.       *)
LEMMA AdvancedMarks ==
  ASSUME check \in Checks, marking \in [Node -> {"unmarked", "marked", "visited"}],
         NEW s \in Seq(Frame), PathRight(s), s # <<>>, s[1].left # <<>>,
         marking[s[1].left[1][2][1]] = "visited",
         NEW k \in 1 .. Len(s), NEW e \in LegsFrom(s[k].node),
         e \in Range(s[k].left) \/ marking[e[2][1]] = "visited"
  PROVE  /\ Advanced(s)[k].node = s[k].node
         /\ e \in Range(Advanced(s)[k].left) \/ marking[e[2][1]] = "visited"
<1> DEFINE a == Advanced(s)
<1>1. /\ Len(s) \in Nat
      /\ a[k].node = s[k].node
      /\ \A j \in 2 .. Len(s) : a[j] = s[j]
      /\ Range(s[1].left) = {s[1].left[1]} \cup Range(a[1].left)
  BY AdvancedRight, LenProperties
<1> HIDE DEF a
<1>2. CASE k = 1
  BY <1>1, <1>2 DEF a
<1>3. CASE k # 1
  <2>1. a[k] = s[k]
    BY <1>1, <1>3
  <2> QED BY <1>1, <2>1 DEF a
<1> QED BY <1>2, <1>3

LEMMA PruneRight ==
  ASSUME CycleInv, Prune
  PROVE  CycleInv'
<1> USE DEF CycleInv
<1>1. /\ Following /\ marking[Target] = "visited" /\ path' = Advanced(path)
      /\ UNCHANGED <<check, marking, waiting, found, cycle, open, returned>>
  BY DEF Prune
<1>2. /\ ~ found /\ path # <<>> /\ returned = "none" /\ path[1].left # <<>>
      /\ Target = path[1].left[1][2][1]
  BY <1>1, FollowedRight
<1>3. CycleTypeOK /\ Legs' = Legs /\ VisitedNodes' = VisitedNodes
  BY <1>1, SameLegs DEF VisitedNodes
<1>4. /\ path' \in Seq(Frame) /\ Len(path') = Len(path) /\ PathRight(path')
      /\ \A k \in 1 .. Len(path) : path'[k].node = path[k].node
  BY <1>1, <1>2, <1>3, AdvancedRight DEF CycleTypeOK
<1>5. CycleTypeOK'
  BY <1>1, <1>3, <1>4 DEF CycleTypeOK
<1>6. PathRight(path)'
  BY <1>3, <1>4 DEF PathRight, LegsFrom
<1>7. MarksRight'
  <2>1. \A n \in Node : marking[n] = "marked" <=> \E k \in 1 .. Len(path') : path'[k].node = n
    BY <1>2, <1>4 DEF MarksRight
  <2>2. ASSUME NEW k \in 1 .. Len(path'), NEW e \in LegsFrom(path'[k].node)
        PROVE  e \in Range(path'[k].left) \/ marking[e[2][1]] = "visited"
    <3>1. k \in 1 .. Len(path) /\ e \in LegsFrom(path[k].node)
      BY <1>4, <2>2
    <3>2. e \in Range(path[k].left) \/ marking[e[2][1]] = "visited"
      BY <1>2, <3>1 DEF MarksRight
    <3>3. /\ check \in Checks /\ marking \in [Node -> {"unmarked", "marked", "visited"}]
          /\ path \in Seq(Frame) /\ marking[path[1].left[1][2][1]] = "visited"
      BY <1>1, <1>2, <1>3 DEF CycleTypeOK
    <3> QED BY <1>1, <1>2, <3>1, <3>2, <3>3, AdvancedMarks
  <2> QED BY <1>1, <1>3, <2>1, <2>2 DEF MarksRight, LegsFrom
<1>8. VisitedRight' /\ RestRight'
  BY <1>1, SameMarks
<1>9. CollectedRight'
  BY <1>1, <1>2, SameCollected
<1> QED BY <1>1, <1>2, <1>3, <1>5, <1>6, <1>7, <1>8, <1>9 DEF FoundRight, ReturnedRight

(* A path leads from each of its nodes to the innermost one.               *)
LEMMA PathReaches ==
  ASSUME path \in Seq(Frame), PathRight(path), path # <<>>, NEW j \in 1 .. Len(path),
         NEW S \in SUBSET Node, ClosedSet(S), path[j].node \in S
  PROVE  path[1].node \in S
<1>1. Len(path) \in Nat
  BY LenProperties
<1> DEFINE T == {k \in 1 .. Len(path) : path[k].node \in S}
<1>2. T \subseteq Nat /\ j \in T
  BY <1>1
<1>3. PICK m \in T : \A k \in T : m <= k
  <2> HIDE DEF T
  <2> QED BY <1>2, LeastNumber
<1>4. ASSUME m # 1 PROVE FALSE
  <2>1. m \in 2 .. Len(path) /\ m - 1 \in 1 .. Len(path) /\ ~(m <= m - 1)
    BY <1>1, <1>4
  <2>2. /\ path[m].left # <<>> /\ path[m].left[1][2][1] = path[m - 1].node
        /\ Range(path[m].left) \subseteq LegsFrom(path[m].node)
    BY <2>1 DEF PathRight
  <2>3. path[m].left \in Seq(Connection)
    <3>1. m \in 1 .. Len(path)
      BY <2>1
    <3>2. path[m] \in Frame
      BY <3>1, ElementOfSeq
    <3> QED BY <3>2 DEF Frame
  <2>4. path[m].left[1] \in LegsFrom(path[m].node)
    BY <2>2, <2>3, Beheaded
  <2>5. path[m - 1].node \in S
    BY <1>3, <2>2, <2>4 DEF LegsFrom, ClosedSet
  <2>6. m - 1 \in T
    BY <2>1, <2>5
  <2> QED BY <1>3, <2>1, <2>6
<1> QED BY <1>3, <1>4

(* A connection to a node of the path closes a cycle.                      *)
LEMMA MeetRight ==
  ASSUME CycleInv, Meet
  PROVE  CycleInv'
<1> USE DEF CycleInv
<1>1. /\ Following /\ marking[Target] = "marked" /\ found' = TRUE
      /\ UNCHANGED <<check, marking, waiting, path, cycle, open, returned>>
  BY DEF Meet
<1>2. /\ ~ found /\ path # <<>> /\ returned = "none" /\ path[1].left # <<>>
      /\ Followed \in Legs /\ Followed[1][1] = path[1].node
      /\ Target = path[1].left[1][2][1] /\ Target \in Node
  BY <1>1, FollowedRight
<1>3. CycleTypeOK /\ Legs' = Legs
  BY <1>1, SameLegs
<1>4. PICK j \in 1 .. Len(path) : path[j].node = Target
  BY <1>1, <1>2 DEF MarksRight
<1>5. OnCycle(Followed)
  <2> SUFFICES ASSUME NEW S \in SUBSET Node, Target \in S, ClosedSet(S)
               PROVE  path[1].node \in S
    BY <1>2 DEF OnCycle, Target
  <2>1. path \in Seq(Frame) /\ PathRight(path)
    BY <1>3 DEF CycleTypeOK
  <2> QED BY <1>2, <1>4, <2>1, PathReaches
<1>6. FoundRight'
  BY <1>2, <1>3, <1>5 DEF FoundRight, OnCycle, ClosedSet
<1>7. CycleTypeOK' /\ PathRight(path)' /\ MarksRight' /\ ReturnedRight'
  BY <1>1, <1>2, <1>3 DEF CycleTypeOK, PathRight, LegsFrom, MarksRight, ReturnedRight
<1>8. CollectedRight'
  <2>1. cycle = <<>> /\ open /\ Len(cycle) = 0
    BY <1>2 DEF CollectedRight
  <2>2. OpenRight
    BY <1>2, <1>4, <2>1 DEF OpenRight
  <2> QED BY <1>1, <1>3, <2>1, <2>2 DEF CollectedRight, ChainRight, OpenRight
<1>9. VisitedRight' /\ RestRight'
  BY <1>1, SameMarks
<1> QED BY <1>6, <1>7, <1>8, <1>9

(* A node from which no cycle was found is left.                           *)
LEMMA LeaveRight ==
  ASSUME CycleInv, Leave
  PROVE  CycleInv'
<1> USE DEF CycleInv
<1> DEFINE n == path[1].node
           q == Tail(path)
<1>1. /\ path # <<>> /\ ~ found /\ returned = "none" /\ Top.left = <<>>
      /\ marking' = Visited(Top.node) /\ path' = Advanced(Tail(path))
      /\ UNCHANGED <<check, waiting, found, cycle, open, returned>>
  BY DEF Leave, Searching
<1>2. CycleTypeOK /\ Legs' = Legs /\ check \in Checks
  BY <1>1, SameLegs DEF CycleTypeOK
<1>3. /\ Len(path) \in Nat /\ Len(path) >= 1 /\ Top = path[1] /\ path[1] \in Frame
      /\ q \in Seq(Frame) /\ Len(q) = Len(path) - 1
      /\ \A k \in 1 .. Len(path) - 1 : q[k] = path[k + 1]
      /\ PathRight(q)
  BY <1>1, Beheaded, TailRight DEF CycleTypeOK, Top
<1>4. n \in Node /\ path[1].left = <<>> /\ 1 \in 1 .. Len(path) /\ marking' = Visited(n)
  BY <1>1, <1>3 DEF Frame
<1> HIDE DEF n, q
<1>5. marking[n] = "marked"
  BY <1>1, <1>4 DEF MarksRight, n
<1>6. /\ marking' \in [Node -> {"unmarked", "marked", "visited"}]
      /\ marking'[n] = "visited"
      /\ \A m \in Node : m # n => marking'[m] = marking[m]
  BY <1>2, <1>4 DEF Visited, CycleTypeOK
<1>7. \A k \in 1 .. Len(q) : q[k] = path[k + 1] /\ k + 1 \in 2 .. Len(path) /\ q[k].node # n
  <2> SUFFICES ASSUME NEW k \in 1 .. Len(q)
               PROVE  q[k] = path[k + 1] /\ k + 1 \in 2 .. Len(path) /\ q[k].node # n
    OBVIOUS
  <2>1. q[k] = path[k + 1] /\ k + 1 \in 2 .. Len(path) /\ k + 1 \in 1 .. Len(path) /\ k + 1 # 1
    BY <1>3
  <2>2. path[k + 1].node # path[1].node
    BY <1>4, <2>1 DEF PathRight
  <2> QED BY <2>1, <2>2 DEF n
<1>8. \A e \in LegsFrom(n) : marking[e[2][1]] = "visited"
  BY <1>1, <1>4 DEF MarksRight, Range, n
<1>9. /\ path' \in Seq(Frame) /\ Len(path') = Len(q) /\ PathRight(path')
      /\ \A k \in 1 .. Len(q) : path'[k].node = q[k].node
      /\ \A k \in 1 .. Len(q) : \A e \in LegsFrom(q[k].node) :
           e \in Range(path'[k].left) \/ marking'[e[2][1]] = "visited"
  <2>1. path' = Advanced(q)
    BY <1>1 DEF q
  <2>2. CASE q = <<>>
    <3>1. path' = <<>> /\ Len(q) = 0
      BY <2>1, <2>2 DEF Advanced
    <3>2. path' \in Seq(Frame) /\ PathRight(path')
      BY <1>3, <2>2, <3>1
    <3>3. \A k \in 1 .. Len(q) : FALSE
      BY <3>1
    <3> QED BY <2>2, <3>1, <3>2, <3>3
  <2>3. CASE q # <<>>
    <3>1. Len(q) >= 1 /\ 1 \in 1 .. Len(q)
      BY <1>3, <2>3, EmptySeq
    <3>2. q[1].left # <<>> /\ q[1].left[1][2][1] = n
      <4>1. q[1] = path[2] /\ 2 \in 2 .. Len(path) /\ 2 - 1 = 1
        BY <1>7, <3>1
      <4> QED BY <4>1 DEF PathRight, n
    <3>3. /\ path' \in Seq(Frame) /\ Len(path') = Len(q) /\ PathRight(path')
          /\ \A k \in 1 .. Len(q) : path'[k].node = q[k].node
          /\ \A k \in 2 .. Len(q) : path'[k] = q[k]
          /\ Range(q[1].left) = {q[1].left[1]} \cup Range(path'[1].left)
      BY <1>2, <1>3, <2>1, <2>3, <3>2, AdvancedRight
    <3>4. ASSUME NEW k \in 1 .. Len(q), NEW e \in LegsFrom(q[k].node)
          PROVE  e \in Range(path'[k].left) \/ marking'[e[2][1]] = "visited"
      <4>1. e \in Range(q[k].left) \/ marking[e[2][1]] = "visited"
        <5>1. q[k] = path[k + 1] /\ k + 1 \in 1 .. Len(path)
          BY <1>3, <1>7
        <5> QED BY <1>1, <3>4, <5>1 DEF MarksRight
      <4>2. e[2][1] \in Node
        BY <1>2, <3>4, LegsTyped DEF LegsFrom
      <4>3. marking[e[2][1]] = "visited" => marking'[e[2][1]] = "visited"
        BY <1>6, <4>2
      <4>4. CASE k = 1
        BY <1>6, <3>2, <3>3, <4>1, <4>3, <4>4
      <4>5. CASE k # 1
        <5>1. path'[k] = q[k]
          BY <1>3, <3>3, <4>5
        <5> QED BY <4>1, <4>3, <5>1
      <4> QED BY <4>4, <4>5
    <3> QED BY <3>3, <3>4
  <2> QED BY <2>2, <2>3
<1>10. CycleTypeOK'
  BY <1>1, <1>2, <1>6, <1>9 DEF CycleTypeOK
<1>11. PathRight(path)'
  BY <1>2, <1>9 DEF PathRight, LegsFrom
<1>12. MarksRight'
  <2>1. ASSUME NEW m \in Node
        PROVE  marking'[m] = "marked" <=> \E k \in 1 .. Len(path') : path'[k].node = m
    <3>1. CASE m = n
      BY <1>6, <1>7, <1>9, <3>1
    <3>2. CASE m # n
      <4>1. marking'[m] = "marked" <=> \E k \in 1 .. Len(path) : path[k].node = m
        BY <1>1, <1>6, <3>2 DEF MarksRight
      <4>2. ASSUME NEW k \in 1 .. Len(path), path[k].node = m
            PROVE  \E j \in 1 .. Len(q) : q[j].node = m
        <5>1. k # 1
          BY <3>2, <4>2 DEF n
        <5>2. k - 1 \in 1 .. Len(q) /\ (k - 1) + 1 = k
          BY <1>3, <5>1
        <5> QED BY <1>7, <4>2, <5>2
      <4>3. ASSUME NEW j \in 1 .. Len(q), q[j].node = m
            PROVE  \E k \in 1 .. Len(path) : path[k].node = m
        <5>1. q[j] = path[j + 1] /\ j + 1 \in 1 .. Len(path)
          BY <1>3, <1>7
        <5> QED BY <4>3, <5>1
      <4> QED BY <1>9, <4>1, <4>2, <4>3
    <3> QED BY <3>1, <3>2
  <2>2. ASSUME NEW k \in 1 .. Len(path'), NEW e \in LegsFrom(path'[k].node)
        PROVE  e \in Range(path'[k].left) \/ marking'[e[2][1]] = "visited"
    BY <1>9
  <2> QED BY <1>2, <2>1, <2>2 DEF MarksRight, LegsFrom
<1>13. VisitedNodes' = VisitedNodes \cup {n} /\ n \notin VisitedNodes
  BY <1>4, <1>5, <1>6 DEF VisitedNodes
<1>14. ASSUME NEW e \in Legs, e[1][1] = n PROVE e[2][1] \in VisitedNodes
  <2>1. e[2][1] \in Node
    BY <1>2, LegsTyped
  <2> QED BY <1>8, <1>14, <2>1 DEF VisitedNodes, LegsFrom
<1>15. VisitedRight'
  <2>1. ClosedSet(VisitedNodes \cup {n})
    BY <1>14 DEF VisitedRight, ClosedSet
  <2>2. ASSUME NEW e \in Legs, e[1][1] = n PROVE ~ OnCycle(e)
    <3>1. VisitedNodes \in SUBSET Node /\ ClosedSet(VisitedNodes)
      BY DEF VisitedNodes, VisitedRight
    <3> QED BY <1>13, <1>14, <2>2, <3>1 DEF OnCycle
  <2>3. \A e \in Legs : e[1][1] \in VisitedNodes \cup {n} => ~ OnCycle(e)
    BY <2>2 DEF VisitedRight
  <2> QED BY <1>2, <1>13, <2>1, <2>3 DEF VisitedRight, ClosedSet, OnCycle
<1>16. RestRight'
  BY <1>1, <1>6 DEF RestRight
<1>17. CollectedRight'
  BY <1>1, SameCollected
<1> QED BY <1>1, <1>2, <1>10, <1>11, <1>12, <1>15, <1>16, <1>17 DEF FoundRight, ReturnedRight

(* On the way back the connection of each frame is collected until the     *)
(* node that was met is left.                                              *)
LEMMA CollectedStep ==
  ASSUME CycleInv, Unwind, open
  PROVE  /\ ChainRight'
         /\ open' => OpenRight'
         /\ cycle' \in Seq(Connection) /\ cycle' # <<>>
         /\ open' = ~ EndsClosed(cycle')
<1> USE DEF CycleInv
<1> DEFINE f == path[1].left[1]
           c == cycle
           n == Len(cycle)
<1>1. /\ found /\ path # <<>> /\ cycle' = Append(cycle, Followed)
      /\ open' = ~ EndsClosed(cycle') /\ path' = Tail(path)
      /\ UNCHANGED <<check, marking, waiting, found, returned>>
  BY DEF Unwind
<1>2. CycleTypeOK /\ OpenRight /\ ChainRight /\ Legs' = Legs
  BY <1>1, SameLegs DEF CollectedRight
<1>3. /\ Len(path) \in Nat /\ Len(path) >= 1 /\ Top = path[1] /\ path[1] \in Frame
      /\ Len(path') = Len(path) - 1
      /\ \A k \in 1 .. Len(path) - 1 : path'[k] = path[k + 1]
  BY <1>1, <1>2, Beheaded DEF CycleTypeOK, Top
<1>4. /\ path[1].left \in Seq(Connection) /\ path[1].left # <<>>
      /\ Followed = f /\ f \in Range(path[1].left) /\ f \in Connection
  <2>1. path[1].left \in Seq(Connection) /\ path[1].left # <<>>
    BY <1>2, <1>3 DEF Frame, OpenRight
  <2> QED BY <1>3, <2>1, Beheaded DEF Followed
<1>5. f \in Legs /\ f[1][1] = path[1].node
  BY <1>3, <1>4 DEF PathRight, LegsFrom
<1>6. /\ n \in Nat /\ cycle' \in Seq(Connection) /\ cycle' # <<>>
      /\ Len(cycle') = n + 1 /\ cycle'[n + 1] = f
      /\ \A k \in 1 .. n : cycle'[k] = c[k]
  BY <1>1, <1>2, <1>4, AppendProperties, LenProperties DEF CycleTypeOK
<1>7. Range(cycle') \subseteq Legs
  <2>1. DOMAIN cycle' = 1 .. n + 1 /\ DOMAIN c = 1 .. n
    BY <1>2, <1>6, LenProperties DEF CycleTypeOK
  <2>2. ASSUME NEW k \in 1 .. n + 1 PROVE cycle'[k] \in Legs
    <3>1. CASE k = n + 1
      BY <1>5, <1>6, <3>1
    <3>2. CASE k # n + 1
      <4>1. k \in 1 .. n
        BY <1>6, <3>2
      <4> QED BY <1>2, <1>6, <2>1, <4>1 DEF ChainRight, Range
    <3> QED BY <3>1, <3>2
  <2> QED BY <2>1, <2>2 DEF Range
<1>8. c # <<>> => n >= 1 /\ f[2][1] = c[n][1][1]
  BY <1>2, <1>6, EmptySeq DEF OpenRight, CycleTypeOK
<1>9. c = <<>> => n = 0
  OBVIOUS
<1> DEFINE met == cycle'[1][2][1]
<1>10. /\ c # <<>> => met = c[1][2][1]
       /\ c = <<>> => met = f[2][1]
       /\ \E i \in 1 .. Len(path) : path[i].node = met
  <2>1. CASE c = <<>>
    BY <1>2, <1>6, <1>9, <2>1 DEF OpenRight
  <2>2. CASE c # <<>>
    <3>1. 1 \in 1 .. n /\ cycle'[1] = c[1]
      BY <1>6, <1>8, <2>2
    <3> QED BY <1>2, <2>2, <3>1 DEF OpenRight
  <2> QED BY <2>1, <2>2
<1> HIDE DEF f, c, n, met
<1>11. \A k \in 1 .. (n + 1) - 1 : cycle'[k][1][1] = cycle'[k + 1][2][1]
  <2> SUFFICES ASSUME NEW k \in 1 .. n PROVE cycle'[k][1][1] = cycle'[k + 1][2][1]
    BY <1>6
  <2>1. CASE k = n
    <3>1. c # <<>>
      BY <1>6, <1>9, <2>1
    <3> QED BY <1>6, <1>8, <2>1, <3>1
  <2>2. CASE k # n
    <3>1. k \in 1 .. n - 1 /\ k + 1 \in 1 .. n
      BY <1>6, <2>2
    <3> QED BY <1>2, <1>6, <3>1 DEF ChainRight, c, n
  <2> QED BY <2>1, <2>2
<1>12. /\ \A j, k \in 1 .. n + 1 : cycle'[j][1][1] = cycle'[k][1][1] => j = k
       /\ \A k \in 1 .. n + 1, i \in 1 .. Len(path') : cycle'[k][1][1] # path'[i].node
  <2>1. \A k \in 1 .. n, i \in 1 .. Len(path) : c[k][1][1] # path[i].node
    BY <1>2 DEF OpenRight, c, n
  <2>2. \A k \in 1 .. n + 1 : k # n + 1 => k \in 1 .. n
    BY <1>6
  <2>3. 1 \in 1 .. Len(path)
    BY <1>3
  <2>4. ASSUME NEW j \in 1 .. n + 1, NEW k \in 1 .. n + 1, cycle'[j][1][1] = cycle'[k][1][1]
        PROVE  j = k
    <3>1. CASE j = n + 1 \/ k = n + 1
      BY <1>5, <1>6, <2>1, <2>2, <2>3, <2>4, <3>1
    <3>2. CASE j # n + 1 /\ k # n + 1
      <4>1. j \in 1 .. n /\ k \in 1 .. n /\ c[j][1][1] = c[k][1][1]
        BY <1>6, <2>2, <2>4, <3>2
      <4> QED BY <1>2, <4>1 DEF OpenRight, c, n
    <3> QED BY <3>1, <3>2
  <2>5. ASSUME NEW k \in 1 .. n + 1, NEW i \in 1 .. Len(path') PROVE cycle'[k][1][1] # path'[i].node
    <3>1. path'[i] = path[i + 1] /\ i + 1 \in 1 .. Len(path) /\ i + 1 # 1
      BY <1>3
    <3>2. path[i + 1].node # path[1].node
      BY <2>3, <3>1 DEF PathRight
    <3>3. CASE k = n + 1
      BY <1>5, <1>6, <3>1, <3>2, <3>3
    <3>4. CASE k # n + 1
      BY <1>6, <2>1, <2>2, <3>1, <3>4
    <3> QED BY <3>3, <3>4
  <2> QED BY <2>4, <2>5
<1>13. c # <<>> => c[n][1][1] # met
  <2> SUFFICES ASSUME c # <<>>, c[n][1][1] = met PROVE FALSE
    OBVIOUS
  <2>1. PICK i \in 1 .. Len(path) : path[i].node = met
    BY <1>10
  <2>2. n \in 1 .. n
    BY <1>6, <1>8
  <2> QED BY <1>2, <2>1, <2>2 DEF OpenRight, c, n
<1>14. ASSUME NEW j \in 1 .. n + 1, NEW k \in 1 .. n + 1, j < k,
              cycle'[j][2][1] = cycle'[k][2][1]
       PROVE  FALSE
  <2>1. j \in 1 .. n
    BY <1>6, <1>14
  <2>2. c # <<>>
    BY <1>9, <2>1
  <2>3. CASE k # n + 1
    <3>1. k \in 1 .. n
      BY <1>6, <2>3
    <3>2. c[j][2][1] = c[k][2][1] /\ j # k
      BY <1>6, <1>14, <2>1, <3>1
    <3> QED BY <1>2, <2>1, <3>1, <3>2 DEF ChainRight, c, n
  <2>4. CASE k = n + 1
    <3>1. c[j][2][1] = c[n][1][1]
      BY <1>6, <1>8, <1>14, <2>1, <2>2, <2>4
    <3>2. CASE j = 1
      BY <1>10, <1>13, <2>2, <3>1, <3>2
    <3>3. CASE j # 1
      <4>1. j - 1 \in 1 .. n - 1 /\ (j - 1) + 1 = j /\ j - 1 \in 1 .. n /\ n \in 1 .. n /\ j - 1 # n
        BY <1>6, <2>1, <3>3
      <4>2. c[j - 1][1][1] = c[j][2][1]
        BY <1>2, <4>1 DEF ChainRight, c, n
      <4> QED BY <1>2, <3>1, <4>1, <4>2 DEF OpenRight, c, n
    <3> QED BY <3>2, <3>3
  <2> QED BY <2>3, <2>4
<1>15. \A j, k \in 1 .. n + 1 : cycle'[j][2][1] = cycle'[k][2][1] => j = k
  <2> SUFFICES ASSUME NEW j \in 1 .. n + 1, NEW k \in 1 .. n + 1,
                      cycle'[j][2][1] = cycle'[k][2][1], j # k
               PROVE  FALSE
    OBVIOUS
  <2>1. j < k \/ k < j
    BY <1>6
  <2> QED BY <1>14, <2>1
<1>16. ChainRight'
  BY <1>2, <1>6, <1>7, <1>11, <1>15 DEF ChainRight
<1>17. EndsClosed(cycle') <=> met = path[1].node
  <2>1. Head(cycle') = cycle'[1]
    OBVIOUS
  <2>2. Last(cycle') = f
    BY <1>6 DEF Last
  <2> QED BY <1>5, <2>1, <2>2 DEF EndsClosed, met
<1>18. ASSUME open' PROVE OpenRight'
  <2>1. met # path[1].node
    BY <1>1, <1>17, <1>18
  <2>2. PICK i \in 1 .. Len(path) : path[i].node = met
    BY <1>10
  <2>3. i # 1 /\ i - 1 \in 1 .. Len(path') /\ (i - 1) + 1 = i
    BY <1>3, <2>1, <2>2
  <2>4. path'[i - 1].node = met
    BY <1>3, <2>2, <2>3
  <2>5. path' # <<>> /\ 2 \in 2 .. Len(path) /\ 1 \in 1 .. Len(path) - 1 /\ 2 - 1 = 1 /\ 1 + 1 = 2
    BY <1>3, <2>3
  <2>6. path'[1] = path[2]
    BY <1>3, <2>5
  <2>7. path'[1].left # <<>> /\ path'[1].left[1][2][1] = path[1].node
    BY <2>5, <2>6 DEF PathRight
  <2>8. path'[1].left[1][2][1] = cycle'[Len(cycle')][1][1]
    BY <1>5, <1>6, <2>7
  <2> QED BY <1>6, <1>12, <2>3, <2>4, <2>5, <2>7, <2>8 DEF OpenRight, met
<1> QED BY <1>1, <1>6, <1>16, <1>18

LEMMA UnwindRight ==
  ASSUME CycleInv, Unwind
  PROVE  CycleInv'
<1> USE DEF CycleInv
<1>1. /\ found /\ path # <<>> /\ path' = Tail(path)
      /\ UNCHANGED <<check, marking, waiting, found, returned>>
  BY DEF Unwind
<1>2. CycleTypeOK /\ Legs' = Legs /\ path \in Seq(Frame)
  BY <1>1, SameLegs DEF CycleTypeOK
<1>3. path' \in Seq(Frame) /\ PathRight(path')
  BY <1>1, <1>2, TailRight, Beheaded
<1>4. cycle' \in Seq(Connection) /\ open' \in BOOLEAN /\ CollectedRight'
  <2>1. CASE open
    <3>1. /\ ChainRight' /\ (open' => OpenRight')
          /\ cycle' \in Seq(Connection) /\ cycle' # <<>> /\ open' = ~ EndsClosed(cycle')
      <4> HIDE DEF CycleInv
      <4> QED BY <2>1, CollectedStep
    <3>2. open' \in BOOLEAN
      BY <3>1
    <3>3. ~ open' => EndsClosed(cycle')
      BY <3>1
    <3> QED BY <1>1, <3>1, <3>2, <3>3 DEF CollectedRight, EndsClosed
  <2>2. CASE ~ open
    <3>1. UNCHANGED <<cycle, open>>
      BY <2>2 DEF Unwind
    <3>2. ChainRight' /\ cycle # <<>> /\ EndsClosed(cycle)
      BY <1>2, <2>2, <3>1 DEF CollectedRight, ChainRight
    <3> QED BY <1>1, <1>2, <2>2, <3>1, <3>2 DEF CollectedRight, CycleTypeOK, EndsClosed
  <2> QED BY <2>1, <2>2
<1>5. CycleTypeOK'
  BY <1>1, <1>2, <1>3, <1>4 DEF CycleTypeOK
<1>6. PathRight(path)'
  BY <1>2, <1>3 DEF PathRight, LegsFrom
<1>7. MarksRight' /\ ReturnedRight'
  BY <1>1, <1>2 DEF MarksRight, ReturnedRight, CycleTypeOK
<1>8. VisitedRight' /\ RestRight'
  BY <1>1, SameMarks
<1>9. FoundRight'
  BY <1>1, <1>2 DEF FoundRight, OnCycle, ClosedSet
<1> QED BY <1>4, <1>5, <1>6, <1>7, <1>8, <1>9

(* When it returns without a cycle, all nodes have been visited: the       *)
(* unmarked nodes that the code expects then do not exist, since the       *)
(* search starts at every node.                                            *)
LEMMA ReturnRight ==
  ASSUME CycleInv, ReturnFound \/ ReturnUnfound
  PROVE  CycleInv'
<1> USE DEF CycleInv
<1>1. /\ returned = "none" /\ path = <<>>
      /\ UNCHANGED <<check, marking, waiting, path, found, cycle, open>>
  BY DEF ReturnFound, ReturnUnfound, Return
<1>2. CycleTypeOK /\ Legs' = Legs /\ VisitedNodes' = VisitedNodes
  BY <1>1, SameLegs DEF VisitedNodes
<1>3. returned' \in {"acyclic", "cycle"} /\ (returned' = "cycle" => found)
      /\ (returned' = "acyclic" => ~ found /\ VisitedNodes = Node)
  <2>1. CASE ReturnFound
    BY <2>1 DEF ReturnFound, Return
  <2>2. CASE ReturnUnfound
    <3>1. ~ found /\ waiting = <<>>
      BY <2>2 DEF ReturnUnfound
    <3>2. Range(waiting) = {} /\ Len(path) = 0
      BY <1>1, <3>1 DEF Range
    <3>3. \A n \in Node : marking[n] # "unmarked" /\ marking[n] # "marked"
      BY <3>1, <3>2 DEF RestRight, MarksRight
    <3>4. VisitedNodes = Node
      BY <1>2, <3>3 DEF VisitedNodes, CycleTypeOK
    <3>5. returned' = "acyclic"
      BY <2>2, <3>3 DEF ReturnUnfound, Return
    <3> QED BY <3>1, <3>4, <3>5
  <2> QED BY <2>1, <2>2
<1>4. CycleTypeOK'
  BY <1>1, <1>2, <1>3 DEF CycleTypeOK
<1>5. PathRight(path)' /\ MarksRight'
  BY <1>1, <1>2 DEF PathRight, LegsFrom, MarksRight
<1>6. VisitedRight' /\ RestRight'
  BY <1>1, SameMarks
<1>7. CollectedRight'
  BY <1>1, <1>2 DEF CollectedRight, ChainRight, OpenRight, EndsClosed
<1>8. FoundRight' /\ ReturnedRight'
  BY <1>1, <1>2, <1>3 DEF FoundRight, ReturnedRight, OnCycle, ClosedSet
<1> QED BY <1>4, <1>5, <1>6, <1>7, <1>8

LEMMA CycleStep ==
  CycleInv /\ [CycleNext]_cycleVars => CycleInv'
<1> SUFFICES ASSUME CycleInv, [CycleNext]_cycleVars PROVE CycleInv'
  OBVIOUS
<1>1. CASE UNCHANGED cycleVars
  <2> USE DEF CycleInv
  <2>1. /\ UNCHANGED <<check, marking, waiting, path, found, cycle, open, returned>>
        /\ Legs' = Legs /\ VisitedNodes' = VisitedNodes
    BY <1>1, SameLegs DEF cycleVars, VisitedNodes
  <2>2. CycleTypeOK' /\ PathRight(path)' /\ MarksRight'
    BY <2>1 DEF CycleTypeOK, PathRight, LegsFrom, MarksRight
  <2>3. VisitedRight' /\ RestRight'
    BY <2>1, SameMarks
  <2>4. CollectedRight'
    BY <2>1 DEF CollectedRight, ChainRight, OpenRight, EndsClosed
  <2>5. FoundRight' /\ ReturnedRight'
    BY <2>1 DEF FoundRight, ReturnedRight, OnCycle, ClosedSet
  <2> QED BY <2>2, <2>3, <2>4, <2>5
<1> QED BY <1>1, CheckRootRight, DescendRight, PruneRight, MeetRight, LeaveRight, UnwindRight,
           ReturnRight DEF CycleNext

-----------------------------------------------------------------------------
(* What the invariant says of the search                                   *)

LEMMA InvDecides ==
  ASSUME CycleInv, returned # "none"
  PROVE  returned = "cycle" <=> \E e \in Legs : OnCycle(e)
<1> USE DEF CycleInv
<1>1. CASE returned = "cycle"
  BY <1>1 DEF ReturnedRight, FoundRight
<1>2. CASE returned = "acyclic"
  <2>1. VisitedNodes = Node
    BY <1>2 DEF ReturnedRight
  <2>2. \A e \in Legs : ~ OnCycle(e)
    BY <2>1, LegsTyped DEF VisitedRight, CycleTypeOK
  <2> QED BY <1>2, <2>2
<1> QED BY <1>1, <1>2 DEF CycleTypeOK

LEMMA InvSearchRight ==
  CycleInv => SearchRight
<1> SUFFICES ASSUME CycleInv PROVE SearchRight
  OBVIOUS
<1>1. check \in Checks /\ path \in Seq(Frame) /\ cycle \in Seq(Connection)
  BY DEF CycleInv, CycleTypeOK
<1>2. DOMAIN path = 1 .. Len(path) /\ DOMAIN cycle = 1 .. Len(cycle)
  BY <1>1, LenProperties
<1>3. Decided
  BY <1>1, InvDecides, CyclesReached DEF Decided
<1>4. CycleReturned
  <2> SUFFICES ASSUME returned = "cycle"
               PROVE  /\ cycle # <<>>
                      /\ Range(cycle) \subseteq Legs
                      /\ EndsClosed(cycle)
                      /\ \A k \in 1 .. Len(cycle) - 1 : cycle[k][1][1] = cycle[k + 1][2][1]
                      /\ \A j, k \in DOMAIN cycle : cycle[j][2][1] = cycle[k][2][1] => j = k
    BY DEF CycleReturned
  <2>1. found /\ path = <<>>
    BY DEF CycleInv, ReturnedRight
  <2>2. ~ open
    BY <2>1 DEF CycleInv, CollectedRight, OpenRight
  <2> QED BY <1>2, <2>2 DEF CycleInv, CollectedRight, ChainRight
<1>5. VisitedSafe
  BY <1>1, LegsTyped DEF CycleInv, VisitedRight, ClosedSet, VisitedNodes, VisitedSafe
<1>6. MarkedOnPath
  <2> SUFFICES ASSUME ~ found
               PROVE  /\ {n \in Node : marking[n] = "marked"} = {path[k].node : k \in DOMAIN path}
                      /\ \A j, k \in DOMAIN path : path[j].node = path[k].node => j = k
                      /\ \A k \in 2 .. Len(path) :
                           path[k].left # <<>> /\ Head(path[k].left)[2][1] = path[k - 1].node
    BY DEF MarkedOnPath
  <2>1. \A k \in 1 .. Len(path) : path[k].node \in Node
    <3>1. \A k \in 1 .. Len(path) : path[k] \in Frame
      BY <1>1, ElementOfSeq
    <3> QED BY <3>1 DEF Frame
  <2>2. \A n \in Node : marking[n] = "marked" <=> \E k \in 1 .. Len(path) : path[k].node = n
    BY DEF CycleInv, MarksRight
  <2>3. {n \in Node : marking[n] = "marked"} = {path[k].node : k \in DOMAIN path}
    BY <1>2, <2>1, <2>2
  <2>4. \A j, k \in DOMAIN path : path[j].node = path[k].node => j = k
    BY <1>2 DEF CycleInv, PathRight
  <2>5. \A k \in 2 .. Len(path) : path[k].left # <<>> /\ path[k].left[1][2][1] = path[k - 1].node
    BY DEF CycleInv, PathRight
  <2>6. \A k \in 2 .. Len(path) : Head(path[k].left) = path[k].left[1]
    OBVIOUS
  <2> QED BY <2>3, <2>4, <2>5, <2>6
<1> QED BY <1>3, <1>4, <1>5, <1>6 DEF SearchRight

(* The cycle check is right, whatever the graph: it returns "cycle" if and *)
(* only if the graph with the new connection and without the moved one has *)
(* a cycle, what it returns is a cycle without detours, visited nodes lead *)
(* to visited nodes only, and the marked nodes are those of its path.      *)
THEOREM SearchCorrect ==
  CycleSpec => []SearchRight
<1>1. CycleInit => CycleInv
  BY CycleInitially
<1>2. CycleInv /\ [CycleNext]_cycleVars => CycleInv'
  BY CycleStep
<1>3. CycleInv => SearchRight
  BY InvSearchRight
<1> QED BY <1>1, <1>2, <1>3, PTL DEF CycleSpec

-----------------------------------------------------------------------------
(* The editor                                                              *)

PortOrNone == Port \cup {Nothing}
Opposite == (InPort \X OutPort) \cup (OutPort \X InPort)

(* Both ends know of a connection, it leads from an output to an input,    *)
(* and an input has one at most.                                           *)
WellWired(w) ==
  /\ w \in [Port -> Seq(Port)]
  /\ \A p, q \in Port : q \in Range(w[p]) =>
       /\ p \in Range(w[q])
       /\ <<p, q>> \in Opposite
  /\ \A p \in InPort : Len(w[p]) <= 1

(* The port that is dragged and what is to be moved are ends of different  *)
(* directions.                                                             *)
DragOK(d) ==
  /\ d \in [port : PortOrNone, disconnect : PortOrNone, ignore : Connection \cup {Nothing}]
  /\ d.disconnect # Nothing =>
       <<d.port, d.disconnect>> \in Opposite

(* What is left out of account is what is to be moved, during a drag of a  *)
(* port only.                                                              *)
IgnoresMoved(m, d) ==
  IF m = "port" /\ d.disconnect # Nothing
    THEN d.ignore = Sorted(d.port, d.disconnect)
    ELSE d.ignore = Nothing

DragsPort ==
  mode = "port" =>
    /\ dragged.port # Nothing
    /\ held
    /\ selectedNode = Nothing
    /\ hover.port # Nothing =>
         hover.port \in Port /\ hover = Hovering(dragged, hover.port)

EditorInv ==
  /\ WellWired(wires)
  /\ DragOK(dragged)
  /\ mode \in {"none", "navigate", "node", "port"}
  /\ selectedWire \in Connection \cup {Nothing}
  /\ IgnoresMoved(mode, dragged)
  /\ DragsPort

-----------------------------------------------------------------------------
(* Ports and connections                                                   *)

LEMMA PortsApart ==
  /\ Port = InPort \cup OutPort
  /\ InPort \cap OutPort = {}
  /\ Nothing \notin Port
  /\ \A p \in Port : p[1] \in Node
<1>1. \A t \in NodeType : PortIdx(t) = InPorts(t) \cup OutPorts(t)
  BY TypesAssumption DEF PortIdx, InPorts, OutPorts, Dir
<1>2. \A t : InPorts(t) \cap OutPorts(t) = {}
  BY DEF InPorts, OutPorts
<1>3. \A n \in Node : TypeOf[n] \in NodeType
  BY TypesAssumption
<1>4. Port = InPort \cup OutPort
  BY <1>1, <1>3 DEF Port, InPort, OutPort
<1>5. InPort \cap OutPort = {}
  BY <1>2 DEF InPort, OutPort
<1>6. ASSUME NEW p \in Port PROVE p # Nothing /\ p[1] \in Node
  <2>1. PICK n \in Node : \E i \in PortIdx(TypeOf[n]) : p = <<n, i>>
    BY DEF Port
  <2> QED BY <2>1 DEF Nothing
<1> QED BY <1>4, <1>5, <1>6

LEMMA OppositeSorted ==
  ASSUME NEW p, NEW q, <<p, q>> \in Opposite
  PROVE  /\ Sorted(p, q) \in Connection
         /\ p \in Port /\ q \in Port /\ p # q
         /\ Sorted(p, q) = <<p, q>> \/ Sorted(p, q) = <<q, p>>
         /\ \A a, b : Sorted(p, q) = <<a, b>> => {a, b} = {p, q}
BY PortsApart DEF Opposite, Sorted, Connection

(* The connections that an array of connections for each port describes    *)
WiresOf(w) == {c \in OutPort \X InPort : c[2] \in Range(w[c[1]])}

LEMMA CutWired ==
  ASSUME WellWired(wires), NEW cut
  PROVE  /\ WellWired(Cut(cut))
         /\ \A p, q \in Port : q \in Range(Cut(cut)[p])
                                 <=> Wired(p, q) /\ <<p, q>> \notin cut /\ <<q, p>> \notin cut
         /\ \A p \in Port : wires[p] = <<>> => Cut(cut)[p] = <<>>
<1> DEFINE Gone(p) == {q \in Port : <<p, q>> \in cut \/ <<q, p>> \in cut}
           c == Cut(cut)
<1>1. c = [p \in Port |-> Remaining(wires[p], Gone(p))]
  BY DEF Cut
<1>2. \A p \in Port : wires[p] \in Seq(Port)
  BY DEF WellWired
<1>3. ASSUME NEW p \in Port
      PROVE  /\ c[p] \in Seq(Port)
             /\ Range(c[p]) = Range(wires[p]) \ Gone(p)
             /\ Len(c[p]) <= Len(wires[p])
  <2> HIDE DEF Gone, c
  <2>1. c[p] = Remaining(wires[p], Gone(p))
    BY <1>1
  <2> QED BY <1>2, <2>1, RemainingProperties
<1>4. ASSUME NEW p \in Port, NEW q \in Port
      PROVE  q \in Range(c[p]) <=> Wired(p, q) /\ <<p, q>> \notin cut /\ <<q, p>> \notin cut
  <2>1. Range(c[p]) = Range(wires[p]) \ Gone(p)
    BY <1>3
  <2> HIDE DEF c
  <2> QED BY <2>1 DEF Wired
<1>5. c \in [Port -> Seq(Port)]
  <2> HIDE DEF Gone, c
  <2> QED BY <1>1, <1>3
<1>6. \A p, q \in Port : q \in Range(c[p]) =>
        p \in Range(c[q]) /\ <<p, q>> \in Opposite
  <2> HIDE DEF c
  <2> QED BY <1>4 DEF WellWired, Wired
<1>7. \A p \in InPort : Len(c[p]) <= 1
  <2> SUFFICES ASSUME NEW p \in InPort PROVE Len(c[p]) <= 1
    OBVIOUS
  <2>1. p \in Port
    BY PortsApart
  <2>2. Len(wires[p]) <= 1 /\ Len(wires[p]) \in Nat
    BY <1>2, <2>1, LenProperties DEF WellWired
  <2>3. Len(c[p]) \in Nat /\ Len(c[p]) <= Len(wires[p])
    BY <1>3, <2>1, LenProperties
  <2> QED BY <2>2, <2>3
<1>8. ASSUME NEW p \in Port, wires[p] = <<>> PROVE c[p] = <<>>
  <2>1. Len(c[p]) \in Nat /\ Len(c[p]) <= 0
    BY <1>3, <1>8, LenProperties
  <2>2. Len(c[p]) = 0
    BY <2>1
  <2> QED BY <1>3, <2>2, EmptySeq
<1> HIDE DEF c
<1>9. WellWired(c)
  BY <1>5, <1>6, <1>7 DEF WellWired
<1> QED BY <1>4, <1>8, <1>9 DEF c

LEMMA CutOthers ==
  ASSUME WellWired(wires), NEW cut, cut \cap Wires = {}, cut \subseteq Connection \cup {Nothing}
  PROVE  Cut(cut) = wires
<1> DEFINE Gone(p) == {q \in Port : <<p, q>> \in cut \/ <<q, p>> \in cut}
<1>1. Cut(cut) = [p \in Port |-> Remaining(wires[p], Gone(p))]
  BY DEF Cut
<1>2. ASSUME NEW p \in Port PROVE Range(wires[p]) \cap Gone(p) = {}
  <2> SUFFICES ASSUME NEW q \in Port, q \in Range(wires[p]), <<p, q>> \in cut \/ <<q, p>> \in cut
               PROVE FALSE
    OBVIOUS
  <2>1. p \in Range(wires[q])
    BY DEF WellWired
  <2>2. <<p, q>> # Nothing /\ <<q, p>> # Nothing
    BY DEF Nothing
  <2>3. CASE <<p, q>> \in cut
    <3>1. <<p, q>> \in Connection
      BY <2>2, <2>3
    <3>2. <<p, q>> \in Wires
      BY <3>1 DEF Wires, Wired, Connection
    <3> QED BY <2>3, <3>2
  <2>4. CASE <<q, p>> \in cut
    <3>1. <<q, p>> \in Connection
      BY <2>2, <2>4
    <3>2. <<q, p>> \in Wires
      BY <2>1, <3>1 DEF Wires, Wired, Connection
    <3> QED BY <2>4, <3>2
  <2> QED BY <2>3, <2>4
<1>3. ASSUME NEW p \in Port PROVE Remaining(wires[p], Gone(p)) = wires[p]
  <2>1. wires[p] \in Seq(Port) /\ Range(wires[p]) \cap Gone(p) = {}
    BY <1>2 DEF WellWired
  <2> HIDE DEF Gone
  <2> QED BY <2>1, RemainingProperties
<1>4. wires = [p \in Port |-> wires[p]]
  BY DEF WellWired
<1> HIDE DEF Gone
<1> QED BY <1>1, <1>3, <1>4

LEMMA CutWires ==
  ASSUME WellWired(wires), NEW cut
  PROVE  /\ WiresOf(Cut(cut)) \subseteq Wires
         /\ cut \subseteq Connection => WiresOf(Cut(cut)) = Wires \ cut
<1> DEFINE W == WiresOf(Cut(cut))
<1>1. ASSUME NEW c \in OutPort \X InPort
      PROVE  c \in W <=> c \in Wires /\ c \notin cut /\ <<c[2], c[1]>> \notin cut
  <2>1. c[1] \in Port /\ c[2] \in Port /\ c = <<c[1], c[2]>>
    BY PortsApart
  <2> QED BY <2>1, CutWired DEF WiresOf, Wires
<1>2. W \subseteq OutPort \X InPort /\ Wires \subseteq OutPort \X InPort
  BY DEF WiresOf, Wires
<1> HIDE DEF W
<1>3. \A c \in OutPort \X InPort : <<c[2], c[1]>> \notin Connection
  BY PortsApart DEF Connection
<1>6. cut \subseteq Connection => W = Wires \ cut
  BY <1>1, <1>2, <1>3
<1> QED BY <1>1, <1>2, <1>6 DEF W

-----------------------------------------------------------------------------
(* Cycles                                                                  *)


LEMMA CycleLarger ==
  ASSUME NEW S, NEW T, S \subseteq T, HasCycle(S)
  PROVE  HasCycle(T)
<1>1. PICK N \in (SUBSET Node) \ {{}} : \A n \in N : \E c \in S : c[1][1] \in N /\ c[2][1] = n
  BY DEF HasCycle
<1>2. \A n \in N : \E c \in T : c[1][1] \in N /\ c[2][1] = n
  BY <1>1
<1> QED BY <1>2 DEF HasCycle

(* The check without the connection that is moved says the same as the     *)
(* check with it: a cycle does not leave a node twice.                     *)
LEMMA CycleWithMoved ==
  ASSUME NEW S \in SUBSET Connection, NEW moved \in Connection, NEW new \in Connection,
         moved[1][1] = new[1][1],
         ~HasCycle(S), ~HasCycle((S \ {moved}) \cup {new})
  PROVE  ~HasCycle(S \cup {new})
<1> DEFINE from == new[1][1]
           to == new[2][1]
           R == S \ {moved}
           Closed(D) == to \in D /\ \A c \in R : c[1][1] \in D => c[2][1] \in D
           D == {n \in Node : \A E \in SUBSET Node : Closed(E) => n \in E}
<1>1. \A c \in Connection : c[1][1] \in Node /\ c[2][1] \in Node
  BY PortsApart DEF Connection
<1>2. Closed(D) /\ D \subseteq Node
  <2>1. to \in D
    BY <1>1
  <2>2. ASSUME NEW c \in R, c[1][1] \in D PROVE c[2][1] \in D
    <3>1. c[2][1] \in Node
      BY <1>1
    <3>2. ASSUME NEW E \in SUBSET Node, Closed(E) PROVE c[2][1] \in E
      <4>1. c[1][1] \in E
        BY <2>2, <3>2
      <4> QED BY <3>2, <4>1
    <3> QED BY <3>1, <3>2
  <2> QED BY <2>1, <2>2
<1>3. ASSUME NEW n \in D, n # to PROVE \E c \in R : c[1][1] \in D /\ c[2][1] = n
  <2> SUFFICES ASSUME ~ \E c \in R : c[1][1] \in D /\ c[2][1] = n PROVE FALSE
    OBVIOUS
  <2>1. Closed(D \ {n})
    BY <1>2, <1>3
  <2>2. D \ {n} \in SUBSET Node
    BY <1>2
  <2> QED BY <2>1, <2>2
<1>4. from \notin D
  <2> SUFFICES ASSUME from \in D PROVE FALSE
    OBVIOUS
  <2>1. \A n \in D : \E c \in R \cup {new} : c[1][1] \in D /\ c[2][1] = n
    <3> SUFFICES ASSUME NEW n \in D PROVE \E c \in R \cup {new} : c[1][1] \in D /\ c[2][1] = n
      OBVIOUS
    <3> HIDE DEF D, R
    <3>1. CASE n = to
      BY <3>1
    <3>2. CASE n # to
      BY <1>3, <3>2
    <3> QED BY <3>1, <3>2
  <2>2. D \in (SUBSET Node) \ {{}}
    BY <1>2
  <2>3. HasCycle(R \cup {new})
    <3> HIDE DEF D, R
    <3> QED BY <2>1, <2>2 DEF HasCycle
  <2> QED BY <2>3
<1> HIDE DEF D
<1> SUFFICES ASSUME HasCycle(S \cup {new}) PROVE FALSE
  OBVIOUS
<1>5. PICK N \in (SUBSET Node) \ {{}} :
        \A n \in N : \E c \in S \cup {new} : c[1][1] \in N /\ c[2][1] = n
  BY DEF HasCycle
<1>6. ASSUME NEW n \in N \ D PROVE \E c \in S : c[1][1] \in N \ D /\ c[2][1] = n
  <2>1. PICK c \in S \cup {new} : c[1][1] \in N /\ c[2][1] = n
    BY <1>5
  <2>2. c # new
    BY <1>2, <2>1
  <2>3. c[1][1] \notin D
    <3>1. CASE c = moved
      BY <1>4, <3>1
    <3>2. CASE c # moved
      BY <1>2, <1>6, <2>1, <2>2, <3>2
    <3> QED BY <3>1, <3>2
  <2> QED BY <2>1, <2>2, <2>3
<1>7. CASE N \ D = {}
  <2>1. from \notin N
    BY <1>4, <1>7
  <2>2. \A n \in N : \E c \in S : c[1][1] \in N /\ c[2][1] = n
    BY <1>5, <2>1
  <2> QED BY <2>2 DEF HasCycle
<1>8. CASE N \ D # {}
  <2>1. N \ D \in (SUBSET Node) \ {{}}
    BY <1>8
  <2> QED BY <1>6, <2>1 DEF HasCycle
<1> QED BY <1>7, <1>8

-----------------------------------------------------------------------------
(* The release of a port                                                   *)

LEMMA ConnectsNew ==
  ASSUME WellWired(wires), dragged.port \in Port, NEW p \in PortOrNone, Connects(p)
  PROVE  /\ p \in Port /\ <<dragged.port, p>> \in Opposite
         /\ Sorted(dragged.port, p) \in Connection \cap TypesFit
         /\ wires[Sorted(dragged.port, p)[2]] = <<>>
         /\ Sorted(dragged.port, p) \notin Wires
         /\ ~HasCycle((Wires \ {Nothing}) \cup {Sorted(dragged.port, p)})
<1>1. p \in Port
  BY DEF Connects, PortOrNone
<1>2. (dragged.port \in InPort) # (p \in InPort)
  BY DEF Connects, CompatibleWhile
<1>3. <<dragged.port, p>> \in Opposite
  BY <1>1, <1>2, PortsApart DEF Opposite
<1> DEFINE w == Sorted(dragged.port, p)
<1>4. w \in Connection /\ (w = <<dragged.port, p>> \/ w = <<p, dragged.port>>)
  BY <1>3, OppositeSorted
<1>5. /\ wires[w[2]] # <<>> => Wired(w[1], w[2])
      /\ w \in TypesFit
      /\ ~HasCycle((Wires \ {Nothing}) \cup {w})
      /\ ~Wired(dragged.port, p)
  BY DEF Connects, CompatibleWhile
<1> HIDE DEF w
<1>6. ~Wired(w[1], w[2])
  <2>1. Wired(p, dragged.port) => Wired(dragged.port, p)
    BY <1>1 DEF WellWired, Wired
  <2> QED BY <1>4, <1>5, <2>1
<1>7. w \notin Wires
  BY <1>6 DEF Wires
<1> QED BY <1>1, <1>3, <1>4, <1>5, <1>6, <1>7 DEF w

LEMMA MovedType ==
  ASSUME DragOK(dragged)
  PROVE  Moved \subseteq Connection
BY OppositeSorted DEF DragOK, Moved

LEMMA ReleaseKeeps ==
  ASSUME WellWired(wires), DragOK(dragged), NEW p \in PortOrNone, ReleasePort(p),
         ~Connects(p)
  PROVE  /\ wires' = Cut(Cuts(p))
         /\ WellWired(wires')
         /\ Wires' = Wires \ Cuts(p)
         /\ p # Nothing => wires' = wires
<1>1. wires' = Cut(Cuts(p))
  BY DEF ReleasePort
<1>2. Cuts(p) \subseteq Connection
  BY MovedType DEF Cuts
<1>3. WiresOf(wires') = Wires \ Cuts(p)
  BY <1>1, <1>2, CutWires
<1>4. Wires' = WiresOf(wires')
  BY DEF Wires, Wired, WiresOf
<1>5. p # Nothing => wires' = wires
  <2> SUFFICES ASSUME p # Nothing PROVE wires' = wires
    OBVIOUS
  <2>1. Cuts(p) = {}
    BY DEF Cuts
  <2> QED BY <1>1, <2>1, CutOthers
<1> QED BY <1>1, <1>3, <1>4, <1>5, CutWired

LEMMA ReleaseConnects ==
  ASSUME WellWired(wires), DragOK(dragged), dragged.port \in Port,
         NEW p \in PortOrNone, ReleasePort(p), Connects(p)
  PROVE  /\ WellWired(wires')
         /\ Wires' = (Wires \ Moved) \cup {Sorted(dragged.port, p)}
<1> DEFINE w == Sorted(dragged.port, p)
           a == w[1]
           b == w[2]
           c == Cut(Moved)
<1>1. w \in Connection /\ wires[b] = <<>> /\ Cuts(p) = Moved
  BY ConnectsNew DEF Cuts
<1>2. a \in OutPort /\ b \in InPort /\ a \in Port /\ b \in Port /\ a # b /\ a \notin InPort
  BY <1>1, PortsApart DEF Connection
<1>3. /\ WellWired(c)
      /\ c[b] = <<>>
      /\ WiresOf(c) = Wires \ Moved
  BY <1>1, <1>2, MovedType, CutWired, CutWires
<1>4. wires' = [c EXCEPT ![a] = Append(@, b), ![b] = Append(@, a)]
  BY <1>1, <1>3 DEF ReleasePort
<1> HIDE DEF w, c
<1>5. \A q \in Port : c[q] \in Seq(Port)
  BY <1>3 DEF WellWired
<1>6. /\ wires' \in [Port -> Seq(Port)]
      /\ \A q \in Port : wires'[q] = IF q = b THEN Append(c[b], a)
                                     ELSE IF q = a THEN Append(c[a], b) ELSE c[q]
  <2>1. c \in [Port -> Seq(Port)]
    BY <1>3 DEF WellWired
  <2>2. Append(c[b], a) \in Seq(Port) /\ Append(c[a], b) \in Seq(Port)
    BY <1>2, <1>5, AppendProperties
  <2> QED BY <1>2, <1>4, <2>1, <2>2
<1>7. ASSUME NEW s \in Seq(Port), NEW x \in Port
      PROVE  Range(Append(s, x)) = Range(s) \cup {x}
  <2>1. DOMAIN s = 1 .. Len(s) /\ Len(s) \in Nat
    BY LenProperties
  <2>2. /\ DOMAIN Append(s, x) = 1 .. Len(s) + 1
        /\ \A i \in 1 .. Len(s) : Append(s, x)[i] = s[i]
        /\ Append(s, x)[Len(s) + 1] = x
    BY AppendProperties, LenProperties
  <2>3. 1 .. Len(s) + 1 = (1 .. Len(s)) \cup {Len(s) + 1}
    BY <2>1
  <2> QED BY <2>1, <2>2, <2>3 DEF Range
<1>8. \A q \in Port : Range(wires'[q]) = IF q = b THEN Range(c[b]) \cup {a}
                                         ELSE IF q = a THEN Range(c[a]) \cup {b}
                                         ELSE Range(c[q])
  BY <1>2, <1>5, <1>6, <1>7, ZenonT(30)
<1>9. Len(wires'[b]) = 1
  <2>1. wires'[b] = Append(<<>>, a)
    BY <1>2, <1>3, <1>6
  <2> QED BY <2>1
<1>10. WellWired(wires')
  <2>1. ASSUME NEW x \in Port, NEW y \in Port, y \in Range(wires'[x])
        PROVE  x \in Range(wires'[y]) /\ <<x, y>> \in Opposite
    <3>1. \/ y \in Range(c[x])
          \/ x = a /\ y = b
          \/ x = b /\ y = a
      BY <1>8, <2>1
    <3>2. CASE y \in Range(c[x])
      <4>1. x \in Range(c[y]) /\ <<x, y>> \in Opposite
        BY <1>3, <3>2 DEF WellWired
      <4> QED BY <1>8, <4>1
    <3>3. CASE x = a /\ y = b
      BY <1>2, <1>8, <3>3 DEF Opposite
    <3>4. CASE x = b /\ y = a
      BY <1>2, <1>8, <3>4 DEF Opposite
    <3> QED BY <3>1, <3>2, <3>3, <3>4
  <2>2. \A x \in InPort : Len(wires'[x]) <= 1
    <3> SUFFICES ASSUME NEW x \in InPort PROVE Len(wires'[x]) <= 1
      OBVIOUS
    <3>1. CASE x = b
      <4>1. Len(wires'[x]) = 1
        BY <1>9, <3>1
      <4>2. 1 <= 1
        OBVIOUS
      <4> QED BY <4>1, <4>2
    <3>2. CASE x # b
      <4>1. x \in Port /\ x # a
        BY <1>2, PortsApart
      <4>2. wires'[x] = c[x]
        BY <1>6, <3>2, <4>1
      <4> QED BY <1>3, <4>2 DEF WellWired
    <3> QED BY <3>1, <3>2
  <2> QED BY <1>6, <2>1, <2>2 DEF WellWired
<1>11. Wires' = WiresOf(wires')
  BY DEF Wires, Wired, WiresOf
<1>12. WiresOf(wires') = WiresOf(c) \cup {w}
  <2>1. w = <<a, b>>
    BY <1>1 DEF Connection
  <2>2. ASSUME NEW x \in OutPort \X InPort
        PROVE  x[2] \in Range(wires'[x[1]]) <=> x[2] \in Range(c[x[1]]) \/ x = w
    <3>1. x = <<x[1], x[2]>> /\ x[1] \in Port /\ x[2] \in Port /\ x[1] # b
      BY <1>2, PortsApart
    <3> QED BY <1>8, <2>1, <3>1
  <2>3. w \in OutPort \X InPort
    BY <1>1 DEF Connection
  <2> QED BY <2>2, <2>3 DEF WiresOf
<1> QED BY <1>3, <1>10, <1>11, <1>12 DEF w

-----------------------------------------------------------------------------
(* The invariant                                                           *)

LEMMA EditorStarts == EditorInit => EditorInv
<1> SUFFICES ASSUME EditorInit PROVE EditorInv
  OBVIOUS
<1>1. WellWired(wires)
  <2>1. /\ wires \in [Port -> Seq(Port)]
        /\ \A p \in InPort : Len(wires[p]) <= 1
        /\ \A p \in Port : \A k \in DOMAIN wires[p] :
             /\ {p, wires[p][k]} \cap InPort # {} /\ {p, wires[p][k]} \cap OutPort # {}
             /\ p \in Range(wires[wires[p][k]])
    BY EditorAssumption DEF EditorInit
  <2>2. ASSUME NEW p \in Port, NEW q \in Port, q \in Range(wires[p])
        PROVE  p \in Range(wires[q]) /\ <<p, q>> \in Opposite
    <3>1. PICK k \in DOMAIN wires[p] : q = wires[p][k]
      BY <2>2 DEF Range
    <3>2. {p, q} \cap InPort # {} /\ {p, q} \cap OutPort # {} /\ p \in Range(wires[q])
      BY <2>1, <3>1
    <3> QED BY <3>2, PortsApart DEF Opposite
  <2> QED BY <2>1, <2>2 DEF WellWired
<1>2. DragOK(dragged)
  BY DEF EditorInit, NoDrag, DragOK, PortOrNone
<1>3. IgnoresMoved(mode, dragged) /\ DragsPort
  BY DEF EditorInit, NoDrag, IgnoresMoved, DragsPort
<1> QED BY <1>1, <1>2, <1>3 DEF EditorInv, EditorInit

(* The far end of a port's connection                                      *)
LEMMA FarEndOK ==
  ASSUME WellWired(wires), NEW p \in Port, wires[p] # <<>>
  PROVE  /\ DragOK(FarEnd(p))
         /\ FarEnd(p).port \in Port
         /\ FarEnd(p).disconnect = p
         /\ FarEnd(p).ignore = Sorted(FarEnd(p).port, p)
         /\ FarEnd(p).ignore \in Wires
<1> DEFINE q == wires[p][1]
<1>1. q \in Port /\ Wired(p, q)
  <2>1. wires[p] \in Seq(Port) /\ 1 \in DOMAIN wires[p]
    BY DEF WellWired
  <2> QED BY <2>1 DEF Wired, Range
<1>2. <<q, p>> \in Opposite /\ Wired(q, p) /\ <<p, q>> \in Opposite
  BY <1>1 DEF WellWired, Wired
<1>3. FarEnd(p) = [port |-> q, disconnect |-> p, ignore |-> Sorted(p, q)]
  BY DEF FarEnd
<1> HIDE DEF q
<1>4. Sorted(p, q) = Sorted(q, p) /\ Sorted(p, q) \in Connection
  BY <1>2, PortsApart DEF Opposite, Sorted, Connection
<1>5. Sorted(p, q) \in Wires
  BY <1>1, <1>2, <1>4 DEF Sorted, Wires, Connection
<1>6. p # Nothing /\ q # Nothing
  BY <1>1, PortsApart
<1> QED BY <1>1, <1>2, <1>3, <1>4, <1>5, <1>6 DEF DragOK, PortOrNone, Opposite

LEMMA WiresSame ==
  ASSUME wires' = wires
  PROVE  Wires' = Wires
BY DEF Wires, Wired

LEMMA DragPortInv ==
  ASSUME EditorInv, NEW p \in PortsShown \cup {Nothing}, DragPort(p)
  PROVE  EditorInv'
<1>1. UNCHANGED <<wires, mode, held, dragged, selectedNode, selectedWire>>
  BY DEF DragPort, graphPart
<1>2. hover' = Hovering(dragged, p) /\ hover'.port = p
  BY DEF DragPort, Hovering
<1>3. DragsPort'
  BY <1>1, <1>2 DEF EditorInv, DragsPort, Hovering, CompatibleWhile, Wired, Wires, PortsShown
<1> QED BY <1>1, <1>3 DEF EditorInv

LEMMA PressInv ==
  ASSUME EditorInv, PressLeft,
         \/ \E n \in present : PressNode(n)
         \/ \E w \in Wires : PressWire(w)
         \/ PressBackground
  PROVE  EditorInv'
<1>1. /\ wires' = wires /\ dragged' = dragged /\ hover' = hover
      /\ mode # "port" /\ mode' # "port"
      /\ mode' \in {"none", "navigate", "node", "port"}
  BY DEF PressLeft, PressNode, PressWire, PressBackground, graphPart, EditorInv, DragsPort
<1>2. selectedWire' \in {Nothing, selectedWire} \/ selectedWire' \in Wires
  BY DEF PressNode, PressWire, PressBackground
<1>3. selectedWire' \in Connection \cup {Nothing}
  BY <1>2 DEF EditorInv, Wires, Connection
<1>4. IgnoresMoved(mode', dragged') /\ DragsPort'
  BY <1>1 DEF EditorInv, IgnoresMoved, DragsPort
<1> QED BY <1>1, <1>3, <1>4 DEF EditorInv

LEMMA PressPortInv ==
  ASSUME EditorInv, NEW p \in PortsShown, NEW shift \in BOOLEAN, PressPort(p, shift)
  PROVE  EditorInv'
<1>1. /\ wires' = wires /\ selectedWire' = selectedWire
      /\ mode' = "port" /\ held' /\ selectedNode' = Nothing
      /\ mode # "port"
  BY DEF PressLeft, PressPort, graphPart, EditorInv, DragsPort
<1>2. p \in Port /\ p # Nothing
  BY PortsApart DEF PortsShown
<1>3. /\ DragOK(dragged')
      /\ dragged'.port # Nothing
      /\ IgnoresMoved("port", dragged')
      /\ dragged'.disconnect # Nothing => Sorted(dragged'.port, dragged'.disconnect) \in Wires
  <2>1. CASE ~shift /\ wires[p] # <<>>
    <3>1. dragged' = FarEnd(p)
      BY <2>1 DEF PressPort
    <3>2. /\ DragOK(FarEnd(p)) /\ FarEnd(p).port \in Port /\ FarEnd(p).disconnect = p
          /\ FarEnd(p).ignore = Sorted(FarEnd(p).port, p)
          /\ FarEnd(p).ignore \in Wires
      BY <1>2, <2>1, FarEndOK DEF EditorInv
    <3> QED BY <1>2, <3>1, <3>2, PortsApart DEF IgnoresMoved
  <2>2. CASE ~(~shift /\ wires[p] # <<>>)
    <3>1. dragged' = [dragged EXCEPT !.port = p, !.disconnect = Nothing]
      BY <2>2 DEF PressPort, PortItself
    <3>2. /\ dragged \in [port : PortOrNone, disconnect : PortOrNone,
                          ignore : Connection \cup {Nothing}]
          /\ dragged.ignore = Nothing
      BY <1>1 DEF EditorInv, DragOK, IgnoresMoved
    <3>3. dragged' = [port |-> p, disconnect |-> Nothing, ignore |-> Nothing]
      BY <3>1, <3>2
    <3> QED BY <1>2, <3>3 DEF DragOK, PortOrNone, IgnoresMoved
  <2> QED BY <2>1, <2>2
<1>4. DragsPort'
  <2>1. hover' = Hovering(dragged', p) /\ hover'.port = p
    BY DEF PressPort, Hovering
  <2> QED BY <1>1, <1>2, <1>3, <2>1
          DEF DragsPort, Hovering, CompatibleWhile, Wired, Wires
<1> QED BY <1>1, <1>3, <1>4 DEF EditorInv

(* A drag that is given up                                                 *)
LEMMA AbortDragInv ==
  ASSUME EditorInv, AbortDrag
  PROVE  /\ DragOK(dragged') /\ IgnoresMoved(mode', dragged')
         /\ mode' = "none" /\ DragsPort'
<1>1. dragged' = [dragged EXCEPT !.ignore = Nothing] /\ mode' = "none"
  BY DEF AbortDrag
<1>2. dragged \in [port : PortOrNone, disconnect : PortOrNone,
                   ignore : Connection \cup {Nothing}]
  BY DEF EditorInv, DragOK
<1>3. dragged'.ignore = Nothing /\ dragged'.port = dragged.port
      /\ dragged'.disconnect = dragged.disconnect
      /\ dragged' \in [port : PortOrNone, disconnect : PortOrNone,
                       ignore : Connection \cup {Nothing}]
  BY <1>1, <1>2
<1> QED BY <1>1, <1>3 DEF EditorInv, DragOK, IgnoresMoved, DragsPort

LEMMA ReleaseInv ==
  ASSUME EditorInv, NEW p \in PortsShown \cup {Nothing}, NEW left \in BOOLEAN,
         ReleaseButton(p, left)
  PROVE  EditorInv'
<1>1. /\ DragOK(dragged') /\ IgnoresMoved(mode', dragged')
      /\ mode' = "none" /\ DragsPort' /\ selectedWire' = selectedWire
  BY AbortDragInv DEF ReleaseButton
<1>2. CASE mode = "port"
  <2>1. dragged.port \in Port /\ p \in PortOrNone /\ ReleasePort(p)
    BY <1>2 DEF EditorInv, DragsPort, DragOK, PortOrNone, PortsShown, ReleaseButton
  <2>2. WellWired(wires') /\ Wires \ Cuts(p) \subseteq Wires'
    <3>1. CASE Connects(p)
      <4>1. Cuts(p) = Moved
        BY <3>1 DEF Cuts
      <4> QED BY <2>1, <3>1, <4>1, ReleaseConnects DEF EditorInv
    <3>2. CASE ~Connects(p)
      BY <2>1, <3>2, ReleaseKeeps DEF EditorInv
    <3> QED BY <3>1, <3>2
  <2> QED BY <1>1, <2>2 DEF EditorInv
<1>3. CASE mode # "port"
  <2>1. wires' = wires
    BY <1>3 DEF ReleaseButton
  <2> QED BY <1>1, <2>1 DEF EditorInv
<1> QED BY <1>2, <1>3

LEMMA DeleteWireInv ==
  ASSUME EditorInv, DeleteWire
  PROVE  EditorInv' /\ Wires' \subseteq Wires
<1>1. /\ selectedWire \in Connection
      /\ wires' = Cut({selectedWire})
      /\ selectedWire' = Nothing /\ hover' = NoHover
      /\ mode' = mode /\ held' = held /\ dragged' = dragged /\ selectedNode' = selectedNode
  BY DEF EditorInv, DeleteWire
<1>2. WellWired(wires') /\ WiresOf(wires') = Wires \ {selectedWire}
  BY <1>1, CutWired, CutWires DEF EditorInv
<1>3. Wires' = Wires \ {selectedWire}
  BY <1>2 DEF WiresOf, Wires, Wired
<1>4. DragsPort'
  BY <1>1 DEF EditorInv, DragsPort, NoHover
<1> QED BY <1>1, <1>2, <1>3, <1>4 DEF EditorInv

LEMMA DeleteNodeInv ==
  ASSUME EditorInv, DeleteNode
  PROVE  EditorInv' /\ Wires' \subseteq Wires
<1>1. /\ mode # "port" /\ selectedWire' = selectedWire
      /\ mode' = mode /\ held' = held /\ dragged' = dragged
  BY DEF EditorInv, DeleteNode, DragsPort
<1>2. WellWired(wires') /\ Wires' \subseteq Wires
  <2>1. CASE selectedNode \in present
    <3>1. wires' = Cut(Found(selectedNode))
      BY <2>1 DEF DeleteNode
    <3>2. WiresOf(wires') \subseteq Wires
      BY <3>1, CutWires DEF EditorInv
    <3> QED BY <3>1, <3>2, CutWired DEF EditorInv, WiresOf, Wires, Wired
  <2>2. CASE selectedNode \notin present
    <3>1. wires' = wires
      BY <2>2 DEF DeleteNode
    <3> QED BY <3>1, WiresSame DEF EditorInv
  <2> QED BY <2>1, <2>2
<1>3. DragsPort'
  BY <1>1 DEF DragsPort
<1> QED BY <1>1, <1>2, <1>3 DEF EditorInv

LEMMA EditorStep == EditorInv /\ [EditorNext]_editorVars => EditorInv'
<1> SUFFICES ASSUME EditorInv, [EditorNext]_editorVars PROVE EditorInv'
  OBVIOUS
<1>1. CASE UNCHANGED editorVars
  <2>1. UNCHANGED <<wires, mode, held, dragged, selectedNode, selectedWire, hover>>
    BY <1>1 DEF editorVars
  <2>2. DragsPort'
    BY <2>1 DEF EditorInv, DragsPort, Wires, Wired, Hovering, CompatibleWhile
  <2> QED BY <2>1, <2>2 DEF EditorInv
<1>2. ASSUME NEW p \in PortsShown \cup {Nothing}, DragPort(p) PROVE EditorInv'
  BY <1>2, DragPortInv
<1>3. CASE DragNode
  <2>1. UNCHANGED <<wires, mode, held, dragged, selectedNode, selectedWire, hover>>
    BY <1>3 DEF DragNode, graphPart
  <2>2. DragsPort'
    BY <2>1 DEF EditorInv, DragsPort, Wires, Wired, Hovering, CompatibleWhile
  <2> QED BY <2>1, <2>2 DEF EditorInv
<1>4. CASE (\E n \in present : PressNode(n)) \/ (\E w \in Wires : PressWire(w)) \/ PressBackground
  <2>1. PressLeft
    BY <1>4 DEF PressNode, PressWire, PressBackground
  <2> QED BY <1>4, <2>1, PressInv
<1>5. ASSUME NEW p \in PortsShown, NEW shift \in BOOLEAN, PressPort(p, shift) PROVE EditorInv'
  BY <1>5, PressPortInv
<1>6. CASE PressRight
  <2>1. /\ DragOK(dragged') /\ IgnoresMoved(mode', dragged')
        /\ mode' = "none" /\ DragsPort'
    BY <1>6, AbortDragInv DEF PressRight
  <2>2. wires' = wires /\ selectedWire' = Nothing
    BY <1>6 DEF PressRight, graphPart
  <2> QED BY <2>1, <2>2 DEF EditorInv
<1>7. ASSUME NEW p \in PortsShown \cup {Nothing}, NEW left \in BOOLEAN, ReleaseButton(p, left)
      PROVE  EditorInv'
  BY <1>7, ReleaseInv
<1>8. CASE DeleteWire
  BY <1>8, DeleteWireInv
<1>9. CASE DeleteNode
  BY <1>9, DeleteNodeInv
<1> QED BY <1>1, <1>2, <1>3, <1>4, <1>5, <1>6, <1>7, <1>8, <1>9 DEF EditorNext

LEMMA EditorInvariant == EditorSpec => []EditorInv
BY EditorStarts, EditorStep, PTL DEF EditorSpec

-----------------------------------------------------------------------------
(* What is left behind                                                     *)

(* A mode other than "none" ends when the button is released.              *)
AliveInv ==
  /\ stale \subseteq Left
  /\ Nothing \notin present
  /\ mode # "none" => held
  /\ mode = "node" => draggedNode # Nothing
  /\ DragAlive
  /\ SelectionAlive
  /\ GraphAlive

LEMMA AliveStarts == EditorInit => AliveInv
<1> SUFFICES ASSUME EditorInit PROVE AliveInv
  OBVIOUS
<1>1. ASSUME NEW w \in Wires PROVE w[1][1] \in present /\ w[2][1] \in present
  <2>1. w[1] \in OutPort /\ w[2] \in InPort /\ w[2] \in Range(wires[w[1]])
    BY DEF Wires, Wired
  <2>2. w[1] \in Port /\ w[2] \in Port
    BY <2>1, PortsApart
  <2>3. w[1] \in Range(wires[w[2]])
    BY <2>1, <2>2, EditorStarts DEF EditorInv, WellWired
  <2>4. wires[w[1]] # <<>> /\ wires[w[2]] # <<>>
    BY <2>1, <2>3 DEF Range
  <2> QED BY <2>2, <2>4, EditorAssumption DEF EditorInit
<1>2. GraphAlive
  BY <1>1 DEF GraphAlive, Living, EditorInit
<1>3. Nothing \notin present
  BY EditorAssumption DEF EditorInit
<1> QED BY <1>2, <1>3 DEF AliveInv, DragAlive, SelectionAlive, EditorInit

(* The connections of a graph without deleted nodes                        *)
LEMMA WiresLiving ==
  ASSUME EditorInv, GraphAlive, ~freed, NEW p \in Port, NEW q \in Port, Wired(p, q)
  PROVE  p[1] \in present /\ q[1] \in present
<1>1. <<p, q>> \in Opposite /\ Wired(q, p)
  BY DEF EditorInv, WellWired, Wired
<1>2. <<p, q>> \in Wires \/ <<q, p>> \in Wires
  BY <1>1 DEF Opposite, Wires
<1>3. p # Nothing /\ q # Nothing
  BY PortsApart
<1> QED BY <1>2, <1>3 DEF GraphAlive, Living

LEMMA AliveSame ==
  ASSUME AliveInv, UNCHANGED <<wires, present, mode, held, draggedNode, dragged, selectedNode,
                               selectedWire, stale>>,
         mode = "port" => Living(hover'.port),
         (freed' <=> freed) \/ (freed' /\ selectedNode # Nothing /\ selectedNode \notin present)
  PROVE  AliveInv'
<1>1. Wires' = Wires /\ Moved' = Moved
  BY WiresSame DEF Moved
<1>2. \A p : Living(p)' <=> Living(p)
  BY DEF Living
<1>3. DragAlive' /\ SelectionAlive'
  BY <1>1, <1>2 DEF AliveInv, DragAlive, SelectionAlive, Living
<1>4. GraphAlive'
  BY <1>1, <1>2 DEF AliveInv, GraphAlive
<1> QED BY <1>3, <1>4 DEF AliveInv

(* The button is pressed somewhere else than on a port.                    *)
LEMMA AlivePress ==
  ASSUME EditorInv, AliveInv, ~freed, PressLeft,
         \/ \E n \in present : PressNode(n)
         \/ \E w \in Wires : PressWire(w)
         \/ PressBackground
  PROVE  AliveInv'
<1>1. /\ mode = "none" /\ held' /\ mode' # "port" /\ stale' \subseteq Left
      /\ UNCHANGED <<wires, present, freed>>
  BY DEF AliveInv, PressLeft, PressNode, PressWire, PressBackground, graphPart
<1>2. Wires' = Wires
  BY <1>1, WiresSame
<1>3. GraphAlive' /\ DragAlive'
  BY <1>1, <1>2 DEF AliveInv, GraphAlive, DragAlive, Living
<1>4. SelectionAlive'
  <2>1. ASSUME NEW n \in present, PressNode(n) PROVE SelectionAlive'
    BY <1>1, <2>1 DEF PressNode, SelectionAlive
  <2>2. ASSUME NEW w \in Wires, PressWire(w) PROVE SelectionAlive'
    <3>1. Living(w[1])' /\ Living(w[2])'
      BY <1>1 DEF AliveInv, GraphAlive, Living
    <3> QED BY <1>1, <1>2, <2>2, <3>1 DEF PressWire, SelectionAlive
  <2>3. CASE PressBackground
    BY <1>1, <1>2, <2>3 DEF PressBackground, AliveInv, SelectionAlive, Living
  <2> QED BY <2>1, <2>2, <2>3
<1>5. mode' = "node" => draggedNode' # Nothing
  BY <1>1 DEF AliveInv, PressNode, PressWire, PressBackground
<1> QED BY <1>1, <1>3, <1>4, <1>5 DEF AliveInv

LEMMA AlivePressPort ==
  ASSUME EditorInv, AliveInv, ~freed, NEW p \in PortsShown, NEW shift \in BOOLEAN,
         PressPort(p, shift)
  PROVE  AliveInv'
<1>1. /\ mode' = "port" /\ held' /\ selectedNode' = Nothing /\ selectedWire' = selectedWire
      /\ stale' = stale \ {"drag", "node"}
      /\ UNCHANGED <<wires, present, freed>>
  BY DEF PressPort, PressLeft, graphPart
<1>2. Wires' = Wires
  BY <1>1, WiresSame
<1>3. p \in Port /\ p # Nothing /\ p[1] \in present
  BY PortsApart DEF PortsShown
<1>4. hover'.port = p
  BY DEF PressPort, Hovering
<1>5. /\ dragged'.port[1] \in present
      /\ Living(dragged'.disconnect)
      /\ Moved' \subseteq Wires
  <2>1. CASE ~shift /\ wires[p] # <<>>
    <3> DEFINE q == wires[p][1]
    <3>1. dragged' = FarEnd(p)
      BY <2>1 DEF PressPort
    <3>2. q \in Port /\ Wired(p, q)
      <4>1. wires[p] \in Seq(Port) /\ 1 \in DOMAIN wires[p]
        BY <1>3, <2>1 DEF EditorInv, WellWired
      <4> QED BY <4>1 DEF Wired, Range
    <3>3. q[1] \in present
      BY <1>3, <3>2, WiresLiving DEF AliveInv
    <3>4. dragged'.port = q /\ dragged'.disconnect = p
      BY <3>1 DEF FarEnd
    <3>5. Sorted(dragged'.port, dragged'.disconnect) \in Wires
      BY <1>3, <2>1, <3>1, FarEndOK DEF EditorInv
    <3>6. Moved' \subseteq Wires
      BY <3>5 DEF Moved
    <3> QED BY <1>3, <3>3, <3>4, <3>6 DEF Living
  <2>2. CASE ~(~shift /\ wires[p] # <<>>)
    <3>1. dragged' = [dragged EXCEPT !.port = p, !.disconnect = Nothing]
      BY <2>2 DEF PressPort, PortItself
    <3>2. dragged \in [port : PortOrNone, disconnect : PortOrNone,
                       ignore : Connection \cup {Nothing}]
      BY DEF EditorInv, DragOK
    <3>3. dragged'.port = p /\ dragged'.disconnect = Nothing
      BY <3>1, <3>2
    <3>4. Moved' = {}
      BY <3>3 DEF Moved
    <3> QED BY <1>3, <3>3, <3>4 DEF Living
  <2> QED BY <2>1, <2>2
<1>6. DragAlive'
  BY <1>1, <1>2, <1>3, <1>4, <1>5 DEF DragAlive, Living
<1>7. SelectionAlive' /\ GraphAlive'
  BY <1>1, <1>2 DEF AliveInv, SelectionAlive, GraphAlive, Living
<1> QED BY <1>1, <1>6, <1>7 DEF AliveInv

(* The connection that a release makes joins nodes that are there.         *)
LEMMA AliveRelease ==
  ASSUME EditorInv, AliveInv, ~freed, NEW p \in PortsShown \cup {Nothing},
         NEW left \in BOOLEAN, ReleaseButton(p, left)
  PROVE  AliveInv'
<1>1. /\ mode' = "none" /\ UNCHANGED <<present, selectedNode, selectedWire, freed>>
  BY DEF ReleaseButton, AbortDrag
<1>2. /\ stale \subseteq stale' /\ stale' \subseteq stale \cup {"wire"} /\ stale' \subseteq Left
      /\ mode = "port" /\ selectedWire \in Cuts(p) => "wire" \in stale'
  BY DEF ReleaseButton, AliveInv, Left
<1>3. /\ \A w \in Wires' : w \in Wires \/ (Living(w[1]) /\ Living(w[2]))
      /\ \A w \in Wires : w \in Wires' \/ (mode = "port" /\ w \in Cuts(p))
  <2>1. CASE mode # "port"
    BY <2>1, WiresSame DEF ReleaseButton
  <2>2. CASE mode = "port"
    <3>1. dragged.port \in Port /\ p \in PortOrNone /\ ReleasePort(p)
      BY <2>2 DEF EditorInv, DragsPort, DragOK, PortOrNone, PortsShown, ReleaseButton
    <3>2. CASE Connects(p)
      <4>1. Wires' = (Wires \ Moved) \cup {Sorted(dragged.port, p)} /\ Cuts(p) = Moved
        BY <3>1, <3>2, ReleaseConnects DEF EditorInv, Cuts
      <4>2. p \in PortsShown
        BY <3>2 DEF Connects
      <4>3. p[1] \in present /\ dragged.port[1] \in present
        BY <2>2, <4>2 DEF PortsShown, AliveInv, DragAlive
      <4>4. Living(Sorted(dragged.port, p)[1]) /\ Living(Sorted(dragged.port, p)[2])
        BY <4>3 DEF Living, Sorted
      <4> QED BY <2>2, <4>1, <4>4
    <3>3. CASE ~Connects(p)
      <4>1. Wires' = Wires \ Cuts(p)
        BY <3>1, <3>3, ReleaseKeeps DEF EditorInv
      <4> QED BY <2>2, <4>1
    <3> QED BY <3>2, <3>3
  <2> QED BY <2>1, <2>2
<1>4. \A q : Living(q)' <=> Living(q)
  BY <1>1 DEF Living
<1>5. GraphAlive'
  BY <1>1, <1>3, <1>4 DEF AliveInv, GraphAlive
<1>6. SelectionAlive'
  <2>1. selectedNode' # Nothing => (selectedNode' \in present' <=> "node" \notin stale')
    BY <1>1, <1>2 DEF AliveInv, SelectionAlive
  <2>2. selectedWire' # Nothing => selectedWire' \in Wires' \/ "wire" \in stale'
    BY <1>1, <1>2, <1>3 DEF AliveInv, SelectionAlive
  <2>3. selectedWire' # Nothing => Living(selectedWire[1]) /\ Living(selectedWire[2])
    BY <1>1 DEF AliveInv, SelectionAlive
  <2> QED BY <1>1, <1>4, <2>1, <2>2, <2>3 DEF SelectionAlive
<1> QED BY <1>1, <1>2, <1>5, <1>6 DEF AliveInv, DragAlive

LEMMA AliveDeleteWire ==
  ASSUME EditorInv, AliveInv, ~freed, DeleteWire
  PROVE  AliveInv'
<1>1. /\ selectedWire' = Nothing /\ hover' = NoHover
      /\ stale' = (IF mode = "port" /\ selectedWire \in Moved THEN stale \cup {"drag"} ELSE stale)
                    \ {"wire"}
      /\ UNCHANGED <<present, mode, held, draggedNode, dragged, selectedNode, freed>>
  BY DEF DeleteWire
<1>2. Wires' = Wires \ {selectedWire}
  <2>1. selectedWire \in Connection /\ wires' = Cut({selectedWire})
    BY DEF EditorInv, DeleteWire
  <2>2. WiresOf(wires') = Wires \ {selectedWire}
    BY <2>1, CutWires DEF EditorInv
  <2> QED BY <2>2 DEF WiresOf, Wires, Wired
<1>3. Moved' = Moved /\ \A q : Living(q)' <=> Living(q)
  BY <1>1 DEF Moved, Living
<1>4. DragAlive'
  <2> SUFFICES ASSUME mode = "port" PROVE DragAlive'
    BY <1>1 DEF DragAlive
  <2>1. /\ dragged.port[1] \in present /\ Living(dragged.disconnect)
        /\ Moved \subseteq Wires <=> "drag" \notin stale
    BY DEF AliveInv, DragAlive
  <2>2. Moved \subseteq Wires' <=> "drag" \notin stale'
    BY <1>1, <1>2, <2>1
  <2>3. hover'.port = Nothing
    BY <1>1 DEF NoHover
  <2> QED BY <1>1, <1>3, <2>1, <2>2, <2>3 DEF DragAlive, Living
<1>5. SelectionAlive'
  BY <1>1 DEF AliveInv, SelectionAlive
<1>6. GraphAlive'
  BY <1>1, <1>2, <1>3 DEF AliveInv, GraphAlive
<1>7. stale' \subseteq Left
  BY <1>1 DEF AliveInv, Left
<1> QED BY <1>1, <1>4, <1>5, <1>6, <1>7 DEF AliveInv

(* No node is deleted while a port is dragged, since the press on the port *)
(* has taken the selection from the node.                                  *)
LEMMA AliveDeleteNode ==
  ASSUME EditorInv, AliveInv, ~freed, DeleteNode
  PROVE  AliveInv'
<1> DEFINE n == selectedNode
<1>1. /\ selectedWire = Nothing /\ n # Nothing /\ mode # "port"
      /\ present' = present \ {n} /\ stale' = stale \cup {"node"}
      /\ UNCHANGED <<mode, held, draggedNode, dragged, selectedNode, selectedWire, hover>>
  BY DEF DeleteNode, EditorInv, DragsPort
<1>2. DragAlive' /\ SelectionAlive'
  BY <1>1 DEF AliveInv, DragAlive, SelectionAlive
<1>3. GraphAlive'
  <2>1. CASE freed'
    BY <1>1, <2>1 DEF GraphAlive
  <2>2. CASE ~freed'
    <3>1. /\ wires' = Cut(Found(n))
          /\ \A w \in Wires \ Found(n) : n \notin {w[1][1], w[2][1]}
      BY <2>2 DEF DeleteNode
    <3>2. Found(n) \subseteq Connection
      BY DEF Found, Wires, Connection
    <3>3. Wires' = Wires \ Found(n)
      <4>1. WiresOf(wires') = Wires \ Found(n)
        BY <3>1, <3>2, CutWires DEF EditorInv
      <4> QED BY <4>1 DEF WiresOf, Wires, Wired
    <3> HIDE DEF n
    <3>4. ASSUME NEW w \in Wires' PROVE Living(w[1])' /\ Living(w[2])'
      <4>1. w \in Wires /\ w[1][1] # n /\ w[2][1] # n
        BY <3>1, <3>3
      <4>2. Living(w[1]) /\ Living(w[2])
        BY <4>1 DEF AliveInv, GraphAlive
      <4> QED BY <1>1, <4>1, <4>2 DEF Living
    <3> QED BY <2>2, <3>4 DEF GraphAlive
  <2> QED BY <2>1, <2>2
<1>4. stale' \subseteq Left
  BY <1>1 DEF AliveInv, Left
<1> QED BY <1>1, <1>2, <1>3, <1>4 DEF AliveInv

LEMMA AliveStep == EditorInv /\ AliveInv /\ [EditorNext]_editorVars => AliveInv'
<1> SUFFICES ASSUME EditorInv, AliveInv, [EditorNext]_editorVars PROVE AliveInv'
  OBVIOUS
<1>1. CASE UNCHANGED editorVars
  BY <1>1, AliveSame DEF editorVars, AliveInv, DragAlive
<1>2. ASSUME NEW p \in PortsShown \cup {Nothing}, DragPort(p) PROVE AliveInv'
  <2>1. hover'.port = p
    BY <1>2 DEF DragPort, Hovering
  <2>2. Living(p)
    BY DEF PortsShown, Living
  <2> QED BY <1>2, <2>1, <2>2, AliveSame DEF DragPort, graphPart
<1>3. CASE ~freed /\ DragNode
  <2>1. mode = "node" /\ (freed' => draggedNode \notin present)
    BY <1>3 DEF DragNode
  <2>2. mode = "node" => draggedNode = selectedNode
    BY DEF AliveInv, SelectionAlive
  <2>3. draggedNode # Nothing
    BY <2>1 DEF AliveInv
  <2> QED BY <1>3, <2>1, <2>2, <2>3, AliveSame DEF DragNode, graphPart
<1>4. CASE ~freed /\ ((\E n \in present : PressNode(n)) \/ (\E w \in Wires : PressWire(w))
                      \/ PressBackground)
  <2>1. PressLeft
    BY <1>4 DEF PressNode, PressWire, PressBackground
  <2> QED BY <1>4, <2>1, AlivePress
<1>5. CASE ~freed /\ PressRight
  <2>1. /\ mode' = "none" /\ selectedNode' = Nothing /\ selectedWire' = Nothing
        /\ stale' \subseteq stale /\ UNCHANGED <<wires, present, freed>>
    BY <1>5 DEF PressRight, AbortDrag, graphPart
  <2>2. Wires' = Wires /\ \A q : Living(q)' <=> Living(q)
    BY <2>1, WiresSame DEF Living
  <2>3. ~freed' /\ \A w \in Wires : Living(w[1]) /\ Living(w[2])
    BY <1>5, <2>1 DEF AliveInv, GraphAlive
  <2>4. GraphAlive'
    BY <2>2, <2>3 DEF GraphAlive
  <2> QED BY <2>1, <2>4 DEF AliveInv, DragAlive, SelectionAlive
<1> QED BY <1>1, <1>2, <1>3, <1>4, <1>5, AlivePressPort, AliveRelease, AliveDeleteWire,
           AliveDeleteNode DEF EditorNext

(* Exactly three references can be left behind by a deletion - the         *)
(* selected node, also while it is dragged, the selected connection and    *)
(* the connection that is moved - and everything else that the editor      *)
(* remembers is there, in every graph and for every sequence of events.    *)
THEOREM ReferencesLiveCorrect == EditorSpec => []ReferencesLive
<1>1. EditorInv /\ AliveInv => ReferencesLive
  <2> SUFFICES ASSUME EditorInv, AliveInv PROVE ReferencesLive
    OBVIOUS
  <2>1. EditorTypeOK
    BY DEF EditorInv, AliveInv, EditorTypeOK, WellWired, Wired, DragsPort
  <2> QED BY <2>1 DEF AliveInv, ReferencesLive
<1> QED BY <1>1, EditorInvariant, AliveStarts, AliveStep, PTL DEF EditorSpec

(* A step adds one connection at most, between ports whose types fit, and  *)
(* with it the graph is acyclic.                                           *)
LEMMA StepConnects ==
  ASSUME EditorInv, EditorNext
  PROVE  \/ Wires' \subseteq Wires
         \/ \E w \in TypesFit : Wires' \subseteq Wires \cup {w} /\ ~HasCycle(Wires \cup {w})
<1>1. CASE wires' = wires
  BY <1>1, WiresSame
<1>2. CASE DeleteWire \/ DeleteNode
  BY <1>2, DeleteWireInv, DeleteNodeInv
<1>3. ASSUME NEW p \in PortsShown \cup {Nothing}, NEW left \in BOOLEAN, ReleaseButton(p, left),
             mode = "port"
      PROVE  \/ Wires' \subseteq Wires
             \/ \E w \in TypesFit : Wires' \subseteq Wires \cup {w} /\ ~HasCycle(Wires \cup {w})
  <2>1. dragged.port \in Port /\ p \in PortOrNone /\ ReleasePort(p)
    BY <1>3 DEF EditorInv, DragsPort, DragOK, PortOrNone, PortsShown, ReleaseButton
  <2>2. CASE Connects(p)
    <3> DEFINE w == Sorted(dragged.port, p)
    <3>1. w \in TypesFit /\ ~HasCycle((Wires \ {Nothing}) \cup {w})
      BY <2>1, <2>2, ConnectsNew DEF EditorInv
    <3>2. Wires \ {Nothing} = Wires
      BY DEF Wires, Nothing
    <3>3. Wires' = (Wires \ Moved) \cup {w}
      BY <2>1, <2>2, ReleaseConnects DEF EditorInv
    <3> HIDE DEF w
    <3> QED BY <3>1, <3>2, <3>3
  <2>3. CASE ~Connects(p)
    BY <2>1, <2>3, ReleaseKeeps DEF EditorInv
  <2> QED BY <2>2, <2>3
<1>4. ASSUME NEW p \in PortsShown \cup {Nothing}, NEW left \in BOOLEAN, ReleaseButton(p, left),
             mode # "port"
      PROVE  wires' = wires
  BY <1>4 DEF ReleaseButton
<1> QED BY <1>1, <1>2, <1>3, <1>4
        DEF EditorNext, DragPort, DragNode, PressNode, PressPort, PressWire, PressBackground,
            PressLeft, PressRight, graphPart

(* A release over the port that the last move went over                    *)
LEMMA ReleaseAsShown ==
  ASSUME EditorInv, mode = "port", hover.port # Nothing, ~HasCycle(Wires),
         NEW left \in BOOLEAN, ReleaseButton(hover.port, left)
  PROVE  IF hover.fits THEN Sorted(dragged.port, hover.port) \in Wires' ELSE wires' = wires
<1> DEFINE p == hover.port
           q == dragged.port
           w == Sorted(q, p)
<1>1. /\ q \in Port /\ p \in Port /\ p \in PortOrNone /\ ReleasePort(p)
      /\ hover = Hovering(dragged, p)
  BY DEF EditorInv, DragsPort, DragOK, PortOrNone, ReleaseButton
<1>2. hover.fits <=> CompatibleWhile(q, p, dragged.ignore)
  <2>1. Hovering(dragged, p).fits = (p # Nothing /\ CompatibleWhile(q, p, dragged.ignore))
    BY DEF Hovering
  <2>2. hover.fits = (p # Nothing /\ CompatibleWhile(q, p, dragged.ignore))
    BY <1>1, <2>1
  <2> QED BY <2>2
<1>3. (q \in InPort) # (p \in InPort) => <<q, p>> \in Opposite
  BY <1>1, PortsApart DEF Opposite
<1>4. Wires \ {Nothing} = Wires /\ Wires \subseteq Connection
  BY DEF Wires, Nothing, Connection
<1>5. CASE hover.fits
  <2>1. /\ <<q, p>> \in Opposite
        /\ wires[w[2]] # <<>> => Wired(w[1], w[2])
        /\ w \in TypesFit
        /\ ~HasCycle((Wires \ {dragged.ignore}) \cup {w})
    BY <1>2, <1>3, <1>5 DEF CompatibleWhile
  <2>2. w \in Connection /\ (w = <<q, p>> \/ w = <<p, q>>)
    BY <2>1, OppositeSorted
  <2>3. CASE Wired(q, p)
    <3>1. ~Connects(p)
      BY <2>3 DEF Connects
    <3>2. wires' = wires
      BY <1>1, <3>1, ReleaseKeeps DEF EditorInv
    <3>3. Wired(w[1], w[2])
      <4>1. Wired(p, q)
        BY <1>1, <2>3 DEF EditorInv, WellWired, Wired
      <4> QED BY <2>2, <2>3, <4>1
    <3>4. w \in Wires
      BY <2>2, <3>3 DEF Wires, Connection
    <3> QED BY <1>5, <3>2, <3>4, WiresSame
  <2>4. CASE ~Wired(q, p)
    <3>1. ~Wired(w[1], w[2])
      <4>1. ~Wired(p, q)
        BY <1>1, <2>4 DEF EditorInv, WellWired, Wired
      <4> QED BY <2>2, <2>4, <4>1
    <3>2. wires[w[2]] = <<>>
      BY <2>1, <3>1
    <3>3. ~HasCycle(Wires \cup {w})
      <4>1. CASE dragged.ignore \notin Wires
        BY <2>1, <4>1
      <4>2. CASE dragged.ignore \in Wires
        <5> DEFINE e == dragged.ignore
        <5>1. e \in Connection /\ e # Nothing
          BY <1>4, <4>2
        <5>2. /\ dragged.disconnect # Nothing
              /\ e = Sorted(q, dragged.disconnect)
              /\ <<q, dragged.disconnect>> \in Opposite
          BY <5>1 DEF EditorInv, IgnoresMoved, DragOK
        <5>3. CASE q \in OutPort
          <6>1. e[1] = q /\ w[1] = q
            BY <2>1, <5>2, <5>3, PortsApart DEF Opposite, Sorted
          <6>2. Wires \in SUBSET Connection
            BY <1>4
          <6> HIDE DEF e, w
          <6> QED BY <2>1, <2>2, <5>1, <6>1, <6>2, CycleWithMoved DEF e
        <5>4. CASE q \in InPort
          <6>1. e[2] = q /\ w[2] = q
            BY <2>1, <5>2, <5>4, PortsApart DEF Opposite, Sorted
          <6>2. Wired(e[1], q)
            BY <4>2, <6>1 DEF Wires
          <6>3. Wired(q, e[1])
            BY <1>1, <5>1, <6>2, PortsApart DEF EditorInv, WellWired, Wired, Connection
          <6>4. wires[q] = <<>>
            BY <3>2, <6>1
          <6>5. Range(wires[q]) = {}
            BY <6>4 DEF Range
          <6> QED BY <6>3, <6>5 DEF Wired
        <5> QED BY <2>1, <5>3, <5>4 DEF Opposite
      <4> QED BY <4>1, <4>2
    <3>5. Connects(p)
      BY <1>4, <1>1, <2>1, <2>4, <3>3, PortsApart DEF Connects, CompatibleWhile, Opposite
    <3> QED BY <1>1, <1>5, <3>5, ReleaseConnects DEF EditorInv
  <2> QED BY <2>3, <2>4
<1>6. CASE ~hover.fits
  <2>1. ~Connects(p)
    <3> SUFFICES ASSUME Connects(p) PROVE FALSE
      OBVIOUS
    <3>1. CompatibleWhile(q, p, Nothing)
      BY DEF Connects
    <3>2. (Wires \ {dragged.ignore}) \cup {w} \subseteq (Wires \ {Nothing}) \cup {w}
      BY <1>4
    <3>3. ~HasCycle((Wires \ {dragged.ignore}) \cup {w})
      <4> HIDE DEF w
      <4>1. ~HasCycle((Wires \ {Nothing}) \cup {w})
        BY <3>1 DEF CompatibleWhile, w
      <4> QED BY <3>2, <4>1, CycleLarger
    <3>4. CompatibleWhile(q, p, dragged.ignore)
      BY <3>1, <3>3 DEF CompatibleWhile
    <3> QED BY <1>2, <1>6, <3>4
  <2>2. wires' = wires
    BY <1>1, <2>1, PortsApart, ReleaseKeeps DEF EditorInv
  <2> QED BY <1>6, <2>2
<1> QED BY <1>5, <1>6

(* Releasing the button does what the editor has shown while dragging, and *)
(* no sequence of events makes an acyclic graph cyclic or connects ports   *)
(* whose types do not fit.                                                 *)
THEOREM ReleaseRightCorrect == EditorSpec => ReleaseRight
<1>1. EditorInv /\ [EditorNext]_editorVars =>
        [~HasCycle(Wires) => ~HasCycle(Wires') /\ Wires' \ Wires \subseteq TypesFit]_wires
  <2> SUFFICES ASSUME EditorInv, EditorNext, ~HasCycle(Wires)
               PROVE  ~HasCycle(Wires') /\ Wires' \ Wires \subseteq TypesFit
    BY DEF editorVars
  <2>1. CASE Wires' \subseteq Wires
    BY <2>1, CycleLarger
  <2>2. ASSUME NEW w \in TypesFit, Wires' \subseteq Wires \cup {w}, ~HasCycle(Wires \cup {w})
        PROVE  ~HasCycle(Wires') /\ Wires' \ Wires \subseteq TypesFit
    BY <2>2, CycleLarger
  <2> QED BY <2>1, <2>2, StepConnects
<1>2. EditorInv /\ [EditorNext]_editorVars =>
        [mode = "port" /\ hover.port # Nothing /\ ~HasCycle(Wires)
         /\ (\E left \in BOOLEAN : ReleaseButton(hover.port, left))
           => IF hover.fits THEN Sorted(dragged.port, hover.port) \in Wires'
              ELSE wires' = wires]_mode
  BY ReleaseAsShown
<1> QED BY <1>1, <1>2, EditorInvariant, PTL DEF EditorSpec, ReleaseRight, StaysAcyclic, AsShown

-----------------------------------------------------------------------------
(* The check that the editor calls                                         *)

(* Node n is reached from node m in the altered graph.                     *)
Reached(m, n) == \A S \in SUBSET Node : m \in S /\ ClosedSet(S) => n \in S

LEMMA NodesFinite ==
  IsFiniteSet(Node)
<1>1. Len(Order) \in Nat /\ DOMAIN Order = 1 .. Len(Order)
  BY CheckAssumption, LenProperties
<1>2. \A k \in 1 .. Len(Order) : Order[k] \in Node
  BY CheckAssumption, ElementOfSeq
<1>3. [k \in 1 .. Len(Order) |-> Order[k]] \in Surjection(1 .. Len(Order), Node)
  BY <1>1, <1>2, CheckAssumption DEF Surjection
<1>4. IsFiniteSet(1 .. Len(Order))
  BY <1>1, FS_Interval
<1> QED BY <1>3, <1>4, FS_Surjection

(* The nodes of a cycle each have a connection from one of them.           *)
LEMMA CycleHas ==
  ASSUME check \in Checks, NEW e \in Legs, OnCycle(e)
  PROVE  HasCycle(Legs)
<1> DEFINE a == e[1][1]
           b == e[2][1]
           R == {m \in Node : Reached(b, m)}
           N == {m \in R : Reached(m, a)}
<1>1. a \in Node /\ b \in Node /\ Reached(b, a)
  BY LegsTyped DEF OnCycle, Reached
<1>2. a \in N /\ b \in N
  BY <1>1 DEF Reached
<1>3. ASSUME NEW n \in N PROVE \E w \in Legs : w[1][1] \in N /\ w[2][1] = n
  <2>1. CASE n = b
    BY <1>2, <2>1
  <2>2. CASE n # b
    <3>1. ASSUME \A w \in Legs : w[1][1] \in R => w[2][1] # n PROVE FALSE
      <4>1. ASSUME NEW w \in Legs, w[1][1] \in R PROVE w[2][1] \in R
        <5>1. w[2][1] \in Node
          BY LegsTyped
        <5> QED BY <4>1, <5>1 DEF Reached, ClosedSet
      <4>2. ClosedSet(R \ {n})
        <5> HIDE DEF R
        <5> QED BY <3>1, <4>1 DEF ClosedSet
      <4>3. b \in R \ {n} /\ R \ {n} \in SUBSET Node
        BY <1>2, <2>2
      <4>4. n \in R \ {n}
        <5>1. Reached(b, n)
          OBVIOUS
        <5> HIDE DEF R
        <5> QED BY <4>2, <4>3, <5>1 DEF Reached
      <4> QED BY <4>4
    <3>2. PICK w \in Legs : w[1][1] \in R /\ w[2][1] = n
      BY <3>1
    <3>3. Reached(w[1][1], a)
      BY <3>2 DEF Reached, ClosedSet
    <3> QED BY <3>2, <3>3
  <2> QED BY <2>1, <2>2
<1>4. N \in (SUBSET Node) \ {{}}
  BY <1>2
<1> HIDE DEF N
<1> QED BY <1>3, <1>4 DEF HasCycle

(* Conversely, take of such nodes one that is reached from as few of them  *)
(* as possible: it reaches the one from which it has a connection.         *)
LEMMA HasOnCycle ==
  ASSUME check \in Checks, HasCycle(Legs)
  PROVE  \E e \in Legs : OnCycle(e)
<1>1. PICK N \in (SUBSET Node) \ {{}} :
        \A n \in N : \E w \in Legs : w[1][1] \in N /\ w[2][1] = n
  BY DEF HasCycle
<1> DEFINE D(n) == {m \in N : Reached(m, n)}
           U == {D(n) : n \in N}
           F == FiniteSubsetsOf(Node)
           O == StrictSubsetOrdering(Node)
<1>2. \A n \in N : D(n) \in F
  <2> SUFFICES ASSUME NEW n \in N PROVE D(n) \in F
    OBVIOUS
  <2>1. D(n) \in SUBSET Node
    BY <1>1
  <2>2. IsFiniteSet(D(n))
    <3> HIDE DEF D
    <3> QED BY <2>1, NodesFinite, FS_Subset
  <2> HIDE DEF D
  <2> QED BY <2>1, <2>2 DEF FiniteSubsetsOf
<1>3. U \subseteq F /\ U # {}
  <2> HIDE DEF D, F
  <2> QED BY <1>1, <1>2
<1>4. PICK V \in U : \A W \in U : <<W, V>> \notin O
  <2>1. IsWellFoundedOn(O, F)
    BY FS_StrictSubsetOrderingWellFounded
  <2> HIDE DEF O, F, U
  <2> QED BY <1>3, <2>1, WFMin
<1>5. PICK n \in N : V = D(n)
  BY <1>4
<1>6. PICK w \in Legs : w[1][1] \in N /\ w[2][1] = n
  BY <1>1
<1> DEFINE m == w[1][1]
<1>7. D(m) \subseteq D(n)
  BY <1>6 DEF Reached, ClosedSet
<1>8. n \in D(n)
  BY DEF Reached
<1>9. n \in D(m)
  <2> SUFFICES ASSUME n \notin D(m) PROVE FALSE
    OBVIOUS
  <2>1. <<D(m), D(n)>> \in O
    <3>1. D(m) \subseteq D(n) /\ D(m) # D(n) /\ D(n) \subseteq Node
      BY <1>1, <1>7, <1>8
    <3> HIDE DEF D, m
    <3> QED BY <1>2, <1>6, <3>1 DEF StrictSubsetOrdering, FiniteSubsetsOf, m
  <2>2. D(m) \in U
    BY <1>6
  <2> HIDE DEF D, U, O, m
  <2> QED BY <1>4, <1>5, <2>1, <2>2
<1>10. OnCycle(w)
  BY <1>6, <1>9 DEF Reached, OnCycle
<1> QED BY <1>10

(* The search returns "cycle" if and only if HasCycle holds, as the editor *)
(* has it, of the graph with the new connection and without the moved one. *)
THEOREM SearchDecidesHasCycle ==
  CycleSpec => [](returned # "none" => (returned = "cycle" <=> HasCycle(Legs)))
<1>1. CycleInit => CycleInv
  BY CycleInitially
<1>2. CycleInv /\ [CycleNext]_cycleVars => CycleInv'
  BY CycleStep
<1>3. CycleInv => (returned # "none" => (returned = "cycle" <=> HasCycle(Legs)))
  <2> SUFFICES ASSUME CycleInv, returned # "none"
               PROVE  returned = "cycle" <=> HasCycle(Legs)
    OBVIOUS
  <2>1. check \in Checks
    BY DEF CycleInv, CycleTypeOK
  <2> QED BY <2>1, InvDecides, CycleHas, HasOnCycle
<1> QED BY <1>1, <1>2, <1>3, PTL DEF CycleSpec
=============================================================================
