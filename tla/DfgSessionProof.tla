-------------------------- MODULE DfgSessionProof --------------------------
(***************************************************************************)
(* Theorems about DfgSession, for all node types, topologies and           *)
(* compatible ports, and however often the user edits the graph.           *)
(***************************************************************************)
EXTENDS DfgSession, DfgScheduleProof, NaturalFacts

-----------------------------------------------------------------------------
(* Nodes reached along connections                                         *)

(* The set S is left by no connection of c.                                *)
ClosedAlong(c, S) ==
  \A p \in OutPort : p[1] \in S => {c[p][k][1] : k \in DOMAIN c[p]} \subseteq S

LEMMA DownstreamLeast ==
  ASSUME NEW c, NEW n \in Node, NEW S \in SUBSET Node, n \in S, ClosedAlong(c, S)
  PROVE  Downstream(c, n) \subseteq S
BY DEF Downstream, ClosedAlong

LEMMA DownstreamSelf ==
  ASSUME NEW c, NEW n \in Node
  PROVE  n \in Downstream(c, n) /\ Downstream(c, n) \in SUBSET Node
BY DEF Downstream

LEMMA DownstreamClosed ==
  ASSUME NEW c, IsTopology(c), NEW n \in Node
  PROVE  ClosedAlong(c, Downstream(c, n))
<1> DEFINE D == Downstream(c, n)
<1> SUFFICES ASSUME NEW p \in OutPort, p[1] \in D, NEW k \in DOMAIN c[p]
             PROVE  c[p][k][1] \in D
  BY DEF ClosedAlong
<1>1. p \in Port /\ p[1] \in Node
  BY DEF OutPort, OutPorts, Port
<1>2. c[p][k] \in Port
  BY <1>1 DEF IsTopology
<1>3. c[p][k][1] \in Node
  BY <1>2, PortIsPair
<1>4. ASSUME NEW S \in SUBSET Node, n \in S, ClosedAlong(c, S)
      PROVE  c[p][k][1] \in S
  <2>1. p[1] \in S
    BY <1>4, DownstreamLeast
  <2> QED BY <1>4, <2>1 DEF ClosedAlong
<1> QED BY <1>3, <1>4 DEF Downstream, ClosedAlong

-----------------------------------------------------------------------------
(* Connections                                                             *)

LEMMA InOutPorts ==
  /\ InPort \subseteq Port /\ OutPort \subseteq Port
  /\ InPort \cap OutPort = {}
BY DEF InPort, OutPort, Port, InPorts, OutPorts

(* What IsTopology says, in terms of ranges                                *)
LEMMA TopologyRanges ==
  ASSUME NEW c
  PROVE  IsTopology(c) <=>
           /\ c \in [Port -> Seq(Port)]
           /\ \A p \in InPort : Len(c[p]) <= 1
           /\ \A p \in Port : IsInjective(c[p])
           /\ \A p \in Port : \A q \in Range(c[p]) :
                /\ p \in OutPort => q \in InPort
                /\ p \in InPort => q \in OutPort
                /\ q[1] # p[1]
                /\ p \in Range(c[q])
<1> DEFINE Fine(p, q) == /\ p \in OutPort => q \in InPort
                         /\ p \in InPort => q \in OutPort
                         /\ q[1] # p[1]
                         /\ p \in Range(c[q])
<1>1. ASSUME NEW p, NEW q PROVE p \in Range(c[q]) <=> \E k \in DOMAIN c[q] : c[q][k] = p
  BY DEF Range
<1>2. IsTopology(c) <=>
        /\ c \in [Port -> Seq(Port)]
        /\ \A p \in InPort : Len(c[p]) <= 1
        /\ \A p \in Port : IsInjective(c[p])
        /\ \A p \in Port : \A j \in DOMAIN c[p] : Fine(p, c[p][j])
  BY <1>1 DEF IsTopology, IsInjective
<1> HIDE DEF Fine
<1>3. ASSUME NEW p
      PROVE  (\A j \in DOMAIN c[p] : Fine(p, c[p][j])) <=> (\A q \in Range(c[p]) : Fine(p, q))
  BY DEF Range
<1> QED BY <1>2, <1>3 DEF Fine

LEMMA SingleSequence ==
  ASSUME NEW S, NEW s \in Seq(S), Len(s) <= 1, s # <<>>
  PROVE  Len(s) = 1 /\ DOMAIN s = {1} /\ s[1] \in S /\ s = <<s[1]>> /\ Range(s) = {s[1]}
<1>1. Len(s) = 1
  <2>1. Len(s) \in Nat \ {0}
    BY EmptySeq
  <2> QED BY <2>1, SMTT(30)
<1>2. s \in [1..1 -> S]
  BY <1>1, LenProperties
<1>3. DOMAIN s = {1} /\ s[1] \in S /\ s = <<s[1]>>
  BY <1>1, <1>2
<1>4. Range(s) = {s[1]}
  BY <1>3 DEF Range
<1> QED BY <1>1, <1>3, <1>4

(* The input that an output is connected to is connected to that output.   *)
LEMMA OnlyPeer ==
  ASSUME NEW c, IsTopology(c), NEW p \in Port, NEW q \in InPort, q \in Range(c[p])
  PROVE  c[q] = <<p>>
<1>1. p \in Range(c[q]) /\ c[q] \in Seq(Port) /\ Len(c[q]) <= 1
  BY TopologyRanges, InOutPorts
<1>2. c[q] # <<>>
  BY <1>1 DEF Range
<1> QED BY <1>1, <1>2, SingleSequence

LEMMA InputConns ==
  ASSUME NEW c, IsTopology(c), NEW q \in InPort, c[q] # <<>>
  PROVE  /\ c[q][1] \in OutPort
         /\ c[q] = <<c[q][1]>>
         /\ q \in Range(c[c[q][1]])
<1>1. c[q] \in Seq(Port) /\ Len(c[q]) <= 1 /\ q \in Port
  BY TopologyRanges, InOutPorts
<1>2. c[q] = <<c[q][1]>> /\ c[q][1] \in Range(c[q])
  BY <1>1, SingleSequence
<1>3. c[q][1] \in OutPort /\ q \in Range(c[c[q][1]])
  BY <1>1, <1>2, TopologyRanges
<1> QED BY <1>2, <1>3

LEMMA AppendApart ==
  ASSUME NEW S, NEW s \in Seq(S), NEW x \in S, IsInjective(s), x \notin Range(s)
  PROVE  /\ Append(s, x) \in Seq(S)
         /\ Range(Append(s, x)) = Range(s) \cup {x}
         /\ IsInjective(Append(s, x))
<1> DEFINE u == Append(s, x)
<1>1. Len(s) \in Nat /\ DOMAIN s = 1 .. Len(s)
  BY LenProperties
<1>2. /\ u \in Seq(S)
      /\ Len(u) = Len(s) + 1
      /\ \A i \in 1..Len(s) : u[i] = s[i]
      /\ u[Len(s) + 1] = x
  BY AppendProperties
<1>3. Range(u) = Range(s) \cup {x} /\ IsInjective(u)
  <2> HIDE DEF u
  <2>1. DOMAIN u = (1 .. Len(s)) \cup {Len(s) + 1}
    BY <1>1, <1>2, LenProperties
  <2>2. Range(u) = Range(s) \cup {x}
    BY <1>1, <1>2, <2>1 DEF Range
  <2>3. \A i \in DOMAIN s : u[i] # x
    BY <1>1, <1>2 DEF Range
  <2>4. IsInjective(u)
    BY <1>1, <1>2, <2>1, <2>3 DEF IsInjective
  <2> QED BY <2>2, <2>4
<1> QED BY <1>2, <1>3

(* A set with at most one element as a sequence                            *)
LEMMA SmallSequence ==
  ASSUME NEW S, NEW l, l = {} \/ \E p \in S : l = {p}
  PROVE  /\ SetToSeq(l) \in Seq(S)
         /\ Range(SetToSeq(l)) = l
         /\ l = {} => SetToSeq(l) = <<>>
         /\ \A p \in S : l = {p} => SetToSeq(l) = <<p>>
<1> DEFINE F == {f \in [1..Cardinality(l) -> l] : IsInjective(f)}
<1>1. SetToSeq(l) = CHOOSE f \in F : TRUE
  BY DEF SetToSeq
<1>2. CASE l = {}
  <2>1. Cardinality(l) = 0
    BY <1>2, FS_EmptySet
  <2>2. F = {<<>>}
    <3>1. [1..0 -> {}] = {<<>>}
      <4>1. 1..0 = {}
        OBVIOUS
      <4>2. ASSUME NEW f \in [{} -> {}] PROVE f = <<>>
        <5>1. DOMAIN f = {} /\ DOMAIN <<>> = {}
          OBVIOUS
        <5>2. f = [x \in {} |-> f[x]] /\ <<>> = [x \in {} |-> f[x]]
          BY <5>1
        <5> QED BY <5>2
      <4>3. <<>> \in [{} -> {}]
        OBVIOUS
      <4> QED BY <4>1, <4>2, <4>3
    <3>2. IsInjective(<<>>)
      BY DEF IsInjective
    <3> QED BY <1>2, <2>1, <3>1, <3>2
  <2> HIDE DEF F
  <2>3. SetToSeq(l) = <<>>
    BY <1>1, <2>2
  <2>4. <<>> \in Seq(S) /\ Range(<<>>) = {} /\ \A p : {} # {p}
    BY DEF Range
  <2> QED BY <1>2, <2>3, <2>4
<1>3. ASSUME NEW p \in S, l = {p} PROVE SetToSeq(l) = <<p>> /\ SetToSeq(l) \in Seq(S)
                                        /\ Range(SetToSeq(l)) = l
  <2>1. Cardinality(l) = 1
    BY <1>3, FS_Singleton
  <2>2. \A f \in F : f = <<p>>
    BY <1>3, <2>1
  <2>3. <<p>> \in F
    BY <1>3, <2>1 DEF IsInjective
  <2> HIDE DEF F
  <2>4. SetToSeq(l) = <<p>>
    BY <1>1, <2>2, <2>3
  <2>5. <<p>> \in Seq(S) /\ Len(<<p>>) = 1 /\ <<p>> # <<>> /\ <<p>>[1] = p
    OBVIOUS
  <2>6. Range(<<p>>) = {p}
    <3> DEFINE s == <<p>>
    <3>1. s \in Seq(S) /\ Len(s) <= 1 /\ s # <<>> /\ s[1] = p
      BY <2>5
    <3> HIDE DEF s
    <3>2. Range(s) = {s[1]}
      BY <3>1, SingleSequence
    <3> QED BY <3>1, <3>2 DEF s
  <2> QED BY <1>3, <2>4, <2>5, <2>6
<1>4. ASSUME l # {} PROVE \E p \in S : l = {p} /\ SetToSeq(l) = <<p>>
                                       /\ SetToSeq(l) \in Seq(S) /\ Range(SetToSeq(l)) = l
  BY <1>3, <1>4
<1>5. \A p, r : {p} = {r} => <<p>> = <<r>>
  OBVIOUS
<1>6. CASE l = {}
  BY <1>2, <1>6
<1>7. CASE l # {}
  BY <1>4, <1>5, <1>7
<1> QED BY <1>6, <1>7

-----------------------------------------------------------------------------
(* A change of the graph                                                   *)

(* The connections after the change e                                      *)
EditedConns(e) ==
  [p \in Port |->
     IF p = e.out THEN Remaining(conns[p], e.unlink) \o SetToSeq(e.link)
     ELSE IF p \in e.link THEN <<e.out>>
     ELSE IF p \in e.unlink THEN <<>> ELSE conns[p]]

LEMMA EditType ==
  ASSUME NEW e \in Edits
  PROVE  /\ e.out \in OutPort
         /\ e.unlink \subseteq InPort
         /\ e.link = {} \/ \E p \in InPort : e.link = {p}
<1>1. PICK q \in OutPort : \E u, l \in {{}} \cup {{p} : p \in InPort} : e = EditOf(q, u, l)
  BY DEF Edits
<1>2. PICK u \in {{}} \cup {{p} : p \in InPort} :
             \E l \in {{}} \cup {{p} : p \in InPort} : e = EditOf(q, u, l)
  BY <1>1
<1>3. PICK l \in {{}} \cup {{p} : p \in InPort} : e = EditOf(q, u, l)
  BY <1>2
<1>4. e.out = q /\ e.unlink = u /\ e.link = l
  BY <1>3 DEF EditOf
<1> QED BY <1>4

(* What an allowed change does to each port                                *)
LEMMA EditPorts ==
  ASSUME IsTopology(conns), NEW e \in Edits, IsEdit(e)
  PROVE  /\ EditedConns(e) \in [Port -> Seq(Port)]
         /\ Range(EditedConns(e)[e.out]) = (Range(conns[e.out]) \ e.unlink) \cup e.link
         /\ IsInjective(EditedConns(e)[e.out])
         /\ \A p \in e.link : conns[p] = <<>> /\ EditedConns(e)[p] = <<e.out>>
         /\ \A p \in e.unlink : conns[p] = <<e.out>> /\ EditedConns(e)[p] = <<>>
         /\ \A p \in Port \ ({e.out} \cup e.link \cup e.unlink) :
              EditedConns(e)[p] = conns[p]
<1> DEFINE a == e.out
           u == e.unlink
           l == e.link
           n == EditedConns(e)
           kept == Remaining(conns[a], u)
<1>1. /\ a \in OutPort /\ a \in Port /\ a \notin InPort
      /\ u \subseteq InPort
      /\ l = {} \/ \E p \in InPort : l = {p}
      /\ l \subseteq InPort
  BY EditType, InOutPorts
<1>2. u \subseteq Range(conns[a]) /\ \A p \in l : conns[p] = <<>>
  BY DEF IsEdit, PortsCompatible
<1>3. conns \in [Port -> Seq(Port)]
  BY DEF IsTopology
<1>4. \A p \in u : conns[p] = <<a>>
  BY <1>1, <1>2, OnlyPeer
<1>5. \A p \in l : p \notin Range(conns[a])
  <2> SUFFICES ASSUME NEW p \in l, p \in Range(conns[a]) PROVE FALSE
    OBVIOUS
  <2>1. conns[p] = <<a>>
    BY <1>1, OnlyPeer
  <2>2. conns[p] = <<>> /\ <<a>> # <<>>
    BY <1>2
  <2> QED BY <2>1, <2>2
<1>6. /\ kept \in Seq(Port)
      /\ Range(kept) = Range(conns[a]) \ u
      /\ IsInjective(kept)
  <2>1. conns[a] \in Seq(Port) /\ IsInjective(conns[a])
    BY <1>1, <1>3, TopologyRanges
  <2> QED BY <2>1, RemainingProperties
<1>7. /\ SetToSeq(l) \in Seq(Port)
      /\ Range(SetToSeq(l)) = l
      /\ l = {} => SetToSeq(l) = <<>>
      /\ \A p \in Port : l = {p} => SetToSeq(l) = <<p>>
  BY <1>1, InOutPorts, SmallSequence
<1>8. n[a] = kept \o SetToSeq(l)
  BY <1>1 DEF EditedConns
<1>9. n[a] \in Seq(Port) /\ Range(n[a]) = Range(kept) \cup l /\ IsInjective(n[a])
  <2> HIDE DEF n, kept, a, u, l
  <2>1. CASE l = {}
    BY <1>6, <1>7, <1>8, <2>1, ConcatEmptySeq, ZenonT(30)
  <2>2. CASE l # {}
    <3>1. PICK r \in Port : l = {r} /\ SetToSeq(l) = <<r>> /\ r \notin Range(kept)
      BY <1>1, <1>5, <1>6, <1>7, <2>2, InOutPorts DEF l
    <3>2. n[a] = Append(kept, r)
      <4>1. kept \o <<r>> = Append(kept, r)
        BY <1>6, AppendIsConcat
      <4> QED BY <1>8, <3>1, <4>1
    <3>3. /\ Append(kept, r) \in Seq(Port)
          /\ Range(Append(kept, r)) = Range(kept) \cup {r}
          /\ IsInjective(Append(kept, r))
      <4>1. kept \in Seq(Port) /\ IsInjective(kept) /\ r \notin Range(kept)
        BY <1>6, <3>1
      <4> QED BY <4>1, AppendApart
    <3> QED BY <3>1, <3>2, <3>3
  <2> QED BY <2>1, <2>2
<1>10. \A p \in l : n[p] = <<a>> /\ p \in Port
  BY <1>1, InOutPorts DEF EditedConns
<1>11. \A p \in u : n[p] = <<>> /\ p \in Port
  BY <1>1, <1>2, <1>5, InOutPorts DEF EditedConns
<1>12. \A p \in Port \ ({a} \cup l \cup u) : n[p] = conns[p]
  BY DEF EditedConns
<1>13. n \in [Port -> Seq(Port)]
  <2>1. n = [p \in Port |-> n[p]]
    BY DEF EditedConns
  <2>2. <<a>> \in Seq(Port) /\ <<>> \in Seq(Port)
    BY <1>1
  <2>3. \A p \in Port : n[p] \in Seq(Port)
    <3> HIDE DEF n, a, l, u
    <3> QED BY <1>3, <1>9, <1>10, <1>11, <1>12, <2>2
  <2> HIDE DEF n
  <2> QED BY <2>1, <2>3
<1> QED BY <1>2, <1>4, <1>6, <1>9, <1>10, <1>11, <1>12, <1>13

(* A change keeps the connections recorded at both ends.                   *)
LEMMA EditTopology ==
  ASSUME IsTopology(conns), NEW e \in Edits, IsEdit(e)
  PROVE  IsTopology(EditedConns(e))
<1> DEFINE a == e.out
           u == e.unlink
           l == e.link
           n == EditedConns(e)
<1>1. /\ a \in OutPort /\ a \in Port /\ a \notin InPort
      /\ u \subseteq InPort /\ l \subseteq InPort
      /\ u \subseteq Port /\ l \subseteq Port
  BY EditType, InOutPorts
<1>2. /\ n \in [Port -> Seq(Port)]
      /\ Range(n[a]) = (Range(conns[a]) \ u) \cup l
      /\ IsInjective(n[a])
      /\ \A p \in l : conns[p] = <<>> /\ n[p] = <<a>>
      /\ \A p \in u : conns[p] = <<a>> /\ n[p] = <<>>
      /\ \A p \in Port \ ({a} \cup l \cup u) : n[p] = conns[p]
  BY EditPorts
<1>3. /\ \A p \in InPort : Len(conns[p]) <= 1
      /\ \A p \in Port : IsInjective(conns[p])
      /\ \A p \in Port : \A q \in Range(conns[p]) :
           /\ p \in OutPort => q \in InPort
           /\ p \in InPort => q \in OutPort
           /\ q[1] # p[1]
           /\ p \in Range(conns[q])
  BY TopologyRanges
<1>4. ASSUME NEW p \in l PROVE p[1] # a[1]
  <2>1. a[1] \notin Downstream(conns, p[1])
    BY <1>4 DEF IsEdit, PortsCompatible, HasCycle
  <2>2. p[1] \in Node
    BY <1>1, <1>4, PortIsPair
  <2> QED BY <2>1, <2>2, DownstreamSelf
<1>5. \A p \in l : Range(n[p]) = {a} /\ IsInjective(n[p]) /\ Len(n[p]) <= 1
                  /\ Range(conns[p]) = {}
  <2>1. Range(<<a>>) = {a} /\ IsInjective(<<a>>) /\ Len(<<a>>) <= 1 /\ Range(<<>>) = {}
    BY DEF Range, IsInjective
  <2> HIDE DEF n, a, u, l
  <2> QED BY <1>2, <2>1
<1>6. \A p \in u : Range(n[p]) = {} /\ IsInjective(n[p]) /\ Len(n[p]) <= 1
                  /\ Range(conns[p]) = {a}
  <2>1. Range(<<a>>) = {a} /\ Range(<<>>) = {} /\ IsInjective(<<>>) /\ Len(<<>>) <= 1
    BY DEF Range, IsInjective
  <2> HIDE DEF n, a, u, l
  <2> QED BY <1>2, <2>1
<1>7. \A p \in InPort : Len(n[p]) <= 1
  <2> HIDE DEF n, a, u, l
  <2> QED BY <1>1, <1>2, <1>3, <1>5, <1>6, InOutPorts
<1>8. \A p \in Port : IsInjective(n[p])
  <2> HIDE DEF n, a, u, l
  <2> QED BY <1>2, <1>3, <1>5, <1>6
<1> DEFINE Fine(p, q) == /\ p \in OutPort => q \in InPort
                         /\ p \in InPort => q \in OutPort
                         /\ q[1] # p[1]
                         /\ p \in Range(n[q])
<1>9. ASSUME NEW q \in Range(n[a]) PROVE Fine(a, q)
  <2>1. CASE q \in l
    <3>1. Range(n[q]) = {a} /\ q[1] # a[1] /\ q \in InPort
      BY <1>1, <1>4, <1>5, <2>1
    <3> HIDE DEF n, a, u, l
    <3> QED BY <1>1, <3>1
  <2>2. CASE q \notin l
    <3>1. q \in Range(conns[a]) /\ q \notin u /\ q \in InPort /\ q[1] # a[1] /\ a \in Range(conns[q])
      BY <1>1, <1>2, <1>3, <1>9, <2>2
    <3>2. n[q] = conns[q]
      BY <1>1, <1>2, <2>2, <3>1, InOutPorts
    <3> QED BY <1>1, <3>1, <3>2
  <2> QED BY <2>1, <2>2
<1>10. ASSUME NEW p \in l, NEW q \in Range(n[p]) PROVE Fine(p, q)
  <2>1. q = a
    <3> HIDE DEF n, a, u, l
    <3> QED BY <1>5, <1>10, ZenonT(30)
  <2>2. p \in Range(n[a])
    BY <1>2
  <2>3. p[1] # a[1] /\ p \in InPort /\ p \notin OutPort
    BY <1>1, <1>4, InOutPorts
  <2> HIDE DEF n, a, u, l
  <2> QED BY <1>1, <2>1, <2>2, <2>3
<1>11. ASSUME NEW p \in Port \ ({a} \cup l \cup u), NEW q \in Range(n[p])
       PROVE  Fine(p, q)
  <2>1. q \in Range(conns[p])
    BY <1>2
  <2>2. /\ p \in OutPort => q \in InPort
        /\ p \in InPort => q \in OutPort
        /\ q[1] # p[1]
        /\ p \in Range(conns[q])
        /\ q \in Port
    <3>1. conns \in [Port -> Seq(Port)]
      BY TopologyRanges
    <3>2. q \in Port
      BY <2>1, <3>1 DEF Range
    <3> QED BY <1>3, <2>1, <3>2
  <2>3. p \in Range(n[q])
    <3>1. CASE q = a
      BY <1>2, <2>2, <3>1
    <3>2. CASE q \in l
      BY <1>5, <2>2, <3>2
    <3>3. CASE q \in u
      BY <1>6, <2>2, <3>3
    <3>4. CASE q \in Port \ ({a} \cup l \cup u)
      BY <1>2, <2>2, <3>4
    <3> QED BY <2>2, <3>1, <3>2, <3>3, <3>4
  <2> QED BY <2>2, <2>3
<1>12. \A p \in Port : \A q \in Range(n[p]) : Fine(p, q)
  <2> HIDE DEF Fine, n, a, u, l
  <2> QED BY <1>2, <1>6, <1>9, <1>10, <1>11
<1>13. n \in [Port -> Seq(Port)]
  BY <1>2
<1> QED BY <1>7, <1>8, <1>12, <1>13, TopologyRanges

(* The nodes reached along the connections c                               *)
IsAcyclic(c) == \A p \in InPort : c[p] # <<>> => c[p][1][1] \notin Downstream(c, p[1])

LEMMA EditAcyclic ==
  ASSUME IsTopology(conns), IsAcyclic(conns), NEW e \in Edits, IsEdit(e)
  PROVE  IsAcyclic(EditedConns(e))
<1> DEFINE a == e.out
           u == e.unlink
           l == e.link
           n == EditedConns(e)
           D(m) == Downstream(conns, m)
<1>1. /\ a \in OutPort /\ a \in Port /\ a \notin InPort
      /\ u \subseteq InPort /\ l \subseteq InPort
      /\ l = {} \/ \E p \in InPort : l = {p}
  BY EditType, InOutPorts
<1>2. /\ n \in [Port -> Seq(Port)]
      /\ Range(n[a]) = (Range(conns[a]) \ u) \cup l
      /\ \A p \in l : conns[p] = <<>> /\ n[p] = <<a>>
      /\ \A p \in u : conns[p] = <<a>> /\ n[p] = <<>>
      /\ \A p \in Port \ ({a} \cup l \cup u) : n[p] = conns[p]
  BY EditPorts
<1>3. \A p \in OutPort \ {a} : n[p] = conns[p]
  BY <1>1, <1>2, InOutPorts
<1>4. \A p \in l : a[1] \notin D(p[1])
  BY DEF IsEdit, PortsCompatible, HasCycle
<1>5. \A m \in Node : m \in D(m) /\ D(m) \in SUBSET Node /\ ClosedAlong(conns, D(m))
  BY DownstreamSelf, DownstreamClosed
<1>6. \A p \in InPort \cup OutPort : p[1] \in Node
  BY InOutPorts, PortIsPair
(* A closed set stays closed if it has the ends of the new connection.     *)
<1>7. ASSUME NEW S \in SUBSET Node, ClosedAlong(conns, S),
             a[1] \in S => \A p \in l : p[1] \in S
      PROVE  ClosedAlong(n, S)
  <2> SUFFICES ASSUME NEW p \in OutPort, p[1] \in S, NEW k \in DOMAIN n[p]
               PROVE  n[p][k][1] \in S
    BY DEF ClosedAlong
  <2>1. CASE p = a
    <3>1. n[a][k] \in (Range(conns[a]) \ u) \cup l
      BY <1>2, <2>1 DEF Range
    <3>2. CASE n[a][k] \in l
      BY <1>7, <2>1, <3>2
    <3>3. CASE n[a][k] \in Range(conns[a])
      BY <1>1, <1>7, <2>1, <3>3 DEF ClosedAlong, Range
    <3> QED BY <2>1, <3>1, <3>2, <3>3
  <2>2. CASE p # a
    BY <1>3, <1>7, <2>2 DEF ClosedAlong
  <2> QED BY <2>1, <2>2
<1> SUFFICES ASSUME NEW q \in InPort, n[q] # <<>>
             PROVE  n[q][1][1] \notin Downstream(n, q[1])
  BY DEF IsAcyclic
<1> HIDE DEF n, a, u, l
<1>8. CASE q \in l
  <2>1. q[1] \in Node /\ a[1] \notin D(q[1])
    BY <1>4, <1>6, <1>8
  <2>2. ClosedAlong(n, D(q[1])) /\ q[1] \in D(q[1]) /\ D(q[1]) \in SUBSET Node
    BY <1>5, <1>7, <2>1
  <2>3. Downstream(n, q[1]) \subseteq D(q[1])
    <3> HIDE DEF D
    <3> QED BY <2>1, <2>2, DownstreamLeast
  <2>4. n[q][1] = a
    BY <1>2, <1>8
  <2> QED BY <2>1, <2>3, <2>4
<1>9. CASE q \notin l
  <2>1. q \notin u /\ q # a /\ q \in Port /\ n[q] = conns[q]
    BY <1>1, <1>2, <1>9, InOutPorts
  <2> DEFINE b == conns[q][1]
             S == D(q[1])
  <2>2. conns[q] # <<>> /\ b \in OutPort /\ q \in Range(conns[b]) /\ q[1] \in Node
    BY <1>6, <2>1, InputConns
  <2>3. b[1] \notin S
    BY <2>2 DEF IsAcyclic
  <2>4. S \in SUBSET Node /\ q[1] \in S /\ ClosedAlong(conns, S)
    BY <1>5, <2>2
  <2>5. CASE a[1] \in S => \A p \in l : p[1] \in S
    <3>1. ClosedAlong(n, S)
      BY <1>7, <2>4, <2>5
    <3>2. Downstream(n, q[1]) \subseteq S
      <4> HIDE DEF S
      <4> QED BY <2>2, <2>4, <3>1, DownstreamLeast
    <3> QED BY <2>1, <2>3, <3>2
  <2>6. CASE a[1] \in S /\ \E p \in l : p[1] \notin S
    <3>1. PICK r \in InPort : l = {r}
      BY <1>1, <2>6
    <3> DEFINE T == D(r[1])
    <3>2. T \in SUBSET Node /\ r[1] \in T /\ ClosedAlong(conns, T) /\ a[1] \notin T
      BY <1>4, <1>5, <1>6, <3>1
    <3>3. b[1] \notin T
      <4> SUFFICES ASSUME b[1] \in T PROVE FALSE
        OBVIOUS
      <4> HIDE DEF T, D
      <4>1. q[1] \in T
        BY <2>2, <3>2 DEF ClosedAlong, Range
      <4>2. S \subseteq T
        BY <2>2, <3>2, <4>1, DownstreamLeast DEF D
      <4> QED BY <2>6, <3>2, <4>2
    <3>4. ClosedAlong(conns, S \cup T)
      <4> HIDE DEF S, T
      <4> QED BY <2>4, <3>2 DEF ClosedAlong
    <3>5. ClosedAlong(n, S \cup T)
      <4> HIDE DEF S, T
      <4>1. \A p \in l : p[1] \in S \cup T
        BY <3>1, <3>2
      <4> QED BY <1>7, <2>4, <3>2, <3>4, <4>1
    <3>6. Downstream(n, q[1]) \subseteq S \cup T
      <4> HIDE DEF S, T
      <4> QED BY <2>2, <2>4, <3>2, <3>5, DownstreamLeast
    <3> QED BY <2>1, <2>3, <3>3, <3>6
  <2> QED BY <2>5, <2>6
<1> QED BY <1>8, <1>9

-----------------------------------------------------------------------------
(* The graph stays acyclic                                                 *)

LEMMA ContinueStep == Continue => Step
BY DEF Continue, Step, FailsCleanly, Execute

(* A change waits only for a call that leaves the connections alone.       *)
PendingOK ==
  /\ IsTopology(conns)
  /\ pending \subseteq Edits
  /\ \A e \in pending : IsEdit(e)

GraphInv == PendingOK /\ IsAcyclic(conns)

LEMMA EditsConns ==
  ASSUME NEW e, EditGraph(e)
  PROVE  conns' = EditedConns(e)
BY DEF EditGraph, EditedConns

(* What a step does to the connections and to the change that waits        *)
LEMMA SessionConns ==
  ASSUME [SessionNext]_sessionVars
  PROVE  \/ conns' = conns /\ pending' = pending
         \/ conns' = conns /\ \E e \in Edits : IsEdit(e) /\ pending' = {e}
         \/ /\ pending' = {}
            /\ \E e \in Edits \cup pending : /\ IsEdit(e) \/ e \in pending
                                           /\ conns' = EditedConns(e)
<1>1. CASE UNCHANGED sessionVars
  BY <1>1 DEF sessionVars, vars
<1>2. CASE ScheduleDFG
  BY <1>2 DEF ScheduleDFG, ScheduleGraph
<1>3. CASE \E e \in WidgetEvents : WidgetTrigger(e)
  BY <1>3 DEF WidgetTrigger, DFGNodeTriggered
<1>4. CASE \E n \in Node : DFGNodeDoubleClicked(n)
  BY <1>4 DEF DFGNodeDoubleClicked
<1>5. ASSUME NEW e \in Edits, Edit(e)
      PROVE  /\ pending' = {}
             /\ \E f \in Edits \cup pending : /\ IsEdit(f) \/ f \in pending
                                            /\ conns' = EditedConns(f)
  BY <1>5, EditsConns DEF Edit, EditStart, EventLoop
<1>6. ASSUME NEW e \in Edits, EditHook(e)
      PROVE  conns' = conns /\ \E f \in Edits : IsEdit(f) /\ pending' = {f}
  BY <1>6 DEF EditHook, EditStart, DFGNodeTriggered
<1>7. CASE EditGoesOn
  BY <1>7, EditsConns DEF EditGoesOn
<1>8. CASE SchedulerStep
  BY <1>8, ContinueStep, StepKeepsConns DEF SchedulerStep
<1>9. CASE ProcessGoesOn
  BY <1>9 DEF ProcessGoesOn, DFGNodeTriggered, vars
<1> QED BY <1>1, <1>2, <1>3, <1>4, <1>5, <1>6, <1>7, <1>8, <1>9 DEF SessionNext

(* What a step changes in the graph, it changes in an allowed way.         *)
LEMMA SessionEdits ==
  ASSUME PendingOK, [SessionNext]_sessionVars
  PROVE  /\ PendingOK'
         /\ conns' = conns \/ \E e \in Edits : IsEdit(e) /\ conns' = EditedConns(e)
<1>1. ASSUME conns' = conns, NEW e PROVE IsEdit(e)' <=> IsEdit(e)
  BY <1>1 DEF IsEdit, PortsCompatible, HasCycle
<1>2. CASE conns' = conns /\ pending' = pending
  BY <1>1, <1>2 DEF PendingOK
<1>3. CASE conns' = conns /\ \E e \in Edits : IsEdit(e) /\ pending' = {e}
  BY <1>1, <1>3 DEF PendingOK
<1>4. ASSUME pending' = {}, NEW e \in Edits \cup pending, IsEdit(e) \/ e \in pending,
             conns' = EditedConns(e)
      PROVE  PendingOK' /\ e \in Edits /\ IsEdit(e)
  <2>1. e \in Edits /\ IsEdit(e)
    BY <1>4 DEF PendingOK
  <2>2. IsTopology(EditedConns(e))
    BY <2>1, EditTopology DEF PendingOK
  <2> QED BY <1>4, <2>1, <2>2 DEF PendingOK
<1> QED BY <1>2, <1>3, <1>4, SessionConns

LEMMA GraphStep == GraphInv /\ [SessionNext]_sessionVars => GraphInv'
<1> SUFFICES ASSUME GraphInv, [SessionNext]_sessionVars PROVE GraphInv'
  OBVIOUS
<1>1. /\ PendingOK'
      /\ conns' = conns \/ \E e \in Edits : IsEdit(e) /\ conns' = EditedConns(e)
  BY SessionEdits DEF GraphInv
<1>2. ASSUME NEW e \in Edits, IsEdit(e) PROVE IsAcyclic(EditedConns(e))
  BY <1>2, EditAcyclic DEF GraphInv, PendingOK
<1> QED BY <1>1, <1>2 DEF GraphInv

(* However the user connects and disconnects ports, and in the middle of   *)
(* whatever call: a graph without cycles never gets one, as                *)
(* DFGWidget::portsCompatible intends.                                     *)
THEOREM AcyclicCorrect ==
  (\A c \in Graphs : IsAcyclic(c)) => (SessionSpec => []Acyclic)
<1> SUFFICES ASSUME \A c \in Graphs : IsAcyclic(c)
             PROVE  SessionSpec => []Acyclic
  OBVIOUS
<1>1. SessionInit => GraphInv
  BY GraphsAssumption DEF SessionInit, Init, GraphInv, PendingOK
<1>2. GraphInv => Acyclic
  BY DEF GraphInv, IsAcyclic, Acyclic
<1> QED BY <1>1, <1>2, GraphStep, PTL DEF SessionSpec

-----------------------------------------------------------------------------
(* Who made the calls in progress                                          *)

IsSequence(s) == s \in Seq(Range(s))

(* The values of ctx                                                       *)
IsContext(c) ==
  /\ IsSequence(c)
  /\ \A k \in DOMAIN c : c[k] = [by |-> c[k].by, left |-> c[k].left, found |-> c[k].found]

(* Guarded for the callers c and the processor being enabled or not        *)
CallersOK(c, on) ==
  /\ ~ on <=> \E k \in DOMAIN c : c[k].by # SchedulesDirectly
  /\ \A k \in DOMAIN c : k < Len(c) => c[k].by = "processor"
  /\ Len(c) = 2 => c[2].by = SchedulesDirectly
  /\ Len(c) <= 2

SameCallers(c, d) ==
  IsContext(d) /\ Len(d) = Len(c) /\ \A k \in DOMAIN c : d[k].by = c[k].by

LEMMA SequenceLen ==
  ASSUME NEW s, IsSequence(s)
  PROVE  /\ Len(s) \in Nat /\ DOMAIN s = 1 .. Len(s)
         /\ Len(s) = 0 <=> s = <<>>
BY EmptySeq, LenProperties DEF IsSequence

LEMMA FunctionSequence ==
  ASSUME NEW n \in Nat, NEW f, f = [k \in 1 .. n |-> f[k]]
  PROVE  IsSequence(f) /\ Len(f) = n /\ DOMAIN f = 1 .. n
<1>1. DOMAIN f = 1 .. n
  OBVIOUS
<1>2. \A k \in 1 .. n : f[k] \in Range(f)
  BY <1>1 DEF Range
<1>3. f \in [1 .. n -> Range(f)]
  BY <1>2
<1> DEFINE R == Range(f)
<1>4. f \in Seq(R) /\ Len(f) = n
  <2>1. f \in [1 .. n -> R]
    BY <1>3
  <2> HIDE DEF R
  <2> QED BY <2>1
<1> QED BY <1>1, <1>4 DEF IsSequence

LEMMA EmptySequence == IsSequence(<<>>) /\ IsContext(<<>>) /\ CallersOK(<<>>, TRUE)
<1>1. DOMAIN <<>> = {} /\ Len(<<>>) = 0 /\ <<>> \in Seq(Range(<<>>))
  OBVIOUS
<1> QED BY <1>1 DEF IsSequence, IsContext, CallersOK

(* An element is put in front of a sequence.                               *)
LEMMA FrontSequence ==
  ASSUME NEW s, IsSequence(s), NEW x
  PROVE  /\ IsSequence(<<x>> \o s)
         /\ Len(<<x>> \o s) = Len(s) + 1
         /\ (<<x>> \o s)[1] = x
         /\ \A k \in DOMAIN s : (<<x>> \o s)[k + 1] = s[k]
         /\ \A k \in DOMAIN (<<x>> \o s) : k = 1 \/ k - 1 \in DOMAIN s
<1> DEFINE T == Range(s) \cup {x}
           u == <<x>> \o s
<1>1. s \in Seq(T) /\ <<x>> \in Seq(T) /\ Len(<<x>>) = 1 /\ <<x>>[1] = x
  <2>1. Range(s) \subseteq T
    OBVIOUS
  <2>2. s \in Seq(T)
    <3> HIDE DEF T
    <3>1. s \in [1 .. Len(s) -> Range(s)] /\ Len(s) \in Nat
      BY LenProperties DEF IsSequence
    <3>2. s \in [1 .. Len(s) -> T]
      BY <2>1, <3>1
    <3> QED BY <3>1, <3>2
  <2> QED BY <2>2
<1>2. /\ u \in Seq(T)
      /\ Len(u) = 1 + Len(s)
      /\ \A i \in 1 .. (1 + Len(s)) : u[i] = IF i <= 1 THEN <<x>>[i] ELSE s[i - 1]
  <2> HIDE DEF T
  <2> QED BY <1>1, ConcatProperties
<1>3. Len(s) \in Nat /\ DOMAIN s = 1 .. Len(s)
  BY SequenceLen
<1>4. DOMAIN u = 1 .. (1 + Len(s)) /\ u = [k \in 1 .. (1 + Len(s)) |-> u[k]]
  <2> HIDE DEF T, u
  <2> QED BY <1>2, LenProperties
<1>5. IsSequence(u) /\ Len(u) = Len(s) + 1
  <2> HIDE DEF u
  <2> QED BY <1>3, <1>4, FunctionSequence
<1>6. u[1] = x /\ \A k \in DOMAIN s : u[k + 1] = s[k]
  <2> HIDE DEF u
  <2>1. 1 \in 1 .. (1 + Len(s)) /\ \A k \in DOMAIN s : k + 1 \in 1 .. (1 + Len(s))
                                    /\ ~ (k + 1 <= 1) /\ (k + 1) - 1 = k
    BY <1>3
  <2> QED BY <1>1, <1>2, <2>1
<1>7. \A k \in DOMAIN u : k = 1 \/ k - 1 \in DOMAIN s
  <2> HIDE DEF u
  <2> QED BY <1>3, <1>4
<1> QED BY <1>5, <1>6, <1>7

LEMMA TailSequence ==
  ASSUME NEW s, IsSequence(s), s # <<>>
  PROVE  /\ IsSequence(Tail(s))
         /\ Len(Tail(s)) = Len(s) - 1
         /\ Head(s) = s[1]
         /\ 1 \in DOMAIN s
         /\ \A k \in DOMAIN Tail(s) : k + 1 \in DOMAIN s /\ Tail(s)[k] = s[k + 1]
<1>1. Len(s) \in Nat \ {0} /\ s \in Seq(Range(s)) /\ DOMAIN s = 1 .. Len(s)
  BY SequenceLen DEF IsSequence
<1> DEFINE R == Range(s)
           u == Tail(s)
<1>2. /\ u \in Seq(R) /\ Len(u) = Len(s) - 1 /\ Head(s) = s[1]
      /\ \A k \in 1 .. (Len(s) - 1) : u[k] = s[k + 1]
  <2>1. s \in Seq(R)
    BY <1>1
  <2> HIDE DEF R
  <2> QED BY <1>1, <2>1
<1>3. DOMAIN u = 1 .. (Len(s) - 1) /\ u = [k \in 1 .. (Len(s) - 1) |-> u[k]]
  <2> HIDE DEF R, u
  <2> QED BY <1>2, LenProperties
<1>4. IsSequence(u)
  <2> HIDE DEF u
  <2>1. Len(s) - 1 \in Nat
    BY <1>1
  <2> QED BY <1>3, <2>1, FunctionSequence
<1>5. \A k \in DOMAIN u : k + 1 \in DOMAIN s /\ u[k] = s[k + 1]
  <2> HIDE DEF u
  <2> QED BY <1>1, <1>2, <1>3
<1> QED BY <1>1, <1>2, <1>4, <1>5

LEMMA CallByRecord ==
  ASSUME NEW by
  PROVE  /\ CallBy(by).by = by
         /\ CallBy(by) = [by |-> CallBy(by).by, left |-> CallBy(by).left,
                          found |-> CallBy(by).found]
BY DEF CallBy

(* A call that the processor makes                                         *)
LEMMA ProcessorCalls ==
  ASSUME NEW c, IsContext(c), CallersOK(c, TRUE)
  PROVE  /\ IsContext(<<CallBy("processor")>> \o c)
         /\ Len(<<CallBy("processor")>> \o c) = Len(c) + 1
         /\ CallersOK(<<CallBy("processor")>> \o c, FALSE)
<1> DEFINE x == CallBy("processor")
           d == <<x>> \o c
<1>1. x.by = "processor" /\ x = [by |-> x.by, left |-> x.left, found |-> x.found]
  BY CallByRecord
<1>2. /\ IsSequence(d)
      /\ Len(d) = Len(c) + 1
      /\ d[1] = x
      /\ \A k \in DOMAIN c : d[k + 1] = c[k]
      /\ \A k \in DOMAIN d : k = 1 \/ k - 1 \in DOMAIN c
  BY FrontSequence DEF IsContext
<1>3. Len(c) \in Nat /\ DOMAIN c = 1 .. Len(c) /\ DOMAIN d = 1 .. Len(d)
  BY <1>2, SequenceLen DEF IsContext
<1> HIDE DEF d, x
<1>4. \A k \in DOMAIN d : k = 1 \/ (k - 1 \in DOMAIN c /\ d[k] = c[k - 1])
  BY <1>2, <1>3
<1>5. IsContext(d)
  <2> SUFFICES ASSUME NEW k \in DOMAIN d
               PROVE  d[k] = [by |-> d[k].by, left |-> d[k].left, found |-> d[k].found]
    BY <1>2 DEF IsContext
  <2>1. CASE k = 1
    BY <1>1, <1>2, <2>1
  <2>2. CASE k # 1
    BY <1>4, <2>2 DEF IsContext
  <2> QED BY <2>1, <2>2
<1>6. \A k \in DOMAIN c : c[k].by = SchedulesDirectly
  BY DEF CallersOK
<1>7. Len(c) <= 1
  <2> SUFFICES ASSUME Len(c) = 2 PROVE FALSE
    BY <1>3 DEF CallersOK
  <2>1. 1 \in DOMAIN c /\ 1 < Len(c)
    BY <1>3
  <2>2. c[1].by = "processor"
    BY <2>1 DEF CallersOK
  <2> QED BY <1>6, <2>1, <2>2 DEF SchedulesDirectly
<1>8. d[1].by = "processor" /\ 1 \in DOMAIN d
  BY <1>1, <1>2, <1>3
<1>9. \A k \in DOMAIN d : k < Len(d) => k = 1
  BY <1>2, <1>3, <1>7
<1>10. Len(d) = 2 => d[2].by = SchedulesDirectly
  <2> SUFFICES ASSUME Len(d) = 2 PROVE d[2].by = SchedulesDirectly
    OBVIOUS
  <2>1. 1 \in DOMAIN c /\ d[1 + 1] = c[1]
    BY <1>2, <1>3
  <2> QED BY <1>6, <2>1
<1>11. CallersOK(d, FALSE)
  BY <1>2, <1>3, <1>7, <1>8, <1>9, <1>10 DEF CallersOK, SchedulesDirectly
<1> QED BY <1>2, <1>5, <1>11 DEF d, x

(* A call that the controller or the session makes                         *)
LEMMA FirstCall ==
  ASSUME NEW by
  PROVE  /\ IsContext(<<CallBy(by)>>) /\ Len(<<CallBy(by)>>) = 1
         /\ by # SchedulesDirectly => CallersOK(<<CallBy(by)>>, FALSE)
         /\ by = SchedulesDirectly => CallersOK(<<CallBy(by)>>, TRUE)
<1> DEFINE x == CallBy(by)
           d == <<x>>
<1>1. x.by = by /\ x = [by |-> x.by, left |-> x.left, found |-> x.found]
  BY CallByRecord
<1>2. d = [k \in 1 .. 1 |-> d[k]] /\ d[1] = x
  <2> HIDE DEF x
  <2> QED OBVIOUS
<1> HIDE DEF d, x
<1>3. IsSequence(d) /\ Len(d) = 1 /\ DOMAIN d = {1}
  <2>1. IsSequence(d) /\ Len(d) = 1 /\ DOMAIN d = 1 .. 1
    <3>1. 1 \in Nat
      OBVIOUS
    <3> QED BY <1>2, <3>1, FunctionSequence
  <2> QED BY <2>1
<1>4. IsContext(d)
  BY <1>1, <1>2, <1>3 DEF IsContext
<1>5. by # SchedulesDirectly => CallersOK(d, FALSE)
  BY <1>1, <1>2, <1>3 DEF CallersOK
<1>6. by = SchedulesDirectly => CallersOK(d, TRUE)
  BY <1>1, <1>2, <1>3 DEF CallersOK
<1> QED BY <1>3, <1>4, <1>5, <1>6 DEF d, x

(* The innermost call returns to its caller.                               *)
LEMMA CallEnds ==
  ASSUME NEW c, IsContext(c), c # <<>>, NEW on \in BOOLEAN, CallersOK(c, on)
  PROVE  /\ IsContext(Tail(c)) /\ Len(Tail(c)) = Len(c) - 1
         /\ CallersOK(Tail(c), on \/ Head(c).by # SchedulesDirectly)
<1> DEFINE d == Tail(c)
<1>1. /\ IsSequence(d)
      /\ Len(d) = Len(c) - 1
      /\ Head(c) = c[1] /\ 1 \in DOMAIN c
      /\ \A k \in DOMAIN d : k + 1 \in DOMAIN c /\ d[k] = c[k + 1]
  BY TailSequence DEF IsContext
<1>2. Len(c) \in Nat /\ DOMAIN c = 1 .. Len(c) /\ DOMAIN d = 1 .. Len(d)
  BY <1>1, SequenceLen DEF IsContext
<1> HIDE DEF d
<1>3. IsContext(d)
  BY <1>1 DEF IsContext
<1>4. Len(c) = 1 \/ Len(c) = 2
  BY <1>1, <1>2 DEF CallersOK
<1>5. CASE Len(c) = 1
  <2>1. DOMAIN d = {} /\ Len(d) = 0
    BY <1>1, <1>2, <1>5
  <2>2. on \/ c[1].by # SchedulesDirectly
    BY <1>1, <1>2, <1>5 DEF CallersOK
  <2>3. CallersOK(d, TRUE)
    BY <2>1 DEF CallersOK
  <2> QED BY <1>1, <1>3, <2>2, <2>3 DEF d
<1>6. CASE Len(c) = 2
  <2>1. DOMAIN d = {1} /\ Len(d) = 1 /\ d[1] = c[2]
    BY <1>1, <1>2, <1>6
  <2>2. c[1].by = "processor" /\ c[2].by = SchedulesDirectly
    BY <1>1, <1>2, <1>6 DEF CallersOK
  <2>3. CallersOK(d, TRUE)
    BY <2>1, <2>2 DEF CallersOK
  <2>4. Head(c).by # SchedulesDirectly
    BY <1>1, <2>2 DEF SchedulesDirectly
  <2> QED BY <1>1, <1>3, <2>3, <2>4 DEF d
<1> QED BY <1>4, <1>5, <1>6

LEMMA CallersSame ==
  ASSUME NEW c, IsContext(c), NEW d, SameCallers(c, d), NEW on, CallersOK(c, on)
  PROVE  CallersOK(d, on)
<1>1. DOMAIN c = 1 .. Len(c) /\ DOMAIN d = 1 .. Len(d) /\ Len(c) \in Nat /\ Len(d) = Len(c)
  BY SequenceLen DEF IsContext, SameCallers
<1> QED BY <1>1 DEF CallersOK, SameCallers

(* What the process function has left to look at changes, not its caller.  *)
LEMMA ContextUpdate ==
  ASSUME NEW c, IsContext(c), c # <<>>, NEW x, NEW y
  PROVE  /\ SameCallers(c, c)
         /\ SameCallers(c, [c EXCEPT ![1].left = x])
         /\ SameCallers(c, [c EXCEPT ![1].left = x, ![1].found = y])
         /\ [c EXCEPT ![1].left = x] # <<>>
         /\ [c EXCEPT ![1].left = x, ![1].found = y] # <<>>
<1>1. Len(c) \in Nat /\ DOMAIN c = 1 .. Len(c) /\ 1 \in DOMAIN c
  BY SequenceLen DEF IsContext
<1>2. c[1] = [by |-> c[1].by, left |-> c[1].left, found |-> c[1].found]
  BY <1>1 DEF IsContext
<1>3. ASSUME NEW r, r.by = c[1].by, r = [by |-> r.by, left |-> r.left, found |-> r.found],
             NEW d, d = [c EXCEPT ![1] = r]
      PROVE  SameCallers(c, d) /\ d # <<>>
  <2>1. d = [k \in 1 .. Len(c) |-> d[k]] /\ d[1] = r
          /\ \A k \in DOMAIN c : k # 1 => d[k] = c[k]
    BY <1>1, <1>3
  <2>2. IsSequence(d) /\ Len(d) = Len(c) /\ DOMAIN d = 1 .. Len(c)
    BY <1>1, <2>1, FunctionSequence
  <2>3. IsContext(d)
    <3> SUFFICES ASSUME NEW k \in DOMAIN d
                 PROVE  d[k] = [by |-> d[k].by, left |-> d[k].left, found |-> d[k].found]
      BY <2>2 DEF IsContext
    <3>1. CASE k = 1
      BY <1>3, <2>1, <3>1
    <3>2. CASE k # 1
      BY <1>1, <2>1, <2>2, <3>2 DEF IsContext
    <3> QED BY <3>1, <3>2
  <2>4. \A k \in DOMAIN c : d[k].by = c[k].by
    BY <1>3, <2>1
  <2>5. d # <<>>
    BY <1>1, <2>2
  <2> QED BY <2>2, <2>3, <2>4, <2>5 DEF SameCallers
<1>4. SameCallers(c, c)
  BY DEF SameCallers
<1>5. SameCallers(c, [c EXCEPT ![1].left = x]) /\ [c EXCEPT ![1].left = x] # <<>>
  <2> DEFINE r == [by |-> c[1].by, left |-> x, found |-> c[1].found]
             d == [c EXCEPT ![1].left = x]
  <2>1. d = [c EXCEPT ![1] = [c[1] EXCEPT !.left = x]]
    OBVIOUS
  <2>2. [c[1] EXCEPT !.left = x] = r
    BY <1>2
  <2>3. r.by = c[1].by /\ r = [by |-> r.by, left |-> r.left, found |-> r.found]
    OBVIOUS
  <2> HIDE DEF d, r
  <2>4. SameCallers(c, d) /\ d # <<>>
    BY <1>3, <2>1, <2>2, <2>3
  <2> QED BY <2>4 DEF d
<1>6. SameCallers(c, [c EXCEPT ![1].left = x, ![1].found = y])
        /\ [c EXCEPT ![1].left = x, ![1].found = y] # <<>>
  <2> DEFINE r == [by |-> c[1].by, left |-> x, found |-> y]
             d == [c EXCEPT ![1].left = x, ![1].found = y]
  <2>1. d = [c EXCEPT ![1] = r]
    <3> DEFINE b == [c EXCEPT ![1] = [c[1] EXCEPT !.left = x]]
    <3>1. d = [b EXCEPT ![1] = [b[1] EXCEPT !.found = y]]
      OBVIOUS
    <3>2. b[1] = [by |-> c[1].by, left |-> x, found |-> c[1].found]
      BY <1>1, <1>2
    <3>3. [b[1] EXCEPT !.found = y] = r
      BY <3>2
    <3>4. DOMAIN b = DOMAIN c /\ \A k \in DOMAIN c : k # 1 => b[k] = c[k]
      OBVIOUS
    <3> HIDE DEF b, r
    <3> QED BY <3>1, <3>3, <3>4
  <2>3. r.by = c[1].by /\ r = [by |-> r.by, left |-> r.left, found |-> r.found]
    OBVIOUS
  <2> HIDE DEF d, r
  <2>4. SameCallers(c, d) /\ d # <<>>
    BY <1>3, <2>1, <2>3
  <2> QED BY <2>4 DEF d
<1> QED BY <1>4, <1>5, <1>6

GuardInv ==
  /\ IsSequence(stack) /\ IsContext(ctx) /\ Len(ctx) = Len(stack)
  /\ enabled \in BOOLEAN /\ CallersOK(ctx, enabled)

LEMMA StepTop ==
  ASSUME Step
  PROVE  /\ stack # <<>>
         /\ (\E f : stack' = [stack EXCEPT ![1] = f]) \/ stack' = Tail(stack)
<1>1. CASE EvalStart \/ Propagate \/ EvalEnd
  BY <1>1 DEF EvalStart, Propagate, EvalEnd, In, SetTop, Return
<1>2. CASE RootsStart \/ RootsVisit \/ RootsBack \/ RootsEnd
  BY <1>2 DEF RootsStart, RootsVisit, RootsBack, RootsEnd, Visit, In, SetTop, Return
<1>3. CASE FindReady
  BY <1>3 DEF FindReady, In, SetTop
<1>4. CASE ProcessStart
  BY <1>4 DEF ProcessStart, In, SetTop, Return
<1>5. CASE ProcessSkip \/ ProcessOk \/ ProcessFail \/ NotifyEnd \/ RunEnd
  BY <1>5 DEF ProcessSkip, ProcessOk, ProcessFail, NotifyEnd, RunEnd, AfterProcess,
              In, SetTop, Return
<1>6. CASE Notify
  BY <1>6 DEF Notify, In, SetTop, Return
<1> QED BY <1>1, <1>2, <1>3, <1>4, <1>5, <1>6 DEF Step, Negotiate, FindRoots, Execute

LEMMA ContinueCalls ==
  ASSUME IsSequence(stack), Continue
  PROVE  /\ stack # <<>> /\ IsSequence(stack')
         /\ Len(stack') = Len(stack) \/ (stack' = Tail(stack) /\ Len(stack') = Len(stack) - 1)
<1>1. /\ stack # <<>>
      /\ (\E f : stack' = [stack EXCEPT ![1] = f]) \/ stack' = Tail(stack)
  BY ContinueStep, StepTop
<1>2. Len(stack) \in Nat /\ DOMAIN stack = 1 .. Len(stack)
  BY SequenceLen
<1>3. ASSUME NEW f, stack' = [stack EXCEPT ![1] = f]
      PROVE  IsSequence(stack') /\ Len(stack') = Len(stack)
  <2>1. stack' = [k \in 1 .. Len(stack) |-> stack'[k]]
    BY <1>2, <1>3
  <2> QED BY <1>2, <2>1, FunctionSequence
<1>4. CASE stack' = Tail(stack)
  BY <1>1, <1>4, TailSequence
<1> QED BY <1>1, <1>3, <1>4

LEMMA StartCalls ==
  ASSUME IsSequence(stack), NEW n, NEW mask, StartComponent(n, mask)
  PROVE  IsSequence(stack') /\ Len(stack') = Len(stack) + 1
<1>1. Len(stack) \in Nat /\ DOMAIN stack = 1 .. Len(stack)
  BY SequenceLen
<1>2. IsSequence(Severed) /\ Len(Severed) = Len(stack)
  <2>1. Severed = [k \in 1 .. Len(stack) |-> Severed[k]]
    BY <1>1 DEF Severed
  <2> QED BY <1>1, <2>1, FunctionSequence
<1> DEFINE f == NewFrame("component", n, <<n>>)
<1>3. stack' = <<f>> \o Severed
  BY DEF StartComponent, Cons
<1> HIDE DEF f
<1>4. IsSequence(<<f>> \o Severed) /\ Len(<<f>> \o Severed) = Len(Severed) + 1
  BY <1>2, FrontSequence
<1> QED BY <1>2, <1>3, <1>4

(* A widget triggers its node, in the middle of a call or not.             *)
LEMMA TriggerGuards ==
  ASSUME GuardInv, NEW n, NEW mask, DFGNodeTriggered(n, mask),
         NEW c, SameCallers(ctx, c), ctx' = Started("processor") \o c
  PROVE  GuardInv'
<1>1. /\ IsContext(c) /\ IsSequence(c) /\ Len(c) = Len(stack)
      /\ CallersOK(c, enabled)
  BY CallersSame DEF GuardInv, SameCallers, IsContext
<1>2. Len(stack) \in Nat
  BY SequenceLen DEF GuardInv
<1>3. CASE enabled /\ enabled' = FALSE /\ StartComponent(n, mask)
  <2>1. IsSequence(stack') /\ Len(stack') = Len(stack) + 1
    BY <1>3, StartCalls DEF GuardInv
  <2>2. ctx' = <<CallBy("processor")>> \o c
    BY <1>2, <2>1 DEF Started
  <2>3. CallersOK(c, TRUE)
    BY <1>1, <1>3 DEF GuardInv
  <2>4. IsContext(ctx') /\ Len(ctx') = Len(c) + 1 /\ CallersOK(ctx', FALSE)
    BY <1>1, <2>2, <2>3, ProcessorCalls
  <2> QED BY <1>1, <1>3, <2>1, <2>4 DEF GuardInv
<1>4. CASE ~ enabled /\ UNCHANGED <<enabled, stack>>
  <2>1. Started("processor") = <<>>
    BY <1>2, <1>4 DEF Started
  <2>2. ctx' = c
    <3>1. c \in Seq(Range(c))
      BY <1>1 DEF IsSequence
    <3> QED BY <2>1, <3>1, ConcatEmptySeq
  <2> QED BY <1>1, <1>4, <2>2 DEF GuardInv
<1> QED BY <1>3, <1>4 DEF DFGNodeTriggered

(* No call is in progress, so the processor is enabled.                    *)
LEMMA IdleGuards ==
  ASSUME GuardInv, Idle
  PROVE  enabled = TRUE /\ IsSequence(stack) /\ Len(stack) = 0
<1>1. Len(stack) = 0 /\ Len(ctx) = 0
  BY DEF Idle, GuardInv
<1>2. DOMAIN ctx = {}
  BY <1>1, SequenceLen DEF GuardInv, IsContext
<1> QED BY <1>1, <1>2 DEF GuardInv, CallersOK

LEMMA DirectGuards ==
  ASSUME IsSequence(stack), Len(stack) = 0, enabled = TRUE, enabled' = enabled,
         NEW n, NEW mask, StartComponent(n, mask), ctx' = <<CallBy(SchedulesDirectly)>>
  PROVE  GuardInv'
<1>1. IsSequence(stack') /\ Len(stack') = 1
  BY StartCalls
<1>2. IsContext(ctx') /\ Len(ctx') = 1 /\ CallersOK(ctx', TRUE)
  BY FirstCall
<1> QED BY <1>1, <1>2 DEF GuardInv

LEMMA EditGuards ==
  ASSUME GuardInv, Idle, NEW e, EditGraph(e)
  PROVE  GuardInv'
<1>1. enabled' = enabled
  BY DEF EditGraph
<1>2. CASE UNCHANGED <<stack, ctx>>
  BY <1>1, <1>2 DEF GuardInv
<1>3. ASSUME NEW n, NEW mask, StartComponent(n, mask), ctx' = <<CallBy(SchedulesDirectly)>>
      PROVE  GuardInv'
  BY <1>1, <1>3, IdleGuards, DirectGuards
<1> QED BY <1>2, <1>3 DEF EditGraph

LEMMA GuardStep == GuardInv /\ [SessionNext]_sessionVars => GuardInv'
<1> SUFFICES ASSUME GuardInv, [SessionNext]_sessionVars PROVE GuardInv'
  OBVIOUS
<1>0. SameCallers(ctx, ctx)
  BY DEF GuardInv, SameCallers
<1>1. CASE UNCHANGED sessionVars
  BY <1>1 DEF sessionVars, vars, GuardInv
<1>2. CASE ScheduleDFG
  <2>1. PICK f : stack' = <<f>>
    BY <1>2 DEF ScheduleDFG, ScheduleGraph
  <2>2. IsSequence(<<f>>) /\ Len(<<f>>) = 1
    <3>1. <<f>> = [k \in 1 .. 1 |-> <<f>>[k]] /\ 1 \in Nat
      OBVIOUS
    <3> QED BY <3>1, FunctionSequence
  <2>3. enabled' = FALSE /\ ctx' = <<CallBy("session")>>
    BY <1>2 DEF ScheduleDFG
  <2>4. IsContext(ctx') /\ Len(ctx') = 1 /\ CallersOK(ctx', FALSE)
    BY <2>3, FirstCall DEF SchedulesDirectly
  <2> QED BY <2>1, <2>2, <2>3, <2>4 DEF GuardInv
<1>3. ASSUME NEW e \in WidgetEvents, WidgetTrigger(e) PROVE GuardInv'
  BY <1>0, <1>3, TriggerGuards DEF WidgetTrigger
<1>4. ASSUME NEW n \in Node, DFGNodeDoubleClicked(n) PROVE GuardInv'
  BY <1>4, IdleGuards, DirectGuards DEF DFGNodeDoubleClicked, EventLoop
<1>5. ASSUME NEW e \in Edits, Edit(e) PROVE GuardInv'
  BY <1>5, EditGuards DEF Edit, EditStart, EventLoop
<1>6. ASSUME NEW e \in Edits, EditHook(e) PROVE GuardInv'
  BY <1>0, <1>6, TriggerGuards DEF EditHook
<1>7. CASE EditGoesOn
  BY <1>7, EditGuards DEF EditGoesOn
<1>8. CASE SchedulerStep
  <2>1. /\ stack # <<>> /\ IsSequence(stack')
        /\ Len(stack') = Len(stack) \/ (stack' = Tail(stack) /\ Len(stack') = Len(stack) - 1)
    BY <1>8, ContinueCalls DEF GuardInv, SchedulerStep
  <2>2. Len(stack) \in Nat \ {0} /\ ctx # <<>>
    BY <2>1, SequenceLen DEF GuardInv, IsContext
  <2>3. CASE EndOfCall
    <3>1. Len(stack') = Len(stack) - 1 /\ ctx' = Tail(ctx)
            /\ enabled' = (enabled \/ Head(ctx).by # SchedulesDirectly)
      BY <2>1, <2>2, <2>3 DEF EndOfCall, Returning, EnableAgain
    <3>2. /\ IsContext(Tail(ctx)) /\ Len(Tail(ctx)) = Len(ctx) - 1
          /\ CallersOK(Tail(ctx), enabled \/ Head(ctx).by # SchedulesDirectly)
      BY <2>2, CallEnds DEF GuardInv
    <3> QED BY <2>1, <3>1, <3>2 DEF GuardInv
  <2>4. CASE InsideCall
    <3>1. Len(stack') = Len(stack) /\ enabled' = enabled
      BY <2>1, <2>2, <2>4 DEF InsideCall, Returning
    <3>2. SameCallers(ctx, ctx')
      BY <1>0, <2>2, <2>4, ContextUpdate DEF InsideCall, GuardInv
    <3>3. CallersOK(ctx', enabled) /\ IsContext(ctx') /\ Len(ctx') = Len(ctx)
      BY <3>2, CallersSame DEF GuardInv, SameCallers
    <3> QED BY <2>1, <3>1, <3>3 DEF GuardInv
  <2> QED BY <1>8, <2>3, <2>4 DEF SchedulerStep
<1>9. CASE ProcessGoesOn
  <2>1. stack # <<>> /\ ctx # <<>>
    BY <1>9, SequenceLen DEF ProcessGoesOn, In, GuardInv, IsContext
  <2>2. PICK i \in {Head(Left)} : ProcessGoesOn!3!(Top.cur, i)
    BY <1>9 DEF ProcessGoesOn
  <2> DEFINE looked == [ctx EXCEPT ![1].left = Tail(@)]
             found == [looked EXCEPT ![1].found = i]
  <2>3. SameCallers(ctx, looked) /\ SameCallers(ctx, found)
    <3>1. looked = [ctx EXCEPT ![1].left = Tail(ctx[1].left)]
            /\ found = [ctx EXCEPT ![1].left = Tail(ctx[1].left), ![1].found = i]
      OBVIOUS
    <3> QED BY <2>1, <3>1, ContextUpdate DEF GuardInv
  <2>4. CASE ctx' = looked /\ UNCHANGED <<vars, enabled>>
    <3>1. stack' = stack /\ enabled' = enabled
      BY <2>4 DEF vars
    <3>2. CallersOK(ctx', enabled) /\ IsContext(ctx') /\ Len(ctx') = Len(ctx)
      BY <2>3, <2>4, CallersSame DEF GuardInv, SameCallers
    <3> QED BY <3>1, <3>2 DEF GuardInv
  <2>5. CASE \E n, mask : DFGNodeTriggered(n, mask) /\ ctx' = Started("processor") \o found
    <3> HIDE DEF found
    <3> QED BY <2>3, <2>5, TriggerGuards
  <2> QED BY <2>2, <2>4, <2>5
<1> QED BY <1>1, <1>2, <1>3, <1>4, <1>5, <1>6, <1>7, <1>8, <1>9 DEF SessionNext

(* The processor is enabled again exactly by the calls that disabled it,   *)
(* and calls nest only the way that DFGQTProcessor allows, whatever the    *)
(* widgets do while their nodes are processed and whatever the results.    *)
THEOREM GuardedCorrect == SessionSpec => []Guarded
<1>1. SessionInit => GuardInv
  BY EmptySequence DEF SessionInit, Init, GuardInv
<1>2. GuardInv => Guarded
  BY DEF GuardInv, CallersOK, Guarded
<1> QED BY <1>1, <1>2, GuardStep, PTL DEF SessionSpec

-----------------------------------------------------------------------------
(* What is new at an input port                                            *)

(* A mask of node n that pulls inputs and pushes outputs                   *)
Proper(n, m) == m \in Mask(n) /\ IsDirected(TypeOf[n], m)

MasksProper == \A n \in Node : Proper(n, required[n]) /\ Proper(n, negotiated[n])

InsProper(f) == f.phase \in {"call", "skip"} => f.ins \subseteq InPorts(TypeOf[f.cur])

CallsProper == \A k \in DOMAIN stack : InsProper(stack[k])

(* The generations of the inputs that were not read since they were        *)
(* connected                                                               *)
GensFresh ==
  /\ \A p \in OutPort : generation[p] # 0
  /\ \A p \in InPort : conns[p] # <<>> /\ p \notin read => generation[p] = 0

FreshInv == Typed /\ PendingOK /\ MasksProper /\ CallsProper /\ GensFresh

LEMMA PortsPaired ==
  ASSUME NEW p
  PROVE  /\ p \in InPort => p[1] \in Node /\ p[2] \in InPorts(TypeOf[p[1]]) /\ p \in Port
         /\ p \in OutPort => p[1] \in Node /\ p[2] \in OutPorts(TypeOf[p[1]]) /\ p \in Port
BY DEF InPort, OutPort, Port, InPorts, OutPorts

LEMMA ReactionsAre ==
  /\ "pull_new" \in Reaction /\ "pull_old" \in Reaction
  /\ "push_new" \in Reaction /\ "push_old" \in Reaction
  /\ \A r \in Reaction : r = "pull_new" \/ r = "pull_old" \/ r = "push_new" \/ r = "push_old"
BY DEF Reaction

LEMMA NoMaskProper == ASSUME NEW n \in Node PROVE Proper(n, NoMask)
BY NoMaskType DEF Proper, IsDirected, NoMask, Reaction

LEMMA PushMaskProper ==
  ASSUME NEW n \in Node, NEW m, Proper(n, m), NEW outs \in SUBSET OutPorts(TypeOf[n])
  PROVE  Proper(n, [m EXCEPT !["push_new"] = outs])
BY ReactionsAre DEF Proper, Mask, IsDirected, OutPorts

LEMMA PullMaskProper ==
  ASSUME NEW n \in Node, NEW m, Proper(n, m), NEW ins \in SUBSET InPorts(TypeOf[n])
  PROVE  Proper(n, [m EXCEPT !["pull_old"] = ins])
BY ReactionsAre DEF Proper, Mask, IsDirected, InPorts

LEMMA PullAllProper == ASSUME NEW n \in Node PROVE Proper(n, PullAll(n))
BY PullAllType, ReactionsAre DEF Proper, IsDirected, PullAll

LEMMA ApplyProper ==
  ASSUME NEW n \in Node, NEW a, Proper(n, a), NEW b, Proper(n, b)
  PROVE  Proper(n, Apply(a, b))
<1>1. Apply(a, b) \in Mask(n)
  BY ApplyType DEF Proper
<1>2. \A r \in Reaction : Apply(a, b)[r] = a[r] \cup b[r]
  BY DEF Apply
<1> QED BY <1>1, <1>2, ReactionsAre DEF Proper, IsDirected

(* The masks with which widgets request the processing of their nodes      *)
LEMMA WidgetMaskProper ==
  ASSUME MasksProper, NEW n \in Node, NEW e,
         e.mode \in {"reset", "set", "keep"}, e.outs \subseteq OutPorts(TypeOf[n])
  PROVE  Proper(n, WidgetMask(n, e))
<1>1. Proper(n, required[n])
  BY DEF MasksProper
<1>2. CASE e.mode = "reset"
  <2>1. WidgetMask(n, e) = [NoMask EXCEPT !["push_new"] = e.outs]
    BY <1>2 DEF WidgetMask
  <2>2. Proper(n, NoMask) /\ e.outs \in SUBSET OutPorts(TypeOf[n])
    BY NoMaskProper
  <2>3. Proper(n, [NoMask EXCEPT !["push_new"] = e.outs])
    BY <2>2, PushMaskProper
  <2> QED BY <2>1, <2>3
<1>3. CASE e.mode = "set"
  <2>1. WidgetMask(n, e) = [required[n] EXCEPT !["push_new"] = e.outs]
    BY <1>3 DEF WidgetMask
  <2> QED BY <1>1, <2>1, PushMaskProper
<1>4. CASE e.mode = "keep"
  BY <1>1, <1>4 DEF WidgetMask
<1> QED BY <1>2, <1>3, <1>4

LEMMA MaskRecord ==
  ASSUME NEW n \in Node, NEW m, Proper(n, m)
  PROVE  m \in [Reaction -> SUBSET PortIndexes] /\ m \in Mask(n)
BY MaskIndexes DEF Proper

-----------------------------------------------------------------------------
(* The start of a call                                                     *)

LEMMA SeveredFrames ==
  ASSUME Typed, CallsProper
  PROVE  /\ Severed \in Seq(Frame)
         /\ \A k \in DOMAIN Severed : WorkOK(Severed[k]) /\ InsProper(Severed[k])
<1>1. stack \in Seq(Frame) /\ Len(stack) \in Nat /\ DOMAIN stack = 1 .. Len(stack)
  BY LenProperties DEF Typed
<1>2. ASSUME NEW k \in DOMAIN stack
      PROVE  Severed[k] \in Frame /\ WorkOK(Severed[k]) /\ InsProper(Severed[k])
  <2>1. stack[k] \in Frame /\ WorkOK(stack[k]) /\ InsProper(stack[k])
    BY <1>1, <1>2 DEF Typed, CallsProper
  <2>2. CASE stack[k].list = <<>>
    BY <1>2, <2>1, <2>2 DEF Severed
  <2>3. CASE stack[k].list # <<>>
    <3> DEFINE f == stack[k]
               g == [f EXCEPT !.loop = {Head(f.list)}, !.list = <<>>]
    <3>1. Severed[k] = g
      BY <1>2, <2>3 DEF Severed
    <3>2. f \in Frame /\ f.list \in Seq(Node) /\ f.list # <<>>
      BY <2>1, <2>3 DEF Frame
    <3>3. Head(f.list) \in Node
      BY <3>2
    <3>4. <<>> \in Seq(Node)
      OBVIOUS
    <3>5. g \in Frame /\ g.phase = f.phase /\ g.cur = f.cur /\ g.work = f.work
            /\ g.ins = f.ins /\ g.outs = f.outs /\ g.todo = f.todo
      <4> HIDE DEF f
      <4> QED BY <3>2, <3>3, <3>4 DEF Frame
    <3>6. WorkOK(f) /\ InsProper(f)
      BY <2>1
    <3> HIDE DEF f, g
    <3>7. WorkOK(g) /\ InsProper(g)
      BY <3>5, <3>6 DEF WorkOK, InsProper
    <3> QED BY <3>1, <3>5, <3>7
  <2> QED BY <2>2, <2>3
<1>3. DOMAIN Severed = DOMAIN stack /\ Severed = [k \in 1 .. Len(stack) |-> Severed[k]]
  BY <1>1 DEF Severed
<1>4. Severed \in Seq(Frame)
  <2>1. Severed \in [1 .. Len(stack) -> Frame]
    BY <1>1, <1>2, <1>3
  <2> QED BY <1>1, <2>1
<1> QED BY <1>2, <1>3, <1>4

(* A call for the node n starts, in the middle of another or not.          *)
LEMMA StartProper ==
  ASSUME Typed, MasksProper, CallsProper, IsTopology(conns)', Idle \/ conns' = conns,
         generation' \in [Port -> 0..GenMax], ret' = ret, calls' \in Nat,
         NEW n \in Node, NEW mask, Proper(n, mask), StartComponent(n, mask)
  PROVE  Typed' /\ MasksProper' /\ CallsProper'
<1> DEFINE neg == [m \in Node |-> IF m = n THEN mask ELSE NoMask]
           f == NewFrame("component", n, <<n>>)
<1>1. PICK S \in {Component(n)'} : Reset(S, neg)
  BY DEF StartComponent
<1>2. S \in SUBSET Node
  BY DEF Component
<1>3. \A m \in Node : Proper(m, neg[m])
  BY NoMaskProper
<1>4. \A m \in Node : neg[m] \in Mask(m)
  BY <1>3 DEF Proper
<1> HIDE DEF neg
<1>5. /\ deps' \in [Node -> Nat]
      /\ negotiated' \in [Node -> [Reaction -> SUBSET PortIndexes]]
      /\ propagated' \in [Node -> [Reaction -> SUBSET PortIndexes]]
      /\ \A m \in Node : negotiated'[m] \in Mask(m) /\ propagated'[m] \in Mask(m)
      /\ marking' \in [Node -> Marking]
      /\ written' \subseteq OutPort
  BY <1>1, <1>2, <1>4, ResetType
<1>6. \A m \in Node : Proper(m, negotiated'[m])
  <2>1. \A m \in Node : negotiated'[m] = neg[m] \/ negotiated'[m] = negotiated[m]
    BY <1>1 DEF Reset
  <2> QED BY <1>3, <2>1 DEF MasksProper
<1>7. required' = [required EXCEPT ![n] = mask]
  BY DEF StartComponent
<1>8. required' \in [Node -> [Reaction -> SUBSET PortIndexes]]
  <2>1. mask \in [Reaction -> SUBSET PortIndexes]
    BY MaskRecord
  <2> QED BY <1>7, <2>1 DEF Typed
<1>9. \A m \in Node : Proper(m, required'[m])
  BY <1>7 DEF Typed, MasksProper
<1>10. /\ Severed \in Seq(Frame)
       /\ \A k \in DOMAIN Severed : WorkOK(Severed[k]) /\ InsProper(Severed[k])
  BY SeveredFrames
<1>11. f \in Frame /\ WorkOK(f)
  <2>1. <<n>> \in Seq(Node) /\ "component" \in {"component", "graph"}
    OBVIOUS
  <2> QED BY <2>1, NewFrameType
<1>12. InsProper(f)
  BY DEF InsProper, NewFrame
<1>13. WorkOK(f)'
  BY DEF WorkOK, NewFrame
<1>14. stack' = <<f>> \o Severed
  BY DEF StartComponent, Cons
<1> HIDE DEF f
<1>15. /\ stack' \in Seq(Frame)
       /\ Len(stack') = 1 + Len(Severed) /\ Len(Severed) \in Nat
       /\ \A i \in 1 .. (1 + Len(Severed)) : stack'[i] = IF i <= 1 THEN f ELSE Severed[i - 1]
  <2>1. <<f>> \in Seq(Frame) /\ Len(<<f>>) = 1 /\ <<f>>[1] = f
    BY <1>11
  <2>2. Len(Severed) \in Nat
    BY <1>10, LenProperties
  <2>3. /\ <<f>> \o Severed \in Seq(Frame)
        /\ Len(<<f>> \o Severed) = Len(<<f>>) + Len(Severed)
        /\ \A i \in 1 .. (Len(<<f>>) + Len(Severed)) :
             (<<f>> \o Severed)[i] = IF i <= Len(<<f>>) THEN <<f>>[i] ELSE Severed[i - Len(<<f>>)]
    BY <1>10, <2>1, ConcatProperties
  <2> QED BY <1>14, <2>1, <2>2, <2>3
<1>16. ASSUME NEW k \in DOMAIN stack'
       PROVE  stack'[k] = f \/ \E j \in DOMAIN Severed : stack'[k] = Severed[j]
  <2>1. k \in 1 .. (1 + Len(Severed)) /\ DOMAIN Severed = 1 .. Len(Severed)
    BY <1>10, <1>15, <1>16, LenProperties
  <2>2. CASE k <= 1
    BY <1>15, <2>1, <2>2
  <2>3. CASE ~ (k <= 1)
    <3>1. k - 1 \in DOMAIN Severed /\ stack'[k] = Severed[k - 1]
      BY <1>15, <2>1, <2>3
    <3> QED BY <3>1
  <2> QED BY <2>2, <2>3
<1>17. ASSUME NEW k \in DOMAIN stack' PROVE InsProper(stack'[k])
  BY <1>10, <1>12, <1>16
<1>18. ASSUME NEW k \in DOMAIN stack' PROVE WorkOK(stack[k])'
  <2>1. CASE stack'[k] = f
    BY <1>13, <2>1 DEF WorkOK
  <2>2. ASSUME NEW j \in DOMAIN Severed, stack'[k] = Severed[j] PROVE WorkOK(stack[k])'
    <3>1. conns' = conns
      <4>1. CASE Idle
        <5>1. Severed = [i \in {} |-> 0]
          BY <4>1 DEF Severed, Idle
        <5> QED BY <2>2, <5>1
      <4> QED BY <4>1
    <3>2. WorkOK(Severed[j])
      BY <1>10, <2>2
    <3> QED BY <2>2, <3>1, <3>2 DEF WorkOK, IsLink
  <2> QED BY <1>16, <1>18, <2>1, <2>2
<1>19. /\ (\A k \in DOMAIN stack : WorkOK(stack[k]))'
       /\ CallsProper'
  BY <1>17, <1>18 DEF CallsProper, InsProper
<1>20. ret' \in {"none", "ok", "error"}
  BY DEF Typed
<1>21. Typed'
  BY <1>5, <1>8, <1>15, <1>19, <1>20 DEF Typed, Mask
<1>22. MasksProper'
  BY <1>6, <1>9 DEF MasksProper, Proper, Mask, IsDirected
<1> QED BY <1>19, <1>21, <1>22

(* A widget triggers its node.                                             *)
LEMMA TriggeredProper ==
  ASSUME Typed, MasksProper, CallsProper, calls' \in Nat,
         NEW n \in Node, NEW mask, Proper(n, mask), DFGNodeTriggered(n, mask)
  PROVE  Typed' /\ MasksProper' /\ CallsProper' /\ UNCHANGED <<conns, generation>>
<1>1. UNCHANGED <<conns, generation, ret>>
  BY DEF DFGNodeTriggered
<1>2. IsTopology(conns)' /\ generation' \in [Port -> 0..GenMax]
  BY <1>1 DEF Typed, IsTopology
<1>3. CASE StartComponent(n, mask)
  BY <1>1, <1>2, <1>3, StartProper
<1>4. CASE /\ required' = [required EXCEPT ![n] = mask]
           /\ UNCHANGED <<deps, negotiated, propagated, written, marking, stack>>
  <2>1. mask \in [Reaction -> SUBSET PortIndexes]
    BY MaskRecord
  <2>2. required' \in [Node -> [Reaction -> SUBSET PortIndexes]]
    BY <1>4, <2>1 DEF Typed
  <2>3. \A m \in Node : Proper(m, required'[m])
    BY <1>4 DEF Typed, MasksProper
  <2>4. (\A k \in DOMAIN stack : WorkOK(stack[k]))'
    BY <1>1, <1>4 DEF Typed, WorkOK, IsLink
  <2>5. Typed'
    BY <1>1, <1>2, <1>4, <2>2, <2>4 DEF Typed, Mask
  <2>6. MasksProper'
    BY <1>4, <2>3 DEF MasksProper, Proper, Mask, IsDirected
  <2>7. CallsProper'
    BY <1>4 DEF CallsProper, InsProper
  <2> QED BY <1>1, <2>5, <2>6, <2>7
<1> QED BY <1>3, <1>4 DEF DFGNodeTriggered

-----------------------------------------------------------------------------
(* The steps of a call                                                     *)

LEMMA StepTyped ==
  ASSUME Typed, Step
  PROVE  Typed' /\ conns' = conns
BY NegotiateType, FindRootsType, FindReadyType, ExecuteType, StepKeepsConns DEF Step

LEMMA PropagateProper ==
  ASSUME Typed, Directed, MasksProper, Propagate
  PROVE  \A n \in Node : Proper(n, negotiated'[n])
<1>1. stack # <<>> /\ Top.phase = "eval"
  BY DEF Propagate, In, Top
<1>2. Top \in Frame /\ WorkOK(Top)
  BY <1>1, StackFromTyped, TopType
<1>3. CASE negotiated' = negotiated
  BY <1>3 DEF MasksProper
<1>4. CASE negotiated' # negotiated
  <2>1. PICK w \in Top.work :
          /\ w[3] # 0
          /\ LET q == Peer(Top.cur, w)
                 event == IF w[1] \in {1, 3} THEN "new" ELSE "old"
                 mask == PortMasks[TypeOf[q[1]]][q[2]][event]
             IN negotiated' = [negotiated EXCEPT ![q[1]] = Apply(@, mask)]
    BY <1>4 DEF Propagate
  <2> DEFINE q == Peer(Top.cur, w)
             event == IF w[1] \in {1, 3} THEN "new" ELSE "old"
             mask == PortMasks[TypeOf[q[1]]][q[2]][event]
  <2>2. q \in Port
    <3>1. Top.cur \in Node /\ IsLink(Top.cur, w)
      BY <1>1, <1>2, <2>1 DEF WorkOK, Frame
    <3> QED BY <3>1, ConnsTyped DEF IsLink, Peer
  <2>3. event \in Trigger
    BY DEF Trigger
  <2>4. negotiated' = [negotiated EXCEPT ![q[1]] = Apply(@, mask)]
    BY <2>1
  <2> HIDE DEF q, event
  <2>5. q[1] \in Node /\ q[2] \in PortIdx(TypeOf[q[1]]) /\ TypeOf[q[1]] \in NodeType
    BY <2>2, PortIsPair, PortIdxType
  <2>6. Proper(q[1], mask)
    BY <2>3, <2>5, PortMasksType DEF Proper, Directed, Mask
  <2> HIDE DEF mask
  <2>7. Proper(q[1], Apply(negotiated[q[1]], mask))
    BY <2>5, <2>6, ApplyProper DEF MasksProper
  <2> QED BY <2>4, <2>7 DEF MasksProper, Typed
<1> QED BY <1>3, <1>4

LEMMA StepMasks ==
  ASSUME Typed, Directed, MasksProper, Step
  PROVE  MasksProper'
<1>1. required' = required /\ (negotiated' = negotiated \/ Propagate)
  BY DEF Step, Negotiate, EvalStart, Propagate, EvalEnd, FindRoots, RootsStart, RootsVisit,
         RootsBack, RootsEnd, FindReady, Execute, ProcessStart, ProcessSkip, ProcessOk,
         ProcessFail, Notify, NotifyEnd, RunEnd, maskVars
<1>2. \A n \in Node : Proper(n, negotiated'[n])
  BY <1>1, PropagateProper DEF MasksProper
<1> QED BY <1>1, <1>2 DEF MasksProper, Proper, Mask, IsDirected

LEMMA SetTopProper ==
  ASSUME Typed, CallsProper, stack # <<>>, NEW f, InsProper(f), SetTop(f)
  PROVE  CallsProper'
<1>1. stack' = [stack EXCEPT ![1] = f]
  BY DEF SetTop
<1>2. DOMAIN stack' = DOMAIN stack /\ \A k \in DOMAIN stack : stack'[k] = f \/ stack'[k] = stack[k]
  BY <1>1
<1> QED BY <1>2 DEF CallsProper, InsProper

LEMMA ReturnProper ==
  ASSUME Typed, CallsProper, stack # <<>>, stack' = Tail(stack)
  PROVE  CallsProper'
<1>1. stack \in Seq(Frame)
  BY DEF Typed
<1>2. \A k \in DOMAIN Tail(stack) : k + 1 \in DOMAIN stack /\ Tail(stack)[k] = stack[k + 1]
  BY <1>1
<1> QED BY <1>2 DEF CallsProper, InsProper

(* A call goes on with another phase than those of a running node.         *)
LEMMA PhaseProper ==
  ASSUME Typed, CallsProper, stack # <<>>, NEW f, SetTop(f), f.phase \notin {"call", "skip"}
  PROVE  CallsProper'
BY SetTopProper DEF InsProper

LEMMA NegotiateProper ==
  ASSUME Typed, CallsProper, Negotiate
  PROVE  CallsProper'
<1>1. stack # <<>> /\ Top \in Frame /\ Top.phase \in {"converge", "eval"}
  BY StackFromTyped, TopType DEF Negotiate, EvalStart, Propagate, EvalEnd, In, Top
<1>2. CASE EvalStart
  <2> DEFINE n == Head(Top.list)
             f == [Top EXCEPT !.list = Tail(@), !.phase = "eval", !.cur = n,
                              !.work = ToPropagate(n)]
  <2>1. SetTop(f) /\ f.phase = "eval"
    BY <1>1, <1>2 DEF EvalStart, Frame
  <2> HIDE DEF f
  <2> QED BY <1>1, <2>1, PhaseProper
<1>3. CASE Propagate
  <2>1. Top.phase = "eval"
    BY <1>3 DEF Propagate, In, Top
  <2>2. PICK w \in Top.work : Propagate!2!(w)
    BY <1>3 DEF Propagate
  <2> DEFINE m == Peer(Top.cur, w)[1]
             rest == [Top EXCEPT !.work = @ \ {w}]
             pushed == [rest EXCEPT !.list = PushFront(@, m)]
  <2>3. stack' = Tail(stack) \/ SetTop(rest) \/ SetTop(pushed)
    BY <2>2 DEF Return
  <2>4. rest.phase = "eval" /\ pushed.phase = "eval"
    BY <1>1, <2>1 DEF Frame
  <2> HIDE DEF rest, pushed
  <2> QED BY <1>1, <2>3, <2>4, PhaseProper, ReturnProper
<1>4. CASE EvalEnd
  <2> DEFINE f == [Top EXCEPT !.phase = "converge"]
  <2>1. SetTop(f) /\ f.phase = "converge"
    BY <1>1, <1>4 DEF EvalEnd, Frame
  <2> HIDE DEF f
  <2> QED BY <1>1, <2>1, PhaseProper
<1> QED BY <1>2, <1>3, <1>4 DEF Negotiate

LEMMA VisitProper ==
  ASSUME Typed, CallsProper, stack # <<>>, NEW n, NEW f \in Frame, Visit(n, f),
         f.phase = "roots"
  PROVE  CallsProper'
<1> DEFINE g == [f EXCEPT
      !.todo = Cons([node |-> n, links |-> Links(1, n, UsedMask(negotiated[n]))], @),
      !.list = IF IsRoot(n) THEN Cons(n, @) ELSE @]
<1>1. SetTop(g)
  BY DEF Visit
<1>2. g.phase = "roots"
  BY DEF Frame
<1> HIDE DEF g
<1> QED BY <1>1, <1>2, PhaseProper

LEMMA RootsProper ==
  ASSUME Typed, CallsProper, FindRoots \/ FindReady
  PROVE  CallsProper'
<1>1. stack # <<>> /\ Top \in Frame /\ Top.phase \in {"converge", "roots"}
  BY StackFromTyped, TopType DEF FindRoots, FindReady, RootsStart, RootsVisit, RootsBack,
     RootsEnd, In, Top
<1>2. CASE RootsStart
  <2> DEFINE f == [Top EXCEPT !.phase = "roots"]
  <2>1. Visit(Top.node, f) /\ f \in Frame /\ f.phase = "roots"
    BY <1>1, <1>2 DEF RootsStart, Frame, Phase
  <2> HIDE DEF f
  <2> QED BY <1>1, <2>1, VisitProper
<1>3. CASE RootsVisit \/ RootsBack
  <2>1. Top.phase = "roots" /\ Top.todo # <<>>
    BY <1>3 DEF RootsVisit, RootsBack, In, Top
  <2>2. Top.todo \in Seq(Visiting)
    BY <1>1 DEF Frame
  <2>3. ASSUME NEW w, NEW f, f = [Top EXCEPT !.todo[1].links = @ \ {w}]
        PROVE  f \in Frame /\ f.phase = "roots"
    <3>1. 1 \in DOMAIN Top.todo /\ Top.todo[1] \in Visiting
      BY <2>1, <2>2
    <3>2. [Top.todo[1] EXCEPT !.links = @ \ {w}] \in Visiting
      BY <3>1 DEF Visiting
    <3>3. [Top.todo EXCEPT ![1] = [Top.todo[1] EXCEPT !.links = @ \ {w}]] \in Seq(Visiting)
      BY <2>2, <3>1, <3>2
    <3>4. f = [Top EXCEPT !.todo = [Top.todo EXCEPT ![1] =
                                      [Top.todo[1] EXCEPT !.links = @ \ {w}]]]
      BY <2>3
    <3> QED BY <1>1, <2>1, <3>3, <3>4 DEF Frame
  <2>4. CASE RootsBack
    <3> DEFINE f == [Top EXCEPT !.todo = Tail(@)]
    <3>1. SetTop(f) /\ f.phase = "roots"
      BY <1>1, <2>1, <2>4 DEF RootsBack, Frame
    <3> HIDE DEF f
    <3> QED BY <1>1, <3>1, PhaseProper
  <2>5. CASE RootsVisit
    <3>1. PICK w \in Head(Top.todo).links : RootsVisit!3!(w)
      BY <2>5 DEF RootsVisit
    <3> DEFINE f == [Top EXCEPT !.todo[1].links = @ \ {w}]
               m == Peer(Head(Top.todo).node, w)[1]
    <3>2. SetTop(f) \/ Visit(m, f)
      BY <3>1
    <3>3. f \in Frame /\ f.phase = "roots"
      BY <2>3
    <3> HIDE DEF f, m
    <3> QED BY <1>1, <3>2, <3>3, PhaseProper, VisitProper
  <2> QED BY <1>3, <2>4, <2>5
<1>4. CASE RootsEnd \/ FindReady
  <2>1. \/ stack' = Tail(stack)
        \/ SetTop([Top EXCEPT !.phase = "run"])
        \/ \E s : SetTop([Top EXCEPT !.phase = "run", !.list = s])
    BY <1>4 DEF RootsEnd, FindReady, Return
  <2>2. [Top EXCEPT !.phase = "run"].phase = "run"
          /\ \A s : [Top EXCEPT !.phase = "run", !.list = s].phase = "run"
    BY <1>1 DEF Frame
  <2> QED BY <1>1, <2>1, <2>2, PhaseProper, ReturnProper
<1> QED BY <1>2, <1>3, <1>4 DEF FindRoots

LEMMA ExecuteProper ==
  ASSUME Typed, MasksProper, CallsProper, Execute
  PROVE  CallsProper'
<1>1. stack # <<>> /\ Top \in Frame /\ Top.phase \in {"run", "call", "skip", "notify"}
  BY StackFromTyped, TopType DEF Execute, ProcessStart, ProcessSkip, ProcessOk, ProcessFail,
     Notify, NotifyEnd, RunEnd, In, Top
<1>2. CASE ProcessStart
  <2>1. PICK n \in Node : ProcessStart!2!(n)
    BY <1>2 DEF ProcessStart
  <2> DEFINE omittable == \A i \in UsedMask(negotiated[n]) :
                            ~ Activated(<<n, i>>, negotiated, generation')
             f == [Top EXCEPT !.list = RestOf(@), !.cur = n,
                              !.ins = InMask(negotiated[n]),
                              !.outs = OutMask(negotiated[n]),
                              !.phase = IF omittable THEN "skip" ELSE "call"]
  <2>2. stack' = Tail(stack) \/ SetTop(f)
    BY <2>1 DEF Return
  <2>3. f.cur = n /\ f.ins = InMask(negotiated[n])
    BY <1>1 DEF Frame
  <2>4. InMask(negotiated[n]) \subseteq InPorts(TypeOf[n])
    BY DEF MasksProper, Proper, IsDirected, InMask
  <2> HIDE DEF f
  <2>5. InsProper(f)
    BY <2>3, <2>4 DEF InsProper
  <2> QED BY <1>1, <2>2, <2>5, SetTopProper, ReturnProper
<1>3. CASE ProcessSkip \/ ProcessOk \/ NotifyEnd
  <2>1. \/ SetTop([Top EXCEPT !.phase = "notify", !.work = Links(1, Top.cur, Top.outs)])
        \/ SetTop([Top EXCEPT !.phase = "run"])
    BY <1>3 DEF ProcessSkip, ProcessOk, NotifyEnd, AfterProcess
  <2>2. /\ [Top EXCEPT !.phase = "run"].phase = "run"
        /\ [Top EXCEPT !.phase = "notify", !.work = Links(1, Top.cur, Top.outs)].phase = "notify"
    BY <1>1 DEF Frame
  <2> QED BY <1>1, <2>1, <2>2, PhaseProper
<1>4. CASE ProcessFail \/ RunEnd
  BY <1>1, <1>4, ReturnProper DEF ProcessFail, RunEnd, Return
<1>5. CASE Notify
  <2>1. PICK w \in Top.work : Notify!2!(w)
    BY <1>5 DEF Notify
  <2> DEFINE m == Peer(Top.cur, w)[1]
             rest == [Top EXCEPT !.work = @ \ {w}]
             pushed == [rest EXCEPT !.list = Cons(m, @)]
  <2>2. stack' = Tail(stack) \/ SetTop(rest) \/ SetTop(pushed)
    BY <2>1 DEF Return
  <2>3. rest.phase = "notify" /\ pushed.phase = "notify"
    <3>1. Top.phase = "notify"
      BY <1>5 DEF Notify, In, Top
    <3> QED BY <1>1, <3>1 DEF Frame
  <2> HIDE DEF rest, pushed
  <2> QED BY <1>1, <2>2, <2>3, PhaseProper, ReturnProper
<1> QED BY <1>2, <1>3, <1>4, <1>5 DEF Execute

-----------------------------------------------------------------------------
(* Generations                                                             *)

(* What the start of a process function does to them                       *)
LEMMA StartGenerations ==
  ASSUME Typed, MasksProper, GensFresh, ProcessStart
  PROVE  /\ \A p \in OutPort : generation'[p] # 0
         /\ \A p \in InPort : generation'[p] = generation[p]
<1>1. generation \in [Port -> 0..GenMax]
  BY DEF Typed
<1>2. PICK n \in Node : ProcessStart!2!(n)
  BY DEF ProcessStart
<1>3. CASE generation' = generation
  BY <1>3 DEF GensFresh
<1>4. CASE generation' = [p \in Port |->
             IF p[1] = n /\ p[2] \in negotiated[n]["push_new"]
               THEN NextGeneration(generation[p]) ELSE generation[p]]
  <2>1. negotiated[n]["push_new"] \subseteq OutPorts(TypeOf[n])
    BY DEF MasksProper, Proper, IsDirected
  <2>2. \A p \in InPort : p \in Port /\ ~ (p[1] = n /\ p[2] \in negotiated[n]["push_new"])
    BY <2>1, PortsPaired DEF InPorts, OutPorts
  <2>3. \A p \in OutPort : p \in Port /\ NextGeneration(generation[p]) # 0
    BY <1>1, BoundsAssumption, PortsPaired DEF NextGeneration
  <2> QED BY <1>4, <2>2, <2>3 DEF GensFresh
<1> QED BY <1>2, <1>3, <1>4

(* The end of a process function only moves inputs that it was shown.      *)
LEMMA AfterGenerations ==
  ASSUME Typed, CallsProper, GensFresh, stack # <<>>, Top.phase \in {"call", "skip"},
         AfterProcess
  PROVE  /\ \A p \in OutPort : generation'[p] = generation[p]
         /\ \A p \in InPort : \/ p[1] = Top.cur /\ p[2] \in Top.ins /\ conns[p] # <<>>
                              \/ generation'[p] = generation[p]
<1>1. generation' = [p \in Port |->
         IF p[1] = Top.cur /\ p[2] \in Top.ins /\ conns[p] # <<>>
           THEN Seen(p) ELSE generation[p]]
  BY DEF AfterProcess
<1>2. Top.ins \subseteq InPorts(TypeOf[Top.cur])
  <2>1. 1 \in DOMAIN stack /\ Top = stack[1]
    BY DEF Typed, Top
  <2> QED BY <2>1 DEF CallsProper, InsProper
<1>3. \A p \in OutPort : p \in Port /\ ~ (p[1] = Top.cur /\ p[2] \in Top.ins)
  BY <1>2, PortsPaired DEF InPorts, OutPorts
<1> QED BY <1>1, <1>3, PortsPaired

LEMMA SchedulerGenerations ==
  ASSUME Typed, MasksProper, CallsProper, GensFresh, SchedulerStep
  PROVE  GensFresh'
<1>1. Continue /\ Step /\ conns' = conns /\ read \subseteq read'
  BY ContinueStep, StepKeepsConns DEF SchedulerStep
<1>2. CASE generation' = generation
  BY <1>1, <1>2 DEF GensFresh
<1>3. CASE ProcessStart
  BY <1>1, <1>3, StartGenerations DEF GensFresh
<1>4. CASE ProcessSkip \/ ProcessOk
  <2>1. stack # <<>> /\ Top.phase \in {"call", "skip"} /\ AfterProcess
    BY <1>4 DEF ProcessSkip, ProcessOk, In, Top
  <2>2. ~ Returning
    <3>1. PICK f : stack' = [stack EXCEPT ![1] = f]
      BY <2>1 DEF AfterProcess, SetTop
    <3>2. IsSequence(stack') /\ Len(stack') = Len(stack) /\ Len(stack) \in Nat
      <4>1. Len(stack) \in Nat /\ DOMAIN stack = 1 .. Len(stack)
        BY LenProperties DEF Typed
      <4>2. stack' = [k \in 1 .. Len(stack) |-> stack'[k]]
        BY <3>1, <4>1
      <4> QED BY <4>1, <4>2, FunctionSequence
    <3> QED BY <3>2 DEF Returning
  <2>3. read' = read \cup {p \in InPort : /\ p[1] = Top.cur
                                          /\ p[2] \in Top.ins
                                          /\ conns[p] # <<>>}
    BY <2>1, <2>2 DEF SchedulerStep
  <2>4. /\ \A p \in OutPort : generation'[p] = generation[p]
        /\ \A p \in InPort : \/ p[1] = Top.cur /\ p[2] \in Top.ins /\ conns[p] # <<>>
                             \/ generation'[p] = generation[p]
    BY <2>1, AfterGenerations
  <2> QED BY <1>1, <2>3, <2>4 DEF GensFresh
<1> QED BY <1>1, <1>2, <1>3, <1>4 DEF Continue, FailsCleanly, Negotiate, EvalStart, Propagate,
           EvalEnd, FindRoots, RootsStart, RootsVisit, RootsBack, RootsEnd, FindReady,
           ProcessFail, Notify, NotifyEnd, RunEnd

-----------------------------------------------------------------------------
(* The steps of the session                                                *)

LEMMA ScheduleProper ==
  ASSUME Typed, ScheduleGraph
  PROVE  Typed' /\ MasksProper' /\ CallsProper' /\ UNCHANGED <<conns, generation>>
<1>1. Typed'
  BY StartType
<1>2. \A n \in Node : required'[n] = PullAll(n) /\ negotiated'[n] = PullAll(n)
  BY DEF ScheduleGraph, Reset
<1>3. MasksProper'
  <2>1. \A n \in Node : Proper(n, required'[n]) /\ Proper(n, negotiated'[n])
    BY <1>2, PullAllProper
  <2> QED BY <2>1 DEF MasksProper, Proper, Mask, IsDirected
<1>4. CallsProper'
  <2>1. PICK s : stack' = <<NewFrame("graph", Head(s), s)>>
    BY DEF ScheduleGraph
  <2>2. NewFrame("graph", Head(s), s).phase = "converge"
    BY DEF NewFrame
  <2> DEFINE f == NewFrame("graph", Head(s), s)
  <2> HIDE DEF f
  <2>3. \A k \in DOMAIN stack' : stack'[k] = f
    BY <2>1 DEF f
  <2> QED BY <2>2, <2>3 DEF CallsProper, InsProper, f
<1> QED BY <1>1, <1>3, <1>4 DEF ScheduleGraph

(* A new connection starts at generation 0, and counts as not read.        *)
LEMMA EditGenerations ==
  ASSUME Typed, GensFresh, NEW e \in Edits, IsEdit(e), EditGraph(e)
  PROVE  generation' \in [Port -> 0..GenMax] /\ GensFresh'
<1>1. generation' = [p \in Port |-> IF p \in e.link THEN 0 ELSE generation[p]]
  BY DEF EditGraph, ResetGeneration
<1>2. read' = read \ (e.unlink \cup e.link)
  BY DEF EditGraph
<1>3. conns' = EditedConns(e) /\ IsTopology(conns)
  BY EditsConns DEF Typed
<1>4. e.out \in OutPort /\ e.link \subseteq InPort
  BY EditType
<1>5. /\ \A p \in e.unlink : conns'[p] = <<>>
      /\ \A p \in Port \ ({e.out} \cup e.link \cup e.unlink) : conns'[p] = conns[p]
  BY <1>3, EditPorts
<1>6. generation' \in [Port -> 0..GenMax]
  BY <1>1, BoundsAssumption DEF Typed
<1>7. \A p \in OutPort : generation'[p] # 0
  BY <1>1, <1>4, InOutPorts DEF GensFresh
<1>8. ASSUME NEW p \in InPort, conns'[p] # <<>>, p \notin read'
      PROVE  generation'[p] = 0
  <2>1. p \in Port /\ p # e.out /\ p \notin e.unlink
    BY <1>4, <1>5, <1>8, InOutPorts
  <2>2. CASE p \in e.link
    BY <1>1, <2>1, <2>2
  <2>3. CASE p \notin e.link
    BY <1>1, <1>2, <1>5, <1>8, <2>1, <2>3 DEF GensFresh
  <2> QED BY <2>2, <2>3
<1> QED BY <1>6, <1>7, <1>8 DEF GensFresh

LEMMA EditProper ==
  ASSUME FreshInv, Idle, NEW e \in Edits, IsEdit(e), EditGraph(e), calls' \in Nat
  PROVE  Typed' /\ MasksProper' /\ CallsProper' /\ GensFresh'
<1>1. Typed /\ MasksProper /\ CallsProper /\ GensFresh
  BY DEF FreshInv
<1>2. generation' \in [Port -> 0..GenMax] /\ GensFresh'
  BY <1>1, EditGenerations
<1>3. IsTopology(conns)'
  <2>1. conns' = EditedConns(e) /\ IsTopology(EditedConns(e))
    BY <1>1, EditsConns, EditTopology DEF Typed
  <2> QED BY <2>1 DEF IsTopology
<1>4. ret' = ret
  BY DEF EditGraph
<1>5. CASE UNCHANGED <<maskVars, deps, marking, written, stack>>
  <2>1. Typed'
    <3>1. (\A k \in DOMAIN stack : WorkOK(stack[k]))'
      BY <1>5 DEF Idle
    <3> QED BY <1>1, <1>2, <1>3, <1>4, <1>5, <3>1 DEF Typed, maskVars, Mask
  <2>2. MasksProper' /\ CallsProper'
    BY <1>1, <1>5 DEF MasksProper, CallsProper, InsProper, Proper, Mask, IsDirected, maskVars
  <2> QED BY <1>2, <2>1, <2>2
<1>6. ASSUME NEW in \in e.link, StartComponent(in[1], [NoMask EXCEPT !["pull_old"] = {in[2]}])
      PROVE  Typed' /\ MasksProper' /\ CallsProper'
  <2> DEFINE n == in[1]
             mask == [NoMask EXCEPT !["pull_old"] = {in[2]}]
  <2>1. n \in Node /\ {in[2]} \in SUBSET InPorts(TypeOf[n])
    BY EditType, PortsPaired
  <2>2. Proper(n, NoMask)
    BY <2>1, NoMaskProper
  <2>3. Proper(n, mask)
    BY <2>1, <2>2, PullMaskProper
  <2> HIDE DEF n, mask
  <2>4. StartComponent(n, mask)
    BY <1>6 DEF n, mask
  <2> QED BY <1>1, <1>2, <1>3, <1>4, <2>1, <2>3, <2>4, StartProper
<1> QED BY <1>2, <1>5, <1>6 DEF EditGraph

LEMMA StutterFresh ==
  ASSUME FreshInv, UNCHANGED vars, read' = read
  PROVE  Typed' /\ MasksProper' /\ CallsProper' /\ GensFresh'
<1>1. UNCHANGED <<conns, required, negotiated, propagated, deps, marking, generation,
                  written, stack, ret, calls>>
  BY DEF vars
<1>2. Typed /\ MasksProper /\ CallsProper /\ GensFresh
  BY DEF FreshInv
<1>3. IsTopology(conns)' /\ (\A k \in DOMAIN stack : WorkOK(stack[k]))'
  <2>1. IsTopology(conns)'
    BY <1>1, <1>2 DEF Typed
  <2>2. (\A k \in DOMAIN stack : WorkOK(stack[k]))'
    BY <1>1, <1>2 DEF Typed, WorkOK, IsLink
  <2> QED BY <2>1, <2>2
<1>4. Typed'
  BY <1>1, <1>2, <1>3 DEF Typed, Mask
<1>5. MasksProper' /\ CallsProper' /\ GensFresh'
  BY <1>1, <1>2 DEF MasksProper, CallsProper, GensFresh, InsProper, Proper, Mask, IsDirected
<1> QED BY <1>4, <1>5

(* A widget triggers the node n in the way of its type.                    *)
LEMMA WidgetFresh ==
  ASSUME FreshInv, calls' \in Nat, read' = read, NEW n \in Node, NEW e,
         e.mode \in {"reset", "set", "keep"}, e.outs \subseteq OutPorts(TypeOf[n]),
         DFGNodeTriggered(n, WidgetMask(n, e))
  PROVE  Typed' /\ MasksProper' /\ CallsProper' /\ GensFresh'
<1>1. Typed /\ MasksProper /\ CallsProper /\ GensFresh
  BY DEF FreshInv
<1>2. Proper(n, WidgetMask(n, e))
  BY <1>1, WidgetMaskProper
<1>3. Typed' /\ MasksProper' /\ CallsProper' /\ UNCHANGED <<conns, generation>>
  BY <1>1, <1>2, TriggeredProper
<1> QED BY <1>1, <1>3 DEF GensFresh

LEMMA TypeTriggers ==
  ASSUME NEW n \in Node
  PROVE  /\ TriggerKind[TypeOf[n]].mode \in {"reset", "set", "keep"}
         /\ TriggerKind[TypeOf[n]].outs \subseteq OutPorts(TypeOf[n])
BY PortIdxType, SessionAssumption

LEMMA FreshStep == Directed /\ FreshInv /\ [SessionNext]_sessionVars => FreshInv'
<1> SUFFICES ASSUME Directed, FreshInv, [SessionNext]_sessionVars PROVE FreshInv'
  OBVIOUS
<1>0. Typed /\ PendingOK /\ MasksProper /\ CallsProper /\ GensFresh /\ calls \in Nat
  BY DEF FreshInv, Typed
<1> SUFFICES Typed' /\ MasksProper' /\ CallsProper' /\ GensFresh'
  BY <1>0, SessionEdits DEF FreshInv
<1>1. CASE UNCHANGED sessionVars
  BY <1>1, StutterFresh DEF sessionVars, vars
<1>2. CASE ScheduleDFG
  <2>1. ScheduleGraph /\ read' = read
    BY <1>2 DEF ScheduleDFG
  <2> QED BY <1>0, <2>1, ScheduleProper DEF GensFresh
<1>3. ASSUME NEW e \in WidgetEvents, WidgetTrigger(e)
      PROVE  Typed' /\ MasksProper' /\ CallsProper' /\ GensFresh'
  <2>1. /\ e.node \in Node /\ e.mode \in {"reset", "set", "keep"}
        /\ e.outs \subseteq OutPorts(TypeOf[e.node])
    BY SessionAssumption
  <2>2. calls' \in Nat /\ read' = read /\ DFGNodeTriggered(e.node, WidgetMask(e.node, e))
    BY <1>0, <1>3 DEF WidgetTrigger, CountCall
  <2> QED BY <2>1, <2>2, WidgetFresh
<1>4. ASSUME NEW n \in Node, DFGNodeDoubleClicked(n)
      PROVE  Typed' /\ MasksProper' /\ CallsProper' /\ GensFresh'
  <2> DEFINE pulls == [NoMask EXCEPT !["pull_old"] = InPorts(TypeOf[n])]
             mask == [pulls EXCEPT !["push_new"] = OutPorts(TypeOf[n])]
  <2>1. calls' \in Nat /\ UNCHANGED <<conns, generation, ret, read>> /\ StartComponent(n, mask)
    BY <1>0, <1>4 DEF DFGNodeDoubleClicked, CountCall
  <2>2. Proper(n, NoMask)
    BY NoMaskProper
  <2>3. Proper(n, pulls)
    BY <2>2, PullMaskProper
  <2> HIDE DEF pulls
  <2>4. Proper(n, mask)
    BY <2>3, PushMaskProper
  <2> HIDE DEF mask
  <2>5. IsTopology(conns)' /\ generation' \in [Port -> 0..GenMax]
    BY <1>0, <2>1 DEF Typed, IsTopology
  <2>6. Typed' /\ MasksProper' /\ CallsProper'
    BY <1>0, <2>1, <2>4, <2>5, StartProper
  <2> QED BY <1>0, <2>1, <2>6 DEF GensFresh
<1>5. ASSUME NEW e \in Edits, Edit(e)
      PROVE  Typed' /\ MasksProper' /\ CallsProper' /\ GensFresh'
  <2>1. Idle /\ IsEdit(e) /\ EditGraph(e) /\ calls' \in Nat
    BY <1>0, <1>5 DEF Edit, EditStart, EventLoop, CountCall
  <2> QED BY <2>1, EditProper
<1>6. ASSUME NEW e \in Edits, EditHook(e)
      PROVE  Typed' /\ MasksProper' /\ CallsProper' /\ GensFresh'
  <2>1. IsEdit(e) /\ calls' \in Nat /\ read' = read
    BY <1>0, <1>6 DEF EditHook, EditStart, CountCall
  <2>2. PICK in \in e.unlink :
          DFGNodeTriggered(in[1], WidgetMask(in[1], TriggerKind[TypeOf[in[1]]]))
    BY <1>6 DEF EditHook
  <2>3. in[1] \in Node
    BY EditType, PortsPaired
  <2> QED BY <2>1, <2>2, <2>3, TypeTriggers, WidgetFresh
<1>7. CASE EditGoesOn
  <2>1. PICK e \in pending : EditGraph(e)
    BY <1>7 DEF EditGoesOn
  <2>2. Idle /\ calls' \in Nat /\ e \in Edits /\ IsEdit(e)
    BY <1>0, <1>7 DEF EditGoesOn, PendingOK
  <2> QED BY <2>1, <2>2, EditProper
<1>8. CASE SchedulerStep
  <2>1. Continue /\ Step
    BY <1>8, ContinueStep DEF SchedulerStep
  <2>2. Typed' /\ MasksProper'
    BY <1>0, <2>1, StepTyped, StepMasks
  <2>3. CallsProper'
    BY <1>0, <2>1, NegotiateProper, RootsProper, ExecuteProper DEF Step
  <2> QED BY <1>0, <1>8, <2>2, <2>3, SchedulerGenerations
<1>9. CASE ProcessGoesOn
  <2>1. stack # <<>> /\ read' = read
    BY <1>9 DEF ProcessGoesOn, In
  <2>2. Top.cur \in Node
    BY <1>0, <2>1, StackFromTyped, TopType DEF Frame
  <2>3. \/ UNCHANGED vars
        \/ /\ DFGNodeTriggered(Top.cur, WidgetMask(Top.cur, TriggerKind[TypeOf[Top.cur]]))
           /\ calls' = calls
    BY <1>9 DEF ProcessGoesOn
  <2>4. CASE UNCHANGED vars
    BY <2>1, <2>4, StutterFresh
  <2>5. CASE /\ DFGNodeTriggered(Top.cur, WidgetMask(Top.cur, TriggerKind[TypeOf[Top.cur]]))
             /\ calls' = calls
    BY <1>0, <2>1, <2>2, <2>5, TypeTriggers, WidgetFresh
  <2> QED BY <2>3, <2>4, <2>5
<1> QED BY <1>1, <1>2, <1>3, <1>4, <1>5, <1>6, <1>7, <1>8, <1>9 DEF SessionNext

LEMMA FreshInit == SessionInit => FreshInv
<1> SUFFICES ASSUME SessionInit PROVE FreshInv
  OBVIOUS
<1>1. Init /\ pending = {} /\ read = {}
  BY DEF SessionInit
<1>2. Typed
  BY <1>1, InitType, TypedFromType
<1>3. PendingOK
  BY <1>1, <1>2 DEF PendingOK, Typed
<1>4. MasksProper /\ CallsProper
  BY <1>1, NoMaskProper DEF Init, MasksProper, CallsProper
<1>5. GensFresh
  BY <1>1, InOutPorts DEF Init, GensFresh
<1> QED BY <1>2, <1>3, <1>4, <1>5 DEF FreshInv

(* For node types that keep to the direction of their ports: an input that *)
(* was connected anew never takes the data of its producer for seen,       *)
(* whatever it was connected to before, whatever calls run meanwhile, one  *)
(* in the other or not, and also when generations wrap around              *)
(* (am_dfg_port_connect_onesided, am_dfg_output_port_inc_generation).      *)
THEOREM FreshlyConnectedCorrect == Directed => (SessionSpec => []FreshlyConnected)
<1> SUFFICES ASSUME Directed PROVE SessionSpec => []FreshlyConnected
  OBVIOUS
<1>1. FreshInv => FreshlyConnected
  <2> SUFFICES ASSUME FreshInv, NEW p \in InPort, conns[p] # <<>>, p \notin read,
                      generation[p] = generation[conns[p][1]]
               PROVE  FALSE
    BY DEF FreshlyConnected
  <2>1. generation[p] = 0
    BY DEF FreshInv, GensFresh
  <2>2. conns[p][1] \in OutPort
    BY InputConns DEF FreshInv, Typed
  <2> QED BY <2>1, <2>2 DEF FreshInv, GensFresh
<1> QED BY <1>1, FreshInit, FreshStep, PTL DEF SessionSpec

-----------------------------------------------------------------------------
(* A call inside of another, seen as a call of DfgSchedule                 *)

RequiredBar == [n \in Node |-> IF Nested /\ n = Top.node THEN required[n] ELSE NoMask]
MarkingBar ==
  [n \in Node |-> IF Nested /\ n \in Component(Top.node) THEN marking[n] ELSE "none"]
StackBar == IF Nested THEN <<Top>> ELSE <<>>
CallsBar == IF Nested THEN 1 ELSE 0
GraphsBar == {c \in [Port -> Seq(Port)] : IsTopology(c)}
RequestsBar ==
  {q \in [node : Node, mask : [Reaction -> SUBSET PortIndexes]] :
     q.mask \in Mask(q.node) /\ q.mask["pull_new"] = {}}

Inner == INSTANCE DfgScheduleProof WITH
  Graphs <- GraphsBar, Requests <- RequestsBar, MaxCalls <- 1,
  required <- RequiredBar, marking <- MarkingBar, stack <- StackBar,
  ret <- "none", calls <- CallsBar

LEMMA SamePorts ==
  /\ Inner!Port = Port /\ Inner!InPort = InPort /\ Inner!OutPort = OutPort
  /\ Inner!Reaction = Reaction /\ Inner!Trigger = Trigger
  /\ \A t : Inner!PortIdx(t) = PortIdx(t)
  /\ \A t : Inner!InPorts(t) = InPorts(t) /\ Inner!OutPorts(t) = OutPorts(t)
  /\ \A n : Inner!Mask(n) = Mask(n)
BY DEF Inner!Port, Port, Inner!PortIdx, PortIdx, Inner!InPort, InPort, Inner!OutPort, OutPort,
  Inner!InPorts, InPorts, Inner!OutPorts, OutPorts, Inner!Mask, Mask, Inner!Reaction, Reaction,
  Inner!Trigger, Trigger

LEMMA SameTopology == ASSUME NEW c PROVE Inner!IsTopology(c) <=> IsTopology(c)
BY SamePorts DEF Inner!IsTopology, IsTopology

LEMMA InnerAssumptions ==
  /\ Inner!TypesAssumption
  /\ Inner!BoundsAssumption
  /\ Inner!GraphsAssumption
  /\ Inner!RequestsAssumption
  /\ Inner!NodesAssumption
<1>1. Inner!TypesAssumption
  BY TypesAssumption DEF Inner!TypesAssumption, Inner!Dir, Dir, Inner!DepWord, DepWord,
     Inner!Trigger, Trigger, Inner!Reaction, Reaction, Inner!PortIdx, PortIdx
<1>2. Inner!BoundsAssumption
  BY BoundsAssumption DEF Inner!BoundsAssumption
<1>3. Inner!GraphsAssumption
  BY SameTopology DEF Inner!GraphsAssumption, GraphsBar
<1>4. Inner!RequestsAssumption
  BY SamePorts DEF Inner!RequestsAssumption, RequestsBar
<1>5. Inner!NodesAssumption
  BY NodesAssumption DEF Inner!NodesAssumption, Inner!IsFiniteSet, IsFiniteSet
<1> QED BY <1>1, <1>2, <1>3, <1>4, <1>5

LEMMA SameMasks ==
  /\ Inner!NoMask = NoMask
  /\ \A a, b : Inner!Apply(a, b) = Apply(a, b) /\ Inner!Diff(a, b) = Diff(a, b)
  /\ \A a, b : Inner!IsSubset(a, b) <=> IsSubset(a, b)
  /\ \A m : Inner!InMask(m) = InMask(m) /\ Inner!OutMask(m) = OutMask(m)
  /\ \A m : Inner!UsedMask(m) = UsedMask(m)
BY DEF Inner!NoMask, NoMask, Inner!Apply, Apply, Inner!Diff, Diff, Inner!IsSubset, IsSubset,
  Inner!InMask, InMask, Inner!OutMask, OutMask, Inner!UsedMask, UsedMask,
  Inner!Reaction, Reaction

LEMMA SamePortMasks == Inner!PortMasks = PortMasks
BY DEF Inner!PortMasks, PortMasks, Inner!SelfReference, SelfReference,
  Inner!ExplicitDeps, ExplicitDeps, Inner!PureFunctionalDeps, PureFunctionalDeps,
  Inner!PortIdx, PortIdx, Inner!InPorts, InPorts, Inner!OutPorts, OutPorts,
  Inner!Reaction, Reaction, Inner!Trigger, Trigger

LEMMA SameWork ==
  /\ Inner!Word = Word
  /\ \A a, b : Inner!Before(a, b) <=> Before(a, b)
  /\ \A w, work : Inner!IsFirst(w, work) <=> IsFirst(w, work)
  /\ \A w, n, ports : Inner!Links(w, n, ports) = Links(w, n, ports)
  /\ \A n, w : Inner!Peer(n, w) = Peer(n, w)
BY DEF Inner!Word, Word, Inner!Before, Before, Inner!IsFirst, IsFirst, Inner!Links, Links,
  Inner!Peer, Peer

LEMMA SameActivated ==
  ASSUME NEW p, NEW neg, NEW gen
  PROVE  Inner!Activated(p, neg, gen) <=> Activated(p, neg, gen)
BY SamePorts DEF Inner!Activated, Activated, Inner!InActivated, InActivated,
  Inner!OutActivated, OutActivated

LEMMA SameComponent == \A n : Inner!Component(n) = Component(n)
BY SamePorts DEF Inner!Component, Component, Inner!Neighbours, Neighbours, Inner!Range, Range

LEMMA SameSequences ==
  /\ \A x, s : Inner!Cons(x, s) = Cons(x, s)
  /\ \A s, n : Inner!PushFront(s, n) = PushFront(s, n)
BY DEF Inner!Cons, Cons, Inner!PushFront, PushFront, Inner!Without, Without,
  Inner!RemoveAt, RemoveAt, Inner!Range, Range

LEMMA SamePropagation ==
  /\ \A n, w, i : Inner!RightDir(n, w, i) <=> RightDir(n, w, i)
  /\ \A n : Inner!ToPropagate(n) = ToPropagate(n)
BY DEF Inner!RightDir, RightDir, Inner!ToPropagate, ToPropagate, Inner!Diff, Diff,
  Inner!Links, Links, Inner!Word, Word, Inner!PortIdx, PortIdx, Inner!InPorts, InPorts,
  Inner!OutPorts, OutPorts, Inner!Reaction, Reaction

LEMMA SameCounts ==
  /\ \A S : Inner!Cardinality(S) = Cardinality(S)
  /\ \A n : Inner!CountDeps(n) = CountDeps(n)
<1>1. \A S : Inner!Cardinality(S) = Cardinality(S)
  BY DEF Inner!Cardinality, Cardinality
<1>2. \A n : Inner!CountDeps(n) = CountDeps(n)
  BY <1>1, SameMasks, SameActivated DEF Inner!CountDeps, CountDeps
<1> QED BY <1>1, <1>2

LEMMA SameRoots == \A n : Inner!IsRoot(n) <=> IsRoot(n)
BY SameMasks, SameActivated DEF Inner!IsRoot, IsRoot

LEMMA SameExecution ==
  /\ \A g : Inner!NextGeneration(g) = NextGeneration(g)
  /\ \A s : Inner!RestOf(s) = RestOf(s)
  /\ \A p : Inner!Seen(p) = Seen(p)
BY DEF Inner!NextGeneration, NextGeneration, Inner!RestOf, RestOf, Inner!Seen, Seen

(* The types of the mapped state                                           *)

LEMMA SameFrames ==
  /\ Inner!Frame = Frame /\ Inner!Visiting = Visiting
  /\ \A f : Inner!WorkOK(f) <=> WorkOK(f)
  /\ \A call, n, s : Inner!NewFrame(call, n, s) = NewFrame(call, n, s)
<1>1. Inner!PortIndexes = PortIndexes
  BY DEF Inner!PortIndexes, PortIndexes, Inner!PortIdx, PortIdx
<1>2. Inner!Work = Work /\ Inner!Phase = Phase
  BY <1>1 DEF Inner!Work, Work, Inner!Phase, Phase
<1>3. Inner!Visiting = Visiting
  BY <1>2 DEF Inner!Visiting, Visiting
<1>4. Inner!Frame = Frame
  BY <1>1, <1>2, <1>3 DEF Inner!Frame, Frame
<1>5. \A f : Inner!WorkOK(f) <=> WorkOK(f)
  BY SamePorts DEF Inner!WorkOK, WorkOK, Inner!IsLink, IsLink
<1>6. \A call, n, s : Inner!NewFrame(call, n, s) = NewFrame(call, n, s)
  BY DEF Inner!NewFrame, NewFrame
<1> QED BY <1>3, <1>4, <1>5, <1>6

LEMMA NestedTop ==
  ASSUME Typed, Nested
  PROVE  /\ stack # <<>> /\ Top \in Frame /\ WorkOK(Top)
         /\ StackBar = <<Top>> /\ StackBar # <<>> /\ CallsBar = 1
         /\ Inner!Top = Top /\ \A phase : Inner!In(phase) <=> In(phase)
<1>1. stack # <<>>
  <2>1. 1 \in DOMAIN stack
    BY DEF Typed, Nested
  <2> QED BY <2>1
<1>2. Top \in Frame /\ WorkOK(Top)
  BY <1>1, StackFromTyped, TopType
<1> QED BY <1>1, <1>2 DEF StackBar, CallsBar, Inner!Top, Inner!In, In, Top

LEMMA BarTyped ==
  ASSUME Typed
  PROVE  Inner!TypeOK
<1>1. Inner!PortIndexes = PortIndexes
  BY DEF Inner!PortIndexes, PortIndexes, Inner!PortIdx, PortIdx
<1>2. conns \in GraphsBar /\ Inner!IsTopology(conns)
  BY SameTopology DEF Typed, IsTopology, GraphsBar
<1>3. \A n \in Node : required[n] \in [Reaction -> SUBSET PortIndexes]
  BY DEF Typed
<1>4. NoMask \in [Reaction -> SUBSET PortIndexes]
  BY DEF NoMask
<1>5. RequiredBar \in [Node -> [Reaction -> SUBSET PortIndexes]]
  BY <1>3, <1>4 DEF RequiredBar
<1>6. MarkingBar \in [Node -> Inner!Marking]
  BY DEF Typed, MarkingBar, Inner!Marking, Marking
<1>7. StackBar \in Seq(Frame) /\ CallsBar \in Nat
  BY NestedTop DEF StackBar, CallsBar
<1>8. ASSUME NEW k \in DOMAIN StackBar PROVE WorkOK(StackBar[k])
  BY NestedTop DEF StackBar
<1> QED BY <1>1, <1>2, <1>5, <1>6, <1>7, <1>8, SamePorts, SameFrames DEF Typed, Inner!TypeOK

(* A step of the call inside                                               *)

LEMMA StaysNested ==
  ASSUME Typed, Nested, conns' = conns, required' = required,
         NEW f, SetTop(f), f.node = Top.node
  PROVE  /\ Nested' /\ Top' = f /\ Inner!SetTop(f) /\ RequiredBar' = RequiredBar
         /\ MarkingBar' = [n \in Node |-> IF n \in Component(Top.node) THEN marking'[n]
                                          ELSE "none"]
<1>1. stack' = [stack EXCEPT ![1] = f] /\ 1 \in DOMAIN stack
  BY DEF SetTop, Typed, Nested
<1>2. Len(stack') = 2 /\ Top' = f
  BY <1>1 DEF Typed, Nested, Top
<1>3. \A n : Component(n)' = Component(n)
  BY DEF Component, Neighbours
<1>4. StackBar' = [StackBar EXCEPT ![1] = f] /\ CallsBar' = CallsBar
  BY <1>2 DEF StackBar, CallsBar, Nested
<1> QED BY <1>2, <1>3, <1>4 DEF Nested, Inner!SetTop, RequiredBar, MarkingBar

LEMMA SameMarking ==
  ASSUME Typed, Nested, conns' = conns, required' = required, marking' = marking,
         NEW f, SetTop(f), f.node = Top.node
  PROVE  Inner!SetTop(f) /\ UNCHANGED <<RequiredBar, MarkingBar>>
BY StaysNested DEF MarkingBar

LEMMA EndsNested ==
  ASSUME Typed, Nested, NEW r, Return(r)
  PROVE  ~ Nested'
<1>1. stack' = Tail(stack) /\ stack # <<>> /\ stack \in Seq(Frame)
  BY NestedTop DEF Typed, Return
<1>2. Len(stack') = Len(stack) - 1
  BY <1>1
<1> QED BY <1>2 DEF Nested

LEMMA EvalStartNested ==
  ASSUME Typed, Nested, EvalStart
  PROVE  Inner!EvalStart
<1> DEFINE n == Head(Top.list)
           f == [Top EXCEPT !.list = Tail(@), !.phase = "eval", !.cur = n,
                            !.work = ToPropagate(n)]
<1>1. /\ Top.list # <<>> /\ In("converge") /\ SetTop(f)
      /\ UNCHANGED <<conns, required, negotiated, propagated, deps, marking, generation, written>>
  BY DEF EvalStart, maskVars
<1>2. f.node = Top.node
  BY NestedTop DEF Frame
<1> HIDE DEF f
<1>3. Inner!SetTop(f) /\ UNCHANGED <<RequiredBar, MarkingBar>>
  BY <1>1, <1>2, SameMarking
<1>4. Inner!Top = Top /\ Inner!In("converge") /\ Inner!ToPropagate(n) = ToPropagate(n)
  BY <1>1, NestedTop, SamePropagation
<1> QED BY <1>1, <1>3, <1>4 DEF f, Inner!EvalStart, Inner!maskVars

LEMMA EvalEndNested ==
  ASSUME Typed, Nested, EvalEnd
  PROVE  Inner!EvalEnd
<1> DEFINE f == [Top EXCEPT !.phase = "converge"]
<1>1. /\ Top.work = {} /\ In("eval") /\ SetTop(f)
      /\ propagated' = [propagated EXCEPT ![Top.cur] = Apply(@, negotiated[Top.cur])]
      /\ deps' = [deps EXCEPT ![Top.cur] = CountDeps(Top.cur)]
      /\ UNCHANGED <<conns, required, negotiated, marking, generation, written>>
  BY DEF EvalEnd
<1>2. f.node = Top.node
  BY NestedTop DEF Frame
<1> HIDE DEF f
<1>3. Inner!SetTop(f) /\ UNCHANGED <<RequiredBar, MarkingBar>>
  BY <1>1, <1>2, SameMarking
<1>4. /\ Inner!Top = Top /\ Inner!In("eval")
      /\ Inner!CountDeps(Top.cur) = CountDeps(Top.cur)
      /\ \A a, b : Inner!Apply(a, b) = Apply(a, b)
  BY <1>1, NestedTop, SameCounts, SameMasks
<1> QED BY <1>1, <1>3, <1>4 DEF f, Inner!EvalEnd

LEMMA PropagateNested ==
  ASSUME Typed, Nested, Nested', Propagate
  PROVE  Inner!Propagate
<1>1. /\ In("eval")
      /\ UNCHANGED <<conns, required, propagated, deps, marking, generation, written>>
  BY DEF Propagate
<1>2. PICK w \in Top.work : Propagate!2!(w)
  BY DEF Propagate
<1>3. w[3] # 0
  BY <1>2, EndsNested
<1> DEFINE q == Peer(Top.cur, w)
           m == q[1]
           event == IF w[1] \in {1, 3} THEN "new" ELSE "old"
           mask == PortMasks[TypeOf[m]][q[2]][event]
           rest == [Top EXCEPT !.work = @ \ {w}]
           further == [rest EXCEPT !.list = PushFront(@, m)]
<1>4. rest.node = Top.node /\ further.node = Top.node
  BY NestedTop DEF Frame
<1>5. /\ Inner!Top = Top /\ Inner!In("eval") /\ Inner!Peer(Top.cur, w) = q
      /\ Inner!PortMasks = PortMasks /\ Inner!IsFirst(w, Top.work)
      /\ Inner!PushFront(rest.list, m) = PushFront(rest.list, m)
      /\ \A a, b : Inner!Apply(a, b) = Apply(a, b)
      /\ \A a, b : Inner!IsSubset(a, b) <=> IsSubset(a, b)
  BY <1>1, <1>2, NestedTop, SameWork, SamePortMasks, SameSequences, SameMasks
<1>6. CASE IsSubset(negotiated[m], mask)
  <2>1. SetTop(rest) /\ UNCHANGED negotiated
    BY <1>2, <1>3, <1>6
  <2>2. Inner!SetTop(rest) /\ UNCHANGED <<RequiredBar, MarkingBar>>
    BY <1>1, <1>4, <2>1, SameMarking
  <2> QED BY <1>1, <1>3, <1>5, <1>6, <2>1, <2>2 DEF Inner!Propagate
<1>7. CASE ~ IsSubset(negotiated[m], mask)
  <2>1. SetTop(further) /\ negotiated' = [negotiated EXCEPT ![m] = Apply(@, mask)]
    BY <1>2, <1>3, <1>7
  <2> HIDE DEF further
  <2>2. Inner!SetTop(further) /\ UNCHANGED <<RequiredBar, MarkingBar>>
    BY <1>1, <1>4, <2>1, SameMarking
  <2> QED BY <1>1, <1>3, <1>5, <1>7, <2>1, <2>2 DEF further, Inner!Propagate
<1> QED BY <1>6, <1>7

LEMMA NestedReached ==
  ASSUME Typed, Nested, Top.call = "component"
  PROVE  Inner!Reached = Component(Top.node)
BY NestedTop, SameComponent DEF Inner!Reached

LEMMA VisitNested ==
  ASSUME Typed, Nested, conns' = conns, required' = required, UNCHANGED maskVars,
         NEW n, NEW f, Visit(n, f), f \in Frame, f.node = Top.node
  PROVE  /\ Inner!Visit(n, f) /\ RequiredBar' = RequiredBar
         /\ MarkingBar' = [k \in Node |-> IF k \in Component(Top.node) THEN marking'[k]
                                          ELSE "none"]
<1> DEFINE links == Links(1, n, UsedMask(negotiated[n]))
           g == [f EXCEPT !.todo = Cons([node |-> n, links |-> links], @),
                          !.list = IF IsRoot(n) THEN Cons(n, @) ELSE @]
<1>1. SetTop(g) /\ g.node = Top.node
  BY DEF Visit, Frame
<1>2. /\ Inner!Links(1, n, Inner!UsedMask(negotiated[n])) = links
      /\ Inner!IsRoot(n) <=> IsRoot(n)
      /\ \A x, s : Inner!Cons(x, s) = Cons(x, s)
  BY SameWork, SameMasks, SameRoots, SameSequences
<1> HIDE DEF links
<1> HIDE DEF g
<1>3. /\ Inner!SetTop(g) /\ RequiredBar' = RequiredBar
      /\ MarkingBar' = [k \in Node |-> IF k \in Component(Top.node) THEN marking'[k]
                                       ELSE "none"]
  BY <1>1, StaysNested
<1> QED BY <1>2, <1>3 DEF g, Inner!Visit

LEMMA RootsStartNested ==
  ASSUME Typed, Nested, RootsStart
  PROVE  Inner!RootsStart
<1> DEFINE f == [Top EXCEPT !.phase = "roots"]
<1>1. /\ In("converge") /\ Top.call = "component" /\ Top.list = <<>> /\ Visit(Top.node, f)
      /\ marking' = [n \in Node |-> IF n = Top.node THEN "find_roots"
                                    ELSE IF n \in Component(Top.node) THEN "none"
                                    ELSE marking[n]]
      /\ UNCHANGED <<conns, required, negotiated, propagated, deps, generation, written>>
  BY DEF RootsStart, maskVars
<1>2. f \in Frame /\ f.node = Top.node
  BY NestedTop DEF Frame, Phase
<1> HIDE DEF f
<1>3. /\ Inner!Visit(Top.node, f) /\ RequiredBar' = RequiredBar
      /\ MarkingBar' = [n \in Node |-> IF n \in Component(Top.node) THEN marking'[n]
                                       ELSE "none"]
  BY <1>1, <1>2, VisitNested DEF maskVars
<1>4. Top.node \in Component(Top.node)
  BY NestedTop DEF Component, Frame
<1>5. MarkingBar' = [n \in Node |-> IF n = Top.node THEN "find_roots"
                                    ELSE IF n \in Component(Top.node) THEN "none"
                                    ELSE MarkingBar[n]]
  BY <1>1, <1>3, <1>4 DEF MarkingBar
<1>6. Inner!Top = Top /\ Inner!In("converge") /\ Inner!Component(Top.node) = Component(Top.node)
  BY <1>1, NestedTop, SameComponent
<1> QED BY <1>1, <1>3, <1>5, <1>6 DEF f, Inner!RootsStart, Inner!maskVars

LEMMA RootsVisitNested ==
  ASSUME Typed, Nested, Top.call = "component", Inner!RootsFound, RootsVisit
  PROVE  Inner!RootsVisit
<1>1. /\ In("roots") /\ Top.todo # <<>>
      /\ UNCHANGED <<conns, required, negotiated, propagated, deps, generation, written>>
  BY DEF RootsVisit, maskVars
<1>2. PICK w \in Head(Top.todo).links : RootsVisit!3!(w)
  BY DEF RootsVisit
<1> DEFINE k == Head(Top.todo).node
           m == Peer(k, w)[1]
           rest == [Top EXCEPT !.todo[1].links = @ \ {w}]
<1>3. rest \in Frame /\ rest.node = Top.node
  <2>1. Head(Top.todo) = Top.todo[1] /\ Top.todo \in Seq(Visiting) /\ 1 \in DOMAIN Top.todo
    BY <1>1, NestedTop DEF Frame
  <2>2. [Top.todo[1] EXCEPT !.links = @ \ {w}] \in Visiting
    <3> DEFINE v == Top.todo[1]
    <3>1. v \in Visiting
      BY <2>1
    <3> HIDE DEF v
    <3>2. [v EXCEPT !.links = @ \ {w}] \in Visiting
      BY <3>1 DEF Visiting
    <3> QED BY <3>2 DEF v
  <2>3. [Top.todo EXCEPT ![1].links = @ \ {w}] \in Seq(Visiting)
    BY <2>1, <2>2
  <2> QED BY <2>3, NestedTop DEF Frame
<1>4. m \in Component(Top.node)
  <2>1. k \in Component(Top.node)
    <3>1. 1 \in DOMAIN Top.todo /\ Head(Top.todo) = Top.todo[1]
      BY <1>1, NestedTop DEF Frame
    <3>2. Top.phase = "roots"
      BY <1>1 DEF In, Top
    <3>3. \A j \in DOMAIN Top.todo : Top.todo[j].node \in Component(Top.node)
      <4>1. Inner!Top = Top /\ StackBar # <<>> /\ Inner!Reached = Component(Top.node)
        BY NestedTop, NestedReached
      <4> QED BY <3>2, <4>1 DEF Inner!RootsFound
    <3> QED BY <3>1, <3>3
  <2>2. w[2] \in PortIdx(TypeOf[k]) /\ w[3] \in DOMAIN conns[<<k, w[2]>>]
    <3>1. 1 \in DOMAIN Top.todo /\ Head(Top.todo) = Top.todo[1]
      BY <1>1, NestedTop DEF Frame
    <3> QED BY <1>2, <3>1, NestedTop DEF WorkOK, IsLink
  <2>3. Inner!TypeOK /\ StackBar # <<>> /\ Inner!Reached = Component(Top.node)
    BY BarTyped, NestedTop, NestedReached
  <2>4. conns[<<k, w[2]>>][w[3]][1] \in Component(Top.node)
    BY <2>1, <2>2, <2>3, InnerAssumptions, Inner!ReachedClosed, SamePorts
  <2> QED BY <2>4 DEF Peer
<1>5. /\ Inner!Top = Top /\ Inner!In("roots") /\ Inner!Peer(k, w) = Peer(k, w)
      /\ Inner!IsFirst(w, Head(Top.todo).links) /\ MarkingBar[m] = marking[m]
  <2>1. m \in Node
    BY <1>4 DEF Component
  <2> HIDE DEF m
  <2> QED BY <1>1, <1>2, <1>4, <2>1, NestedTop, SameWork DEF MarkingBar
<1> HIDE DEF m
<1>6. CASE marking[m] = "find_roots"
  <2>1. SetTop(rest) /\ UNCHANGED marking
    BY <1>2, <1>6 DEF m
  <2> HIDE DEF rest
  <2>2. Inner!SetTop(rest) /\ UNCHANGED <<RequiredBar, MarkingBar>>
    BY <1>1, <1>3, <2>1, SameMarking
  <2> QED BY <1>1, <1>5, <1>6, <2>2 DEF m, rest, Inner!RootsVisit, Inner!maskVars
<1>7. CASE marking[m] # "find_roots"
  <2>1. Visit(m, rest) /\ marking' = [marking EXCEPT ![m] = "find_roots"]
    BY <1>2, <1>7 DEF m
  <2> HIDE DEF rest
  <2>2. /\ Inner!Visit(m, rest) /\ RequiredBar' = RequiredBar
        /\ MarkingBar' = [n \in Node |-> IF n \in Component(Top.node) THEN marking'[n]
                                         ELSE "none"]
    BY <1>1, <1>3, <2>1, VisitNested DEF maskVars
  <2>3. MarkingBar' = [MarkingBar EXCEPT ![m] = "find_roots"]
    BY <1>4, <2>1, <2>2 DEF MarkingBar, Typed
  <2> QED BY <1>1, <1>5, <1>7, <2>2, <2>3 DEF m, rest, Inner!RootsVisit, Inner!maskVars
<1> QED BY <1>6, <1>7

LEMMA RootsBackNested ==
  ASSUME Typed, Nested, RootsBack
  PROVE  Inner!RootsBack
<1> DEFINE f == [Top EXCEPT !.todo = Tail(@)]
<1>1. /\ In("roots") /\ Top.todo # <<>> /\ Head(Top.todo).links = {} /\ SetTop(f)
      /\ UNCHANGED <<conns, required, negotiated, propagated, deps, marking, generation, written>>
  BY DEF RootsBack, maskVars
<1>2. f.node = Top.node
  BY NestedTop DEF Frame
<1> HIDE DEF f
<1>3. Inner!SetTop(f) /\ UNCHANGED <<RequiredBar, MarkingBar>>
  BY <1>1, <1>2, SameMarking
<1>4. Inner!Top = Top /\ Inner!In("roots")
  BY <1>1, NestedTop
<1> QED BY <1>1, <1>3, <1>4 DEF f, Inner!RootsBack, Inner!maskVars

LEMMA RootsEndNested ==
  ASSUME Typed, Nested, Nested', RootsEnd
  PROVE  Inner!RootsEnd
<1> DEFINE f == [Top EXCEPT !.phase = "run"]
<1>1. /\ In("roots") /\ Top.todo = <<>> /\ Top.list # <<>> /\ SetTop(f)
      /\ UNCHANGED <<conns, required, negotiated, propagated, deps, marking, generation, written>>
  BY EndsNested DEF RootsEnd, maskVars
<1>2. f.node = Top.node
  BY NestedTop DEF Frame
<1> HIDE DEF f
<1>3. Inner!SetTop(f) /\ UNCHANGED <<RequiredBar, MarkingBar>>
  BY <1>1, <1>2, SameMarking
<1>4. Inner!Top = Top /\ Inner!In("roots")
  BY <1>1, NestedTop
<1> QED BY <1>1, <1>3, <1>4 DEF f, Inner!RootsEnd, Inner!maskVars

(* The node that is processed belongs to the call inside.                  *)
LEMMA ProcessStartNested ==
  ASSUME Typed, Nested, Nested', Top.call = "component", Top.loop = {}, Inner!Listed,
         ProcessStart
  PROVE  Inner!ProcessStart
<1>1. /\ In("run")
      /\ UNCHANGED <<conns, required, negotiated, propagated, deps, written>>
  BY DEF ProcessStart, maskVars
<1>2. PICK n \in Node : ProcessStart!2!(n)
  BY DEF ProcessStart
<1>3. deps[n] = 0
  BY <1>2, EndsNested
<1> DEFINE used == UsedMask(negotiated[n])
           omittable == \A i \in used : ~ Activated(<<n, i>>, negotiated, generation')
           f == [Top EXCEPT !.list = RestOf(@), !.cur = n,
                            !.ins = InMask(negotiated[n]), !.outs = OutMask(negotiated[n]),
                            !.phase = IF omittable THEN "skip" ELSE "call"]
<1>4. /\ Popped(n) /\ marking' = [marking EXCEPT ![n] = "processing"] /\ SetTop(f)
      /\ generation' = [p \in Port |->
           IF p[1] = n /\ p[2] \in negotiated[n]["push_new"]
             THEN NextGeneration(generation[p]) ELSE generation[p]]
  BY <1>2, <1>3
<1>5. n \in Component(Top.node)
  <2>1. Inner!Reached = Component(Top.node) /\ Inner!Top = Top /\ StackBar # <<>>
    BY NestedTop, NestedReached
  <2>2. Top.phase = "run"
    BY <1>1 DEF In, Top
  <2>3. Range(Top.list) \subseteq Component(Top.node)
    BY <2>1, <2>2 DEF Inner!Listed, Inner!Executing, Inner!Range, Range
  <2>4. Top.list # <<>> /\ n = Head(Top.list) /\ Top.list \in Seq(Node)
    BY <1>4, NestedTop DEF Popped, Frame
  <2>5. n \in Range(Top.list)
    BY <2>4 DEF Range
  <2> QED BY <2>3, <2>5
<1>6. f.node = Top.node
  BY NestedTop DEF Frame
<1>7. /\ \A m : Inner!InMask(m) = InMask(m) /\ Inner!OutMask(m) = OutMask(m)
      /\ Inner!UsedMask(negotiated[n]) = used
      /\ \A p, neg, gen : Inner!Activated(p, neg, gen) <=> Activated(p, neg, gen)
      /\ \A g : Inner!NextGeneration(g) = NextGeneration(g)
      /\ \A s : Inner!RestOf(s) = RestOf(s)
      /\ Inner!Port = Port /\ Inner!Top = Top /\ Inner!In("run") /\ Inner!Popped(n)
  BY <1>1, <1>4, SameMasks, SameActivated, SameExecution, SamePorts, NestedTop
     DEF Inner!Popped, Popped
<1> DEFINE omittable2 ==
             \A i \in Inner!UsedMask(negotiated[n]) :
               ~ Inner!Activated(<<n, i>>, negotiated, generation')
<1>8. omittable2 <=> omittable
  BY <1>7
<1> HIDE DEF used, omittable
<1>9. /\ f = [Top EXCEPT !.list = Inner!RestOf(@), !.cur = n,
                !.ins = Inner!InMask(negotiated[n]), !.outs = Inner!OutMask(negotiated[n]),
                !.phase = IF omittable2 THEN "skip" ELSE "call"]
      /\ generation' = [p \in Inner!Port |->
           IF p[1] = n /\ p[2] \in negotiated[n]["push_new"]
             THEN Inner!NextGeneration(generation[p]) ELSE generation[p]]
  <2> HIDE DEF omittable2
  <2> QED BY <1>4, <1>7, <1>8
<1> HIDE DEF f
<1>10. /\ Inner!SetTop(f) /\ RequiredBar' = RequiredBar
       /\ MarkingBar' = [k \in Node |-> IF k \in Component(Top.node) THEN marking'[k]
                                        ELSE "none"]
  BY <1>1, <1>4, <1>6, StaysNested
<1>11. MarkingBar' = [MarkingBar EXCEPT ![n] = "processing"]
  BY <1>4, <1>5, <1>10 DEF MarkingBar, Typed
<1> QED BY <1>1, <1>3, <1>7, <1>9, <1>10, <1>11 DEF Inner!ProcessStart, Inner!maskVars

LEMMA AfterProcessNested ==
  ASSUME Typed, Nested, AfterProcess,
         UNCHANGED <<conns, required, negotiated, propagated, deps, marking>>
  PROVE  Inner!AfterProcess /\ UNCHANGED <<RequiredBar, MarkingBar>>
<1> DEFINE n == Top.cur
           f == [Top EXCEPT !.phase = "notify", !.work = Links(1, n, Top.outs)]
<1>1. /\ SetTop(f)
      /\ generation' = [p \in Port |->
           IF p[1] = n /\ p[2] \in Top.ins /\ conns[p] # <<>> THEN Seen(p) ELSE generation[p]]
  BY DEF AfterProcess
<1>2. f.node = Top.node
  BY NestedTop DEF Frame
<1> HIDE DEF f
<1>3. Inner!SetTop(f) /\ UNCHANGED <<RequiredBar, MarkingBar>>
  BY <1>1, <1>2, SameMarking
<1>4. /\ Inner!Top = Top /\ Inner!Port = Port /\ \A p : Inner!Seen(p) = Seen(p)
      /\ Inner!Links(1, n, Top.outs) = Links(1, n, Top.outs)
  BY NestedTop, SamePorts, SameExecution, SameWork
<1> QED BY <1>1, <1>3, <1>4 DEF f, Inner!AfterProcess

LEMMA ProcessEndNested ==
  ASSUME Typed, Nested, ProcessSkip \/ ProcessOk
  PROVE  Inner!ProcessSkip \/ Inner!ProcessOk
<1>1. AfterProcess /\ UNCHANGED <<conns, required, negotiated, propagated, deps, marking>>
  BY DEF ProcessSkip, ProcessOk, maskVars
<1>2. Inner!AfterProcess /\ UNCHANGED <<RequiredBar, MarkingBar>>
  BY <1>1, AfterProcessNested
<1>3. CASE ProcessSkip
  <2>1. Inner!In("skip") /\ written' = written
    BY <1>3, NestedTop DEF ProcessSkip
  <2> QED BY <1>1, <1>2, <2>1 DEF Inner!ProcessSkip, Inner!maskVars
<1>4. CASE ProcessOk
  <2>1. Inner!In("call")
    BY <1>4, NestedTop DEF ProcessOk
  <2>2. written' = written \cup
          {p \in OutPort : p[1] = Top.cur /\ Activated(p, negotiated, generation)}
    BY <1>4 DEF ProcessOk
  <2>3. written' = written \cup
          {p \in Inner!OutPort : p[1] = Inner!Top.cur /\ Inner!Activated(p, negotiated, generation)}
    BY <2>2, NestedTop, SamePorts, SameActivated
  <2> QED BY <1>1, <1>2, <2>1, <2>3 DEF Inner!ProcessOk, Inner!maskVars
<1> QED BY <1>3, <1>4

LEMMA NotifyNested ==
  ASSUME Typed, Nested, Nested', Notify
  PROVE  Inner!Notify
<1>1. /\ In("notify")
      /\ UNCHANGED <<conns, required, negotiated, propagated, marking, generation, written>>
  BY DEF Notify, maskVars
<1>2. PICK w \in Top.work : Notify!2!(w)
  BY DEF Notify
<1> DEFINE q == Peer(Top.cur, w)
           m == q[1]
           rest == [Top EXCEPT !.work = @ \ {w}]
           further == IF deps[m] = 1 THEN [rest EXCEPT !.list = Cons(m, @)] ELSE rest
<1>3. rest.node = Top.node /\ further.node = Top.node
  BY NestedTop DEF Frame
<1>4. /\ Inner!Top = Top /\ Inner!In("notify") /\ Inner!Peer(Top.cur, w) = q
      /\ Inner!IsFirst(w, Top.work) /\ Inner!Cons(m, rest.list) = Cons(m, rest.list)
      /\ Inner!Activated(q, negotiated, generation) <=> Activated(q, negotiated, generation)
  BY <1>1, <1>2, NestedTop, SameWork, SameSequences, SameActivated
<1>5. CASE ~ Activated(q, negotiated, generation)
  <2>1. SetTop(rest) /\ UNCHANGED deps
    BY <1>2, <1>5
  <2>2. Inner!SetTop(rest) /\ UNCHANGED <<RequiredBar, MarkingBar>>
    BY <1>1, <1>3, <2>1, SameMarking
  <2> QED BY <1>1, <1>4, <1>5, <2>1, <2>2 DEF Inner!Notify, Inner!maskVars
<1>6. CASE Activated(q, negotiated, generation)
  <2>1. deps[m] # 0
    BY <1>2, <1>6, EndsNested
  <2>2. SetTop(further) /\ deps' = [deps EXCEPT ![m] = @ - 1]
    BY <1>2, <1>6, <2>1
  <2> HIDE DEF further
  <2>3. Inner!SetTop(further) /\ UNCHANGED <<RequiredBar, MarkingBar>>
    BY <1>1, <1>3, <2>2, SameMarking
  <2>4. further = IF deps[m] = 1 THEN [rest EXCEPT !.list = Inner!Cons(m, @)] ELSE rest
    BY <1>4 DEF further
  <2> QED BY <1>1, <1>4, <1>6, <2>1, <2>2, <2>3, <2>4 DEF Inner!Notify, Inner!maskVars
<1> QED BY <1>5, <1>6

LEMMA NotifyEndNested ==
  ASSUME Typed, Nested, Top.call = "component", Inner!Listed, NotifyEnd
  PROVE  Inner!NotifyEnd
<1> DEFINE f == [Top EXCEPT !.phase = "run"]
<1>1. /\ In("notify") /\ Top.work = {} /\ marking' = [marking EXCEPT ![Top.cur] = "done"]
      /\ SetTop(f)
      /\ UNCHANGED <<conns, required, negotiated, propagated, deps, generation, written>>
  BY DEF NotifyEnd, maskVars
<1>2. f.node = Top.node
  BY NestedTop DEF Frame
<1> HIDE DEF f
<1>3. Top.cur \in Component(Top.node)
  <2>1. Inner!Reached = Component(Top.node) /\ Inner!Top = Top /\ StackBar # <<>>
    BY NestedTop, NestedReached
  <2>2. Top.phase = "notify"
    BY <1>1 DEF In, Top
  <2> QED BY <2>1, <2>2 DEF Inner!Listed, Inner!Executing, Inner!Running
<1>4. /\ Inner!SetTop(f) /\ RequiredBar' = RequiredBar
      /\ MarkingBar' = [n \in Node |-> IF n \in Component(Top.node) THEN marking'[n]
                                       ELSE "none"]
  BY <1>1, <1>2, StaysNested
<1>5. MarkingBar' = [MarkingBar EXCEPT ![Top.cur] = "done"]
  BY <1>1, <1>3, <1>4 DEF MarkingBar, Typed
<1>6. Inner!Top = Top /\ Inner!In("notify")
  BY <1>1, NestedTop
<1> QED BY <1>1, <1>4, <1>5, <1>6 DEF f, Inner!NotifyEnd, Inner!maskVars

(* A step of the call inside, unless it returns, is a step of DfgSchedule. *)
LEMMA StepNested ==
  ASSUME Typed, Nested, Nested', Top.call = "component", Inner!ExecInv, Continue
  PROVE  Inner!Step
<1>0. Inner!RootsFound /\ Inner!Listed /\ Top.loop = {}
  BY NestedTop DEF Inner!ExecInv, Inner!RunInv, Inner!NegotiationInv, Inner!MarkingsReset
<1>1. CASE Negotiate
  BY <1>1, EvalStartNested, PropagateNested, EvalEndNested
     DEF Negotiate, Inner!Negotiate, Inner!Step
<1>2. CASE FindRoots
  BY <1>0, <1>2, RootsStartNested, RootsVisitNested, RootsBackNested, RootsEndNested
     DEF FindRoots, Inner!FindRoots, Inner!Step
<1>3. CASE FindReady
  <2>1. Top.call = "graph"
    BY <1>3 DEF FindReady
  <2> QED BY <2>1
<1>4. CASE ProcessStart
  BY <1>0, <1>4, ProcessStartNested DEF Inner!Execute, Inner!Step
<1>5. CASE ProcessSkip \/ ProcessOk
  BY <1>5, ProcessEndNested DEF Inner!Execute, Inner!Step
<1>6. CASE FailsCleanly \/ RunEnd
  BY <1>6, EndsNested DEF FailsCleanly, ProcessFail, RunEnd
<1>7. CASE Notify
  BY <1>7, NotifyNested DEF Inner!Execute, Inner!Step
<1>8. CASE NotifyEnd
  BY <1>0, <1>8, NotifyEndNested DEF Inner!Execute, Inner!Step
<1> QED BY <1>1, <1>2, <1>3, <1>4, <1>5, <1>6, <1>7, <1>8 DEF Continue

(* A call that starts inside of another is a call that DfgSchedule starts. *)
LEMMA StartNested ==
  ASSUME Typed, ~ Nested, Nested', UNCHANGED <<conns, generation>>,
         NEW n \in Node, NEW mask \in Mask(n), mask["pull_new"] = {},
         StartComponent(n, mask)
  PROVE  /\ Inner!Next /\ Top'.call = "component" /\ Top'.node = n
         /\ required' = [required EXCEPT ![n] = mask]
<1> DEFINE neg == [m \in Node |-> IF m = n THEN mask ELSE NoMask]
           S == Component(n)
           f == NewFrame("component", n, <<n>>)
<1>1. S' = S
  BY DEF Component, Neighbours
<1>2. /\ required' = [required EXCEPT ![n] = mask] /\ Reset(S, neg)
      /\ stack' = Cons(f, Severed)
  BY <1>1 DEF StartComponent
<1>3. Top' = f
  <2>1. Severed \in Seq(Range(Severed))
    <3>1. Len(stack) \in Nat /\ DOMAIN stack = 1 .. Len(stack)
      BY DEF Typed
    <3>2. Severed = [k \in 1 .. Len(stack) |-> Severed[k]]
      BY <3>1 DEF Severed
    <3> QED BY <3>1, <3>2, FunctionSequence DEF IsSequence
  <2> HIDE DEF f
  <2>2. Cons(f, Severed)[1] = f
    BY <2>1 DEF Cons
  <2>3. Head(stack') = stack'[1]
    BY DEF Nested
  <2> QED BY <1>2, <2>2, <2>3 DEF Top
<1>4. f.call = "component" /\ f.node = n
  BY DEF NewFrame
<1> HIDE DEF f
<1>5. StackBar = <<>> /\ StackBar' = <<f>> /\ CallsBar = 0 /\ CallsBar' = 1
  BY <1>3 DEF StackBar, CallsBar
<1>6. RequiredBar' = [RequiredBar EXCEPT ![n] = mask]
  BY <1>2, <1>3, <1>4 DEF RequiredBar, Typed
<1>7. Component(Top.node)' = S
  BY <1>1, <1>3, <1>4 DEF Component, Neighbours
<1>8. MarkingBar' = [k \in Node |-> IF k \in S THEN "reset" ELSE MarkingBar[k]]
  BY <1>2, <1>7 DEF MarkingBar, Reset
<1>9. /\ Inner!Component(n) = S /\ Inner!NoMask = NoMask
      /\ Inner!NewFrame("component", n, <<n>>) = f
  BY SameComponent, SameMasks, SameFrames DEF f
<1>10. Inner!Reset(S, neg)
  BY <1>2, <1>8, <1>9 DEF Reset, Inner!Reset
<1>11. Inner!ScheduleComponent(n, mask)
  BY <1>5, <1>6, <1>9, <1>10 DEF Inner!ScheduleComponent, Inner!Idle
<1>12. \E q \in RequestsBar : q.node = n /\ q.mask = mask
  <2> DEFINE q == [node |-> n, mask |-> mask]
  <2>1. mask \in [Reaction -> SUBSET PortIndexes]
    BY MaskIndexes
  <2>2. q \in RequestsBar
    BY <2>1 DEF RequestsBar
  <2> QED BY <2>2
<1>13. Inner!Next
  BY <1>11, <1>12 DEF Inner!Next
<1> QED BY <1>2, <1>3, <1>4, <1>13

(* Without a call inside there is nothing to be said of it.                *)
LEMMA NotNested ==
  ASSUME Typed, ~ Nested
  PROVE  Inner!CallInv /\ Inner!ExecInv
<1>1. StackBar = <<>> /\ MarkingBar = [n \in Node |-> "none"]
  BY DEF StackBar, MarkingBar
<1>2. DOMAIN <<>> = {}
  OBVIOUS
<1>3. Inner!CallInv
  BY <1>1, <1>2 DEF Inner!CallInv, Inner!OneCall, Inner!PendingListed, Inner!CausesFollowed
<1>4. Inner!NegotiationInv /\ Inner!RootsFound
  BY <1>1 DEF Inner!NegotiationInv, Inner!WordsDirected, Inner!NewsAnnounced,
     Inner!CountersBetween, Inner!MarkingsReset, Inner!RootsFound
<1>5. Inner!Listed /\ Inner!CountersExact /\ Inner!OutputsWritten
  BY <1>1 DEF Inner!Executing, Inner!Listed, Inner!CountersExact, Inner!OutputsWritten
<1>6. Inner!InputsSeen
  <2>1. \A p \in Inner!InPort : p[1] \in Node
    BY DEF Inner!InPort
  <2> QED BY <1>1, <2>1 DEF Inner!InputsSeen, Inner!Over, Inner!In
<1> QED BY <1>3, <1>4, <1>5, <1>6 DEF Inner!ExecInv, Inner!RunInv

LEMMA LeavesNested ==
  ASSUME Typed', ~ Nested'
  PROVE  Inner!CallInv' /\ Inner!ExecInv'
BY NotNested, PTL

LEMMA BarTypedNext ==
  ASSUME Typed'
  PROVE  Inner!TypeOK'
BY BarTyped, PTL

LEMMA SameCallNested ==
  ASSUME Typed, Typed', Nested, Nested', Inner!CallInv, Inner!Step
  PROVE  Top'.call = Top.call /\ Top'.node = Top.node
<1>1. Inner!TypeOK /\ Inner!OneCall
  BY BarTyped DEF Inner!CallInv
<1>2. Inner!Top = Top /\ StackBar = <<Top>> /\ StackBar' = <<Top'>> /\ Inner!Top' = Top'
  BY NestedTop DEF StackBar, Inner!Top
<1>3. StackBar' # <<>>
  BY <1>2
<1>4. CASE Inner!Negotiate
  <2>1. Inner!SameCall
    BY <1>1, <1>3, <1>4, InnerAssumptions, Inner!EvalStartTop, Inner!PropagateTop, Inner!EvalEndTop
       DEF Inner!Negotiate, Inner!Follows
  <2> QED BY <1>2, <2>1 DEF Inner!SameCall
<1>5. CASE Inner!FindRoots \/ Inner!FindReady \/ Inner!Execute
  <2>1. Inner!Onward
    BY <1>1, <1>5, InnerAssumptions, Inner!FindRootsOnward, Inner!ExecuteOnward
  <2>2. Tail(StackBar) = <<>>
    BY <1>2
  <2>3. PICK f : Inner!SetTop(f) /\ Inner!Continues(f)
    BY <1>3, <2>1, <2>2 DEF Inner!Onward, Inner!Return
  <2>4. Top' = f
    BY <1>2, <2>3 DEF Inner!SetTop
  <2> QED BY <1>2, <2>3, <2>4 DEF Inner!Continues
<1> QED BY <1>4, <1>5 DEF Inner!Step

(* What is said of a call inside of another: it is one of a widget, which  *)
(* repeats its request if it is triggered again, and it is a call of       *)
(* DfgSchedule in good order.                                              *)
RequestsOld == \A n \in Node : required[n]["pull_new"] = {}

TriggerMask(n) == WidgetMask(n, TriggerKind[TypeOf[n]])

NestInv ==
  /\ RequestsOld
  /\ Nested => Top.call = "component" /\ required[Top.node] = TriggerMask(Top.node)
  /\ Inner!CallInv /\ Inner!ExecInv

LEMMA SameResponsive == Responsive => Inner!Responsive
<1>1. \A q \in RequestsBar : q.mask["pull_new"] = {}
  BY DEF RequestsBar
<1>2. /\ \A t, i : Inner!HearsNew(t, i) <=> HearsNew(t, i)
      /\ \A t, i : Inner!PullsWhenTold(t, i) <=> PullsWhenTold(t, i)
  BY SamePortMasks, SamePorts DEF Inner!HearsNew, HearsNew, Inner!PullsWhenTold, PullsWhenTold
<1> QED BY <1>1, <1>2, SamePorts DEF Responsive, Inner!Responsive

LEMMA NextNested ==
  ASSUME Responsive, Typed, Typed', Inner!CallInv, Inner!ExecInv, [Inner!Next]_(Inner!vars)
  PROVE  Inner!CallInv' /\ Inner!ExecInv'
BY BarTyped, BarTypedNext, SameResponsive, InnerAssumptions, Inner!ExecStep

(* The masks that are requested                                            *)

LEMMA WidgetMaskOld ==
  ASSUME MasksProper, RequestsOld, NEW n \in Node, NEW e,
         e.mode \in {"reset", "set", "keep"}, e.outs \subseteq OutPorts(TypeOf[n])
  PROVE  WidgetMask(n, e) \in Mask(n) /\ WidgetMask(n, e)["pull_new"] = {}
<1>1. WidgetMask(n, e) \in Mask(n)
  BY WidgetMaskProper DEF Proper
<1>2. required[n] \in Mask(n) /\ required[n]["pull_new"] = {} /\ "pull_new" \in Reaction
  BY DEF MasksProper, Proper, RequestsOld, Reaction
<1>3. NoMask["pull_new"] = {} /\ DOMAIN NoMask = Reaction
  BY <1>2 DEF NoMask
<1>4. WidgetMask(n, e)["pull_new"] = {}
  BY <1>2, <1>3 DEF WidgetMask, Mask
<1> QED BY <1>1, <1>4

(* A trigger that is repeated requests the same.                           *)
LEMMA TriggerRepeated ==
  ASSUME MasksProper, NEW n \in Node, required' = [required EXCEPT ![n] = TriggerMask(n)],
         required \in [Node -> [Reaction -> SUBSET PortIndexes]]
  PROVE  required'[n] = TriggerMask(n)'
<1> DEFINE e == TriggerKind[TypeOf[n]]
<1>1. required'[n] = WidgetMask(n, e)
  BY DEF TriggerMask
<1>2. e.mode \in {"reset", "set", "keep"}
  BY TypeTriggers
<1> HIDE DEF e
<1>3. CASE e.mode = "reset"
  BY <1>1, <1>3 DEF e, TriggerMask, WidgetMask
<1>4. CASE e.mode = "keep"
  BY <1>1, <1>4 DEF e, TriggerMask, WidgetMask
<1>5. CASE e.mode = "set"
  <2>1. required'[n] = [required[n] EXCEPT !["push_new"] = e.outs]
    BY <1>1, <1>5 DEF WidgetMask
  <2>2. [required'[n] EXCEPT !["push_new"] = e.outs] = required'[n]
    BY <2>1
  <2>3. TriggerMask(n)' = [required'[n] EXCEPT !["push_new"] = e.outs]
    BY <1>5 DEF e, TriggerMask, WidgetMask
  <2> QED BY <2>2, <2>3
<1> QED BY <1>2, <1>3, <1>4, <1>5

LEMMA TriggeredMask ==
  ASSUME NEW n, NEW mask, DFGNodeTriggered(n, mask)
  PROVE  /\ UNCHANGED <<conns, generation>> /\ required' = [required EXCEPT ![n] = mask]
         /\ \/ enabled /\ StartComponent(n, mask)
            \/ ~ enabled /\ UNCHANGED <<deps, negotiated, propagated, written, marking, stack>>
BY DEF DFGNodeTriggered, StartComponent

LEMMA RequestOld ==
  ASSUME Typed, RequestsOld, NEW n \in Node, NEW mask, mask["pull_new"] = {},
         required' = [required EXCEPT ![n] = mask]
  PROVE  RequestsOld'
BY DEF RequestsOld, Typed

LEMMA StepKeepsRequests == ASSUME Step PROVE required' = required
BY DEF Step, Negotiate, EvalStart, Propagate, EvalEnd, FindRoots, RootsStart, RootsVisit,
  RootsBack, RootsEnd, FindReady, Execute, ProcessStart, ProcessSkip, ProcessOk,
  ProcessFail, Notify, NotifyEnd, RunEnd, maskVars

LEMMA EditOld ==
  ASSUME Typed, RequestsOld, NEW e \in Edits, EditGraph(e)
  PROVE  RequestsOld'
<1>1. CASE required' = required
  BY <1>1 DEF RequestsOld
<1>2. CASE required' # required
  <2>1. PICK in \in e.link : StartComponent(in[1], [NoMask EXCEPT !["pull_old"] = {in[2]}])
    BY <1>2 DEF EditGraph, maskVars
  <2>2. in[1] \in Node
    BY EditType, PortsPaired
  <2> DEFINE mask == [NoMask EXCEPT !["pull_old"] = {in[2]}]
  <2>3. mask["pull_new"] = {}
    BY DEF NoMask, Reaction
  <2>4. required' = [required EXCEPT ![in[1]] = mask]
    BY <2>1 DEF StartComponent
  <2> HIDE DEF mask
  <2> QED BY <2>2, <2>3, <2>4, RequestOld
<1> QED BY <1>1, <1>2

LEMMA FirstCallOnly ==
  ASSUME GuardInv, Idle, NEW n, NEW mask, StartComponent(n, mask) \/ stack' = stack
  PROVE  ~ Nested'
<1>1. IsSequence(stack) /\ Len(stack) = 0
  BY IdleGuards
<1>2. Len(stack') \in {0, 1}
  BY <1>1, StartCalls
<1> QED BY <1>2 DEF Nested

(* The requests after a step                                               *)
LEMMA OldStep ==
  ASSUME FreshInv, RequestsOld, [SessionNext]_sessionVars
  PROVE  RequestsOld'
<1>0. Typed /\ PendingOK /\ MasksProper
  BY DEF FreshInv
<1>1. CASE required' = required
  BY <1>1 DEF RequestsOld
<1>2. CASE UNCHANGED sessionVars
  BY <1>1, <1>2 DEF sessionVars, vars
<1>3. CASE ScheduleDFG
  BY <1>3 DEF ScheduleDFG, ScheduleGraph, RequestsOld, PullAll, Reaction
<1>4. ASSUME NEW n \in Node, NEW e, e.mode \in {"reset", "set", "keep"},
             e.outs \subseteq OutPorts(TypeOf[n]), DFGNodeTriggered(n, WidgetMask(n, e))
      PROVE  RequestsOld'
  <2> DEFINE mask == WidgetMask(n, e)
  <2>1. mask["pull_new"] = {} /\ required' = [required EXCEPT ![n] = mask]
    BY <1>0, <1>4, WidgetMaskOld, TriggeredMask
  <2> HIDE DEF mask
  <2> QED BY <1>0, <2>1, RequestOld
<1>5. ASSUME NEW e \in WidgetEvents, WidgetTrigger(e) PROVE RequestsOld'
  <2>1. /\ e.node \in Node /\ e.mode \in {"reset", "set", "keep"}
        /\ e.outs \subseteq OutPorts(TypeOf[e.node])
    BY SessionAssumption
  <2> QED BY <1>4, <1>5, <2>1 DEF WidgetTrigger
<1>6. ASSUME NEW n \in Node, DFGNodeDoubleClicked(n) PROVE RequestsOld'
  <2> DEFINE mask == [NoMask EXCEPT !["pull_old"] = InPorts(TypeOf[n]),
                                    !["push_new"] = OutPorts(TypeOf[n])]
  <2>1. mask["pull_new"] = {}
    BY DEF NoMask, Reaction
  <2>2. required' = [required EXCEPT ![n] = mask]
    BY <1>6 DEF DFGNodeDoubleClicked, StartComponent
  <2> HIDE DEF mask
  <2> QED BY <1>0, <2>1, <2>2, RequestOld
<1>7. ASSUME NEW e \in Edits, EditGraph(e) PROVE RequestsOld'
  BY <1>0, <1>7, EditOld
<1>8. ASSUME NEW e \in Edits, Edit(e) PROVE RequestsOld'
  BY <1>7, <1>8 DEF Edit
<1>9. ASSUME NEW e \in Edits, EditHook(e) PROVE RequestsOld'
  <2>1. PICK in \in e.unlink :
          DFGNodeTriggered(in[1], WidgetMask(in[1], TriggerKind[TypeOf[in[1]]]))
    BY <1>9 DEF EditHook
  <2>2. in[1] \in Node
    BY EditType, PortsPaired
  <2> QED BY <1>4, <2>1, <2>2, TypeTriggers
<1>10. CASE EditGoesOn
  BY <1>0, <1>7, <1>10 DEF EditGoesOn, PendingOK
<1>11. CASE SchedulerStep
  BY <1>1, <1>11, ContinueStep, StepKeepsRequests DEF SchedulerStep
<1>12. CASE ProcessGoesOn
  <2>1. Top.cur \in Node
    BY <1>0, <1>12, StackFromTyped, TopType DEF Frame, ProcessGoesOn, In
  <2>2. \/ UNCHANGED vars
        \/ DFGNodeTriggered(Top.cur, WidgetMask(Top.cur, TriggerKind[TypeOf[Top.cur]]))
    BY <1>12 DEF ProcessGoesOn
  <2> QED BY <1>1, <1>4, <2>1, <2>2, TypeTriggers DEF vars
<1> QED BY <1>2, <1>3, <1>5, <1>6, <1>8, <1>9, <1>10, <1>11, <1>12 DEF SessionNext

LEMMA StutterNested ==
  ASSUME Responsive, Typed, Typed', NestInv, UNCHANGED vars
  PROVE  /\ Nested' => Top'.call = "component" /\ (required[Top.node] = TriggerMask(Top.node))'
         /\ Inner!CallInv' /\ Inner!ExecInv'
<1>1. UNCHANGED <<conns, required, negotiated, propagated, deps, marking, generation,
                  written, stack, ret, calls>>
  BY DEF vars
<1>2. UNCHANGED <<RequiredBar, MarkingBar, StackBar, CallsBar>>
  <2>1. \A n : Component(n)' = Component(n)
    BY <1>1 DEF Component, Neighbours
  <2>2. Nested' = Nested /\ Top' = Top
    BY <1>1 DEF Nested, Top
  <2> QED BY <1>1, <2>1, <2>2 DEF RequiredBar, MarkingBar, StackBar, CallsBar
<1>3. Inner!CallInv' /\ Inner!ExecInv'
  <2>1. UNCHANGED Inner!vars
    BY <1>1, <1>2 DEF Inner!vars
  <2> QED BY <2>1, NextNested DEF NestInv
<1>4. Nested' => Top'.call = "component" /\ (required[Top.node] = TriggerMask(Top.node))'
  BY <1>1 DEF NestInv, Nested, Top, TriggerMask, WidgetMask
<1> QED BY <1>3, <1>4

(* The process function triggers the node that it runs for.                *)
LEMMA TriggerNested ==
  ASSUME Responsive, GuardInv, Typed, Typed', MasksProper, NestInv,
         NEW n \in Node, DFGNodeTriggered(n, TriggerMask(n))
  PROVE  /\ Nested' => Top'.call = "component" /\ (required[Top.node] = TriggerMask(Top.node))'
         /\ Inner!CallInv' /\ Inner!ExecInv'
<1>1. /\ TriggerMask(n) \in Mask(n) /\ TriggerMask(n)["pull_new"] = {}
      /\ required' = [required EXCEPT ![n] = TriggerMask(n)]
      /\ UNCHANGED <<conns, generation>>
  BY WidgetMaskOld, TypeTriggers, TriggeredMask DEF NestInv, TriggerMask
<1>2. required'[n] = TriggerMask(n)'
  BY <1>1, TriggerRepeated DEF Typed
<1>3. CASE ~ Nested'
  BY <1>3, LeavesNested
<1>4. CASE Nested' /\ enabled /\ StartComponent(n, TriggerMask(n))
  <2>1. Len(stack) \in Nat /\ Len(stack') = Len(stack) + 1
    BY <1>4, StartCalls, SequenceLen DEF GuardInv
  <2>2. ~ Nested
    BY <1>4, <2>1 DEF Nested
  <2>3. Inner!Next /\ Top'.call = "component" /\ Top'.node = n
    BY <1>1, <1>4, <2>2, StartNested
  <2>4. Inner!CallInv' /\ Inner!ExecInv'
    BY <2>3, NextNested DEF NestInv
  <2> QED BY <1>2, <2>3, <2>4 DEF TriggerMask, WidgetMask
<1>5. CASE /\ Nested' /\ ~ enabled
           /\ UNCHANGED <<deps, negotiated, propagated, written, marking, stack>>
  <2>1. Nested /\ Top' = Top /\ Top.node \in Node
    BY <1>5, NestedTop DEF Nested, Top, Frame
  <2>2. \A m : Component(m)' = Component(m)
    BY <1>1 DEF Component, Neighbours
  <2>3. required'[Top.node] = required[Top.node]
    BY <1>1, <2>1 DEF NestInv, Typed
  <2>4. UNCHANGED <<RequiredBar, MarkingBar, StackBar, CallsBar>>
    BY <1>5, <2>1, <2>2, <2>3 DEF RequiredBar, MarkingBar, StackBar, CallsBar
  <2>5. UNCHANGED Inner!vars
    BY <1>1, <1>5, <2>4 DEF Inner!vars
  <2>6. Inner!CallInv' /\ Inner!ExecInv'
    BY <2>5, NextNested DEF NestInv
  <2>7. required'[Top.node] = WidgetMask(Top.node, TriggerKind[TypeOf[Top.node]])'
    BY <2>1, <2>3 DEF NestInv, TriggerMask, WidgetMask
  <2> QED BY <2>1, <2>6, <2>7 DEF NestInv, TriggerMask
<1>6. \/ enabled /\ StartComponent(n, TriggerMask(n))
      \/ ~ enabled /\ UNCHANGED <<deps, negotiated, propagated, written, marking, stack>>
  BY TriggeredMask
<1> QED BY <1>3, <1>4, <1>5, <1>6

LEMMA NestStep ==
  Responsive /\ Directed /\ GuardInv /\ FreshInv /\ NestInv /\ [SessionNext]_sessionVars
    => NestInv'
<1> SUFFICES ASSUME Responsive, Directed, GuardInv, FreshInv, NestInv, [SessionNext]_sessionVars
             PROVE  NestInv'
  OBVIOUS
<1>0. Typed /\ Typed' /\ PendingOK /\ MasksProper /\ GuardInv'
  BY FreshStep, GuardStep DEF FreshInv
<1>1. RequestsOld'
  BY OldStep DEF NestInv
<1> SUFFICES /\ Nested' => Top'.call = "component" /\ (required[Top.node] = TriggerMask(Top.node))'
             /\ Inner!CallInv' /\ Inner!ExecInv'
  BY <1>1 DEF NestInv
<1>2. CASE UNCHANGED vars
  BY <1>0, <1>2, StutterNested
<1>3. CASE ~ Nested'
  BY <1>0, <1>3, LeavesNested
<1>4. CASE ScheduleDFG
  <2>1. PICK f : stack' = <<f>>
    BY <1>4 DEF ScheduleDFG, ScheduleGraph
  <2>2. ~ Nested'
    BY <2>1 DEF Nested
  <2> QED BY <1>3, <2>2
<1>5. ASSUME Idle, NEW n, NEW mask, DFGNodeTriggered(n, mask)
      PROVE  ~ Nested'
  BY <1>5, FirstCallOnly DEF DFGNodeTriggered
<1>6. ASSUME NEW e, Idle, EditGraph(e)
      PROVE  ~ Nested'
  BY <1>6, FirstCallOnly DEF EditGraph
<1>7. CASE \/ \E e \in WidgetEvents : WidgetTrigger(e)
           \/ \E n \in Node : DFGNodeDoubleClicked(n)
           \/ \E e \in Edits : Edit(e) \/ EditHook(e)
           \/ EditGoesOn
  <2>1. ~ Nested'
    BY <1>5, <1>6, <1>7, FirstCallOnly
       DEF WidgetTrigger, DFGNodeDoubleClicked, Edit, EditHook, EditGoesOn, EditStart, EventLoop
  <2> QED BY <1>3, <2>1
<1>8. CASE SchedulerStep /\ Nested'
  <2>1. Continue
    BY <1>8 DEF SchedulerStep
  <2>2. /\ Len(stack) \in Nat /\ Len(stack) <= 2
        /\ Len(stack') = Len(stack) \/ Len(stack') = Len(stack) - 1
    BY <2>1, ContinueCalls, SequenceLen DEF GuardInv, CallersOK
  <2>3. Nested
    BY <1>8, <2>2 DEF Nested
  <2>4. Top.call = "component" /\ required[Top.node] = TriggerMask(Top.node)
    BY <2>3 DEF NestInv
  <2>5. Inner!Step
    BY <1>0, <1>8, <2>1, <2>3, <2>4, StepNested DEF NestInv
  <2>6. Inner!CallInv' /\ Inner!ExecInv'
    BY <1>0, <2>5, NextNested DEF NestInv, Inner!Next
  <2>7. Top'.call = Top.call /\ Top'.node = Top.node
    BY <1>0, <1>8, <2>3, <2>5, SameCallNested DEF NestInv
  <2>8. required' = required
    BY <2>1, ContinueStep, StepKeepsRequests
  <2>9. (required[Top.node] = TriggerMask(Top.node))'
    BY <2>4, <2>7, <2>8 DEF TriggerMask, WidgetMask
  <2> QED BY <2>4, <2>6, <2>7, <2>9
<1>9. CASE ProcessGoesOn
  <2>1. Top.cur \in Node
    BY <1>0, <1>9, StackFromTyped, TopType DEF Frame, ProcessGoesOn, In
  <2>2. UNCHANGED vars \/ DFGNodeTriggered(Top.cur, TriggerMask(Top.cur))
    BY <1>9 DEF ProcessGoesOn, TriggerMask
  <2> QED BY <1>0, <1>2, <2>1, <2>2, TriggerNested
<1> QED BY <1>2, <1>3, <1>4, <1>7, <1>8, <1>9 DEF SessionNext, sessionVars

(* What is right of the call inside is right of the call in DfgSession.    *)
LEMMA NestedFromBar ==
  ASSUME Typed, NestInv
  PROVE  NestedCorrect
<1> SUFFICES ASSUME Nested PROVE Converged /\ CountersExact /\ InputsReady /\ Once
  BY DEF NestedCorrect
<1> DEFINE C == Component(Top.node)
<1>1. Reached = C /\ Inner!Reached = C /\ C \subseteq Node
  BY NestedReached DEF NestInv, Reached, Component
<1>2. /\ Inner!Top = Top /\ StackBar # <<>> /\ stack # <<>>
      /\ Inner!Executing <=> Executing
      /\ Inner!In("call") <=> In("call")
      /\ Inner!In("run") <=> In("run")
      /\ Inner!In("notify") <=> In("notify")
  BY NestedTop DEF Inner!Executing, Executing
<1>3. \A n \in C : MarkingBar[n] = marking[n]
  BY <1>1 DEF MarkingBar
<1>4. /\ Inner!InputsReady /\ Inner!CountersExact /\ Inner!PendingListed /\ Inner!Listed
      /\ Inner!Once /\ Inner!WordsDirected
  BY BarTyped, InnerAssumptions, Inner!RightWhenRunning
     DEF NestInv, Inner!ExecutionRight, Inner!CallInv, Inner!ExecInv, Inner!RunInv,
         Inner!NegotiationInv
<1> HIDE DEF C
<1>5. Converged
  <2> SUFFICES ASSUME Executing, NEW n \in C PROVE propagated[n] = negotiated[n]
    BY <1>1 DEF Converged
  <2>1. Top.phase \notin {"converge", "eval"}
    BY DEF Executing
  <2> QED BY <1>1, <1>2, <1>4, <2>1 DEF Inner!PendingListed
<1>6. InputsReady
  <2> SUFFICES ASSUME In("call"), NEW i \in InMask(negotiated[Top.cur]),
                      Activated(<<Top.cur, i>>, negotiated, generation)
               PROVE  conns[<<Top.cur, i>>][1] \in written
    BY DEF InputsReady
  <2>1. i \in Inner!InMask(negotiated[Top.cur])
    BY SameMasks
  <2>2. Inner!Activated(<<Top.cur, i>>, negotiated, generation)
    BY SameActivated
  <2>3. Inner!In("call") /\ Inner!Top = Top /\ Inner!InputsReady
    BY <1>2, <1>4
  <2> QED BY <2>1, <2>2, <2>3 DEF Inner!InputsReady
<1>7. Once
  <2> SUFFICES ASSUME In("run") PROVE
        /\ \A k \in DOMAIN Top.list : deps[Top.list[k]] = 0 /\ marking[Top.list[k]] # "done"
        /\ \A k, l \in DOMAIN Top.list : k # l => Top.list[k] # Top.list[l]
    BY DEF Once
  <2>1. Inner!In("run") /\ Inner!Executing
    <3>1. Executing
      BY DEF In, Executing, Top
    <3> QED BY <1>2, <3>1
  <2>2. /\ \A k \in DOMAIN Top.list : deps[Top.list[k]] = 0 /\ MarkingBar[Top.list[k]] # "done"
        /\ \A k, l \in DOMAIN Top.list : k # l => Top.list[k] # Top.list[l]
    BY <1>2, <1>4, <2>1 DEF Inner!Once
  <2>3. \A k \in DOMAIN Top.list : Top.list[k] \in C
    <3>1. Inner!Range(Top.list) \subseteq C
      BY <1>1, <1>2, <1>4, <2>1 DEF Inner!Listed
    <3> QED BY <3>1 DEF Inner!Range
  <2> QED BY <1>3, <2>2, <2>3
<1>8. CountersExact
  <2> SUFFICES ASSUME Executing, NEW n \in C PROVE deps[n] = Cardinality(Outstanding(n))
    BY <1>1 DEF CountersExact
  <2>1. deps[n] = Inner!Cardinality(Inner!Outstanding(n))
    <3>1. Inner!Executing /\ n \in Inner!Reached /\ Inner!CountersExact
      BY <1>1, <1>2, <1>4
    <3> QED BY <3>1 DEF Inner!CountersExact
  <2>2. Inner!Outstanding(n) = Outstanding(n)
    <3>1. ASSUME NEW i \in InMask(negotiated[n]), Activated(<<n, i>>, negotiated, generation)
          PROVE  MarkingBar[conns[<<n, i>>][1][1]] = marking[conns[<<n, i>>][1][1]]
      <4>1. n \in Node /\ i \in PortIdx(TypeOf[n]) /\ <<n, i>> \in Port
        BY <1>1, MaskIndexes, PortIdxType DEF Typed
      <4>2. conns[<<n, i>>] # <<>>
        BY <3>1 DEF Activated, InActivated, OutActivated
      <4>3. 1 \in DOMAIN conns[<<n, i>>]
        <5>1. conns[<<n, i>>] \in Seq(Port)
          BY <4>1, ConnsTyped
        <5> QED BY <4>2, <5>1
      <4>4. conns[<<n, i>>][1][1] \in C
        BY <1>1, <1>2, <4>1, <4>3, BarTyped, SamePorts, InnerAssumptions, Inner!ReachedClosed
      <4> QED BY <1>3, <4>4
    <3>2. \A i : Inner!Activated(<<n, i>>, negotiated, generation)
                   <=> Activated(<<n, i>>, negotiated, generation)
      BY SameActivated
    <3>3. \A k, w : Inner!Peer(k, w) = Peer(k, w)
      BY SameWork
    <3>4. \A m : Inner!InMask(m) = InMask(m) /\ Inner!OutMask(m) = OutMask(m)
      BY SameMasks
    <3>5. ASSUME NEW i \in InMask(negotiated[n]), Activated(<<n, i>>, negotiated, generation)
          PROVE  i \in Inner!Outstanding(n) <=> i \in Outstanding(n)
      <4> DEFINE q == conns[<<n, i>>][1]
      <4>1. MarkingBar[q[1]] = marking[q[1]]
        BY <3>1, <3>5
      <4>2. i \in Outstanding(n) <=>
              \/ q[2] \notin OutMask(negotiated[q[1]])
              \/ marking[q[1]] # "done"
                   /\ ~ (In("notify") /\ Top.cur = q[1]
                            /\ \A w \in Top.work : Peer(q[1], w) # <<n, i>>)
        BY <3>5 DEF Outstanding
      <4>3. i \in Inner!InMask(negotiated[n]) /\ Inner!Activated(<<n, i>>, negotiated, generation)
        BY <3>2, <3>4, <3>5
      <4>4. i \in Inner!Outstanding(n) <=>
              \/ q[2] \notin Inner!OutMask(negotiated[q[1]])
              \/ MarkingBar[q[1]] # "done"
                   /\ ~ (Inner!In("notify") /\ Inner!Top.cur = q[1]
                            /\ \A w \in Inner!Top.work : Inner!Peer(q[1], w) # <<n, i>>)
        BY <4>3 DEF Inner!Outstanding
      <4> HIDE DEF q
      <4>5. (\A w \in Inner!Top.work : Inner!Peer(q[1], w) # <<n, i>>)
              <=> \A w \in Top.work : Peer(q[1], w) # <<n, i>>
        BY <1>2, <3>3
      <4> QED BY <1>2, <3>4, <4>1, <4>2, <4>4, <4>5
    <3>6. \A i : i \in Outstanding(n) =>
                 i \in InMask(negotiated[n]) /\ Activated(<<n, i>>, negotiated, generation)
      BY DEF Outstanding
    <3>7. \A i : i \in Inner!Outstanding(n) =>
                 i \in InMask(negotiated[n]) /\ Activated(<<n, i>>, negotiated, generation)
      BY <3>2, <3>4 DEF Inner!Outstanding
    <3>8. \A i : i \in Inner!Outstanding(n) <=> i \in Outstanding(n)
      BY <3>5, <3>6, <3>7
    <3> QED BY <3>8 DEF Inner!Outstanding, Outstanding
  <2> QED BY <2>1, <2>2, SameCounts
<1> QED BY <1>5, <1>6, <1>7, <1>8

(* The scheduler works when it is called by a process function that it     *)
(* runs itself: for node types that keep to both contracts, a call inside  *)
(* of another has exact counters and runs its nodes once and after their   *)
(* producers, although the call around it has left masks, counters and     *)
(* markings behind and the widget goes on to request while it runs         *)
(* (am_dfg_schedule_component, DFGQTProcessor::DFGNodeTriggered).          *)
THEOREM NestedRightCorrect == Responsive /\ Directed => (SessionSpec => []NestedRight)
<1> SUFFICES ASSUME Responsive, Directed PROVE SessionSpec => []NestedRight
  OBVIOUS
<1>1. SessionInit => NestInv
  <2> SUFFICES ASSUME SessionInit PROVE NestInv
    OBVIOUS
  <2>1. Init /\ Typed
    BY InitType, TypedFromType DEF SessionInit
  <2>2. RequestsOld
    BY <2>1 DEF Init, RequestsOld, NoMask, Reaction
  <2>3. ~ Nested
    BY <2>1 DEF Init, Nested
  <2> QED BY <2>1, <2>2, <2>3, NotNested DEF NestInv
<1>2. SessionInit => GuardInv
  BY EmptySequence DEF SessionInit, Init, GuardInv
<1>3. GuardInv /\ FreshInv /\ NestInv => NestedRight
  BY NestedFromBar DEF FreshInv, GuardInv, CallersOK, Guarded, NestedRight
<1> QED BY <1>1, <1>2, <1>3, FreshInit, GuardStep, FreshStep, NestStep, PTL DEF SessionSpec
=============================================================================
