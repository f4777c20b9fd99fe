---------------------------- MODULE DfgDataProof ----------------------------
(***************************************************************************)
(* The data of the data-flow graph: the graph of DfgGraph stays consistent *)
(* whatever is loaded, edited and fails; the buffers of DfgBuffer own the  *)
(* memory they refer to and hold what the process functions promise,       *)
(* wherever one fails; and the results of Calculations are right for       *)
(* machine integers of any size.                                           *)
(***************************************************************************)
EXTENDS DfgGraph, DfgBuffer, Calculations, NaturalFacts

-----------------------------------------------------------------------------
(* The inductive invariant of DfgGraph                                     *)

Opposite == (InPort \X OutPort) \cup (OutPort \X InPort)

GraphTypeOK ==
  /\ phase \in {"nodes", "connections", "running", "ended"}
  /\ place \in [Node -> {"none", "graph", "freed"}]
  /\ id \in [Node -> 0 .. IdMax]
  /\ conns \in [Port -> Seq(Port)]
  /\ refs \in Seq(Range(refs))
  /\ buffer \in [Port -> 0 .. Len(refs)]

(* What is left to load is the rest of a file.                             *)
FileOK ==
  /\ file \in File
  /\ \A k \in DOMAIN file.connections :
       file.connections[k][1][1] # file.connections[k][2][1]

(* Both ends know of a connection, once; an input has one at most.         *)
WiresRight ==
  /\ \A p, q \in Port : Linked(p, q) =>
       /\ Linked(q, p)
       /\ <<p, q>> \in Opposite
       /\ <<p, q>> \in Compatible \/ <<q, p>> \in Compatible
  /\ \A p \in Port : IsInjective(conns[p])
  /\ \A p \in InPort : Len(conns[p]) <= 1

(* Connections join different nodes, one of which is in the graph; the     *)
(* other may have been freed by the last change.                           *)
EndsRight ==
  \A l \in Links :
    /\ l[1][1] # l[2][1]
    /\ {place[l[1][1]], place[l[2][1]]} \in {{"graph"}, {"graph", "freed"}}

IdsRight == \A m, n \in Nodes : id[m] = id[n] => m = n

GraphInv ==
  /\ GraphTypeOK
  /\ FileOK
  /\ WiresRight
  /\ EndsRight
  /\ IdsRight
  /\ DataFromProducer

-----------------------------------------------------------------------------
LEMMA GraphPorts ==
  /\ Port = InPort \cup OutPort
  /\ InPort \cap OutPort = {}
  /\ \A p \in Port : p[1] \in Node
<1>1. \A t \in NodeType : \A i \in PortIdx(t) : PortDir[t][i] \in Dir
  BY TypesAssumption, ElementOfSeq, LenProperties DEF PortIdx
<1>2. \A n \in Node : TypeOf[n] \in NodeType
  BY TypesAssumption
<1>3. \A t \in NodeType : PortIdx(t) = InPorts(t) \cup OutPorts(t)
  BY <1>1 DEF InPorts, OutPorts, Dir
<1>4. \A t : InPorts(t) \cap OutPorts(t) = {}
  BY DEF InPorts, OutPorts
<1>5. Port = InPort \cup OutPort
  BY <1>2, <1>3 DEF Port, InPort, OutPort
<1>6. InPort \cap OutPort = {}
  BY <1>4 DEF InPort, OutPort
<1>7. \A p \in Port : p[1] \in Node
  BY DEF Port
<1> QED BY <1>5, <1>6, <1>7

(* Both ends of the connections that are cut forget them, nothing else     *)
(* changes.                                                                *)
LEMMA UnlinkedFacts ==
  ASSUME conns \in [Port -> Seq(Port)], NEW cut
  PROVE  /\ Unlinked(cut) \in [Port -> Seq(Port)]
         /\ \A p, q \in Port : q \in Range(Unlinked(cut)[p])
                                 <=> Linked(p, q) /\ <<p, q>> \notin cut /\ <<q, p>> \notin cut
         /\ \A p \in Port : /\ Len(Unlinked(cut)[p]) <= Len(conns[p])
                            /\ Len(Unlinked(cut)[p]) \in Nat /\ Len(conns[p]) \in Nat
         /\ \A p \in Port : IsInjective(conns[p]) => IsInjective(Unlinked(cut)[p])
<1> DEFINE Gone(p) == {q \in Port : <<p, q>> \in cut \/ <<q, p>> \in cut}
           c == Unlinked(cut)
<1>1. c = [p \in Port |-> Remaining(conns[p], Gone(p))]
  BY DEF Unlinked
<1>2. ASSUME NEW p \in Port
      PROVE  /\ c[p] \in Seq(Port)
             /\ Range(c[p]) = Range(conns[p]) \ Gone(p)
             /\ Len(c[p]) <= Len(conns[p])
             /\ Len(c[p]) \in Nat /\ Len(conns[p]) \in Nat
             /\ IsInjective(conns[p]) => IsInjective(c[p])
  <2> HIDE DEF Gone, c
  <2>1. c[p] = Remaining(conns[p], Gone(p)) /\ conns[p] \in Seq(Port)
    BY <1>1
  <2> QED BY <2>1, RemainingProperties, LenProperties
<1>3. c \in [Port -> Seq(Port)]
  <2> HIDE DEF Gone, c
  <2> QED BY <1>1, <1>2
<1>4. ASSUME NEW p \in Port, NEW q \in Port
      PROVE  q \in Range(c[p]) <=> Linked(p, q) /\ <<p, q>> \notin cut /\ <<q, p>> \notin cut
  <2>1. Range(c[p]) = Range(conns[p]) \ Gone(p)
    BY <1>2
  <2> HIDE DEF c
  <2> QED BY <2>1 DEF Linked
<1> HIDE DEF c
<1> QED BY <1>2, <1>3, <1>4 DEF c

LEMMA FunctionIsSequence ==
  ASSUME NEW n \in Nat, NEW f, f = [k \in 1 .. n |-> f[k]]
  PROVE  f \in Seq(Range(f)) /\ Len(f) = n /\ DOMAIN f = 1 .. n
<1>1. DOMAIN f = 1 .. n
  OBVIOUS
<1>2. f \in [1 .. n -> Range(f)]
  BY <1>1 DEF Range
<1>3. f \in Seq(Range(f))
  BY <1>2, SeqDef
<1> QED BY <1>1, <1>3, LenProperties

LEMMA ReleasedFacts ==
  ASSUME refs \in Seq(Range(refs)), NEW cut
  PROVE  /\ Released(cut) \in Seq(Range(Released(cut)))
         /\ Len(Released(cut)) = Len(refs) /\ Len(refs) \in Nat
         /\ DOMAIN Released(cut) = 1 .. Len(refs)
<1>1. Len(refs) \in Nat /\ DOMAIN refs = 1 .. Len(refs)
  BY LenProperties
<1>2. Released(cut) = [b \in 1 .. Len(refs) |-> Released(cut)[b]]
  BY <1>1 DEF Released
<1> QED BY <1>1, <1>2, FunctionIsSequence

(* A list with a new element at its end                                    *)
LEMMA Appended ==
  ASSUME NEW S, NEW s \in Seq(S), NEW e \in S
  PROVE  /\ Append(s, e) \in Seq(S)
         /\ Range(Append(s, e)) = Range(s) \cup {e}
         /\ IsInjective(s) /\ e \notin Range(s) => IsInjective(Append(s, e))
         /\ Len(Append(s, e)) = Len(s) + 1
<1> DEFINE t == Append(s, e)
           n == Len(s)
<1>1. /\ t \in Seq(S) /\ Len(t) = n + 1 /\ n \in Nat
      /\ DOMAIN t = 1 .. n + 1 /\ DOMAIN s = 1 .. n
      /\ \A k \in 1 .. n : t[k] = s[k]
      /\ t[n + 1] = e
  BY AppendProperties, LenProperties
<1>2. Range(t) = Range(s) \cup {e}
  <2> HIDE DEF t, n
  <2>1. ASSUME NEW x \in Range(t) PROVE x \in Range(s) \cup {e}
    <3>1. PICK k \in 1 .. n + 1 : t[k] = x
      BY <1>1 DEF Range
    <3>2. CASE k = n + 1
      BY <3>1, <3>2, <1>1
    <3>3. CASE k \in 1 .. n
      BY <3>1, <3>3, <1>1 DEF Range
    <3> QED BY <3>2, <3>3, <1>1
  <2>2. Range(s) \subseteq Range(t)
    <3>1. \A k \in 1 .. n : k \in 1 .. n + 1
      BY <1>1
    <3> QED BY <3>1, <1>1 DEF Range
  <2>3. e \in Range(t)
    <3>1. n + 1 \in 1 .. n + 1
      BY <1>1
    <3> QED BY <3>1, <1>1 DEF Range
  <2> QED BY <2>1, <2>2, <2>3
<1>3. ASSUME IsInjective(s), e \notin Range(s) PROVE IsInjective(t)
  <2> HIDE DEF t, n
  <2>1. \A k \in 1 .. n : s[k] # e
    BY <1>1, <1>3 DEF Range
  <2>2. \A j, k \in 1 .. n : s[j] = s[k] => j = k
    BY <1>1, <1>3 DEF IsInjective
  <2>3. \A j, k \in 1 .. n + 1 : t[j] = t[k] => j = k
    BY <2>1, <2>2, <1>1
  <2> QED BY <2>3, <1>1 DEF IsInjective
<1> QED BY <1>1, <1>2, <1>3

(* What removing connections leaves                                        *)
LEMMA Cutting ==
  ASSUME GraphInv, NEW cut, conns' = Unlinked(cut), buffer' = buffer
  PROVE  /\ conns' \in [Port -> Seq(Port)]
         /\ WiresRight'
         /\ Links' \subseteq Links
         /\ DataFromProducer'
<1>0. /\ conns \in [Port -> Seq(Port)]
      /\ WiresRight /\ DataFromProducer
  BY DEF GraphInv, GraphTypeOK
<1>1. /\ conns' \in [Port -> Seq(Port)]
      /\ \A p, q \in Port : q \in Range(conns'[p])
                              <=> Linked(p, q) /\ <<p, q>> \notin cut /\ <<q, p>> \notin cut
      /\ \A p \in Port : /\ Len(conns'[p]) <= Len(conns[p])
                         /\ Len(conns'[p]) \in Nat /\ Len(conns[p]) \in Nat
      /\ \A p \in Port : IsInjective(conns[p]) => IsInjective(conns'[p])
  BY <1>0, UnlinkedFacts
<1>2. \A p, q \in Port : Linked(p, q)'
                           <=> Linked(p, q) /\ <<p, q>> \notin cut /\ <<q, p>> \notin cut
  BY <1>1 DEF Linked
<1>3. WiresRight'
  <2>1. \A p, q \in Port : Linked(p, q)' =>
          /\ Linked(q, p)'
          /\ <<p, q>> \in Opposite
          /\ <<p, q>> \in Compatible \/ <<q, p>> \in Compatible
    BY <1>0, <1>2 DEF WiresRight
  <2>2. \A p \in Port : IsInjective(conns'[p])
    BY <1>0, <1>1 DEF WiresRight
  <2>3. \A p \in InPort : Len(conns'[p]) <= 1
    BY <1>0, <1>1, GraphPorts DEF WiresRight
  <2> QED BY <2>1, <2>2, <2>3 DEF WiresRight
<1>4. Links' \subseteq Links
  BY <1>2, GraphPorts DEF Links
<1>5. DataFromProducer'
  BY <1>0, <1>4 DEF DataFromProducer
<1> QED BY <1>1, <1>3, <1>4, <1>5

(* The types of the variables that a connection changes, and what ties     *)
(* connections to nodes, compatible types and buffers                      *)
Wired ==
  /\ conns \in [Port -> Seq(Port)]
  /\ refs \in Seq(Range(refs))
  /\ buffer \in [Port -> 0 .. Len(refs)]
  /\ WiresRight
  /\ EndsRight
  /\ DataFromProducer

(* The lists of a new connection: the input had none, and the output did   *)
(* not know of the input.                                                  *)
LEMMA Joining ==
  ASSUME GraphInv, NEW out \in OutPort, NEW in \in InPort, NEW cut,
         MayConnect(out, in),
         conns' = [Unlinked(cut) EXCEPT ![out] = Append(@, in), ![in] = Append(@, out)]
  PROVE  /\ conns' \in [Port -> Seq(Port)]
         /\ WiresRight'
         /\ Links' \subseteq Links \cup {<<out, in>>}
         /\ \A l \in Links : l[2] # in
<1> DEFINE U == Unlinked(cut)
<1>0. /\ conns \in [Port -> Seq(Port)]
      /\ WiresRight
      /\ <<out, in>> \in Compatible /\ conns[in] = <<>>
      /\ out \in Port /\ in \in Port /\ out # in /\ out \notin InPort
  BY GraphPorts DEF GraphInv, GraphTypeOK, MayConnect
<1>1. /\ U \in [Port -> Seq(Port)]
      /\ \A p, q \in Port : q \in Range(U[p])
                              <=> Linked(p, q) /\ <<p, q>> \notin cut /\ <<q, p>> \notin cut
      /\ \A p \in Port : /\ Len(U[p]) <= Len(conns[p])
                         /\ Len(U[p]) \in Nat /\ Len(conns[p]) \in Nat
      /\ \A p \in Port : IsInjective(conns[p]) => IsInjective(U[p])
  BY <1>0, UnlinkedFacts
<1> HIDE DEF U
<1>2. /\ conns' = [p \in Port |-> IF p = in THEN Append(U[in], out)
                                  ELSE IF p = out THEN Append(U[out], in) ELSE U[p]]
  BY <1>0, <1>1 DEF U
<1>3. \A p \in Port : ~ Linked(in, p) /\ ~ Linked(p, in)
  <2>1. Range(<<>>) = {}
    BY DEF Range
  <2>2. \A p \in Port : ~ Linked(in, p)
    BY <1>0, <2>1 DEF Linked
  <2> QED BY <1>0, <2>2 DEF WiresRight
<1>4. in \notin Range(U[out]) /\ out \notin Range(U[in]) /\ Len(U[in]) = 0
  <2>1. Len(conns[in]) = 0
    BY <1>0
  <2>2. Len(U[in]) <= Len(conns[in]) /\ Len(U[in]) \in Nat
    BY <1>0, <1>1
  <2>3. in \notin Range(U[out])
    BY <1>0, <1>1, <1>3
  <2>4. out \notin Range(U[in])
    BY <1>0, <1>1, <1>3
  <2>5. Len(U[in]) = 0
    BY <2>1, <2>2
  <2> QED BY <2>3, <2>4, <2>5
<1>5. /\ Append(U[in], out) \in Seq(Port) /\ Append(U[out], in) \in Seq(Port)
      /\ Range(Append(U[in], out)) = Range(U[in]) \cup {out}
      /\ Range(Append(U[out], in)) = Range(U[out]) \cup {in}
      /\ IsInjective(U[in]) => IsInjective(Append(U[in], out))
      /\ IsInjective(U[out]) => IsInjective(Append(U[out], in))
      /\ Len(Append(U[in], out)) = 1
  <2>1. U[in] \in Seq(Port) /\ U[out] \in Seq(Port)
    BY <1>0, <1>1
  <2> QED BY <2>1, <1>0, <1>4, Appended
<1>6. conns' \in [Port -> Seq(Port)]
  BY <1>1, <1>2, <1>5
<1>7. ASSUME NEW p \in Port, NEW q \in Port
      PROVE  Linked(p, q)' <=> \/ Linked(p, q) /\ <<p, q>> \notin cut /\ <<q, p>> \notin cut
                               \/ p = out /\ q = in
                               \/ p = in /\ q = out
  <2>1. Linked(p, q)' <=> q \in Range(conns'[p])
    BY DEF Linked
  <2>2. CASE p = in
    <3>1. conns'[p] = Append(U[in], out)
      BY <1>2, <2>2
    <3> QED BY <1>0, <1>1, <1>5, <2>1, <2>2, <3>1
  <2>3. CASE p = out
    <3>1. conns'[p] = Append(U[out], in)
      BY <1>0, <1>2, <2>3
    <3> QED BY <1>0, <1>1, <1>5, <2>1, <2>3, <3>1
  <2>4. CASE p # in /\ p # out
    <3>1. conns'[p] = U[p]
      BY <1>2, <2>4
    <3> QED BY <1>1, <2>1, <2>4, <3>1
  <2> QED BY <2>2, <2>3, <2>4
<1>8. WiresRight'
  <2>1. ASSUME NEW p \in Port, NEW q \in Port, Linked(p, q)'
        PROVE  /\ Linked(q, p)'
               /\ <<p, q>> \in Opposite
               /\ <<p, q>> \in Compatible \/ <<q, p>> \in Compatible
    <3>1. CASE Linked(p, q) /\ <<p, q>> \notin cut /\ <<q, p>> \notin cut
      BY <1>0, <1>7, <3>1 DEF WiresRight
    <3>2. CASE p = out /\ q = in
      BY <1>0, <1>7, <3>2 DEF Opposite
    <3>3. CASE p = in /\ q = out
      BY <1>0, <1>7, <3>3 DEF Opposite
    <3> QED BY <1>7, <2>1, <3>1, <3>2, <3>3
  <2>2. ASSUME NEW p \in Port PROVE IsInjective(conns'[p])
    <3>1. /\ IsInjective(U[p])
          /\ IsInjective(U[in]) /\ IsInjective(U[out])
      BY <1>0, <1>1 DEF WiresRight
    <3>2. conns'[p] \in {U[p], Append(U[in], out), Append(U[out], in)}
      BY <1>2
    <3> QED BY <1>5, <3>1, <3>2
  <2>3. ASSUME NEW p \in InPort PROVE Len(conns'[p]) <= 1
    <3>1. p \in Port /\ p # out
      BY <1>0, GraphPorts
    <3>2. CASE p = in
      <4>1. conns'[p] = Append(U[in], out)
        BY <1>2, <3>1, <3>2
      <4> QED BY <4>1, <1>5
    <3>3. CASE p # in
      <4>1. conns'[p] = U[p]
        BY <1>2, <3>1, <3>3
      <4>2. Len(conns[p]) <= 1
        BY <1>0 DEF WiresRight
      <4> QED BY <4>1, <4>2, <1>1, <3>1
    <3> QED BY <3>2, <3>3
  <2> QED BY <2>1, <2>2, <2>3 DEF WiresRight
<1>9. Links' \subseteq Links \cup {<<out, in>>}
  <2>1. ASSUME NEW l \in Links' PROVE l \in Links \cup {<<out, in>>}
    <3>1. /\ l \in OutPort \X InPort /\ l[1] \in Port /\ l[2] \in Port
          /\ l[1] \in OutPort /\ l[1] \notin InPort /\ l = <<l[1], l[2]>>
          /\ Linked(l[1], l[2])'
      BY GraphPorts DEF Links
    <3>2. Linked(l[1], l[2]) \/ (l[1] = out /\ l[2] = in)
      BY <1>7, <3>1
    <3> QED BY <3>1, <3>2 DEF Links
  <2> QED BY <2>1
<1>10. \A l \in Links : l[2] # in
  <2>1. \A l \in Links : l[1] \in Port /\ Linked(l[1], l[2])
    BY GraphPorts DEF Links
  <2> QED BY <2>1, <1>3
<1> QED BY <1>6, <1>8, <1>9, <1>10

LEMMA Recounted ==
  ASSUME refs \in Seq(Range(refs)), NEW cut, NEW b, NEW v
  PROVE  /\ [Released(cut) EXCEPT ![b] = v] \in Seq(Range([Released(cut) EXCEPT ![b] = v]))
         /\ Len([Released(cut) EXCEPT ![b] = v]) = Len(refs)
<1> DEFINE r == Released(cut)
           f == [r EXCEPT ![b] = v]
<1>1. DOMAIN r = 1 .. Len(refs) /\ Len(refs) \in Nat
  BY ReleasedFacts
<1>2. f = [k \in 1 .. Len(refs) |-> f[k]]
  <2> HIDE DEF r
  <2>1. f = [k \in 1 .. Len(refs) |-> IF k = b THEN v ELSE r[k]]
    BY <1>1
  <2> QED BY <2>1
<1>3. f \in Seq(Range(f)) /\ Len(f) = Len(refs)
  <2> HIDE DEF f
  <2> QED BY <1>1, <1>2, FunctionIsSequence
<1> QED BY <1>3

(* A connection that is made keeps the graph well-formed.                  *)
LEMMA Connecting ==
  ASSUME GraphInv, NEW out \in OutPort, NEW in \in InPort, NEW cut,
         MayConnect(out, in), out[1] # in[1], InGraph(out[1]), InGraph(in[1]),
         ConnectOk(out, in, cut), place' = place
  PROVE  Wired'
<1>0. /\ buffer \in [Port -> 0 .. Len(refs)]
      /\ refs \in Seq(Range(refs)) /\ Len(refs) \in Nat
      /\ DataFromProducer /\ EndsRight
      /\ out \in Port /\ in \in Port /\ in \notin OutPort
      /\ \A p \in OutPort : p \in Port /\ p \notin InPort
  BY GraphPorts, LenProperties DEF GraphInv, GraphTypeOK
<1>1. /\ conns' \in [Port -> Seq(Port)]
      /\ WiresRight'
      /\ Links' \subseteq Links \cup {<<out, in>>}
      /\ \A l \in Links : l[2] # in
  BY Joining DEF ConnectOk
<1>2. EndsRight'
  <2>1. ASSUME NEW l \in Links'
        PROVE  /\ l[1][1] # l[2][1]
               /\ {place[l[1][1]], place[l[2][1]]} \in {{"graph"}, {"graph", "freed"}}
    <3>1. CASE l \in Links
      BY <1>0, <3>1 DEF EndsRight
    <3>2. CASE l = <<out, in>>
      BY <3>2 DEF InGraph
    <3> QED BY <1>1, <2>1, <3>1, <3>2
  <2> QED BY <2>1 DEF EndsRight
<1> DEFINE b == IF buffer[out] = 0 THEN Len(refs) + 1 ELSE buffer[out]
<1>3. /\ buffer' = [buffer EXCEPT ![out] = b, ![in] = b]
      /\ b \in Nat \ {0}
      /\ buffer[out] = 0 => b = Len(refs) + 1
      /\ buffer[out] # 0 => b = buffer[out]
  BY <1>0 DEF ConnectOk, AssignBuffer
<1> HIDE DEF b
<1>4. /\ buffer'[in] = b /\ buffer'[out] = b
      /\ \A p \in Port : p # in /\ p # out => buffer'[p] = buffer[p]
  BY <1>0, <1>3
<1>5. /\ refs' \in Seq(Range(refs'))
      /\ Len(refs') = IF buffer[out] = 0 THEN Len(refs) + 1 ELSE Len(refs)
  <2>1. CASE buffer[out] = 0
    <3>1. refs' = Append(Released(cut), 0)
      BY <2>1 DEF ConnectOk
    <3>2. /\ Released(cut) \in Seq(Range(Released(cut)))
          /\ Len(Released(cut)) = Len(refs)
      BY <1>0, ReleasedFacts
    <3> DEFINE T == Range(Released(cut)) \cup {0}
    <3>3. Released(cut) \in Seq(T)
      <4> DEFINE s == Released(cut)
      <4>1. \A k \in 1 .. Len(s) : s[k] \in T
        BY <3>2, ElementOfSeq
      <4>2. s = [k \in 1 .. Len(s) |-> s[k]]
        BY <3>2, LenProperties
      <4>3. s \in [1 .. Len(s) -> T]
        <5> HIDE DEF s, T
        <5> QED BY <4>1, <4>2
      <4>4. Len(s) \in Nat
        BY <1>0, <3>2
      <4> HIDE DEF s, T
      <4> QED BY <4>3, <4>4, SeqDef DEF s
    <3>4. refs' \in Seq(T) /\ Len(refs') = Len(refs) + 1
      <4> HIDE DEF T
      <4>1. 0 \in T
        BY DEF T
      <4> QED BY <3>1, <3>2, <3>3, <4>1, AppendProperties
    <3>5. refs' = [k \in 1 .. Len(refs') |-> refs'[k]]
      <4> HIDE DEF T
      <4> QED BY <3>4, LenProperties
    <3>6. refs' \in Seq(Range(refs'))
      <4>1. Len(refs') \in Nat
        BY <1>0, <3>4
      <4> QED BY <3>5, <4>1, FunctionIsSequence
    <3> QED BY <2>1, <3>4, <3>6
  <2>2. CASE buffer[out] # 0
    <3>1. refs' = [Released(cut) EXCEPT ![buffer[out]] = Released(cut)[buffer[out]] + 1]
      BY <2>2 DEF ConnectOk
    <3> QED BY <1>0, <2>2, <3>1, Recounted
  <2> QED BY <2>1, <2>2
<1>6. buffer' \in [Port -> 0 .. Len(refs')]
  <2>1. buffer' \in [Port -> Nat]
    BY <1>0, <1>3
  <2>2. ASSUME NEW p \in Port PROVE buffer'[p] \in 0 .. Len(refs')
    <3>1. buffer[p] \in 0 .. Len(refs) /\ buffer[out] \in 0 .. Len(refs)
      BY <1>0
    <3>2. b \in 0 .. Len(refs')
      BY <1>0, <1>3, <1>5, <3>1
    <3>3. buffer'[p] \in {b, buffer[p]}
      BY <1>4
    <3> QED BY <1>0, <1>5, <3>1, <3>2, <3>3
  <2> QED BY <2>1, <2>2
<1>7. DataFromProducer'
  <2>1. ASSUME NEW l \in Links'
        PROVE  buffer'[l[1]] # 0 /\ buffer'[l[1]] = buffer'[l[2]]
    <3>1. CASE l = <<out, in>>
      BY <1>3, <1>4, <3>1
    <3>2. CASE l \in Links
      <4>1. /\ l[1] \in OutPort /\ l[1] \in Port /\ l[2] \in Port
            /\ l[2] # in /\ l[2] # out /\ l[1] # in
        BY <1>0, <1>1, <3>2, GraphPorts DEF Links
      <4>2. buffer[l[1]] # 0 /\ buffer[l[1]] = buffer[l[2]]
        BY <1>0, <3>2 DEF DataFromProducer
      <4>3. buffer'[l[2]] = buffer[l[2]]
        BY <1>4, <4>1
      <4>4. buffer'[l[1]] = buffer[l[1]]
        BY <1>3, <1>4, <4>1, <4>2
      <4> QED BY <4>2, <4>3, <4>4
    <3> QED BY <1>1, <2>1, <3>1, <3>2
  <2>2. ASSUME NEW p \in OutPort, NEW q \in OutPort, p # q, buffer'[p] # 0
        PROVE  buffer'[p] # buffer'[q]
    <3>1. /\ buffer[p] # 0 => buffer[p] # buffer[q]
          /\ buffer[q] # 0 => buffer[q] # buffer[p]
          /\ buffer[p] \in 0 .. Len(refs) /\ buffer[q] \in 0 .. Len(refs)
          /\ p # in /\ q # in /\ p \in Port /\ q \in Port
      BY <1>0, <2>2 DEF DataFromProducer
    <3>2. CASE p = out
      <4>1. buffer'[p] = b /\ buffer'[q] = buffer[q]
        BY <1>4, <2>2, <3>1, <3>2
      <4> QED BY <1>0, <1>3, <3>1, <3>2, <4>1
    <3>3. CASE q = out
      <4>1. buffer'[q] = b /\ buffer'[p] = buffer[p]
        BY <1>4, <2>2, <3>1, <3>3
      <4> QED BY <1>0, <1>3, <2>2, <3>1, <3>3, <4>1
    <3>4. CASE p # out /\ q # out
      BY <1>4, <2>2, <3>1, <3>4
    <3> QED BY <3>2, <3>3, <3>4
  <2> QED BY <2>1, <2>2 DEF DataFromProducer
<1> QED BY <1>0, <1>1, <1>2, <1>5, <1>6, <1>7 DEF Wired

(* So does one that fails, whatever is given up on the way.                *)
LEMMA Disconnecting ==
  ASSUME GraphInv, NEW cut, conns' = Unlinked(cut), buffer' = buffer, place' = place,
         \/ refs' = Released(cut)
         \/ \E b, v : refs' = [Released(cut) EXCEPT ![b] = v]
  PROVE  Wired'
<1>0. /\ buffer \in [Port -> 0 .. Len(refs)]
      /\ refs \in Seq(Range(refs)) /\ EndsRight
  BY DEF GraphInv, GraphTypeOK
<1>1. /\ conns' \in [Port -> Seq(Port)]
      /\ WiresRight'
      /\ Links' \subseteq Links
      /\ DataFromProducer'
  BY Cutting
<1>2. refs' \in Seq(Range(refs')) /\ Len(refs') = Len(refs)
  <2>1. CASE refs' = Released(cut)
    BY <1>0, <2>1, ReleasedFacts
  <2>2. ASSUME NEW b, NEW v, refs' = [Released(cut) EXCEPT ![b] = v]
        PROVE  refs' \in Seq(Range(refs')) /\ Len(refs') = Len(refs)
    BY <1>0, <2>2, Recounted
  <2> QED BY <2>1, <2>2
<1>3. buffer' \in [Port -> 0 .. Len(refs')]
  BY <1>0, <1>2
<1>4. EndsRight'
  BY <1>0, <1>1 DEF EndsRight
<1> QED BY <1>1, <1>2, <1>3, <1>4 DEF Wired

LEMMA Connects ==
  ASSUME GraphInv, NEW out \in OutPort, NEW in \in InPort, NEW cut,
         MayConnect(out, in), out[1] # in[1], InGraph(out[1]), InGraph(in[1]),
         Connectp(out, in, cut), place' = place
  PROVE  Wired'
<1>1. CASE ConnectOk(out, in, cut)
  BY <1>1, Connecting
<1>2. CASE ConnectFails(out, in, cut)
  <2>1. conns' = Unlinked(cut) /\ buffer' = buffer
    BY <1>2 DEF ConnectFails
  <2>2. \/ refs' = Released(cut)
        \/ refs' = [Released(cut) EXCEPT ![buffer[out]] = Released(cut)[buffer[out]] - 1]
    BY <1>2 DEF ConnectFails
  <2>3. \/ refs' = Released(cut)
        \/ \E b, v : refs' = [Released(cut) EXCEPT ![b] = v]
    BY <2>2
  <2> QED BY <2>1, <2>3, Disconnecting
<1> QED BY <1>1, <1>2 DEF Connectp

-----------------------------------------------------------------------------
(* The steps                                                               *)

(* There is a highest id, however many nodes there are.                    *)
LEMMA HighestFacts ==
  ASSUME GraphTypeOK
  PROVE  HighestId \in 0 .. IdMax
<1>0. /\ IdMax \in Nat /\ \A n \in Node : id[n] \in 0 .. IdMax
      /\ Nodes \subseteq Node
  BY GraphAssumption DEF GraphTypeOK, Nodes
<1> DEFINE Highest(i) == /\ i = 0 \/ \E n \in Nodes : id[n] = i
                         /\ \A n \in Nodes : id[n] <= i
<1>1. \E i \in 0 .. IdMax : Highest(i)
  <2>1. CASE Nodes = {}
    BY <1>0, <2>1
  <2>2. CASE Nodes # {}
    <3> DEFINE T == {IdMax - id[n] : n \in Nodes}
    <3>1. T \in SUBSET Nat /\ T # {}
      BY <1>0, <2>2
    <3>2. PICK m \in T : \A k \in T : m <= k
      <4> HIDE DEF T
      <4> QED BY <3>1, LeastNumber
    <3>3. PICK n \in Nodes : m = IdMax - id[n]
      BY <3>2
    <3>4. \A k \in Nodes : id[k] <= id[n]
      BY <1>0, <3>2, <3>3
    <3> QED BY <1>0, <3>4
  <2> QED BY <2>1, <2>2
<1>2. HighestId = CHOOSE i \in 0 .. IdMax : Highest(i)
  BY DEF HighestId
<1> HIDE DEF Highest
<1> QED BY <1>1, <1>2

(* What is left of the list of connections after the first                 *)
LEMMA RestOfFile ==
  ASSUME FileOK, file.connections # <<>>,
         file' = [file EXCEPT !.connections = Tail(@)]
  PROVE  FileOK'
<1> DEFINE s == file.connections
           E == FilePort \X FilePort
<1>1. s \in Seq(E) /\ s # <<>> /\ \A k \in DOMAIN s : s[k][1][1] # s[k][2][1]
  BY DEF FileOK, File
<1>2. file' \in File /\ file'.connections = Tail(s)
  <2>1. Tail(s) \in Seq(E)
    <3> HIDE DEF s, E
    <3> QED BY <1>1, HeadTailProperties
  <2> QED BY <2>1 DEF FileOK, File
<1>3. ASSUME NEW k \in DOMAIN Tail(s)
      PROVE  Tail(s)[k][1][1] # Tail(s)[k][2][1]
  <2> HIDE DEF s, E
  <2>1. /\ Tail(s) \in Seq(E) /\ Len(Tail(s)) = Len(s) - 1
        /\ \A j \in 1 .. Len(Tail(s)) : Tail(s)[j] = s[j + 1]
    BY <1>1, HeadTailProperties
  <2>2. k \in 1 .. Len(Tail(s)) /\ Len(s) \in Nat /\ DOMAIN s = 1 .. Len(s)
    BY <1>1, <1>3, <2>1, LenProperties
  <2>3. Tail(s)[k] = s[k + 1] /\ k + 1 \in DOMAIN s
    BY <2>1, <2>2
  <2> QED BY <1>1, <2>3
<1> QED BY <1>2, <1>3 DEF FileOK

LEMMA RestOfNodes ==
  ASSUME FileOK, file.nodes # <<>>, file' = [file EXCEPT !.nodes = Tail(@)]
  PROVE  FileOK' /\ Head(file.nodes) \in [node : Node, id : 1 .. IdMax]
<1> DEFINE s == file.nodes
           E == [node : Node, id : 1 .. IdMax]
<1>1. s \in Seq(E) /\ s # <<>>
  BY DEF FileOK, File
<1>2. Tail(s) \in Seq(E) /\ Head(s) \in E
  <2> HIDE DEF s, E
  <2> QED BY <1>1, HeadTailProperties
<1>3. file' \in File /\ file'.connections = file.connections
  BY <1>2 DEF FileOK, File
<1> QED BY <1>2, <1>3 DEF FileOK

(* Nothing that is connected changes.                                      *)
LEMMA SameWires ==
  ASSUME GraphInv, conns' = conns, buffer' = buffer, refs' = refs
  PROVE  /\ conns' \in [Port -> Seq(Port)]
         /\ refs' \in Seq(Range(refs'))
         /\ buffer' \in [Port -> 0 .. Len(refs')]
         /\ Links' = Links
         /\ WiresRight'
         /\ DataFromProducer'
<1>1. /\ conns \in [Port -> Seq(Port)]
      /\ refs \in Seq(Range(refs))
      /\ buffer \in [Port -> 0 .. Len(refs)]
      /\ WiresRight
      /\ DataFromProducer
  BY DEF GraphInv, GraphTypeOK
<1>2. \A p, q \in Port : Linked(p, q)' <=> Linked(p, q)
  BY DEF Linked
<1>3. Links' = Links
  BY <1>2, GraphPorts DEF Links
<1>4. WiresRight'
  BY <1>1, <1>2 DEF WiresRight
<1>5. DataFromProducer'
  BY <1>1, <1>3 DEF DataFromProducer
<1> QED BY <1>1, <1>3, <1>4, <1>5

(* A node with an id of its own enters the graph.                          *)
LEMMA Adding ==
  ASSUME GraphInv, NEW n \in Node, NEW i \in 0 .. IdMax, MayAdd(i), AddNode(n, i),
         UNCHANGED portVars, phase' = phase, FileOK'
  PROVE  GraphInv'
<1>0. /\ place \in [Node -> {"none", "graph", "freed"}]
      /\ id \in [Node -> 0 .. IdMax]
      /\ EndsRight /\ IdsRight
  BY DEF GraphInv, GraphTypeOK
<1>1. /\ place' = [place EXCEPT ![n] = "graph"]
      /\ id' = [id EXCEPT ![n] = i]
  BY DEF AddNode
<1>2. /\ conns' \in [Port -> Seq(Port)]
      /\ refs' \in Seq(Range(refs'))
      /\ buffer' \in [Port -> 0 .. Len(refs')]
      /\ Links' = Links
      /\ WiresRight'
      /\ DataFromProducer'
  BY SameWires DEF portVars
<1>3. GraphTypeOK'
  BY <1>0, <1>1, <1>2 DEF GraphTypeOK, GraphInv
<1>4. EndsRight'
  <2>1. ASSUME NEW l \in Links
        PROVE  /\ l[1][1] # l[2][1]
               /\ {place'[l[1][1]], place'[l[2][1]]} \in {{"graph"}, {"graph", "freed"}}
    <3>1. /\ l[1][1] # l[2][1]
          /\ {place[l[1][1]], place[l[2][1]]} \in {{"graph"}, {"graph", "freed"}}
          /\ l[1][1] \in Node /\ l[2][1] \in Node
      BY <1>0, GraphPorts DEF EndsRight, Links
    <3>2. /\ place'[l[1][1]] \in {"graph", place[l[1][1]]}
          /\ place'[l[2][1]] \in {"graph", place[l[2][1]]}
      BY <1>0, <1>1, <3>1
    <3> QED BY <3>1, <3>2
  <2> QED BY <1>2, <2>1 DEF EndsRight
<1>5. IdsRight'
  <2>1. ASSUME NEW k \in Nodes' PROVE k \in Node /\ (k = n \/ (k \in Nodes /\ id'[k] = id[k]))
    BY <1>0, <1>1, <2>1 DEF Nodes, InGraph
  <2>2. id'[n] = i /\ \A k \in Nodes : id[k] # i
    BY <1>0, <1>1 DEF MayAdd
  <2> QED BY <1>0, <2>1, <2>2 DEF IdsRight
<1> QED BY <1>2, <1>3, <1>4, <1>5 DEF GraphInv

(* A step that changes connections only                                    *)
LEMMA Rewiring ==
  ASSUME GraphInv, Wired', UNCHANGED <<place, id>>, FileOK',
         phase' \in {"nodes", "connections", "running", "ended"}
  PROVE  GraphInv'
<1>1. place \in [Node -> {"none", "graph", "freed"}] /\ id \in [Node -> 0 .. IdMax]
  BY DEF GraphInv, GraphTypeOK
<1>2. GraphTypeOK'
  BY <1>1 DEF GraphTypeOK, Wired
<1>3. Nodes' = Nodes
  BY DEF Nodes, InGraph
<1>4. IdsRight'
  BY <1>3 DEF GraphInv, IdsRight
<1> QED BY <1>2, <1>4 DEF GraphInv, Wired

(* A node that is removed leaves at most one end of a connection behind.   *)
LEMMA Removing ==
  ASSUME GraphInv, NEW n \in Node, RemoveNode(n)
  PROVE  GraphInv'
<1>0. /\ place \in [Node -> {"none", "graph", "freed"}]
      /\ id \in [Node -> 0 .. IdMax]
      /\ refs \in Seq(Range(refs)) /\ buffer \in [Port -> 0 .. Len(refs)]
      /\ EndsRight /\ IdsRight /\ ~ Dangling
      /\ conns' = Unlinked(Reached(n)) /\ buffer' = buffer
      /\ refs' = Released(Reached(n))
      /\ place' = [place EXCEPT ![n] = "freed"]
      /\ id' = id /\ file' = file /\ phase' = phase
  BY DEF GraphInv, GraphTypeOK, RemoveNode, Edited
<1>1. /\ conns' \in [Port -> Seq(Port)]
      /\ WiresRight'
      /\ Links' \subseteq Links
      /\ DataFromProducer'
  BY <1>0, Cutting
<1>2. refs' \in Seq(Range(refs')) /\ Len(refs') = Len(refs)
  BY <1>0, ReleasedFacts
<1>3. GraphTypeOK'
  BY <1>0, <1>1, <1>2 DEF GraphTypeOK, GraphInv
<1>4. EndsRight'
  <2>1. ASSUME NEW l \in Links
        PROVE  /\ l[1][1] # l[2][1]
               /\ {place'[l[1][1]], place'[l[2][1]]} \in {{"graph"}, {"graph", "freed"}}
    <3>1. /\ l[1][1] # l[2][1]
          /\ {place[l[1][1]], place[l[2][1]]} \in {{"graph"}, {"graph", "freed"}}
          /\ l[1][1] \in Node /\ l[2][1] \in Node
      BY <1>0, GraphPorts DEF EndsRight, Links
    <3>2. {place[l[1][1]], place[l[2][1]]} # {"graph", "freed"}
      BY <1>0 DEF Dangling
    <3>3. place[l[1][1]] = "graph" /\ place[l[2][1]] = "graph"
      BY <3>1, <3>2
    <3>4. /\ place'[l[1][1]] = IF l[1][1] = n THEN "freed" ELSE "graph"
          /\ place'[l[2][1]] = IF l[2][1] = n THEN "freed" ELSE "graph"
      BY <1>0, <3>1, <3>3
    <3> QED BY <3>1, <3>4
  <2> QED BY <1>1, <2>1 DEF EndsRight
<1>5. IdsRight'
  <2>1. Nodes' \subseteq Nodes
    BY <1>0 DEF Nodes, InGraph
  <2> QED BY <1>0, <2>1 DEF IdsRight
<1>6. FileOK'
  BY <1>0 DEF GraphInv, FileOK
<1> QED BY <1>1, <1>3, <1>4, <1>5, <1>6 DEF GraphInv

LEMMA Creating ==
  ASSUME GraphInv, NEW n \in Node, CreateNodeAt(n)
  PROVE  GraphInv'
<1>1. HighestId \in 0 .. IdMax /\ IdMax \in Nat
  BY HighestFacts, GraphAssumption DEF GraphInv
<1>2. /\ HighestId # IdMax /\ MayAdd(HighestId + 1) /\ AddNode(n, HighestId + 1)
      /\ UNCHANGED portVars /\ phase' = phase /\ file' = file
  BY DEF CreateNodeAt, Edited
<1>3. HighestId + 1 \in 0 .. IdMax
  BY <1>1, <1>2
<1>4. FileOK'
  BY <1>2 DEF GraphInv, FileOK
<1> QED BY <1>2, <1>3, <1>4, Adding

LEMMA LoadingNode ==
  ASSUME GraphInv, LoadNode
  PROVE  GraphInv'
<1> DEFINE e == Head(file.nodes)
<1>1. FileOK /\ file.nodes # <<>> /\ IdMax \in Nat
  BY GraphAssumption DEF GraphInv, LoadNode
<1>2. CASE MayAdd(e.id) /\ AddNode(e.node, e.id)
           /\ file' = [file EXCEPT !.nodes = Tail(@)]
           /\ UNCHANGED <<phase, portVars, edits>>
  <2>1. FileOK' /\ e \in [node : Node, id : 1 .. IdMax]
    BY <1>1, <1>2, RestOfNodes
  <2>2. e.node \in Node /\ e.id \in 0 .. IdMax
    <3> HIDE DEF e
    <3> QED BY <1>1, <2>1
  <2> HIDE DEF e
  <2> QED BY <1>2, <2>1, <2>2, Adding
<1>3. CASE Ended
  <2>1. conns' = conns /\ buffer' = buffer /\ refs' = refs /\ place' = place /\ id' = id
        /\ file' = file /\ phase' = "ended"
    BY <1>3 DEF Ended, portVars
  <2>2. Wired'
    <3>1. EndsRight
      BY DEF GraphInv
    <3>2. EndsRight'
      BY <2>1, <3>1, SameWires DEF EndsRight
    <3> QED BY <2>1, <3>2, SameWires DEF Wired
  <2>3. FileOK'
    BY <1>1, <2>1 DEF FileOK
  <2> QED BY <2>1, <2>2, <2>3, Rewiring
<1> QED BY <1>2, <1>3 DEF LoadNode

(* Steps that leave the graph as it is                                     *)
LEMMA Resting ==
  ASSUME GraphInv, UNCHANGED <<file, place, id, portVars>>,
         phase' \in {"nodes", "connections", "running", "ended"}
  PROVE  GraphInv'
<1>1. conns' = conns /\ buffer' = buffer /\ refs' = refs /\ place' = place /\ id' = id
      /\ file' = file
  BY DEF portVars
<1>2. Wired'
  <2>1. EndsRight
    BY DEF GraphInv
  <2>2. EndsRight'
    BY <1>1, <2>1, SameWires DEF EndsRight
  <2> QED BY <1>1, <2>2, SameWires DEF Wired
<1>3. FileOK'
  BY <1>1 DEF GraphInv, FileOK
<1> QED BY <1>1, <1>2, <1>3, Rewiring

LEMMA LoadingConnection ==
  ASSUME GraphInv, LoadConnection
  PROVE  GraphInv'
<1> DEFINE from == Head(file.connections)[1]
           to == Head(file.connections)[2]
           found == {l \in FindPort(from) \X FindPort(to) : MayConnect(l[1], l[2])}
<1>1. FileOK /\ file.connections # <<>>
  BY DEF GraphInv, LoadConnection
<1>2. from[1] # to[1]
  <2> DEFINE s == file.connections
  <2>1. s \in Seq(FilePort \X FilePort) /\ \A k \in DOMAIN s : s[k][1][1] # s[k][2][1]
    BY <1>1 DEF FileOK, File
  <2>2. 1 \in DOMAIN s /\ Head(s) = s[1]
    <3>1. s # <<>>
      BY <1>1
    <3> HIDE DEF s
    <3>2. Len(s) \in Nat /\ Len(s) # 0 /\ DOMAIN s = 1 .. Len(s)
      BY <2>1, <3>1, EmptySeq, LenProperties
    <3>3. 1 \in DOMAIN s
      BY <3>2
    <3> QED BY <2>1, <3>1, <3>3, HeadTailProperties
  <2> QED BY <2>1, <2>2
<1>3. ASSUME NEW l \in found
      PROVE  /\ l[1] \in OutPort /\ l[2] \in InPort
             /\ MayConnect(l[1], l[2])
             /\ l[1][1] # l[2][1]
             /\ InGraph(l[1][1]) /\ InGraph(l[2][1])
  <2>1. /\ MayConnect(l[1], l[2])
        /\ l[1] \in FindPort(from) /\ l[2] \in FindPort(to)
    BY <1>3
  <2>2. <<l[1], l[2]>> \in OutPort \X InPort
    BY <2>1, GraphAssumption DEF MayConnect
  <2>3. /\ id[l[1][1]] = from[1] /\ id[l[2][1]] = to[1]
        /\ InGraph(l[1][1]) /\ InGraph(l[2][1])
    BY <2>1 DEF FindPort
  <2> QED BY <1>2, <2>1, <2>2, <2>3
<1> HIDE DEF from, to
<1>4. CASE /\ \E l \in found : ConnectOk(l[1], l[2], {})
           /\ file' = [file EXCEPT !.connections = Tail(@)]
           /\ UNCHANGED <<phase, place, id, edits>>
  <2>1. PICK l \in found : ConnectOk(l[1], l[2], {})
    BY <1>4
  <2> HIDE DEF found
  <2>2. Wired'
    BY <1>3, <1>4, <2>1, Connects DEF Connectp
  <2>3. FileOK'
    BY <1>1, <1>4, RestOfFile
  <2>4. phase' = phase /\ phase \in {"nodes", "connections", "running", "ended"}
    BY <1>4 DEF GraphInv, GraphTypeOK
  <2> QED BY <1>4, <2>2, <2>3, <2>4, Rewiring
<1>5. CASE /\ \E l \in found : ConnectFails(l[1], l[2], {})
           /\ phase' = "ended"
           /\ UNCHANGED <<file, place, id, edits>>
  <2>1. PICK l \in found : ConnectFails(l[1], l[2], {})
    BY <1>5
  <2> HIDE DEF found
  <2>2. Wired'
    BY <1>3, <1>5, <2>1, Connects DEF Connectp
  <2>3. FileOK'
    BY <1>1, <1>5 DEF FileOK
  <2> QED BY <1>5, <2>2, <2>3, Rewiring
<1>6. CASE Ended
  BY <1>6, Resting DEF Ended
<1> QED BY <1>4, <1>5, <1>6 DEF LoadConnection, from, to

(* What the editor connects belongs to different nodes.                    *)
LEMMA Editing ==
  ASSUME GraphInv, NEW out \in OutPort, NEW in \in InPort, NEW cut,
         Edited, PortsCompatible(out, in), Connectp(out, in, cut), UNCHANGED <<place, id>>
  PROVE  GraphInv'
<1>1. out[1] # in[1]
  <2>1. in[1] \in Node
    BY GraphPorts
  <2>2. in[1] \in Downstream(conns, in[1])
    BY <2>1 DEF Downstream
  <2> QED BY <2>2 DEF PortsCompatible
<1>2. MayConnect(out, in) /\ InGraph(out[1]) /\ InGraph(in[1])
  BY DEF PortsCompatible
<1>3. Wired'
  BY <1>1, <1>2, Connects
<1>4. FileOK' /\ phase' \in {"nodes", "connections", "running", "ended"}
  BY DEF Edited, GraphInv, FileOK, GraphTypeOK
<1> QED BY <1>3, <1>4, Rewiring

LEMMA Separating ==
  ASSUME GraphInv, NEW out \in OutPort, NEW in \in InPort, Disconnect(out, in)
  PROVE  GraphInv'
<1>1. Wired'
  <2>1. /\ conns' = Unlinked({<<out, in>>}) /\ buffer' = buffer /\ place' = place
        /\ refs' = Released({<<out, in>>})
    BY DEF Disconnect
  <2> QED BY <2>1, Disconnecting
<1>2. FileOK' /\ phase' \in {"nodes", "connections", "running", "ended"}
  BY DEF Disconnect, Edited, GraphInv, FileOK, GraphTypeOK
<1>3. UNCHANGED <<place, id>>
  BY DEF Disconnect
<1> QED BY <1>1, <1>2, <1>3, Rewiring

LEMMA GraphStep ==
  ASSUME GraphInv, GraphNext
  PROVE  GraphInv'
<1>1. CASE LoadNode
  BY <1>1, LoadingNode
<1>2. CASE LoadedNodes
  BY <1>2, Resting DEF LoadedNodes
<1>3. CASE LoadConnection
  BY <1>3, LoadingConnection
<1>4. CASE Loaded
  BY <1>4, Resting DEF Loaded
<1>5. ASSUME NEW n \in Node, CreateNodeAt(n) PROVE GraphInv'
  BY <1>5, Creating
<1>6. ASSUME NEW n \in Node, RemoveNode(n) PROVE GraphInv'
  BY <1>6, Removing
<1>7. ASSUME NEW out \in OutPort, NEW in \in InPort, Connect(out, in) PROVE GraphInv'
  BY <1>7, Editing DEF Connect
<1>8. ASSUME NEW out \in OutPort, NEW in \in InPort, Disconnect(out, in) PROVE GraphInv'
  BY <1>8, Separating
<1>9. ASSUME NEW out \in OutPort, NEW in \in InPort, NEW from \in InPort,
             Move(out, from, in)
      PROVE  GraphInv'
  BY <1>9, Editing DEF Move
<1> QED BY <1>1, <1>2, <1>3, <1>4, <1>5, <1>6, <1>7, <1>8, <1>9 DEF GraphNext

LEMMA GraphStart ==
  ASSUME GraphInit
  PROVE  GraphInv
<1>1. \A p \in Port : conns[p] = <<>> /\ buffer[p] = 0
  BY DEF GraphInit
<1>2. Range(<<>>) = {} /\ IsInjective(<<>>) /\ Len(<<>>) = 0
  BY DEF Range, IsInjective
<1>3. \A p, q \in Port : ~ Linked(p, q)
  BY <1>1, <1>2 DEF Linked
<1>4. Links = {}
  BY <1>3, GraphPorts DEF Links
<1>5. GraphTypeOK
  <2>1. refs \in Seq(Range(refs)) /\ Len(refs) = 0
    BY <1>2 DEF GraphInit
  <2>2. conns \in [Port -> Seq(Port)]
    BY DEF GraphInit
  <2>3. buffer \in [Port -> 0 .. Len(refs)]
    BY <2>1 DEF GraphInit
  <2>4. id \in [Node -> 0 .. IdMax] /\ place \in [Node -> {"none", "graph", "freed"}]
    BY GraphAssumption DEF GraphInit
  <2> QED BY <2>1, <2>2, <2>3, <2>4 DEF GraphTypeOK, GraphInit
<1>6. FileOK
  BY GraphAssumption DEF GraphInit, FileOK
<1>7. WiresRight
  <2>1. \A p \in Port : IsInjective(conns[p])
    BY <1>1, <1>2
  <2>2. \A p \in InPort : Len(conns[p]) <= 1
    BY <1>1, <1>2, GraphPorts
  <2> QED BY <1>3, <2>1, <2>2 DEF WiresRight
<1>8. EndsRight
  BY <1>4 DEF EndsRight
<1>9. IdsRight
  BY DEF IdsRight, Nodes, InGraph, GraphInit
<1>10. DataFromProducer
  BY <1>1, <1>4, GraphPorts DEF DataFromProducer
<1> QED BY <1>5, <1>6, <1>7, <1>8, <1>9, <1>10 DEF GraphInv

LEMMA GraphAlways == GraphSpec => []GraphInv
<1>1. GraphInit => GraphInv
  BY GraphStart
<1>2. GraphInv /\ [GraphNext]_graphVars => GraphInv'
  <2>1. ASSUME GraphInv, UNCHANGED graphVars PROVE GraphInv'
    <3>1. phase' \in {"nodes", "connections", "running", "ended"}
      BY <2>1 DEF graphVars, GraphInv, GraphTypeOK
    <3> QED BY <2>1, <3>1, Resting DEF graphVars
  <2> QED BY <2>1, GraphStep
<1> QED BY <1>1, <1>2, PTL DEF GraphSpec

-----------------------------------------------------------------------------
(* What follows                                                            *)

LEMMA OnceEach ==
  ASSUME NEW s, IsInjective(s), NEW x \in Range(s)
  PROVE  Cardinality({k \in DOMAIN s : s[k] = x}) = 1
<1>1. PICK k \in DOMAIN s : s[k] = x
  BY DEF Range
<1>2. {j \in DOMAIN s : s[j] = x} = {k}
  BY <1>1 DEF IsInjective
<1> QED BY <1>2, FS_Singleton

(* Both ends of a connection know of it, once, and share a buffer that no  *)
(* other output uses, whatever is loaded, created, connected, moved and    *)
(* removed and whichever allocation fails.                                 *)
THEOREM ConnectionsCorrect == GraphSpec => []ConnectionsRight
<1>1. ASSUME GraphInv PROVE ConnectionsRight
  <2>1. WiresRight /\ DataFromProducer
    BY <1>1 DEF GraphInv
  <2>2. ASSUME NEW p \in Port, NEW q \in Port, Linked(p, q)
        PROVE  /\ Linked(q, p)
               /\ {<<p, q>>, <<q, p>>} \cap Compatible # {}
               /\ Cardinality({k \in DOMAIN conns[p] : conns[p][k] = q}) = 1
    <3>1. Linked(q, p) /\ (<<p, q>> \in Compatible \/ <<q, p>> \in Compatible)
      BY <2>1, <2>2 DEF WiresRight
    <3>2. IsInjective(conns[p]) /\ q \in Range(conns[p])
      BY <2>1, <2>2 DEF WiresRight, Linked
    <3> QED BY <3>1, <3>2, OnceEach
  <2>3. Symmetric
    BY <2>2 DEF Symmetric
  <2> QED BY <2>1, <2>3 DEF ConnectionsRight
<1> QED BY <1>1, GraphAlways, PTL

(* A graph that is saved at any time is the same when it is loaded again:  *)
(* ids identify nodes, and the first connection of each input is all there *)
(* is.                                                                     *)
THEOREM ReloadsCorrect == GraphSpec => []Reloads
<1>1. ASSUME GraphInv PROVE Reloads
  <2> SUFFICES ASSUME ~ Dangling
               PROVE  /\ \A m, n \in Nodes : id[m] = id[n] => m = n
                      /\ SavedLinks = Links
    BY DEF Reloads
  <2>1. /\ WiresRight /\ EndsRight /\ IdsRight
        /\ conns \in [Port -> Seq(Port)]
    BY <1>1 DEF GraphInv, GraphTypeOK
  <2>2. ASSUME NEW p \in InPort, conns[p] # <<>>
        PROVE  /\ 1 \in DOMAIN conns[p] /\ conns[p][1] \in OutPort
               /\ Linked(p, conns[p][1]) /\ Linked(conns[p][1], p)
               /\ Range(conns[p]) = {conns[p][1]}
    <3> DEFINE s == conns[p]
    <3>1. p \in Port /\ p \notin OutPort /\ s \in Seq(Port) /\ s # <<>> /\ Len(s) <= 1
      BY <2>1, <2>2, GraphPorts DEF WiresRight
    <3>2. 1 \in DOMAIN s /\ DOMAIN s = {1} /\ s[1] \in Port
      <4> HIDE DEF s
      <4>1. Len(s) \in Nat /\ Len(s) # 0 /\ DOMAIN s = 1 .. Len(s)
        BY <3>1, EmptySeq, LenProperties
      <4>2. Len(s) = 1
        BY <3>1, <4>1
      <4>3. DOMAIN s = {1}
        BY <4>1, <4>2
      <4> QED BY <3>1, <4>2, <4>3, ElementOfSeq
    <3>3. Range(s) = {s[1]}
      BY <3>2 DEF Range
    <3>4. Linked(p, s[1])
      BY <3>3 DEF Linked
    <3>5. Linked(s[1], p) /\ <<p, s[1]>> \in Opposite
      <4> HIDE DEF s
      <4> QED BY <2>1, <3>1, <3>2, <3>4 DEF WiresRight
    <3>6. s[1] \in OutPort
      <4> HIDE DEF s
      <4> QED BY <3>1, <3>5 DEF Opposite
    <3> QED BY <3>2, <3>3, <3>4, <3>5, <3>6
  <2>3. ASSUME NEW x \in SavedLinks PROVE x \in Links
    <3>1. PICK p \in InPort : conns[p] # <<>> /\ x = <<conns[p][1], p>>
      BY <2>3 DEF SavedLinks
    <3> QED BY <2>2, <3>1 DEF Links
  <2>4. ASSUME NEW x \in Links PROVE x \in SavedLinks
    <3>1. /\ x[1] \in OutPort /\ x[2] \in InPort /\ x = <<x[1], x[2]>>
          /\ x[1] \in Port /\ x[2] \in Port /\ Linked(x[1], x[2])
      BY <2>4, GraphPorts DEF Links
    <3>2. x[1] \in Range(conns[x[2]])
      BY <2>1, <3>1 DEF WiresRight, Linked
    <3>3. conns[x[2]] # <<>>
      <4>1. Range(<<>>) = {}
        BY DEF Range
      <4> QED BY <3>2, <4>1
    <3>4. x[1] = conns[x[2]][1]
      <4>1. Range(conns[x[2]]) = {conns[x[2]][1]}
        BY <2>2, <3>1, <3>3
      <4> QED BY <3>2, <4>1
    <3>5. InGraph(x[2][1])
      <4>1. {place[x[1][1]], place[x[2][1]]} \in {{"graph"}, {"graph", "freed"}}
        BY <2>1, <2>4 DEF EndsRight
      <4>2. {place[x[1][1]], place[x[2][1]]} # {"graph", "freed"}
        BY <2>4 DEF Dangling
      <4> QED BY <4>1, <4>2 DEF InGraph
    <3> QED BY <3>1, <3>3, <3>4, <3>5 DEF SavedLinks
  <2> QED BY <2>1, <2>3, <2>4 DEF IdsRight
<1> QED BY <1>1, GraphAlways, PTL

-----------------------------------------------------------------------------
(* The buffer of an output port                                            *)

Sample == Int \ {0}
SampleChunk == [from : Seq(Sample), at : Int, count : Nat]
Cell == Int \X Nat
Stages == {"idle", "reset", "running", "filling", "rollback", "destroyed", "undefined"}

BufferTypeOK ==
  /\ node \in Kinds /\ type \in Owning \cup Plain
  /\ cells \in Seq(Cell) /\ num \in Nat /\ live \subseteq Cell
  /\ stage \in Stages
  /\ job \in Jobs /\ job.kind = node
  /\ todo \in Seq(SampleChunk)

(* There is always memory to which no cell refers.                         *)
MemoryLeft == \E most \in Nat : \A c \in live \cup Range(cells) : c[2] <= most

(* Functions that return at once when they fail append one chunk, to an    *)
(* empty buffer; those that do not append have no samples that own memory. *)
EmptyBefore ==
  /\ stage = "reset" => num = 0
  /\ node \in Filling => ~ Owns
  /\ stage = "running" /\ node \in {"select_nth", "all"} /\ todo # <<>> =>
       num = 0 /\ Len(todo) = 1

(* A function that is under way has not reported yet.                      *)
NotReported == stage \in {"reset", "running", "filling", "rollback"} => result = "none"

(* Functions that do not append set the size of the buffer to that of      *)
(* their input, which is one chunk.                                        *)
FillsAll ==
  /\ stage = "filling" => node \in Filling /\ todo # <<>> /\ Len(cells) = Len(job.a)
  /\ stage \in {"running", "filling"} /\ node \in Filling => todo \in {<<>>, FillChunks(job)}

MemoryInv ==
  /\ FillsAll
  /\ BufferTypeOK
  /\ NotReported
  /\ MemoryLeft
  /\ EmptyBefore
  /\ Owned
  /\ RolledBack

-----------------------------------------------------------------------------
(* A sequence is a function on the numbers up to its length.               *)
LEMMA SequenceOf ==
  ASSUME NEW S, NEW n \in Nat, NEW f \in [1 .. n -> S]
  PROVE  f \in Seq(S) /\ Len(f) = n /\ DOMAIN f = 1 .. n
<1>1. f \in Seq(S)
  BY SeqDef
<1>2. DOMAIN f = 1 .. n
  OBVIOUS
<1> QED BY <1>1, <1>2, LenProperties

LEMMA JobTyped ==
  ASSUME NEW j \in Jobs
  PROVE  /\ j.kind \in Kinds /\ j.n \in Int
         /\ j.a \in Seq(Sample) /\ j.b \in Seq(Sample)
         /\ j.ctrl \in Seq(BOOLEAN)
         /\ Len(j.a) \in Nat /\ Len(j.b) \in Nat /\ Len(j.ctrl) \in Nat
         /\ DOMAIN j.ctrl = 1 .. Len(j.ctrl)
         /\ DOMAIN j.a = 1 .. Len(j.a)
         /\ \A i \in DOMAIN j.ctrl : j.ctrl[i] \in BOOLEAN
<1>1. /\ j.kind \in Kinds /\ j.n \in Int
      /\ j.a \in Seq(Sample) /\ j.b \in Seq(Sample)
      /\ j.ctrl \in Seq(BOOLEAN)
  BY BufferAssumption DEF Sample
<1> QED BY <1>1, LenProperties, ElementOfSeq

LEMMA WholeTyped ==
  ASSUME NEW s \in Seq(Sample)
  PROVE  Whole(s) \in SampleChunk /\ <<Whole(s)>> \in Seq(SampleChunk)
BY LenProperties DEF Whole, Chunk, SampleChunk

LEMMA RankFacts ==
  ASSUME NEW ctrl, NEW i \in Nat
  PROVE  Rank(ctrl, i) \in Nat
<1> DEFINE D == {j \in 1 .. i : ctrl[j] = ctrl[i]}
<1>1. IsFiniteSet(D)
  <2>1. IsFiniteSet(1 .. i) /\ D \subseteq 1 .. i
    BY FS_Interval
  <2> HIDE DEF D
  <2> QED BY <2>1, FS_Subset
<1> QED BY <1>1, FS_CardinalityType DEF Rank

LEMMA ChunksTyped ==
  ASSUME NEW j \in Jobs, ~ Rejected(j), ~ Skipped(j)
  PROVE  /\ Chunks(j) \in Seq(SampleChunk)
         /\ j.kind \in {"select_nth", "all"} => Len(Chunks(j)) = 1
<1>1. /\ j.kind \in Kinds /\ j.n \in Int
      /\ j.a \in Seq(Sample) /\ j.b \in Seq(Sample)
      /\ Len(j.a) \in Nat /\ Len(j.b) \in Nat /\ Len(j.ctrl) \in Nat
      /\ DOMAIN j.ctrl = 1 .. Len(j.ctrl)
      /\ DOMAIN j.a = 1 .. Len(j.a)
      /\ Whole(j.a) \in SampleChunk /\ <<Whole(j.a)>> \in Seq(SampleChunk)
      /\ Whole(j.b) \in SampleChunk /\ <<Whole(j.b)>> \in Seq(SampleChunk)
  BY JobTyped, WholeTyped
<1>2. CASE j.kind = "merge"
  <2>1. <<Whole(j.a), Whole(j.b)>> \in Seq(SampleChunk)
    BY <1>1
  <2>2. MergeChunks(j) \in Seq(SampleChunk)
    BY <2>1, RemainingProperties DEF MergeChunks
  <2> QED BY <1>2, <2>2 DEF Chunks, Filling
<1>3. CASE j.kind = "all"
  <2>1. AllChunks(j) \in Seq(SampleChunk) /\ Len(AllChunks(j)) = 1
    BY <1>1 DEF AllChunks
  <2> QED BY <1>3, <2>1 DEF Chunks, Filling
<1>4. CASE j.kind = "elementwise"
  <2> DEFINE all == [i \in DOMAIN j.ctrl |-> i]
             at == Remaining(all, {i \in DOMAIN j.ctrl : ~ j.ctrl[i]})
  <2>1. all \in [1 .. Len(j.ctrl) -> Int]
    BY <1>1
  <2>2. all \in Seq(Int)
    <3> HIDE DEF all
    <3> QED BY <1>1, <2>1, SequenceOf
  <2>3. at \in Seq(Int)
    <3> HIDE DEF all
    <3> QED BY <2>2, RemainingProperties
  <2>4. ElementwiseChunks(j) = [k \in DOMAIN at |-> Chunk(j.a, at[k], 1)]
    BY DEF ElementwiseChunks
  <2> HIDE DEF at
  <2>5. DOMAIN at = 1 .. Len(at) /\ Len(at) \in Nat /\ \A k \in DOMAIN at : at[k] \in Int
    BY <2>3, LenProperties, ElementOfSeq
  <2>6. ElementwiseChunks(j) \in [1 .. Len(at) -> SampleChunk]
    BY <1>1, <2>4, <2>5 DEF Chunk, SampleChunk
  <2>7. ElementwiseChunks(j) \in Seq(SampleChunk)
    BY <2>5, <2>6, SequenceOf
  <2> QED BY <1>4, <2>7 DEF Chunks, Filling
<1>5. CASE j.kind = "pairwise"
  <2>1. PairwiseChunks(j) \in [1 .. Len(j.ctrl) -> SampleChunk]
    BY <1>1, RankFacts DEF PairwiseChunks, Chunk, SampleChunk
  <2>2. PairwiseChunks(j) \in Seq(SampleChunk)
    BY <1>1, <2>1, SequenceOf
  <2> QED BY <1>5, <2>2 DEF Chunks, Filling
<1>6. CASE j.kind = "select_nth"
  <2>1. NthChunks(j) \in Seq(SampleChunk) /\ Len(NthChunks(j)) = 1
    BY <1>1 DEF NthChunks, Chunk, SampleChunk
  <2> QED BY <1>6, <2>1 DEF Chunks, Filling
<1>7. CASE j.kind = "write"
  <2>1. WriteChunks(j) \in [1 .. Len(j.a) -> SampleChunk]
    BY <1>1 DEF WriteChunks, Chunk, SampleChunk
  <2>2. WriteChunks(j) \in Seq(SampleChunk)
    BY <1>1, <2>1, SequenceOf
  <2> QED BY <1>7, <2>2 DEF Chunks, Filling
<1>8. CASE j.kind \in Filling
  <2>1. FillChunks(j) \in Seq(SampleChunk)
    BY <1>1 DEF FillChunks
  <2> QED BY <1>8, <2>1 DEF Chunks, Filling
<1> QED BY <1>1, <1>2, <1>3, <1>4, <1>5, <1>6, <1>7, <1>8 DEF Kinds, Copying

LEMMA ContentFacts ==
  ASSUME NEW c \in SampleChunk, Present(c)
  PROVE  /\ Content(c) \in Seq(Sample)
         /\ Len(Content(c)) = c.count /\ c.count \in Nat
         /\ \A k \in 1 .. c.count : Content(c)[k] = c.from[c.at + k - 1]
<1>1. /\ c.from \in Seq(Sample) /\ c.at \in Int /\ c.count \in Nat
      /\ Len(c.from) \in Nat
      /\ 1 <= c.at /\ c.at + c.count - 1 <= Len(c.from)
  BY LenProperties DEF SampleChunk, Present
<1>2. \A i \in c.at .. c.at + c.count - 1 : c.from[i] \in Sample
  BY <1>1, ElementOfSeq
<1> DEFINE l == c.at
           r == c.at + c.count - 1
           f == c.from
<1>3. /\ Content(c) \in Seq(Sample)
      /\ Len(Content(c)) = c.count
      /\ \A k \in 1 .. c.count : Content(c)[k] = c.from[c.at + k - 1]
  <2>1. Content(c) = SubSeq(f, l, r) /\ l \in Int /\ r \in Int
    BY <1>1 DEF Content
  <2>2. \A i \in l .. r : f[i] \in Sample
    BY <1>2
  <2> HIDE DEF l, r, f
  <2>3. /\ SubSeq(f, l, r) \in Seq(Sample)
        /\ Len(SubSeq(f, l, r)) = IF l <= r THEN r - l + 1 ELSE 0
        /\ \A k \in 1 .. r - l + 1 : SubSeq(f, l, r)[k] = f[l + k - 1]
    BY <2>1, <2>2, SubSeqProperties
  <2>4. r - l + 1 = c.count
    BY <1>1 DEF l, r
  <2>5. (IF l <= r THEN r - l + 1 ELSE 0) = c.count
    BY <1>1, <2>1, <2>4
  <2>6. \A k \in 1 .. c.count : Content(c)[k] = f[l + k - 1]
    BY <2>1, <2>3, <2>4
  <2> QED BY <2>1, <2>3, <2>5, <2>6 DEF l, f
<1> QED BY <1>1, <1>3

(* Memory that is new to the buffer can be told apart from all that it     *)
(* refers to or has allocated.                                             *)
LEMMA NewestFacts ==
  ASSUME cells \in Seq(Cell), live \subseteq Cell, MemoryLeft
  PROVE  Newest \in Nat /\ \A c \in live \cup Range(cells) : c[2] <= Newest
<1> DEFINE All == live \cup Range(cells)
           S == {0} \cup {c[2] : c \in All}
<1>1. All \subseteq Cell
  <2>1. Range(cells) \subseteq Cell
    BY ElementOfSeq, LenProperties DEF Range
  <2> QED BY <2>1
<1>2. PICK most \in Nat : \A c \in All : c[2] <= most
  BY DEF MemoryLeft
<1> HIDE DEF All
<1>3. S \subseteq Nat /\ S # {} /\ \A x \in S : x <= most
  BY <1>1, <1>2 DEF Cell
<1>6. \E x \in S : \A y \in S : x >= y
  <2> HIDE DEF S
  <2>1. PICK x \in S : \A y \in S : y <= x
    BY <1>2, <1>3, GreatestNumber
  <2>2. \A y \in S : x >= y
    BY <1>3, <2>1
  <2> QED BY <2>1, <2>2
<1>7. Newest = CHOOSE x \in S : \A y \in S : x >= y
  BY DEF Newest, Max, All
<1>8. Newest \in S /\ \A y \in S : Newest >= y
  <2> HIDE DEF S
  <2> QED BY <1>6, <1>7
<1>9. \A c \in All : c[2] \in S
  OBVIOUS
<1> HIDE DEF S
<1>10. \A c \in All : c[2] <= Newest
  BY <1>3, <1>8, <1>9
<1> QED BY <1>3, <1>8, <1>10 DEF All

LEMMA CopiesFacts ==
  ASSUME cells \in Seq(Cell), live \subseteq Cell, MemoryLeft, NEW values \in Seq(Sample)
  PROVE  /\ Copies(values) \in Seq(Cell) /\ Len(Copies(values)) = Len(values)
         /\ Len(values) \in Nat /\ DOMAIN Copies(values) = 1 .. Len(values)
         /\ \A i \in 1 .. Len(values) :
              /\ Copies(values)[i][1] = values[i] /\ values[i] \in Sample
              /\ Copies(values)[i] # Null
              /\ Copies(values)[i][2] <= Newest + 1 + Len(values)
              /\ Owns => Copies(values)[i] \notin live \cup Range(cells)
         /\ Owns => IsInjective(Copies(values))
<1> DEFINE c == Copies(values)
           n == Len(values)
<1>1. /\ n \in Nat /\ DOMAIN values = 1 .. n /\ \A i \in 1 .. n : values[i] \in Sample
      /\ Newest \in Nat /\ \A x \in live \cup Range(cells) : x[2] <= Newest
  BY LenProperties, ElementOfSeq, NewestFacts
<1>2. c = [i \in 1 .. n |-> <<values[i], IF Owns THEN Newest + i ELSE 1>>]
  BY <1>1 DEF Copies
<1> HIDE DEF c
<1>3. \A i \in 1 .. n :
        /\ c[i][1] = values[i] /\ values[i] \in Sample
        /\ c[i][2] = IF Owns THEN Newest + i ELSE 1
        /\ c[i] \in Cell
  BY <1>1, <1>2 DEF Cell, Sample
<1>4. c \in [1 .. n -> Cell]
  BY <1>2, <1>3
<1>5. c \in Seq(Cell) /\ Len(c) = n /\ DOMAIN c = 1 .. n
  BY <1>1, <1>4, SequenceOf
<1>6. \A i \in 1 .. n : c[i] # Null /\ c[i][2] <= Newest + 1 + n
  BY <1>1, <1>3 DEF Null, Sample
<1>7. ASSUME Owns, NEW i \in 1 .. n PROVE c[i] \notin live \cup Range(cells)
  <2>1. c[i][2] = Newest + i
    BY <1>3, <1>7
  <2>2. ~ (c[i][2] <= Newest)
    BY <1>1, <2>1
  <2> QED BY <1>1, <2>2
<1>8. ASSUME Owns PROVE IsInjective(c)
  <2>1. \A i, k \in 1 .. n : c[i] = c[k] => i = k
    <3>1. \A i \in 1 .. n : c[i][2] = Newest + i
      BY <1>3, <1>8
    <3> QED BY <1>1, <3>1
  <2> QED BY <1>5, <2>1 DEF IsInjective
<1> QED BY <1>1, <1>3, <1>5, <1>6, <1>7, <1>8 DEF c

(* What is put into the buffer follows its samples, which stay.            *)
LEMMA PutFacts ==
  ASSUME cells \in Seq(Cell), num \in Nat, NEW n \in Nat,
         NEW s \in Seq(Cell), Len(s) <= n
  PROVE  /\ Put(s, n) \in Seq(Cell)
         /\ 1 .. num + n \subseteq DOMAIN Put(s, n)
         /\ num + n <= Len(Put(s, n)) /\ Len(Put(s, n)) \in Nat
         /\ \A k \in 1 .. num : k \in DOMAIN cells => Put(s, n)[k] = cells[k]
         /\ \A k \in 1 .. Len(s) : Put(s, n)[num + k] = s[k]
         /\ Range(Put(s, n)) \subseteq Range(cells) \cup Range(s) \cup {Raw}
<1> DEFINE g == Grown(n)
           l == Len(cells)
<1>1. /\ l \in Nat /\ DOMAIN cells = 1 .. l /\ \A k \in 1 .. l : cells[k] \in Cell
      /\ Len(s) \in Nat /\ DOMAIN s = 1 .. Len(s) /\ \A k \in 1 .. Len(s) : s[k] \in Cell
      /\ Raw \in Cell
  BY LenProperties, ElementOfSeq DEF Raw, Cell
<1>2. PICK m \in Nat : /\ num + n <= m /\ DOMAIN g = 1 .. m
                       /\ \A k \in 1 .. m : g[k] = IF k \in 1 .. l THEN cells[k] ELSE Raw
  <2>1. CASE Fits(n)
    <3>1. g = cells /\ num + n <= l
      BY <2>1 DEF Grown, Fits
    <3>2. DOMAIN g = 1 .. l /\ \A k \in 1 .. l : g[k] = IF k \in 1 .. l THEN cells[k] ELSE Raw
      BY <1>1, <3>1
    <3> HIDE DEF g, l
    <3> QED BY <1>1, <3>1, <3>2
  <2>2. CASE ~ Fits(n)
    <3>1. g = [k \in 1 .. num + n |-> IF k \in 1 .. l THEN cells[k] ELSE Raw]
      BY <1>1, <2>2 DEF Grown, Realloc
    <3> DEFINE t == num + n
    <3>2. t \in Nat /\ num + n <= t
      OBVIOUS
    <3>3. g = [k \in 1 .. t |-> IF k \in 1 .. l THEN cells[k] ELSE Raw]
      BY <3>1
    <3> HIDE DEF g, l, t
    <3>4. /\ DOMAIN g = 1 .. t
          /\ \A k \in 1 .. t : g[k] = IF k \in 1 .. l THEN cells[k] ELSE Raw
      BY <3>3
    <3> QED BY <3>2, <3>4
  <2> QED BY <2>1, <2>2
<1> DEFINE p == Put(s, n)
<1>3. p = [k \in 1 .. m |-> IF k - num \in 1 .. Len(s) THEN s[k - num] ELSE g[k]]
  BY <1>1, <1>2 DEF Put
<1> HIDE DEF p, g
<1>4. ASSUME NEW k \in 1 .. m
      PROVE  p[k] \in Cell /\ p[k] \in Range(cells) \cup Range(s) \cup {Raw}
  <2>1. CASE k - num \in 1 .. Len(s)
    <3>1. p[k] = s[k - num]
      BY <1>3, <2>1
    <3> QED BY <1>1, <2>1, <3>1 DEF Range
  <2>2. CASE k - num \notin 1 .. Len(s)
    <3>1. p[k] = IF k \in 1 .. l THEN cells[k] ELSE Raw
      BY <1>2, <1>3, <2>2
    <3> QED BY <1>1, <3>1 DEF Range
  <2> QED BY <2>1, <2>2
<1>5. p \in [1 .. m -> Cell]
  BY <1>3, <1>4
<1>6. p \in Seq(Cell) /\ Len(p) = m /\ DOMAIN p = 1 .. m
  BY <1>5, SequenceOf
<1>7. 1 .. num + n \subseteq 1 .. m
  BY <1>2
<1>8. ASSUME NEW k \in 1 .. num, k \in DOMAIN cells PROVE p[k] = cells[k]
  <2>1. k \in 1 .. m /\ k - num \notin 1 .. Len(s) /\ k \in 1 .. l
    BY <1>1, <1>2, <1>8
  <2> QED BY <1>2, <1>3, <2>1
<1>9. ASSUME NEW k \in 1 .. Len(s) PROVE p[num + k] = s[k]
  <2>1. num + k \in 1 .. m /\ (num + k) - num = k
    BY <1>1, <1>2
  <2> QED BY <1>3, <2>1
<1>10. Range(p) \subseteq Range(cells) \cup Range(s) \cup {Raw}
  BY <1>4, <1>6 DEF Range
<1> QED BY <1>2, <1>6, <1>7, <1>8, <1>9, <1>10 DEF p

(* A chunk that is put into the buffer leaves enough memory to be copied   *)
(* to.                                                                     *)
LEMMA MemoryStays ==
  ASSUME cells \in Seq(Cell), live \subseteq Cell, MemoryLeft,
         live' \cup Range(cells') \subseteq live \cup Range(cells) \cup {Raw, Null}
  PROVE  MemoryLeft'
<1>1. PICK most \in Nat : \A c \in live \cup Range(cells) : c[2] <= most
  BY DEF MemoryLeft
<1>2. \A c \in live \cup Range(cells) : c[2] \in Nat
  <2>1. Range(cells) \subseteq Cell
    BY ElementOfSeq, LenProperties DEF Range
  <2> QED BY <2>1 DEF Cell
<1>3. \A c \in live' \cup Range(cells') : c[2] <= most + 1
  BY <1>1, <1>2 DEF Raw, Null
<1>4. most + 1 \in Nat
  BY <1>1
<1> QED BY <1>3, <1>4 DEF MemoryLeft

-----------------------------------------------------------------------------
(* The steps                                                               *)

LEMMA EmptyOwned ==
  ASSUME num' = 0
  PROVE  Owned'
<1>1. 1 .. num' = {}
  OBVIOUS
<1>2. \A D : D = {} => Destructible(D)'
  BY DEF Destructible
<1> QED BY <1>1, <1>2 DEF Owned

(* What the valid samples are when they own memory                         *)
LEMMA OwnedSamples ==
  ASSUME Owned, Owns, stage # "undefined"
  PROVE  /\ 1 .. num \subseteq DOMAIN cells
         /\ \A k \in 1 .. num : cells[k] \in live /\ cells[k] # Null
         /\ \A j, k \in 1 .. num : cells[j] = cells[k] => j = k
<1>1. /\ 1 .. num \subseteq DOMAIN cells
      /\ Destructible(1 .. num)
      /\ \A k \in 1 .. num : cells[k] # Null
  BY DEF Owned
<1> QED BY <1>1 DEF Destructible

LEMMA OwnedNext ==
  ASSUME 1 .. num' \subseteq DOMAIN cells',
         \A k \in 1 .. num' : cells'[k] \in live' /\ cells'[k] # Null,
         \A j, k \in 1 .. num' : cells'[j] = cells'[k] => j = k
  PROVE  Owned'
<1>1. Destructible(1 .. num)'
  BY DEF Destructible, Null
<1> QED BY <1>1 DEF Owned, Null

(* The samples stay.                                                       *)
LEMMA OwnedStays ==
  ASSUME Owned, stage # "undefined", type' = type, num' = num, live' = live,
         Owns => \A k \in 1 .. num : k \in DOMAIN cells => k \in DOMAIN cells' /\ cells'[k] = cells[k]
  PROVE  Owned'
<1>1. CASE Owns
  <2>1. /\ 1 .. num \subseteq DOMAIN cells
        /\ \A k \in 1 .. num : cells[k] \in live /\ cells[k] # Null
        /\ \A j, k \in 1 .. num : cells[j] = cells[k] => j = k
    BY <1>1, OwnedSamples
  <2>2. \A k \in 1 .. num : k \in DOMAIN cells' /\ cells'[k] = cells[k]
    BY <1>1, <2>1
  <2> QED BY <2>1, <2>2, OwnedNext
<1>2. CASE ~ Owns
  BY <1>2 DEF Owned, Owns
<1> QED BY <1>1, <1>2

(* All samples may be destroyed at any time.                               *)
LEMMA Cleared ==
  ASSUME MemoryInv, stage # "undefined", NEW next, Clear(next)
  PROVE  stage' = next /\ num' = 0 /\ live' \subseteq live
<1>1. Owns => Destructible(1 .. num)
  BY DEF MemoryInv, Owned
<1> QED BY <1>1 DEF Clear, Destroy

LEMMA MemorySame ==
  ASSUME MemoryInv, live' \subseteq live, cells' \in {cells, <<>>}
  PROVE  MemoryLeft' /\ cells' \in Seq(Cell) /\ live' \subseteq Cell
<1>1. Range(<<>>) = {}
  BY DEF Range
<1>2. live' \cup Range(cells') \subseteq live \cup Range(cells) \cup {Raw, Null}
  BY <1>1
<1>3. cells \in Seq(Cell) /\ live \subseteq Cell /\ MemoryLeft
  BY DEF MemoryInv, BufferTypeOK
<1>4. MemoryLeft'
  BY <1>2, <1>3, MemoryStays
<1>5. cells' \in Seq(Cell)
  <2>1. <<>> \in Seq(Cell)
    OBVIOUS
  <2>2. cells' = cells \/ cells' = <<>>
    OBVIOUS
  <2> QED BY <1>3, <2>1, <2>2
<1>6. live' \subseteq Cell
  BY <1>3
<1> QED BY <1>4, <1>5, <1>6

LEMMA Resetting ==
  ASSUME MemoryInv, Reset
  PROVE  MemoryInv' /\ stage' # "undefined"
<1>1. /\ stage' = "reset" /\ num' = 0 /\ live' \subseteq live /\ result' = "none"
      /\ UNCHANGED <<node, type, cells, job, todo>>
  BY Cleared DEF Reset
<1>2. MemoryLeft' /\ cells' \in Seq(Cell) /\ live' \subseteq Cell
  BY <1>1, MemorySame
<1>3. Owned'
  BY <1>1, EmptyOwned
<1> QED BY <1>1, <1>2, <1>3 DEF MemoryInv, BufferTypeOK, EmptyBefore, RolledBack, NotReported, Owns, Stages, FillsAll

LEMMA ChangingType ==
  ASSUME MemoryInv, ChangeType
  PROVE  MemoryInv' /\ stage' # "undefined"
<1>1. /\ stage' = "idle" /\ num' = 0 /\ live' \subseteq live /\ result' = "none"
      /\ UNCHANGED <<node, job, todo>> /\ cells' = <<>>
      /\ node \in Copying /\ type' \in Owning \cup Plain
  BY Cleared DEF ChangeType
<1>2. MemoryLeft' /\ cells' \in Seq(Cell) /\ live' \subseteq Cell
  BY <1>1, MemorySame
<1>3. Owned'
  BY <1>1, EmptyOwned
<1>4. node' \notin Filling
  BY <1>1 DEF Copying, Filling
<1> QED BY <1>1, <1>2, <1>3, <1>4 DEF MemoryInv, BufferTypeOK, EmptyBefore, RolledBack, NotReported, Stages, FillsAll

LEMMA DestroyingBuffer ==
  ASSUME MemoryInv, DestroyBuffer
  PROVE  MemoryInv' /\ stage' # "undefined"
<1>1. /\ stage' = "destroyed" /\ num' = 0 /\ live' \subseteq live /\ result' = "none"
      /\ UNCHANGED <<node, type, job, todo>> /\ cells' = <<>>
  BY Cleared DEF DestroyBuffer
<1>2. MemoryLeft' /\ cells' \in Seq(Cell) /\ live' \subseteq Cell
  BY <1>1, MemorySame
<1>3. Owned'
  BY <1>1, EmptyOwned
<1> QED BY <1>1, <1>2, <1>3 DEF MemoryInv, BufferTypeOK, EmptyBefore, RolledBack, NotReported, Owns, Stages, FillsAll

LEMMA Starting ==
  ASSUME MemoryInv, Start
  PROVE  MemoryInv' /\ stage' # "undefined"
<1>0. /\ stage = "reset" /\ num = 0 /\ num' = 0
      /\ UNCHANGED <<node, type, cells, num, live>>
  BY DEF Start, MemoryInv, EmptyBefore, arrayVars
<1>1. PICK j \in Jobs :
        /\ j.kind = node
        /\ job' = j
        /\ \/ /\ Rejected(j)
              /\ stage' = "idle" /\ result' = "failed" /\ todo' = <<>>
           \/ /\ ~Rejected(j)
              /\ stage' = "running" /\ result' = "none"
              /\ todo' = IF Skipped(j) THEN <<>> ELSE Chunks(j)
  BY DEF Start
<1>2. MemoryLeft' /\ cells' \in Seq(Cell) /\ live' \subseteq Cell
  BY <1>0, MemorySame
<1>3. Owned'
  BY <1>0, EmptyOwned
<1>4. todo' \in Seq(SampleChunk)
  <2>1. <<>> \in Seq(SampleChunk)
    OBVIOUS
  <2>2. CASE ~ Rejected(j) /\ ~ Skipped(j)
    BY <1>1, <2>2, ChunksTyped
  <2>3. CASE Rejected(j) \/ Skipped(j)
    BY <1>1, <2>1, <2>3
  <2> QED BY <2>2, <2>3
<1>5. node \in {"select_nth", "all"} /\ todo' # <<>> => Len(todo') = 1
  BY <1>1, ChunksTyped
<1>6. stage' \in {"idle", "running"}
  BY <1>1
<1>7. BufferTypeOK'
  BY <1>0, <1>1, <1>2, <1>4, <1>6 DEF MemoryInv, BufferTypeOK, Stages
<1>8. EmptyBefore'
  BY <1>0, <1>5, <1>6 DEF MemoryInv, EmptyBefore, Owns
<1>9. RolledBack'
  BY <1>0 DEF RolledBack
<1>10. NotReported'
  BY <1>1 DEF NotReported
<1>11. FillsAll'
  <2>1. ASSUME node' \in Filling, stage' = "running" PROVE todo' \in {<<>>, FillChunks(j)}
    <3>1. node \in Filling
      BY <1>0, <2>1
    <3>2. Chunks(j) = FillChunks(j)
      BY <1>1, <3>1 DEF Chunks, Filling
    <3> QED BY <1>1, <2>1, <3>2
  <2> QED BY <1>1, <1>6, <2>1 DEF FillsAll, FillChunks
<1> QED BY <1>2, <1>3, <1>6, <1>7, <1>8, <1>9, <1>10, <1>11 DEF MemoryInv

LEMMA NextChunk ==
  ASSUME MemoryInv, todo # <<>>
  PROVE  /\ Head(todo) \in SampleChunk /\ Tail(todo) \in Seq(SampleChunk)
         /\ Len(todo) = 1 => Tail(todo) = <<>>
<1>1. todo \in Seq(SampleChunk)
  BY DEF MemoryInv, BufferTypeOK
<1>2. Head(todo) \in SampleChunk /\ Tail(todo) \in Seq(SampleChunk)
      /\ Len(Tail(todo)) = Len(todo) - 1
  BY <1>1, HeadTailProperties
<1>3. Len(todo) = 1 => Tail(todo) = <<>>
  <2>1. Len(todo) = 1 => Len(Tail(todo)) = 0
    BY <1>2
  <2> QED BY <1>2, <2>1, EmptySeq
<1> QED BY <1>2, <1>3

(* New copies leave memory for more.                                       *)
LEMMA MemoryAdded ==
  ASSUME cells \in Seq(Cell), live \subseteq Cell, MemoryLeft, NEW n \in Nat,
         \A c \in live' \cup Range(cells') :
           \/ c \in live \cup Range(cells) \cup {Raw, Null}
           \/ c[2] <= Newest + 1 + n
  PROVE  MemoryLeft'
<1>1. Newest \in Nat /\ \A c \in live \cup Range(cells) : c[2] <= Newest
  BY NewestFacts
<1>2. \A c \in live \cup Range(cells) : c[2] \in Nat
  <2>1. Range(cells) \subseteq Cell
    BY ElementOfSeq, LenProperties DEF Range
  <2> QED BY <2>1 DEF Cell
<1> DEFINE most == Newest + 1 + n
<1>3. most \in Nat
  BY <1>1
<1>4. \A c \in live' \cup Range(cells') : c[2] <= most
  <2>1. ASSUME NEW c \in live \cup Range(cells) PROVE c[2] <= most
    BY <1>1, <1>2
  <2>2. Raw[2] <= most /\ Null[2] <= most
    BY <1>1 DEF Raw, Null
  <2> HIDE DEF most
  <2>3. \A c \in live' \cup Range(cells') :
           \/ c \in live \cup Range(cells) \cup {Raw, Null}
           \/ c[2] <= most
    BY DEF most
  <2> QED BY <2>1, <2>2, <2>3
<1> HIDE DEF most
<1> QED BY <1>3, <1>4 DEF MemoryLeft

LEMMA AppendingChunk ==
  ASSUME MemoryInv, AppendChunk
  PROVE  MemoryInv' /\ stage' # "undefined"
<1> DEFINE c == Head(todo)
           v == Content(c)
           s == Copies(v)
<1>0. /\ cells \in Seq(Cell) /\ live \subseteq Cell /\ MemoryLeft /\ num \in Nat
      /\ Owned /\ stage = "running" /\ stage' = "running" /\ todo # <<>>
      /\ cells' = Put(s, c.count) /\ num' = num + c.count
      /\ live' = IF Owns THEN live \cup Range(s) ELSE live
      /\ todo' = Tail(todo) /\ Present(c)
      /\ UNCHANGED <<node, type, stage, job, result>>
  BY DEF MemoryInv, BufferTypeOK, AppendChunk, Appending
<1>1. /\ c \in SampleChunk /\ todo' \in Seq(SampleChunk)
      /\ Len(todo) = 1 => todo' = <<>>
  BY <1>0, NextChunk
<1> HIDE DEF c
<1>2. v \in Seq(Sample) /\ Len(v) = c.count /\ c.count \in Nat
  BY <1>0, <1>1, ContentFacts
<1> HIDE DEF v
<1>3. /\ s \in Seq(Cell) /\ Len(s) = c.count /\ DOMAIN s = 1 .. c.count
      /\ \A i \in 1 .. c.count :
           /\ s[i] # Null /\ s[i][2] <= Newest + 1 + c.count
           /\ Owns => s[i] \notin live \cup Range(cells)
      /\ Owns => IsInjective(s)
  BY <1>0, <1>2, CopiesFacts
<1> HIDE DEF s
<1>4. /\ cells' \in Seq(Cell)
      /\ 1 .. num + c.count \subseteq DOMAIN cells'
      /\ \A k \in 1 .. num : k \in DOMAIN cells => cells'[k] = cells[k]
      /\ \A k \in 1 .. c.count : cells'[num + k] = s[k]
      /\ Range(cells') \subseteq Range(cells) \cup Range(s) \cup {Raw}
  <2>1. cells' = Put(s, c.count) /\ Len(s) <= c.count
    BY <1>0, <1>2, <1>3
  <2> QED BY <1>0, <1>2, <1>3, <2>1, PutFacts, SMTT(30)
<1>5. Range(s) \subseteq Cell /\ \A x \in Range(s) : x[2] <= Newest + 1 + c.count
  BY <1>3, ElementOfSeq, LenProperties DEF Range
<1>6. live' \subseteq Cell /\ live' \subseteq live \cup Range(s)
  BY <1>0, <1>5
<1>7. MemoryLeft'
  BY <1>0, <1>2, <1>4, <1>5, <1>6, MemoryAdded
<1>8. Owned'
  <2>1. CASE Owns
    <3>1. /\ 1 .. num \subseteq DOMAIN cells
          /\ \A k \in 1 .. num : cells[k] \in live /\ cells[k] # Null
          /\ \A j, k \in 1 .. num : cells[j] = cells[k] => j = k
      BY <1>0, <2>1, OwnedSamples
    <3>2. ASSUME NEW k \in 1 .. num'
          PROVE  \/ k \in 1 .. num /\ cells'[k] = cells[k]
                 \/ \E i \in 1 .. c.count : k = num + i /\ cells'[k] = s[i]
      <4>1. CASE k \in 1 .. num
        BY <1>4, <3>1, <4>1
      <4>2. CASE k \notin 1 .. num
        <5>1. k - num \in 1 .. c.count /\ k = num + (k - num)
          BY <1>0, <1>2, <3>2, <4>2
        <5> QED BY <1>4, <5>1
      <4> QED BY <4>1, <4>2
    <3>3. ASSUME NEW k \in 1 .. num' PROVE cells'[k] \in live' /\ cells'[k] # Null
      <4>1. \A i \in 1 .. c.count : s[i] \in Range(s) /\ s[i] # Null
        BY <1>3 DEF Range
      <4> QED BY <1>0, <2>1, <3>1, <3>2, <4>1
    <3>4. ASSUME NEW j \in 1 .. num', NEW k \in 1 .. num', cells'[j] = cells'[k]
          PROVE  j = k
      <4>1. CASE j \in 1 .. num /\ k \in 1 .. num
        BY <1>4, <3>1, <3>4, <4>1
      <4>2. ASSUME NEW x \in 1 .. num, NEW i \in 1 .. c.count PROVE cells[x] # s[i]
        BY <1>3, <2>1, <3>1
      <4>3. CASE \E i, m \in 1 .. c.count : /\ j = num + i /\ cells'[j] = s[i]
                                            /\ k = num + m /\ cells'[k] = s[m]
        <5>1. PICK i \in 1 .. c.count, m \in 1 .. c.count :
                j = num + i /\ cells'[j] = s[i] /\ k = num + m /\ cells'[k] = s[m]
          BY <4>3
        <5>2. i = m
          BY <1>3, <2>1, <3>4, <5>1 DEF IsInjective
        <5> QED BY <5>1, <5>2
      <4> QED BY <3>2, <3>4, <4>1, <4>2, <4>3
    <3>5. 1 .. num' \subseteq DOMAIN cells'
      BY <1>0, <1>4
    <3> QED BY <3>3, <3>4, <3>5, OwnedNext
  <2>2. CASE ~ Owns
    BY <1>0, <2>2 DEF Owned, Owns
  <2> QED BY <2>1, <2>2
<1>9. BufferTypeOK'
  BY <1>0, <1>1, <1>2, <1>4, <1>6 DEF MemoryInv, BufferTypeOK
<1>10. EmptyBefore'
  BY <1>0, <1>1 DEF MemoryInv, EmptyBefore, Owns
<1>11. result' = "none"
  BY <1>0 DEF MemoryInv, NotReported
<1>12. RolledBack' /\ NotReported'
  BY <1>11 DEF RolledBack, NotReported
<1>13. node \notin Filling
  BY DEF AppendChunk, Appending
<1>14. FillsAll'
  BY <1>0, <1>13 DEF FillsAll
<1> QED BY <1>0, <1>7, <1>8, <1>9, <1>10, <1>12, <1>14 DEF MemoryInv

(* A function that gives up and leaves the buffer as it is                 *)
LEMMA Failing ==
  ASSUME MemoryInv, stage # "undefined", UNCHANGED arrayVars, NEW back \in BOOLEAN, Fail(back),
         ~ back /\ Owns => num = 0
  PROVE  MemoryInv' /\ stage' # "undefined"
<1>1. /\ UNCHANGED <<node, type, job, cells, num, live>> /\ todo' = <<>>
      /\ \/ stage' = "rollback" /\ result' = "none"
         \/ stage' = "idle" /\ result' = "failed" /\ ~ back
  BY DEF Fail, arrayVars
<1>2. Owned'
  BY <1>1, OwnedStays DEF MemoryInv
<1>3. MemoryLeft'
  BY <1>1 DEF MemoryInv, MemoryLeft
<1>4. BufferTypeOK'
  BY <1>1 DEF MemoryInv, BufferTypeOK, Stages
<1>5. EmptyBefore' /\ RolledBack' /\ NotReported' /\ FillsAll'
  BY <1>1 DEF MemoryInv, EmptyBefore, RolledBack, NotReported, FillsAll, Owns
<1> QED BY <1>1, <1>2, <1>3, <1>4, <1>5 DEF MemoryInv

LEMMA FailingEmpty ==
  ASSUME MemoryInv, Appending, node \in {"select_nth", "all"}
  PROVE  num = 0
BY DEF MemoryInv, EmptyBefore, Appending

LEMMA MissingSamples ==
  ASSUME MemoryInv, NotPresent
  PROVE  MemoryInv' /\ stage' # "undefined"
<1> DEFINE back == node # "select_nth"
<1>1. /\ back \in BOOLEAN /\ Fail(back) /\ UNCHANGED arrayVars
      /\ stage # "undefined" /\ Appending
  BY DEF NotPresent, Appending
<1>2. ~ back => num = 0
  BY <1>1, FailingEmpty
<1> HIDE DEF back
<1> QED BY <1>1, <1>2, Failing

LEMMA MissingMemory ==
  ASSUME MemoryInv, NotReserved
  PROVE  MemoryInv' /\ stage' # "undefined"
<1> DEFINE back == node # "all"
<1>1. /\ back \in BOOLEAN /\ Fail(back) /\ UNCHANGED arrayVars
      /\ stage # "undefined" /\ Appending
  BY DEF NotReserved, Appending
<1>2. ~ back => num = 0
  BY <1>1, FailingEmpty
<1> HIDE DEF back
<1> QED BY <1>1, <1>2, Failing

LEMMA MissingSpace ==
  ASSUME MemoryInv, NotResized
  PROVE  MemoryInv' /\ stage' # "undefined"
<1>1. /\ Fail(FALSE) /\ UNCHANGED arrayVars
      /\ stage # "undefined" /\ ~ Owns
  BY DEF NotResized, Sizing, MemoryInv, EmptyBefore
<1> QED BY <1>1, Failing

LEMMA Finishing ==
  ASSUME MemoryInv, Finish
  PROVE  MemoryInv' /\ stage' # "undefined"
<1>1. /\ UNCHANGED <<node, type, job, todo, cells, num, live>>
      /\ stage = "running" /\ stage' = "idle" /\ result' = "ok"
  BY DEF Finish, arrayVars
<1>2. Owned'
  BY <1>1, OwnedStays DEF MemoryInv
<1>3. MemoryLeft'
  BY <1>1 DEF MemoryInv, MemoryLeft
<1>4. BufferTypeOK'
  BY <1>1 DEF MemoryInv, BufferTypeOK, Stages
<1>5. EmptyBefore' /\ RolledBack' /\ NotReported' /\ FillsAll'
  BY <1>1 DEF MemoryInv, EmptyBefore, RolledBack, NotReported, FillsAll, Owns
<1> QED BY <1>1, <1>2, <1>3, <1>4, <1>5 DEF MemoryInv

LEMMA RollingBack ==
  ASSUME MemoryInv, Rollback
  PROVE  MemoryInv'
<1>1. /\ UNCHANGED <<node, type, job, todo>> /\ result' = "failed"
      /\ stage' \in {"idle", "undefined"} /\ live' \subseteq live
      /\ num' = IF Owns THEN 0 ELSE num
      /\ cells' = <<>>
  BY DEF Rollback, Empty, Destroy, CountOfEmptied
<1>2. MemoryLeft' /\ cells' \in Seq(Cell) /\ live' \subseteq Cell
  BY <1>1, MemorySame
<1>3. Owns' = Owns
  BY <1>1 DEF Owns
<1>4. Owned'
  <2>1. CASE Owns
    BY <1>1, <2>1, EmptyOwned
  <2>2. CASE ~ Owns
    BY <1>3, <2>2 DEF Owned
  <2> QED BY <2>1, <2>2
<1>5. BufferTypeOK'
  BY <1>1, <1>2 DEF MemoryInv, BufferTypeOK, Stages
<1>6. EmptyBefore' /\ RolledBack' /\ NotReported' /\ FillsAll'
  BY <1>1, <1>3 DEF MemoryInv, EmptyBefore, RolledBack, NotReported, FillsAll
<1> QED BY <1>2, <1>4, <1>5, <1>6 DEF MemoryInv

(* Copies that were made before one failed are in the array, but not among *)
(* the valid samples.                                                      *)
LEMMA CopyFailing ==
  ASSUME MemoryInv, NotCopied
  PROVE  MemoryInv' /\ stage' # "undefined"
<1> DEFINE c == Head(todo)
<1>0. /\ cells \in Seq(Cell) /\ live \subseteq Cell /\ MemoryLeft /\ num \in Nat
      /\ Owned /\ stage = "running" /\ todo # <<>> /\ Present(c)
      /\ node \notin Filling
      /\ UNCHANGED <<node, type, job, live>> /\ todo' = <<>>
      /\ stage' = "rollback" /\ result' = "none"
  BY DEF MemoryInv, BufferTypeOK, NotCopied, Appending, Fail
<1>1. PICK i \in 1 .. c.count :
        /\ cells' = Put(Append(Copies(SubSeq(Content(c), 1, i - 1)), Null), c.count)
        /\ num' = num
  BY DEF NotCopied, Uncounted
<1>2. c \in SampleChunk
  BY <1>0, NextChunk
<1> HIDE DEF c
<1> DEFINE w == Content(c)
           v == SubSeq(w, 1, i - 1)
           t == Copies(v)
           s == Append(t, Null)
<1>3. w \in Seq(Sample) /\ Len(w) = c.count /\ c.count \in Nat
  BY <1>0, <1>2, ContentFacts
<1>4. v \in Seq(Sample) /\ Len(v) = i - 1
  <2> HIDE DEF w
  <2>1. i \in Nat /\ 1 <= i /\ i <= c.count
    BY <1>3
  <2>2. \A k \in 1 .. i - 1 : w[k] \in Sample
    <3>1. \A k \in 1 .. i - 1 : k \in 1 .. Len(w)
      BY <1>3, <2>1
    <3> QED BY <1>3, <3>1, ElementOfSeq
  <2>3. SubSeq(w, 1, i - 1) \in Seq(Sample)
        /\ Len(SubSeq(w, 1, i - 1)) = IF 1 <= i - 1 THEN i - 1 - 1 + 1 ELSE 0
    BY <2>1, <2>2, SubSeqProperties
  <2> QED BY <2>1, <2>3
<1> HIDE DEF v
<1>5. /\ t \in Seq(Cell) /\ Len(t) = i - 1 /\ DOMAIN t = 1 .. i - 1
      /\ \A k \in 1 .. i - 1 : t[k][2] <= Newest + 1 + (i - 1)
      /\ i - 1 \in Nat
  BY <1>0, <1>4, CopiesFacts
<1> HIDE DEF t
<1>6. /\ s \in Seq(Cell) /\ Len(s) <= c.count
      /\ Range(s) = Range(t) \cup {Null}
  <2>1. Null \in Cell
    BY DEF Null, Cell
  <2>2. Range(s) = Range(t) \cup {Null} /\ s \in Seq(Cell) /\ Len(s) = Len(t) + 1
    BY <1>5, <2>1, Appended
  <2>3. Len(s) <= c.count
    BY <1>3, <1>5, <2>2
  <2> QED BY <2>2, <2>3
<1> HIDE DEF s
<1>7. /\ cells' \in Seq(Cell)
      /\ 1 .. num + c.count \subseteq DOMAIN cells'
      /\ \A k \in 1 .. num : k \in DOMAIN cells => cells'[k] = cells[k]
      /\ Range(cells') \subseteq Range(cells) \cup Range(s) \cup {Raw}
  <2>1. cells' = Put(s, c.count)
    BY <1>1 DEF s, t, v
  <2> QED BY <1>0, <1>3, <1>6, <2>1, PutFacts
<1>8. MemoryLeft'
  <2>1. \A x \in Range(t) : x[2] <= Newest + 1 + (i - 1)
    BY <1>5 DEF Range
  <2>2. ASSUME NEW x \in live' \cup Range(cells')
        PROVE  \/ x \in live \cup Range(cells) \cup {Raw, Null}
               \/ x[2] <= Newest + 1 + (i - 1)
    BY <1>0, <1>6, <1>7, <2>1
  <2> QED BY <1>0, <1>5, <2>2, MemoryAdded
<1>9. Owned'
  <2>1. \A k \in 1 .. num : k \in DOMAIN cells'
    BY <1>0, <1>3, <1>7, SMTT(30)
  <2> QED BY <1>0, <1>1, <1>7, <2>1, OwnedStays
<1>10. BufferTypeOK'
  BY <1>0, <1>1, <1>7 DEF MemoryInv, BufferTypeOK, Stages
<1>11. EmptyBefore' /\ RolledBack' /\ NotReported' /\ FillsAll'
  BY <1>0, <1>1 DEF MemoryInv, EmptyBefore, RolledBack, NotReported, FillsAll, Owns
<1> QED BY <1>0, <1>8, <1>9, <1>10, <1>11 DEF MemoryInv

LEMMA Resizing ==
  ASSUME MemoryInv, Resized
  PROVE  MemoryInv' /\ stage' # "undefined"
<1>0. /\ cells \in Seq(Cell) /\ live \subseteq Cell /\ MemoryLeft
      /\ stage = "running" /\ todo # <<>> /\ node \in Filling /\ ~ Owns
      /\ cells' = Realloc(Head(todo).count) /\ stage' = "filling"
      /\ todo = FillChunks(job) /\ job \in Jobs
      /\ UNCHANGED <<node, type, num, live, job, todo, result>>
      /\ result = "none"
  BY DEF MemoryInv, BufferTypeOK, Resized, Sizing, EmptyBefore, FillsAll, NotReported
<1> DEFINE n == Len(job.a)
           l == Len(cells)
<1>1. n \in Nat /\ Head(todo).count = n
  BY <1>0, JobTyped DEF FillChunks, Whole, Chunk
<1>2. l \in Nat /\ DOMAIN cells = 1 .. l /\ Raw \in Cell /\ \A k \in 1 .. l : cells[k] \in Cell
  BY <1>0, LenProperties, ElementOfSeq DEF Raw, Cell
<1>3. cells' = [k \in 1 .. n |-> IF k \in DOMAIN cells THEN cells[k] ELSE Raw]
  BY <1>0, <1>1 DEF Realloc
<1> HIDE DEF n, l
<1>4. cells' \in [1 .. n -> Cell]
  BY <1>2, <1>3
<1>5. cells' \in Seq(Cell) /\ Len(cells') = n /\ DOMAIN cells' = 1 .. n
  BY <1>1, <1>4, SequenceOf
<1>6. Range(cells') \subseteq Range(cells) \cup {Raw}
  BY <1>3, <1>5 DEF Range
<1>7. MemoryLeft'
  BY <1>0, <1>6, MemoryStays
<1>8. Owned'
  BY <1>0 DEF Owned, Owns
<1>9. BufferTypeOK'
  BY <1>0, <1>5 DEF MemoryInv, BufferTypeOK, Stages
<1>10. EmptyBefore' /\ RolledBack' /\ NotReported'
  BY <1>0 DEF MemoryInv, EmptyBefore, RolledBack, NotReported, Owns
<1>11. FillsAll'
  BY <1>0, <1>5 DEF FillsAll, n
<1> QED BY <1>0, <1>7, <1>8, <1>9, <1>10, <1>11 DEF MemoryInv

LEMMA FillingIt ==
  ASSUME MemoryInv, Filled
  PROVE  MemoryInv' /\ stage' # "undefined"
<1> DEFINE f == Head(todo).from
<1>0. /\ cells \in Seq(Cell) /\ live \subseteq Cell /\ MemoryLeft
      /\ stage = "filling" /\ todo # <<>> /\ node \in Filling /\ ~ Owns
      /\ todo = FillChunks(job) /\ job \in Jobs
      /\ Len(cells) = Len(job.a)
      /\ num \in Nat
  BY DEF MemoryInv, BufferTypeOK, Filled, EmptyBefore, FillsAll
<1>1. /\ f = job.a /\ Tail(todo) = <<>>
  BY <1>0 DEF FillChunks, Whole, Chunk
<1> DEFINE n == Len(cells)
<1>2. /\ n \in Nat /\ DOMAIN cells = 1 .. n /\ Len(f) = n /\ DOMAIN f = 1 .. n
      /\ \A k \in 1 .. n : cells[k] \in Cell /\ f[k] \in Sample
      /\ \A k \in 1 .. n : <<f[k], 1>> \in Cell
  <2>1. f \in Seq(Sample) /\ n = Len(f)
    BY <1>0, <1>1, JobTyped
  <2>2. /\ n \in Nat /\ DOMAIN cells = 1 .. n /\ DOMAIN f = 1 .. n
        /\ \A k \in 1 .. n : cells[k] \in Cell /\ f[k] \in Sample
    <3> HIDE DEF f
    <3> QED BY <1>0, <2>1, LenProperties, ElementOfSeq
  <2> QED BY <2>1, <2>2 DEF Cell, Sample
<1> HIDE DEF f, n
<1>3. /\ UNCHANGED <<node, type, live, job>> /\ todo' = <<>> /\ num' \in Nat
      /\ stage' \in {"running", "idle"}
      /\ stage' = "running" => result' = "none"
      /\ result' = "failed" => stage' = "idle"
      /\ \/ cells' = [k \in DOMAIN cells |-> <<f[k], 1>>]
         \/ \E i \in DOMAIN f :
              cells' = [k \in DOMAIN cells |-> IF k < i THEN <<f[k], 1>> ELSE cells[k]]
  <2>1. \/ /\ cells' = [i \in DOMAIN cells |-> <<f[i], 1>>]
           /\ num' = Len(f)
           /\ stage' = "running" /\ todo' = Tail(todo)
           /\ UNCHANGED <<node, type, live, job, starved, result, runs>>
        \/ \E i \in DOMAIN f :
            /\ cells' = [k \in DOMAIN cells |-> IF k < i THEN <<f[k], 1>> ELSE cells[k]]
            /\ Fail(FALSE)
            /\ UNCHANGED <<num, live, starved>>
    BY DEF Filled, f
  <2>2. result = "none"
    BY <1>0 DEF MemoryInv, NotReported
  <2> QED BY <1>0, <1>1, <1>2, <2>1, <2>2 DEF Fail
<1>4. ASSUME NEW k \in 1 .. n
      PROVE  cells'[k] \in Cell /\ (cells'[k][2] = 1 \/ cells'[k] = cells[k])
  BY <1>2, <1>3
<1>5. cells' \in [1 .. n -> Cell]
  <2>1. cells' = [k \in 1 .. n |-> cells'[k]]
    BY <1>2, <1>3
  <2> QED BY <1>4, <2>1
<1>6. cells' \in Seq(Cell) /\ Len(cells') = n /\ DOMAIN cells' = 1 .. n
  BY <1>2, <1>5, SequenceOf
<1>7. MemoryLeft'
  <2>1. Newest \in Nat
    BY <1>0, NewestFacts
  <2>2. ASSUME NEW x \in live' \cup Range(cells')
        PROVE  \/ x \in live \cup Range(cells) \cup {Raw, Null}
               \/ x[2] <= Newest + 1 + 0
    <3>1. CASE x \in live'
      BY <1>3, <3>1
    <3>2. CASE x \in Range(cells')
      <4>1. PICK k \in 1 .. n : x = cells'[k]
        BY <1>6, <3>2 DEF Range
      <4>2. CASE x[2] = 1
        BY <2>1, <4>2
      <4>3. CASE x = cells[k]
        BY <1>2, <4>3 DEF Range
      <4> QED BY <1>4, <4>1, <4>2, <4>3
    <3> QED BY <2>2, <3>1, <3>2
  <2> QED BY <1>0, <2>2, MemoryAdded
<1>8. Owned'
  BY <1>0, <1>3 DEF Owned, Owns
<1>9. BufferTypeOK'
  BY <1>0, <1>3, <1>6 DEF MemoryInv, BufferTypeOK, Stages
<1>10. EmptyBefore' /\ RolledBack' /\ NotReported' /\ FillsAll'
  BY <1>0, <1>3 DEF MemoryInv, EmptyBefore, RolledBack, NotReported, FillsAll, Owns
<1> QED BY <1>3, <1>7, <1>8, <1>9, <1>10 DEF MemoryInv

LEMMA BufferStart ==
  ASSUME BufferInit
  PROVE  MemoryInv
<1>1. /\ cells = <<>> /\ num = 0 /\ live = {} /\ todo = <<>>
      /\ stage = "idle" /\ result = "none"
      /\ type \in Owning \cup Plain /\ (node \in Filling => ~ Owns)
  BY DEF BufferInit
<1>2. job \in Jobs /\ job.kind = node
  <2>1. \E j \in Jobs : j.kind = node
    BY DEF BufferInit
  <2>2. job = CHOOSE j \in Jobs : j.kind = node
    BY DEF BufferInit
  <2> QED BY <2>1, <2>2
<1>3. node \in Kinds
  BY <1>2, BufferAssumption
<1>4. BufferTypeOK
  <2>1. <<>> \in Seq(Cell) /\ <<>> \in Seq(SampleChunk)
    OBVIOUS
  <2> QED BY <1>1, <1>2, <1>3, <2>1 DEF BufferTypeOK, Stages
<1>5. MemoryLeft
  BY <1>1 DEF MemoryLeft, Range
<1>6. Owned
  BY <1>1 DEF Owned, Destructible
<1>7. EmptyBefore /\ RolledBack /\ NotReported /\ FillsAll
  BY <1>1 DEF EmptyBefore, RolledBack, NotReported, FillsAll
<1> QED BY <1>4, <1>5, <1>6, <1>7 DEF MemoryInv

LEMMA MemoryStep ==
  ASSUME MemoryInv, BufferNext
  PROVE  MemoryInv' /\ (stage' = "undefined" => stage = "rollback")
<1>1. CASE Reset
  BY <1>1, Resetting
<1>2. CASE Start
  BY <1>2, Starting
<1>3. CASE AppendChunk
  BY <1>3, AppendingChunk
<1>4. CASE NotPresent
  BY <1>4, MissingSamples
<1>5. CASE NotReserved
  BY <1>5, MissingMemory
<1>6. CASE NotCopied
  BY <1>6, CopyFailing
<1>7. CASE Resized
  BY <1>7, Resizing
<1>8. CASE NotResized
  BY <1>8, MissingSpace
<1>9. CASE Filled
  BY <1>9, FillingIt
<1>10. CASE Rollback
  BY <1>10, RollingBack DEF Rollback
<1>11. CASE Finish
  BY <1>11, Finishing
<1>12. CASE ChangeType
  BY <1>12, ChangingType
<1>13. CASE DestroyBuffer
  BY <1>13, DestroyingBuffer
<1> QED BY <1>1, <1>2, <1>3, <1>4, <1>5, <1>6, <1>7, <1>8, <1>9, <1>10, <1>11, <1>12, <1>13
        DEF BufferNext

LEMMA MemorySteady ==
  ASSUME MemoryInv, UNCHANGED bufferVars
  PROVE  MemoryInv'
<1>1. UNCHANGED <<node, type, cells, num, live, stage, job, todo, starved, result, runs>>
  BY DEF bufferVars, arrayVars
<1>2. BufferTypeOK' /\ MemoryLeft'
  BY <1>1 DEF MemoryInv, BufferTypeOK, MemoryLeft
<1>3. Owned'
  BY <1>1 DEF MemoryInv, Owned, Destructible, Owns
<1>4. EmptyBefore' /\ RolledBack' /\ NotReported' /\ FillsAll'
  BY <1>1 DEF MemoryInv, EmptyBefore, RolledBack, NotReported, FillsAll, Owns
<1> QED BY <1>2, <1>3, <1>4 DEF MemoryInv

(* The samples of a buffer that own memory are allocated, each once; no    *)
(* process function that fails leaves any, wherever it fails; and nothing  *)
(* but the shrinking on an error path frees what it must not: for all      *)
(* inputs, kinds of nodes and sequences of calls (am_dfg_buffer_resize).   *)
THEOREM MemoryCorrect == BufferSpec => MemoryRight
<1>1. BufferInit => MemoryInv
  BY BufferStart
<1>2. MemoryInv /\ [BufferNext]_bufferVars => MemoryInv'
  BY MemoryStep, MemorySteady
<1>3. MemoryInv /\ [BufferNext]_bufferVars
        => [stage' = "undefined" => stage = "rollback"]_bufferVars
  BY MemoryStep
<1>4. MemoryInv => Owned /\ RolledBack
  BY DEF MemoryInv
<1> QED BY <1>1, <1>2, <1>3, <1>4, PTL
        DEF BufferSpec, MemoryRight, OnlyRollbackUndefined

-----------------------------------------------------------------------------
(* What the process functions deliver                                      *)

Parts(j) == IF Skipped(j) THEN <<>> ELSE Chunks(j)

(* The number of samples in the first m chunks                             *)
Before(j, m) ==
  CASE j.kind = "merge" -> IF m = 0 THEN 0
                           ELSE IF m = 1 /\ j.a # <<>> THEN Len(j.a)
                           ELSE Len(j.a) + Len(j.b)
    [] j.kind = "all" -> IF m = 0 THEN 0 ELSE Len(IF j.ctrl[1] THEN j.a ELSE j.b)
    [] OTHER -> m

(* The m-th chunk continues what is expected where the ones before it      *)
(* ended.                                                                  *)
PartRight(j, m) ==
  LET c == Parts(j)[m] IN
    /\ Before(j, m - 1) \in Nat
    /\ Before(j, m) = Before(j, m - 1) + c.count
    /\ Present(c) => \A k \in 1 .. c.count :
                       Expected(j)[Before(j, m - 1) + k] = c.from[c.at + k - 1]
    /\ c.count = 0 => j.kind = "all"
    /\ ~ Present(c) => ~ Sufficient(j) \/ (j.kind = "select_nth" /\ j.n >= 0)

PartsRight(j) ==
  /\ Parts(j) \in Seq(SampleChunk)
  /\ Before(j, 0) = 0
  /\ Before(j, Len(Parts(j))) = Len(Expected(j))
  /\ \A m \in 1 .. Len(Parts(j)) : PartRight(j, m)
  /\ (\A m \in 1 .. Len(Parts(j)) : Present(Parts(j)[m])) => Sufficient(j)

LEMMA WholePresent ==
  ASSUME NEW s \in Seq(Sample)
  PROVE  /\ Present(Whole(s))
         /\ Whole(s).from = s /\ Whole(s).at = 1 /\ Whole(s).count = Len(s)
         /\ Whole(s) = Whole(<<>>) <=> s = <<>>
<1>1. Len(s) \in Nat
  BY LenProperties
<1>2. Whole(s) = [from |-> s, at |-> 1, count |-> Len(s)]
  BY DEF Whole, Chunk
<1>3. Whole(<<>>) = [from |-> <<>>, at |-> 1, count |-> Len(<<>>)]
  BY DEF Whole, Chunk
<1>4. Whole(s) = Whole(<<>>) => s = <<>>
  <2>1. Whole(s).from = s /\ Whole(<<>>).from = <<>>
    BY <1>2, <1>3
  <2> QED BY <2>1
<1> QED BY <1>1, <1>2, <1>4 DEF Present

LEMMA AppendedTo ==
  ASSUME NEW x, NEW y
  PROVE  Append(<<>>, y) = <<y>> /\ Append(<<x>>, y) = <<x, y>>
<1> DEFINE s == <<x>>
           t == <<x, y>>
           u == Append(s, y)
<1>1. s \in Seq({x, y}) /\ t \in Seq({x, y}) /\ Len(s) = 1 /\ Len(t) = 2
      /\ s[1] = x /\ t[1] = x /\ t[2] = y
  OBVIOUS
<1> HIDE DEF s, t
<1>2. u \in Seq({x, y}) /\ Len(u) = 2 /\ u[1] = x /\ u[2] = y
  <2> DEFINE S == {x, y}
  <2>1. s \in Seq(S) /\ y \in S /\ Len(s) = 1 /\ s[1] = x
    BY <1>1
  <2> HIDE DEF S
  <2>2. /\ u \in Seq(S) /\ Len(u) = Len(s) + 1
        /\ \A i \in 1 .. Len(s) : u[i] = s[i]
        /\ u[Len(s) + 1] = y
    <3>1. \A q \in Seq(S) : \A e \in S :
            /\ Append(q, e) \in Seq(S) /\ Len(Append(q, e)) = Len(q) + 1
            /\ \A i \in 1 .. Len(q) : Append(q, e)[i] = q[i]
            /\ Append(q, e)[Len(q) + 1] = e
      BY AppendProperties
    <3> QED BY <2>1, <3>1 DEF u
  <2> QED BY <2>1, <2>2 DEF S
<1> HIDE DEF u
<1>3. u = t
  <2>1. \A i \in 1 .. Len(u) : u[i] = t[i]
    BY <1>1, <1>2
  <2> QED BY <1>1, <1>2, <2>1, SeqEqual
<1>4. Append(<<>>, y) = <<y>>
  OBVIOUS
<1> QED BY <1>3, <1>4 DEF u, s, t

(* The two inputs, without those that are empty                            *)
LEMMA MergedInputs ==
  ASSUME NEW j \in Jobs
  PROVE  MergeChunks(j) = IF j.a = <<>> THEN IF j.b = <<>> THEN <<>> ELSE <<Whole(j.b)>>
                          ELSE IF j.b = <<>> THEN <<Whole(j.a)>>
                          ELSE <<Whole(j.a), Whole(j.b)>>
<1> DEFINE s == <<Whole(j.a), Whole(j.b)>>
           gone == {Whole(<<>>)}
           R == RemainingIn(s, gone)
<1>1. Len(s) = 2 /\ s[1] = Whole(j.a) /\ s[2] = Whole(j.b)
  OBVIOUS
<1>2. (s[1] \in gone <=> j.a = <<>>) /\ (s[2] \in gone <=> j.b = <<>>)
  BY <1>1, JobTyped, WholePresent
<1>3. MergeChunks(j) = R[2]
  BY <1>1 DEF MergeChunks, Remaining
<1> HIDE DEF s, gone, R
<1>4. R = [k \in 0 .. 2 |-> RemainingStep(s, gone, R, k)]
  BY <1>1, RemainingDef DEF R
<1>5. R[0] = <<>>
  BY <1>4 DEF RemainingStep
<1>6. R[1] = IF j.a = <<>> THEN <<>> ELSE <<Whole(j.a)>>
  <2>1. R[1] = IF s[1] \in gone THEN R[0] ELSE Append(R[0], s[1])
    <3>1. 1 \in 0 .. 2 /\ 1 # 0 /\ 1 - 1 = 0
      OBVIOUS
    <3>2. R[1] = RemainingStep(s, gone, R, 1)
      BY <1>4, <3>1
    <3> QED BY <3>1, <3>2 DEF RemainingStep
  <2>2. Append(<<>>, s[1]) = <<s[1]>>
    OBVIOUS
  <2> QED BY <1>1, <1>2, <1>5, <2>1, <2>2
<1>7. R[2] = IF s[2] \in gone THEN R[1] ELSE Append(R[1], s[2])
  <2>1. 2 \in 0 .. 2 /\ 2 # 0 /\ 2 - 1 = 1
    OBVIOUS
  <2>2. R[2] = RemainingStep(s, gone, R, 2)
    BY <1>4, <2>1
  <2> QED BY <2>1, <2>2 DEF RemainingStep
<1>8. Append(<<>>, Whole(j.b)) = <<Whole(j.b)>>
      /\ Append(<<Whole(j.a)>>, Whole(j.b)) = <<Whole(j.a), Whole(j.b)>>
  BY AppendedTo
<1> QED BY <1>1, <1>2, <1>3, <1>6, <1>7, <1>8

LEMMA MergeRight ==
  ASSUME NEW j \in Jobs, j.kind = "merge"
  PROVE  PartsRight(j)
<1> DEFINE a == j.a
           b == j.b
           P == Parts(j)
           X == Expected(j)
<1>1. /\ a \in Seq(Sample) /\ b \in Seq(Sample) /\ Len(a) \in Nat /\ Len(b) \in Nat
      /\ a = <<>> <=> Len(a) = 0
      /\ b = <<>> <=> Len(b) = 0
      /\ ~ Rejected(j) /\ ~ Skipped(j) /\ Sufficient(j)
      /\ X = a \o b
  <2>1. a \in Seq(Sample) /\ b \in Seq(Sample) /\ Len(a) \in Nat /\ Len(b) \in Nat
    BY JobTyped
  <2>2. ~ Rejected(j) /\ ~ Skipped(j) /\ Sufficient(j)
    BY DEF Rejected, Skipped, Sufficient
  <2>3. X = a \o b
    BY <2>2 DEF Expected, Filling
  <2> QED BY <2>1, <2>2, <2>3, EmptySeq
<1>2. P = MergeChunks(j) /\ P \in Seq(SampleChunk)
  BY <1>1, ChunksTyped DEF Parts, Chunks, Filling
<1>3. /\ Len(X) = Len(a) + Len(b)
      /\ \A k \in 1 .. Len(a) : X[k] = a[k]
      /\ \A k \in 1 .. Len(b) : X[Len(a) + k] = b[k]
  <2> HIDE DEF a, b
  <2>1. Len(X) = Len(a) + Len(b)
        /\ \A k \in 1 .. Len(a) + Len(b) : X[k] = IF k <= Len(a) THEN a[k] ELSE b[k - Len(a)]
    BY <1>1, ConcatProperties
  <2> HIDE DEF X
  <2>2. ASSUME NEW k \in 1 .. Len(b) PROVE X[Len(a) + k] = b[k]
    <3>1. Len(a) + k \in 1 .. Len(a) + Len(b) /\ ~ (Len(a) + k <= Len(a))
          /\ Len(a) + k - Len(a) = k
      BY <1>1
    <3> QED BY <2>1, <3>1
  <2> QED BY <1>1, <2>1, <2>2
<1>4. \A m : Before(j, m) = IF m = 0 THEN 0
                            ELSE IF m = 1 /\ a # <<>> THEN Len(a)
                            ELSE Len(a) + Len(b)
  BY DEF Before
<1>5. P = IF a = <<>> THEN IF b = <<>> THEN <<>> ELSE <<Whole(b)>>
          ELSE IF b = <<>> THEN <<Whole(a)>> ELSE <<Whole(a), Whole(b)>>
  BY <1>2, MergedInputs
<1>6. /\ Whole(a).from = a /\ Whole(a).at = 1 /\ Whole(a).count = Len(a) /\ Present(Whole(a))
      /\ Whole(b).from = b /\ Whole(b).at = 1 /\ Whole(b).count = Len(b) /\ Present(Whole(b))
  BY <1>1, WholePresent
<1>7. Len(P) = IF a = <<>> THEN IF b = <<>> THEN 0 ELSE 1 ELSE IF b = <<>> THEN 1 ELSE 2
  BY <1>5
<1> HIDE DEF a, b, P, X
<1>8. Before(j, 0) = 0 /\ Before(j, Len(P)) = Len(X)
  BY <1>1, <1>3, <1>4, <1>7
<1>9. ASSUME NEW m \in 1 .. Len(P) PROVE PartRight(j, m)
  <2> DEFINE B(k) == Before(j, k)
             c == P[m]
  <2>1. /\ m - 1 \in 0 .. 1 /\ m \in 1 .. 2
    BY <1>1, <1>7
  <2>2. CASE m = 1 /\ a # <<>>
    <3>1. c = Whole(a) /\ B(m - 1) = 0 /\ B(m) = Len(a)
      BY <1>4, <1>5, <2>2
    <3>2. \A k \in 1 .. Len(a) : X[0 + k] = a[1 + k - 1]
      BY <1>1, <1>3
    <3> QED BY <1>1, <1>6, <2>2, <3>1, <3>2 DEF PartRight, P, X
  <2>3. CASE ~ (m = 1 /\ a # <<>>)
    <3>1. c = Whole(b) /\ B(m - 1) = Len(a) /\ B(m) = Len(a) + Len(b) /\ b # <<>>
      <4>1. CASE a = <<>>
        <5>1. m = 1 /\ b # <<>> /\ P = <<Whole(b)>>
          BY <1>5, <1>7, <2>1, <2>3, <4>1
        <5>2. c = Whole(b)
          BY <5>1
        <5>3. B(m - 1) = 0 /\ B(m) = Len(a) + Len(b)
          BY <1>4, <2>3, <5>1
        <5> QED BY <1>1, <4>1, <5>1, <5>2, <5>3
      <4>2. CASE a # <<>>
        <5>1. m = 2 /\ b # <<>> /\ P = <<Whole(a), Whole(b)>>
          BY <1>5, <1>7, <2>1, <2>3, <4>2
        <5>2. c = Whole(b)
          BY <5>1
        <5>3. B(m - 1) = Len(a) /\ B(m) = Len(a) + Len(b)
          BY <1>4, <4>2, <5>1
        <5> QED BY <5>1, <5>2, <5>3
      <4> QED BY <4>1, <4>2
    <3>2. \A k \in 1 .. Len(b) : X[Len(a) + k] = b[1 + k - 1]
      BY <1>1, <1>3
    <3> QED BY <1>1, <1>6, <3>1, <3>2 DEF PartRight, P, X
  <2> QED BY <2>2, <2>3
<1> QED BY <1>1, <1>2, <1>8, <1>9 DEF PartsRight, P, X

LEMMA AllRight ==
  ASSUME NEW j \in Jobs, j.kind = "all", ~ Rejected(j)
  PROVE  PartsRight(j)
<1>1. /\ j.a \in Seq(Sample) /\ j.b \in Seq(Sample) /\ j.ctrl \in Seq(BOOLEAN)
      /\ Sufficient(j)
  BY JobTyped DEF Rejected, Sufficient
<1>2. CASE Skipped(j)
  <2>1. Parts(j) = <<>> /\ Expected(j) = <<>> /\ Before(j, 0) = 0
    BY <1>2 DEF Parts, Expected, Before
  <2>2. Len(<<>>) = 0 /\ <<>> \in Seq(SampleChunk) /\ 1 .. 0 = {}
    OBVIOUS
  <2> QED BY <1>1, <2>1, <2>2 DEF PartsRight
<1>3. CASE ~ Skipped(j)
  <2> DEFINE s == IF j.ctrl[1] THEN j.a ELSE j.b
  <2>1. /\ Parts(j) = <<Whole(s)>> /\ Expected(j) = s
        /\ Before(j, 0) = 0 /\ Before(j, 1) = Len(s)
    BY <1>3 DEF Parts, Chunks, AllChunks, Expected, Before, Filling
  <2>2. s \in Seq(Sample)
    BY <1>1
  <2> HIDE DEF s
  <2>3. /\ Present(Whole(s)) /\ Whole(s).from = s /\ Whole(s).at = 1
        /\ Whole(s).count = Len(s) /\ Len(s) \in Nat
        /\ <<Whole(s)>> \in Seq(SampleChunk)
    BY <2>2, WholePresent, WholeTyped, LenProperties
  <2>4. Len(Parts(j)) = 1 /\ Parts(j)[1] = Whole(s)
    BY <2>1
  <2>5. PartRight(j, 1)
    <3>1. \A k \in 1 .. Len(s) : s[0 + k] = s[1 + k - 1]
      BY <2>3
    <3> QED BY <2>1, <2>3, <2>4, <3>1 DEF PartRight
  <2> QED BY <1>1, <2>1, <2>3, <2>4, <2>5 DEF PartsRight
<1> QED BY <1>2, <1>3

LEMMA WriteRight ==
  ASSUME NEW j \in Jobs, j.kind = "write"
  PROVE  PartsRight(j)
<1> DEFINE n == Len(j.a)
           P == Parts(j)
<1>1. /\ j.a \in Seq(Sample) /\ n \in Nat /\ DOMAIN j.a = 1 .. n
      /\ ~ Rejected(j) /\ ~ Skipped(j) /\ Sufficient(j)
  BY JobTyped DEF Rejected, Skipped, Sufficient
<1>2. P = WriteChunks(j) /\ Expected(j) = j.a /\ \A m : Before(j, m) = m
  BY <1>1 DEF Parts, Chunks, Expected, Before, Filling
<1>3. P = [i \in 1 .. n |-> Chunk(j.a, i, 1)]
  BY <1>1, <1>2 DEF WriteChunks
<1>4. P \in Seq(SampleChunk)
  BY <1>1, ChunksTyped DEF Parts
<1>5. DOMAIN P = 1 .. Len(P) /\ Len(P) = n
  <2>1. DOMAIN P = 1 .. n
    BY <1>3
  <2> HIDE DEF P
  <2>2. DOMAIN P = 1 .. Len(P) /\ Len(P) \in Nat
    BY <1>4, LenProperties
  <2> QED BY <1>1, <2>1, <2>2
<1>6. ASSUME NEW m \in 1 .. n PROVE PartRight(j, m)
  <2>1. P[m].from = j.a /\ P[m].at = m /\ P[m].count = 1
    BY <1>3 DEF Chunk
  <2>2. Present(P[m]) /\ m - 1 \in Nat
    BY <1>1, <2>1 DEF Present
  <2>3. \A k \in 1 .. 1 : j.a[m - 1 + k] = j.a[m + k - 1]
    BY <1>1
  <2> QED BY <1>1, <1>2, <2>1, <2>2, <2>3 DEF PartRight
<1> QED BY <1>1, <1>2, <1>4, <1>5, <1>6 DEF PartsRight

LEMMA NthRight ==
  ASSUME NEW j \in Jobs, j.kind = "select_nth", ~ Rejected(j)
  PROVE  PartsRight(j)
<1> DEFINE n == Len(j.a)
           P == Parts(j)
<1>1. /\ j.a \in Seq(Sample) /\ n \in Nat /\ DOMAIN j.a = 1 .. n /\ j.n \in Int
      /\ \A m : Before(j, m) = m
  BY JobTyped DEF Before
<1>2. j.a = <<>> <=> n = 0
  BY <1>1, EmptySeq
<1>3. CASE Skipped(j)
  <2>1. P = <<>> /\ Expected(j) = <<>> /\ j.a = <<>>
    BY <1>3 DEF Parts, Expected, Skipped
  <2>2. Sufficient(j)
    BY <2>1 DEF Rejected, Sufficient
  <2>3. Len(<<>>) = 0 /\ <<>> \in Seq(SampleChunk) /\ 1 .. 0 = {}
    OBVIOUS
  <2> QED BY <1>1, <2>1, <2>2, <2>3 DEF PartsRight
<1>4. CASE ~ Skipped(j)
  <2>1. j.a # <<>> /\ Sufficient(j) /\ j.n < n /\ -n <= j.n
    BY <1>1, <1>4 DEF Rejected, Sufficient, Skipped
  <2> DEFINE at == (IF j.n >= 0 THEN n ELSE n + j.n) + 1
             i == IF j.n >= 0 THEN j.n + 1 ELSE n + j.n + 1
  <2>2. P = <<Chunk(j.a, at, 1)>> /\ Expected(j) = <<j.a[i]>>
    BY <1>4 DEF Parts, Chunks, NthChunks, Expected, Filling
  <2>3. at \in Int /\ (j.n < 0 => i = at) /\ (j.n >= 0 => at = n + 1)
    BY <1>1
  <2> HIDE DEF at, i
  <2>4. /\ P \in Seq(SampleChunk) /\ Len(P) = 1 /\ Len(Expected(j)) = 1
        /\ Expected(j)[1] = j.a[i]
        /\ P[1].from = j.a /\ P[1].at = at /\ P[1].count = 1
    BY <1>1, <2>2, <2>3 DEF Chunk, SampleChunk
  <2>5. Present(P[1]) => j.n < 0
    BY <1>1, <2>3, <2>4 DEF Present
  <2>6. ~ Present(P[1]) => j.n >= 0
    BY <1>1, <2>1, <2>3, <2>4 DEF Present, at
  <2>7. Present(P[1]) => \A k \in 1 .. 1 : Expected(j)[0 + k] = j.a[at + k - 1]
    BY <2>3, <2>4, <2>5
  <2> HIDE DEF P
  <2>8. 1 - 1 = 0 /\ 0 \in Nat
    OBVIOUS
  <2>9. PartRight(j, 1)
    BY <1>1, <2>1, <2>4, <2>6, <2>7, <2>8 DEF PartRight, P
  <2>10. 1 .. 1 = {1}
    OBVIOUS
  <2> QED BY <1>1, <2>1, <2>4, <2>9, <2>10 DEF PartsRight, P
<1> QED BY <1>3, <1>4

LEMMA PairwiseRight ==
  ASSUME NEW j \in Jobs, j.kind = "pairwise"
  PROVE  PartsRight(j)
<1> DEFINE n == Len(j.ctrl)
           P == Parts(j)
           s(i) == IF j.ctrl[i] THEN j.a ELSE j.b
           r(i) == Rank(j.ctrl, i)
<1>1. /\ j.a \in Seq(Sample) /\ j.b \in Seq(Sample) /\ n \in Nat /\ DOMAIN j.ctrl = 1 .. n
      /\ ~ Rejected(j) /\ ~ Skipped(j)
  BY JobTyped DEF Rejected, Skipped
<1>2. /\ P = PairwiseChunks(j) /\ \A m : Before(j, m) = m
      /\ Expected(j) = [i \in 1 .. n |-> s(i)[r(i)]]
      /\ Sufficient(j) <=> \A i \in 1 .. n : r(i) <= Len(s(i))
  BY <1>1 DEF Parts, Chunks, Expected, Before, Sufficient, Filling
<1>3. P = [i \in 1 .. n |-> Chunk(s(i), r(i), 1)]
  BY <1>1, <1>2 DEF PairwiseChunks
<1>4. P \in Seq(SampleChunk)
  BY <1>1, ChunksTyped DEF Parts
<1>5. DOMAIN P = 1 .. Len(P) /\ Len(P) = n
  <2>1. DOMAIN P = 1 .. n
    BY <1>3
  <2> HIDE DEF P
  <2>2. DOMAIN P = 1 .. Len(P) /\ Len(P) \in Nat
    BY <1>4, LenProperties
  <2> QED BY <1>1, <2>1, <2>2
<1>6. Len(Expected(j)) = n
  <2> DEFINE X == Expected(j)
             V == {s(i)[r(i)] : i \in 1 .. n}
  <2>1. X \in [1 .. n -> V]
    BY <1>2
  <2> HIDE DEF X, V
  <2> QED BY <1>1, <2>1, SequenceOf DEF X
<1>7. ASSUME NEW i \in 1 .. n PROVE r(i) \in Nat /\ r(i) >= 1
  <2> DEFINE D == {k \in 1 .. i : j.ctrl[k] = j.ctrl[i]}
  <2>1. IsFiniteSet(D) /\ D # {}
    <3>1. IsFiniteSet(1 .. i) /\ D \subseteq 1 .. i /\ i \in D
      BY FS_Interval
    <3> HIDE DEF D
    <3> QED BY <3>1, FS_Subset
  <2>2. r(i) = Cardinality(D)
    BY DEF Rank
  <2> HIDE DEF D
  <2>3. Cardinality(D) \in Nat /\ Cardinality(D) # 0
    BY <2>1, FS_CardinalityType, FS_EmptySet
  <2> QED BY <2>2, <2>3
<1>8. ASSUME NEW i \in 1 .. n
      PROVE  /\ P[i].from = s(i) /\ P[i].at = r(i) /\ P[i].count = 1
             /\ Present(P[i]) <=> r(i) <= Len(s(i))
  <2>1. P[i].from = s(i) /\ P[i].at = r(i) /\ P[i].count = 1
    BY <1>3 DEF Chunk
  <2>2. Len(s(i)) \in Nat
    BY <1>1, LenProperties
  <2> HIDE DEF s, r, P
  <2>3. r(i) \in Nat /\ r(i) >= 1
    BY <1>7
  <2> QED BY <2>1, <2>2, <2>3 DEF Present
<1> HIDE DEF s, r
<1>9. ASSUME NEW m \in 1 .. n PROVE PartRight(j, m)
  <2>1. m - 1 \in Nat /\ m = m - 1 + 1
    BY <1>1
  <2>2. \A k \in 1 .. 1 : Expected(j)[m - 1 + k] = s(m)[r(m) + k - 1]
    BY <1>1, <1>2, <1>7
  <2>3. ~ Present(P[m]) => ~ Sufficient(j)
    BY <1>2, <1>8
  <2> QED BY <1>2, <1>8, <2>1, <2>2, <2>3 DEF PartRight
<1>10. (\A m \in 1 .. n : Present(P[m])) => Sufficient(j)
  BY <1>2, <1>8
<1> QED BY <1>2, <1>4, <1>5, <1>6, <1>9, <1>10 DEF PartsRight

(* How many control samples up to the i-th are true                        *)
Trues(ctrl, i) == Cardinality({k \in 1 .. i : ctrl[k]})

LEMMA TruesFacts ==
  ASSUME NEW ctrl \in Seq(BOOLEAN), NEW i \in 0 .. Len(ctrl)
  PROVE  /\ Trues(ctrl, i) \in Nat
         /\ Trues(ctrl, 0) = 0
         /\ i < Len(ctrl) => Trues(ctrl, i + 1) = IF ctrl[i + 1] THEN Trues(ctrl, i) + 1
                                                  ELSE Trues(ctrl, i)
<1> DEFINE D(m) == {k \in 1 .. m : ctrl[k]}
<1>1. Len(ctrl) \in Nat /\ i \in Nat
  BY LenProperties
<1>2. IsFiniteSet(D(i))
  <2>1. IsFiniteSet(1 .. i) /\ D(i) \subseteq 1 .. i
    BY <1>1, FS_Interval
  <2> HIDE DEF D
  <2> QED BY <2>1, FS_Subset
<1>3. Trues(ctrl, i) \in Nat
  BY <1>2, FS_CardinalityType DEF Trues
<1>4. Trues(ctrl, 0) = 0
  <2>1. {k \in 1 .. 0 : ctrl[k]} = {}
    OBVIOUS
  <2> QED BY <2>1, FS_EmptySet DEF Trues
<1>5. ASSUME i < Len(ctrl), ctrl[i + 1] PROVE Trues(ctrl, i + 1) = Trues(ctrl, i) + 1
  <2>1. D(i + 1) = D(i) \cup {i + 1} /\ i + 1 \notin D(i)
    BY <1>1, <1>5
  <2> HIDE DEF D
  <2>2. Cardinality(D(i) \cup {i + 1}) = Cardinality(D(i)) + 1
    BY <1>2, <2>1, FS_AddElement
  <2> QED BY <2>1, <2>2 DEF Trues, D
<1>6. ASSUME i < Len(ctrl), ~ ctrl[i + 1] PROVE Trues(ctrl, i + 1) = Trues(ctrl, i)
  <2>1. D(i + 1) = D(i)
    BY <1>1, <1>6
  <2> QED BY <2>1 DEF Trues
<1> QED BY <1>3, <1>4, <1>5, <1>6

(* The positions of the control samples that are true, in their order      *)
LEMMA TruePositions ==
  ASSUME NEW ctrl \in Seq(BOOLEAN)
  PROVE  LET at == Remaining([i \in DOMAIN ctrl |-> i], {i \in DOMAIN ctrl : ~ ctrl[i]})
         IN /\ at \in Seq(1 .. Len(ctrl))
            /\ Len(at) = Trues(ctrl, Len(ctrl))
            /\ \A k \in 1 .. Len(at) : ctrl[at[k]] /\ Trues(ctrl, at[k]) = k
            /\ \A i \in 1 .. Len(ctrl) : ctrl[i] => \E k \in 1 .. Len(at) : at[k] = i
<1> DEFINE n == Len(ctrl)
           s == [i \in DOMAIN ctrl |-> i]
           gone == {i \in DOMAIN ctrl : ~ ctrl[i]}
           R == RemainingIn(s, gone)
           Counted(m) == /\ R[m] \in Seq(1 .. n)
                         /\ Len(R[m]) = Trues(ctrl, m)
                         /\ \A k \in 1 .. Len(R[m]) : ctrl[R[m][k]] /\ Trues(ctrl, R[m][k]) = k
           T == {m \in Nat : m <= n => Counted(m)}
<1>1. n \in Nat /\ DOMAIN ctrl = 1 .. n /\ \A i \in 1 .. n : ctrl[i] \in BOOLEAN
  BY LenProperties, ElementOfSeq
<1>2. s \in [1 .. n -> 1 .. n] /\ \A i \in 1 .. n : s[i] = i /\ (i \in gone <=> ~ ctrl[i])
  BY <1>1
<1> HIDE DEF s, gone
<1>3. s \in Seq(1 .. n) /\ Len(s) = n /\ DOMAIN s = 1 .. n
  BY <1>1, <1>2, SequenceOf
<1>4. R = [k \in 0 .. n |-> RemainingStep(s, gone, R, k)]
  BY <1>1, <1>3, RemainingDef
<1> HIDE DEF R
<1>5. 0 \in T
  <2>1. R[0] = <<>>
    BY <1>1, <1>4 DEF RemainingStep
  <2>2. <<>> \in Seq(1 .. n) /\ Len(<<>>) = 0
    OBVIOUS
  <2>3. Trues(ctrl, 0) = 0
    <3>1. 0 \in 0 .. Len(ctrl)
      BY <1>1
    <3> QED BY <3>1, TruesFacts
  <2>4. R[0] \in Seq(1 .. n) /\ Len(R[0]) = Trues(ctrl, 0)
    BY <2>1, <2>2, <2>3
  <2>5. 1 .. Len(R[0]) = {}
    BY <2>3, <2>4
  <2>6. Counted(0)
    BY <2>4, <2>5
  <2> HIDE DEF Counted
  <2> QED BY <2>6
<1>6. ASSUME NEW m \in Nat, m \in T PROVE m + 1 \in T
  <2> SUFFICES ASSUME m + 1 <= n PROVE Counted(m + 1)
    OBVIOUS
  <2>1. Counted(m) /\ m \in 0 .. n /\ m < n /\ m + 1 \in 1 .. n
    BY <1>1, <1>6
  <2>2. R[m + 1] = IF s[m + 1] \in gone THEN R[m] ELSE Append(R[m], s[m + 1])
    <3>1. m + 1 \in 0 .. n /\ m + 1 # 0 /\ m + 1 - 1 = m
      BY <1>1, <2>1
    <3>2. R[m + 1] = RemainingStep(s, gone, R, m + 1)
      BY <1>4, <3>1
    <3> QED BY <3>1, <3>2 DEF RemainingStep
  <2>3. /\ Trues(ctrl, m) \in Nat
        /\ Trues(ctrl, m + 1) = IF ctrl[m + 1] THEN Trues(ctrl, m) + 1 ELSE Trues(ctrl, m)
    BY <2>1, TruesFacts
  <2>4. CASE ~ ctrl[m + 1]
    <3>1. R[m + 1] = R[m]
      BY <1>2, <2>1, <2>2, <2>4
    <3> QED BY <2>1, <2>3, <2>4, <3>1
  <2>5. CASE ctrl[m + 1]
    <3> DEFINE q == R[m]
               u == R[m + 1]
    <3>1. u = Append(q, m + 1)
      BY <1>2, <2>1, <2>2, <2>5
    <3>2. q \in Seq(1 .. n) /\ Len(q) = Trues(ctrl, m)
          /\ \A k \in 1 .. Len(q) : ctrl[q[k]] /\ Trues(ctrl, q[k]) = k
      BY <2>1
    <3> HIDE DEF q, u
    <3>3. /\ u \in Seq(1 .. n) /\ Len(u) = Len(q) + 1
          /\ \A k \in 1 .. Len(q) : u[k] = q[k]
          /\ u[Len(q) + 1] = m + 1
      BY <2>1, <3>1, <3>2, AppendProperties
    <3>4. Len(u) = Trues(ctrl, m + 1) /\ Len(q) \in Nat
      BY <2>3, <2>5, <3>2, <3>3
    <3>5. ASSUME NEW k \in 1 .. Len(u) PROVE ctrl[u[k]] /\ Trues(ctrl, u[k]) = k
      <4>1. CASE k = Len(u)
        BY <2>5, <3>3, <3>4, <4>1
      <4>2. CASE k # Len(u)
        <5>1. k \in 1 .. Len(q)
          BY <3>3, <3>4, <4>2
        <5> QED BY <3>2, <3>3, <5>1
      <4> QED BY <4>1, <4>2
    <3> QED BY <3>3, <3>4, <3>5 DEF u
  <2> QED BY <2>4, <2>5
<1>7. Counted(n)
  <2> HIDE DEF T
  <2>1. \A m \in Nat : m \in T
    BY <1>5, <1>6, NumberInduction
  <2> QED BY <1>1, <2>1 DEF T
<1>8. Remaining(s, gone) = R[n]
  BY <1>3 DEF Remaining, R
<1>9. ASSUME NEW i \in 1 .. n, ctrl[i] PROVE \E k \in 1 .. Len(R[n]) : R[n][k] = i
  <2>1. Range(Remaining(s, gone)) = Range(s) \ gone
    BY <1>3, RemainingProperties
  <2>2. i \in Range(s) \ gone
    BY <1>2, <1>3, <1>9 DEF Range
  <2>3. i \in Range(R[n])
    BY <1>8, <2>1, <2>2
  <2>4. DOMAIN R[n] = 1 .. Len(R[n])
    BY <1>7, LenProperties
  <2> QED BY <2>3, <2>4 DEF Range
<1> QED BY <1>7, <1>8, <1>9 DEF s, gone

(* Later positions count more of them.                                     *)
LEMMA TruesApart ==
  ASSUME NEW ctrl \in Seq(BOOLEAN), NEW i \in 1 .. Len(ctrl), NEW k \in 1 .. Len(ctrl),
         ctrl[i], ctrl[k], Trues(ctrl, i) = Trues(ctrl, k)
  PROVE  i = k
<1>1. ASSUME NEW a \in 1 .. Len(ctrl), NEW b \in 1 .. Len(ctrl), a < b, ctrl[b]
      PROVE  Trues(ctrl, a) # Trues(ctrl, b)
  <2> DEFINE D(m) == {x \in 1 .. m : ctrl[x]}
  <2>1. Len(ctrl) \in Nat /\ a \in Nat /\ b \in Nat
    BY LenProperties
  <2>2. IsFiniteSet(D(b))
    <3>1. IsFiniteSet(1 .. b) /\ D(b) \subseteq 1 .. b
      BY <2>1, FS_Interval
    <3> HIDE DEF D
    <3> QED BY <3>1, FS_Subset
  <2>3. D(a) \subseteq D(b) /\ b \in D(b) /\ b \notin D(a)
    BY <1>1, <2>1
  <2> HIDE DEF D
  <2>4. IsFiniteSet(D(a)) /\ (Cardinality(D(a)) = Cardinality(D(b)) => D(a) = D(b))
    BY <2>2, <2>3, FS_Subset
  <2>5. Cardinality(D(a)) # Cardinality(D(b))
    BY <2>3, <2>4
  <2> QED BY <2>5 DEF Trues, D
<1>2. Len(ctrl) \in Nat
  BY LenProperties
<1>3. i < k \/ k < i \/ i = k
  BY <1>2
<1> QED BY <1>1, <1>3

LEMMA ElementwiseRight ==
  ASSUME NEW j \in Jobs, j.kind = "elementwise"
  PROVE  PartsRight(j)
<1> DEFINE n == Len(j.ctrl)
           c == j.ctrl
           at == Remaining([i \in DOMAIN c |-> i], {i \in DOMAIN c : ~ c[i]})
           l == Len(at)
           P == Parts(j)
           X == Expected(j)
<1>1. /\ j.a \in Seq(Sample) /\ Len(j.a) \in Nat /\ c \in Seq(BOOLEAN)
      /\ n \in Nat /\ DOMAIN c = 1 .. n
      /\ ~ Rejected(j) /\ ~ Skipped(j)
  BY JobTyped DEF Rejected, Skipped
<1>2. /\ P = ElementwiseChunks(j) /\ \A m : Before(j, m) = m
      /\ Sufficient(j) <=> \A i \in DOMAIN c : c[i] => i <= Len(j.a)
      /\ X = [k \in 1 .. Cardinality({i \in DOMAIN c : c[i]}) |->
                j.a[CHOOSE i \in DOMAIN c : c[i] /\ Rank(c, i) = k]]
  BY <1>1 DEF Parts, Chunks, Expected, Before, Sufficient, Filling
<1>3. /\ at \in Seq(1 .. n) /\ l = Trues(c, n)
      /\ \A k \in 1 .. l : c[at[k]] /\ Trues(c, at[k]) = k
      /\ \A i \in 1 .. n : c[i] => \E k \in 1 .. l : at[k] = i
  BY <1>1, TruePositions
<1>4. P = [k \in DOMAIN at |-> Chunk(j.a, at[k], 1)]
  BY <1>2 DEF ElementwiseChunks
<1>5. Cardinality({i \in DOMAIN c : c[i]}) = l
  BY <1>1, <1>3 DEF Trues
<1>6. ASSUME NEW i \in DOMAIN c, c[i] PROVE Rank(c, i) = Trues(c, i)
  <2>1. {k \in 1 .. i : c[k] = c[i]} = {k \in 1 .. i : c[k]}
    <3>1. \A k \in 1 .. i : c[k] \in BOOLEAN
      <4>1. \A k \in 1 .. i : k \in 1 .. n
        BY <1>1
      <4> QED BY <1>1, <4>1, ElementOfSeq
    <3> QED BY <1>6, <3>1
  <2> QED BY <2>1 DEF Rank, Trues
<1> HIDE DEF at, l, P
<1>7. l \in Nat /\ DOMAIN at = 1 .. l /\ \A k \in 1 .. l : at[k] \in 1 .. n
  BY <1>3, LenProperties, ElementOfSeq DEF l
<1>8. ASSUME NEW k \in 1 .. l PROVE X[k] = j.a[at[k]]
  <2>1. at[k] \in DOMAIN c /\ c[at[k]] /\ Rank(c, at[k]) = k
    BY <1>1, <1>3, <1>6, <1>7
  <2>2. \A i \in DOMAIN c : c[i] /\ Rank(c, i) = k => i = at[k]
    <3>1. ASSUME NEW i \in DOMAIN c, c[i], Rank(c, i) = k PROVE i = at[k]
      <4>1. Trues(c, i) = Trues(c, at[k])
        BY <1>6, <2>1, <3>1
      <4> QED BY <1>1, <2>1, <3>1, <4>1, TruesApart
    <3> QED BY <3>1
  <2>3. (CHOOSE i \in DOMAIN c : c[i] /\ Rank(c, i) = k) = at[k]
    BY <2>1, <2>2
  <2> QED BY <1>2, <1>5, <2>3
<1>9. Len(X) = l
  <2> DEFINE V == {X[k] : k \in 1 .. l}
  <2>1. X \in [1 .. l -> V]
    BY <1>2, <1>5
  <2> HIDE DEF X, V
  <2> QED BY <1>7, <2>1, SequenceOf
<1> HIDE DEF X
<1>10. P \in Seq(SampleChunk)
  BY <1>1, ChunksTyped DEF Parts, P
<1>11. Len(P) = l
  <2>1. DOMAIN P = 1 .. l
    BY <1>4, <1>7
  <2>2. DOMAIN P = 1 .. Len(P) /\ Len(P) \in Nat
    BY <1>10, LenProperties
  <2> QED BY <1>7, <2>1, <2>2
<1>12. ASSUME NEW m \in 1 .. l
       PROVE  /\ P[m].from = j.a /\ P[m].at = at[m] /\ P[m].count = 1
              /\ Present(P[m]) <=> at[m] <= Len(j.a)
              /\ c[at[m]] /\ at[m] \in 1 .. n
  <2>1. P[m].from = j.a /\ P[m].at = at[m] /\ P[m].count = 1
    BY <1>4, <1>7 DEF Chunk
  <2> QED BY <1>1, <1>3, <1>7, <2>1 DEF Present
<1>13. ASSUME NEW m \in 1 .. l PROVE PartRight(j, m)
  <2> DEFINE p == P[m]
             b == m - 1
  <2>1. /\ b \in Nat /\ m = b + 1
        /\ Before(j, b) = b /\ Before(j, m) = m
    BY <1>2, <1>7
  <2>2. p.from = j.a /\ p.at = at[m] /\ p.count = 1 /\ at[m] \in Int
    BY <1>12
  <2>3. X[m] = j.a[at[m]]
    BY <1>8
  <2>4. ~ Present(p) => ~ Sufficient(j)
    BY <1>1, <1>2, <1>12
  <2>5. p = Parts(j)[m] /\ X = Expected(j) /\ m - 1 = b
    BY DEF P, X
  <2> HIDE DEF p, b
  <2>6. \A k \in 1 .. p.count : X[b + k] = p.from[p.at + k - 1]
    BY <2>1, <2>2, <2>3
  <2> QED BY <2>1, <2>2, <2>4, <2>5, <2>6 DEF PartRight
<1>14. (\A m \in 1 .. l : Present(P[m])) => Sufficient(j)
  BY <1>1, <1>2, <1>3, <1>12
<1> QED BY <1>2, <1>9, <1>10, <1>11, <1>13, <1>14 DEF PartsRight, P, X

(* Whatever does not fill the buffer in one piece appends what is expected *)
(* of it, in order.                                                        *)
LEMMA AllPartsRight ==
  ASSUME NEW j \in Jobs, j.kind \notin Filling, ~ Rejected(j)
  PROVE  PartsRight(j)
<1>1. j.kind \in Kinds
  BY JobTyped
<1> QED BY <1>1, MergeRight, AllRight, ElementwiseRight, PairwiseRight, NthRight, WriteRight
        DEF Kinds, Copying

(* A function that appends has appended all of the chunks that are not     *)
(* left.                                                                   *)
AppendedSoFar ==
  LET p == Parts(job)
      m == Len(p) - Len(todo)
  IN stage = "running" /\ node \notin Filling =>
       /\ ~ Rejected(job)
       /\ m \in 0 .. Len(p)
       /\ \A i \in 1 .. Len(todo) : todo[i] = p[m + i]
       /\ \A i \in 1 .. m : Present(p[i])
       /\ num = Before(job, m) /\ num <= Len(cells)
       /\ \A k \in 1 .. num : cells[k][1] = Expected(job)[k]

(* A function that fills the buffer has filled it when nothing is left.    *)
FilledAtOnce ==
  stage = "running" /\ node \in Filling /\ todo = <<>> =>
    /\ Sufficient(job)
    /\ num = Len(Expected(job)) /\ num <= Len(cells)
    /\ \A k \in 1 .. num : cells[k][1] = Expected(job)[k]

(* The buffer is shrunk on an error path only for one of two reasons.      *)
RollbackCause == stage = "rollback" => starved \/ ~ Sufficient(job)

ResultInv ==
  /\ AppendedSoFar
  /\ FilledAtOnce
  /\ RollbackCause
  /\ Delivered
  /\ FailsForCause

(* A function that has not reported, and one that waits for its call, owes *)
(* nothing.                                                                *)
LEMMA NothingReported ==
  ASSUME result' = "none", stage' \notin {"running", "rollback"}
  PROVE  ResultInv'
BY DEF ResultInv, AppendedSoFar, FilledAtOnce, RollbackCause, Delivered, FailsForCause

LEMMA StartedResult ==
  ASSUME MemoryInv, Start
  PROVE  ResultInv'
<1>1. PICK j \in Jobs :
        /\ j.kind = node
        /\ job' = j
        /\ \/ /\ Rejected(j)
              /\ stage' = "idle" /\ result' = "failed" /\ todo' = <<>>
           \/ /\ ~Rejected(j)
              /\ stage' = "running" /\ result' = "none"
              /\ todo' = IF Skipped(j) THEN <<>> ELSE Chunks(j)
  BY DEF Start
<1>2. /\ num' = 0 /\ node' = node /\ cells' \in Seq(Cell) /\ Len(cells') \in Nat
  <2>1. stage = "reset" /\ UNCHANGED <<node, cells, num>>
    BY DEF Start, arrayVars
  <2>2. num = 0 /\ cells \in Seq(Cell)
    BY <2>1 DEF MemoryInv, EmptyBefore, BufferTypeOK
  <2> QED BY <2>1, <2>2, LenProperties
<1>3. CASE Rejected(j)
  <2>1. ~ Sufficient(j)
    <3>1. j.n \in Int /\ Len(j.a) \in Nat /\ Len(j.ctrl) \in Nat
      BY JobTyped
    <3>2. CASE j.kind = "all"
      BY <1>3, <3>1, <3>2 DEF Rejected, Sufficient
    <3>3. CASE j.kind = "select_nth"
      BY <1>3, <3>1, <3>3 DEF Rejected, Sufficient
    <3> QED BY <1>3, <3>2, <3>3 DEF Rejected
  <2>2. stage' = "idle" /\ result' = "failed"
    BY <1>1, <1>3
  <2> QED BY <1>1, <2>1, <2>2
          DEF ResultInv, AppendedSoFar, FilledAtOnce, RollbackCause, Delivered, FailsForCause
<1>4. CASE ~ Rejected(j)
  <2>1. stage' = "running" /\ result' = "none" /\ todo' = Parts(j)
    BY <1>1, <1>4 DEF Parts
  <2>2. AppendedSoFar'
    <3> SUFFICES ASSUME j.kind \notin Filling
                 PROVE  /\ Len(Parts(j)) - Len(todo') \in 0 .. Len(Parts(j))
                        /\ \A i \in 1 .. Len(todo') :
                             todo'[i] = Parts(j)[Len(Parts(j)) - Len(todo') + i]
                        /\ \A i \in 1 .. Len(Parts(j)) - Len(todo') : Present(Parts(j)[i])
                        /\ num' = Before(j, Len(Parts(j)) - Len(todo')) /\ num' <= Len(cells')
                        /\ \A k \in 1 .. num' : cells'[k][1] = Expected(j)[k]
      BY <1>1, <1>2, <1>4, <2>1 DEF AppendedSoFar
    <3>1. PartsRight(j)
      BY <1>4, AllPartsRight
    <3>2. Len(Parts(j)) \in Nat /\ Before(j, 0) = 0
      BY <3>1, LenProperties DEF PartsRight
    <3> DEFINE p == Parts(j)
    <3>3. todo' = p /\ Len(p) \in Nat /\ Len(p) - Len(todo') = 0
      BY <2>1, <3>2
    <3> HIDE DEF p
    <3>4. \A i \in 1 .. Len(p) : 0 + i = i
      BY <3>3
    <3>5. 1 .. 0 = {} /\ 0 \in 0 .. Len(p)
      BY <3>3
    <3> QED BY <1>2, <3>2, <3>3, <3>4, <3>5 DEF p
  <2>3. FilledAtOnce'
    <3> SUFFICES ASSUME j.kind \in Filling PROVE todo' # <<>>
      BY <1>1, <1>2 DEF FilledAtOnce
    <3>1. ~ Skipped(j) /\ Chunks(j) = FillChunks(j)
      BY DEF Skipped, Filling, Chunks
    <3> QED BY <2>1, <3>1 DEF Parts, FillChunks
  <2> QED BY <2>1, <2>2, <2>3
          DEF ResultInv, RollbackCause, Delivered, FailsForCause
<1> QED BY <1>3, <1>4

(* What a function that appends knows of the chunk that is next            *)
LEMMA ChunkAhead ==
  ASSUME MemoryInv, ResultInv, Appending
  PROVE  LET m == Len(Parts(job)) - Len(todo)
             c == Head(todo)
         IN /\ PartsRight(job) /\ PartRight(job, m + 1)
            /\ c = Parts(job)[m + 1] /\ c \in SampleChunk
            /\ m \in Nat /\ m + 1 \in 1 .. Len(Parts(job)) /\ Len(Parts(job)) \in Nat
            /\ Len(Tail(todo)) = Len(todo) - 1 /\ Len(todo) \in Nat
            /\ \A i \in 1 .. Len(Tail(todo)) : Tail(todo)[i] = Parts(job)[m + 1 + i]
<1> DEFINE p == Parts(job)
           m == Len(p) - Len(todo)
           c == Head(todo)
           n == Len(p)
           l == Len(todo)
<1>1. /\ stage = "running" /\ node \notin Filling /\ todo # <<>>
      /\ job \in Jobs /\ job.kind = node /\ todo \in Seq(SampleChunk)
  BY DEF Appending, MemoryInv, BufferTypeOK
<1>2. /\ ~ Rejected(job) /\ m \in 0 .. n
      /\ \A i \in 1 .. l : todo[i] = p[m + i]
  BY <1>1 DEF ResultInv, AppendedSoFar
<1>3. PartsRight(job)
  BY <1>1, <1>2, AllPartsRight
<1>4. n \in Nat /\ l \in Nat /\ l # 0
  <2>1. p \in Seq(SampleChunk)
    BY <1>3 DEF PartsRight
  <2> QED BY <1>1, <2>1, LenProperties, EmptySeq
<1>5. /\ c = todo[1] /\ c \in SampleChunk
      /\ Len(Tail(todo)) = l - 1 /\ \A i \in 1 .. l - 1 : Tail(todo)[i] = todo[i + 1]
  BY <1>1, <1>4, HeadTailProperties
<1> HIDE DEF c, n, l
<1>6. m = n - l
  BY DEF n, l
<1> HIDE DEF m
<1>7. m \in Nat /\ m + 1 \in 1 .. n
  BY <1>2, <1>4, <1>6
<1>8. c = p[m + 1]
  BY <1>2, <1>4, <1>5
<1>9. PartRight(job, m + 1)
  BY <1>3, <1>7 DEF PartsRight, n, p
<1>10. ASSUME NEW i \in 1 .. l - 1 PROVE Tail(todo)[i] = p[m + 1 + i]
  <2>1. i + 1 \in 1 .. l /\ m + 1 + i = m + (i + 1)
    BY <1>4, <1>7
  <2>2. Tail(todo)[i] = todo[i + 1]
    BY <1>5
  <2> QED BY <1>2, <2>1, <2>2
<1> QED BY <1>3, <1>4, <1>5, <1>7, <1>8, <1>9, <1>10 DEF c, n, l, m

LEMMA AppendedResult ==
  ASSUME MemoryInv, ResultInv, AppendChunk
  PROVE  ResultInv'
<1> DEFINE p == Parts(job)
           m == Len(p) - Len(todo)
           c == Head(todo)
           v == Content(c)
           s == Copies(v)
           X == Expected(job)
<1>0. /\ cells \in Seq(Cell) /\ live \subseteq Cell /\ MemoryLeft /\ num \in Nat
      /\ stage = "running" /\ stage' = "running" /\ node \notin Filling /\ result' = "none"
      /\ cells' = Put(s, c.count) /\ num' = num + c.count
      /\ todo' = Tail(todo) /\ Present(c)
      /\ UNCHANGED <<node, type, job>>
      /\ Appending
  BY DEF MemoryInv, BufferTypeOK, NotReported, AppendChunk, Appending
<1>1. /\ c = p[m + 1] /\ c \in SampleChunk /\ PartRight(job, m + 1)
      /\ m \in Nat /\ m + 1 \in 1 .. Len(p) /\ Len(p) \in Nat
      /\ Len(Tail(todo)) = Len(todo) - 1 /\ Len(todo) \in Nat
      /\ \A i \in 1 .. Len(Tail(todo)) : Tail(todo)[i] = p[m + 1 + i]
  BY <1>0, ChunkAhead
<1>2. /\ ~ Rejected(job)
      /\ \A i \in 1 .. m : Present(p[i])
      /\ num = Before(job, m) /\ num <= Len(cells)
      /\ \A k \in 1 .. num : cells[k][1] = X[k]
  BY <1>0 DEF ResultInv, AppendedSoFar
<1>3. m + 1 - 1 = m
  BY <1>1
<1> DEFINE b == m + 1
<1>4. /\ Before(job, b) = num + c.count
      /\ \A k \in 1 .. c.count : X[num + k] = c.from[c.at + k - 1]
  BY <1>0, <1>1, <1>2, <1>3 DEF PartRight
<1>5. Len(p) - Len(todo') = b
  <2>1. Len(todo') = Len(todo) - 1
    BY <1>0, <1>1
  <2>2. Len(p) \in Nat /\ Len(todo) \in Nat
    BY <1>1
  <2> HIDE DEF p
  <2> QED BY <2>1, <2>2
<1> HIDE DEF c, X, m
<1>6. /\ v \in Seq(Sample) /\ Len(v) = c.count /\ c.count \in Nat
      /\ \A k \in 1 .. c.count : v[k] = c.from[c.at + k - 1]
  BY <1>0, <1>1, ContentFacts
<1> HIDE DEF v
<1>7. /\ s \in Seq(Cell) /\ Len(s) = c.count
      /\ \A i \in 1 .. c.count : s[i][1] = v[i]
  BY <1>0, <1>6, CopiesFacts
<1> HIDE DEF s
<1>8. /\ num + c.count <= Len(cells')
      /\ \A k \in 1 .. num : k \in DOMAIN cells => cells'[k] = cells[k]
      /\ \A k \in 1 .. c.count : cells'[num + k] = s[k]
  <2>1. cells' = Put(s, c.count) /\ Len(s) <= c.count
    BY <1>0, <1>6, <1>7
  <2> QED BY <1>0, <1>6, <1>7, <2>1, PutFacts
<1>9. ASSUME NEW k \in 1 .. num' PROVE cells'[k][1] = X[k]
  <2>1. CASE k \in 1 .. num
    <3>1. k \in DOMAIN cells
      BY <1>0, <1>2, <2>1, LenProperties
    <3> QED BY <1>2, <1>8, <2>1, <3>1
  <2>2. CASE k \notin 1 .. num
    <3>1. k - num \in 1 .. c.count /\ num + (k - num) = k
      BY <1>0, <1>6, <2>2
    <3>2. cells'[k] = s[k - num] /\ s[k - num][1] = v[k - num]
          /\ X[k] = c.from[c.at + (k - num) - 1] /\ v[k - num] = c.from[c.at + (k - num) - 1]
      BY <1>4, <1>6, <1>7, <1>8, <3>1
    <3> QED BY <3>2
  <2> QED BY <2>1, <2>2
<1>10. ASSUME NEW i \in 1 .. b PROVE Present(p[i])
  <2>1. CASE i = b
    BY <1>0, <1>1, <2>1
  <2>2. CASE i # b
    <3>1. i \in 1 .. m
      BY <1>1, <2>2
    <3> QED BY <1>2, <3>1
  <2> QED BY <2>1, <2>2
<1>11. AppendedSoFar'
  <2>1. b \in 0 .. Len(p)
    BY <1>1
  <2>2. p' = p /\ X' = X
    BY <1>0 DEF X
  <2>3. \A i \in 1 .. Len(todo') : todo'[i] = p[b + i]
    BY <1>0, <1>1
  <2>4. num' = Before(job, b) /\ num' <= Len(cells')
    BY <1>0, <1>4, <1>8
  <2> HIDE DEF b, p
  <2>5. /\ ~ Rejected(job') /\ Parts(job') = p /\ Expected(job') = X /\ Before(job', b) = Before(job, b)
    BY <1>0, <1>2 DEF p, X
  <2> QED BY <1>5, <1>9, <1>10, <2>1, <2>3, <2>4, <2>5 DEF AppendedSoFar
<1> QED BY <1>0, <1>11 DEF ResultInv, FilledAtOnce, RollbackCause, Delivered, FailsForCause

(* A function fails at a chunk that the input does not have because it     *)
(* needs it, but for select_nth.                                           *)
LEMMA MissingResult ==
  ASSUME MemoryInv, ResultInv, NotPresent
  PROVE  ResultInv'
<1> DEFINE m == Len(Parts(job)) - Len(todo)
<1>1. /\ Appending /\ ~ Present(Head(todo)) /\ Fail(node # "select_nth")
      /\ UNCHANGED <<starved, cells, num>> /\ job' = job /\ job.kind = node
  BY DEF NotPresent, Fail, arrayVars, MemoryInv, BufferTypeOK
<1>2. PartRight(job, m + 1) /\ Head(todo) = Parts(job)[m + 1]
  BY <1>1, ChunkAhead
<1>3. ~ Sufficient(job) \/ (job.kind = "select_nth" /\ job.n >= 0)
  <2> HIDE DEF m
  <2> QED BY <1>1, <1>2 DEF PartRight
<1>4. ~ Sufficient(job') \/ (job'.kind = "select_nth" /\ job'.n >= 0)
  BY <1>1, <1>3
<1>5. /\ stage' # "running" /\ result' # "ok"
      /\ stage' = "rollback" => job'.kind # "select_nth"
  BY <1>1 DEF Fail
<1> QED BY <1>4, <1>5
        DEF ResultInv, AppendedSoFar, FilledAtOnce, RollbackCause, Delivered, FailsForCause

LEMMA UnreservedResult ==
  ASSUME MemoryInv, ResultInv, NotReserved
  PROVE  ResultInv'
<1> DEFINE m == Len(Parts(job)) - Len(todo)
           c == Head(todo)
<1>1. /\ Appending /\ Present(c) /\ Fail(node # "all")
      /\ UNCHANGED <<cells, num>> /\ job' = job /\ job.kind = node
      /\ starved' \/ Grown(c.count) = <<>>
      /\ cells \in Seq(Cell) /\ num \in Nat /\ Len(cells) \in Nat
      /\ stage = "running" /\ todo # <<>>
  BY LenProperties DEF NotReserved, Fail, arrayVars, MemoryInv, BufferTypeOK, Appending
<1>2. /\ PartRight(job, m + 1) /\ c = Parts(job)[m + 1] /\ c \in SampleChunk
      /\ m + 1 \in 1 .. Len(Parts(job)) /\ Len(Parts(job)) \in Nat
  BY <1>1, ChunkAhead
<1>3. c.count = 0 => job.kind = "all"
  BY <1>1, <1>2 DEF PartRight
<1>4. c.count \in Nat
  BY <1>2 DEF SampleChunk
<1>5. ASSUME Grown(c.count) = <<>> PROVE num + c.count <= 0 /\ (num = 0 => cells = <<>>)
  <2> DEFINE n == num + c.count
  <2>1. CASE Fits(c.count)
    <3>1. cells = <<>> /\ n <= Len(cells)
      BY <1>5, <2>1 DEF Grown, Fits
    <3> QED BY <3>1
  <2>2. CASE ~ Fits(c.count)
    <3>1. Realloc(n) = <<>> /\ ~ (n <= Len(cells)) /\ n \in Nat
      BY <1>1, <1>4, <1>5, <2>2 DEF Grown, Fits
    <3> HIDE DEF n
    <3>2. DOMAIN Realloc(n) = 1 .. n /\ DOMAIN <<>> = {}
      BY DEF Realloc
    <3>3. 1 .. n = {} /\ 1 \in 1 .. n
      BY <1>1, <3>1, <3>2
    <3> QED BY <3>3
  <2> QED BY <2>1, <2>2
<1>6. ASSUME ~ starved'
      PROVE  job.kind = "all" /\ AllChunks(job)[1].count = 0 /\ cells = <<>>
  <2>1. num = 0 /\ c.count = 0 /\ cells = <<>>
    BY <1>1, <1>4, <1>5, <1>6
  <2>2. job.kind = "all"
    BY <1>3, <2>1
  <2>3. Len(todo) = 1
    BY <1>1, <2>2 DEF MemoryInv, EmptyBefore
  <2>4. Parts(job) = AllChunks(job) /\ Len(AllChunks(job)) = 1
    <3>1. ~ Skipped(job)
      <4>1. Skipped(job) => Len(Parts(job)) = 0
        BY DEF Parts
      <4> QED BY <1>2, <4>1
    <3> QED BY <2>2, <3>1 DEF Parts, Chunks, Filling, AllChunks
  <2>5. m + 1 = 1
    BY <2>3, <2>4
  <2> QED BY <1>2, <2>1, <2>2, <2>4, <2>5
<1>7. /\ stage' # "running" /\ result' # "ok"
      /\ stage' = "rollback" => job'.kind # "all"
  BY <1>1 DEF Fail
<1>8. ~ starved' => job'.kind = "all" /\ AllChunks(job')[1].count = 0 /\ cells' = <<>>
  BY <1>1, <1>6
<1> QED BY <1>7, <1>8
        DEF ResultInv, AppendedSoFar, FilledAtOnce, RollbackCause, Delivered, FailsForCause

LEMMA FilledResult ==
  ASSUME MemoryInv, ResultInv, Filled
  PROVE  ResultInv'
<1> DEFINE f == job.a
           n == Len(f)
<1>1. /\ stage = "filling" /\ node \in Filling /\ todo = FillChunks(job)
      /\ job \in Jobs /\ job.kind = node /\ Len(cells) = n /\ result = "none"
      /\ cells \in Seq(Cell)
  BY DEF Filled, MemoryInv, BufferTypeOK, FillsAll, NotReported
<1>2. Head(todo).from = f /\ Tail(todo) = <<>>
  BY <1>1 DEF FillChunks, Whole, Chunk
<1>3. /\ f \in Seq(Sample) /\ n \in Nat /\ DOMAIN f = 1 .. n
      /\ \A i \in 1 .. n : f[i] \in Sample
      /\ DOMAIN cells = 1 .. n
  BY <1>1, JobTyped, LenProperties, ElementOfSeq
<1>4. ~ Skipped(job) /\ Expected(job) = f
  BY <1>1 DEF Skipped, Expected, Filling
<1>5. Sufficient(job) <=> (node = "duration_to_uint64" => \A i \in 1 .. n : f[i] > 0)
  BY <1>1, <1>3 DEF Sufficient, Filling
<1>6. \/ /\ node = "duration_to_uint64" => \A i \in DOMAIN f : f[i] > 0
         /\ cells' = [i \in DOMAIN cells |-> <<f[i], 1>>]
         /\ num' = Len(f)
         /\ stage' = "running" /\ todo' = Tail(todo)
         /\ UNCHANGED <<node, type, live, job, starved, result, runs>>
      \/ \E i \in DOMAIN f :
           /\ node = "duration_to_uint64"
           /\ f[i] < 0 /\ Fail(FALSE)
  BY <1>2 DEF Filled
<1>7. CASE /\ node = "duration_to_uint64" => \A i \in DOMAIN f : f[i] > 0
           /\ cells' = [i \in DOMAIN cells |-> <<f[i], 1>>]
           /\ num' = Len(f)
           /\ stage' = "running" /\ todo' = Tail(todo)
           /\ UNCHANGED <<node, type, live, job, starved, result, runs>>
  <2> HIDE DEF f, n
  <2>1. cells' = [i \in 1 .. n |-> <<f[i], 1>>]
    BY <1>3, <1>7
  <2>2. Len(cells') = n
    <3>1. cells' \in [1 .. n -> {<<f[i], 1>> : i \in 1 .. n}]
      BY <2>1
    <3> QED BY <1>3, <3>1, SequenceOf
  <2>3. Sufficient(job)
    <3>1. node = "duration_to_uint64" => \A i \in 1 .. n : f[i] > 0
      BY <1>3, <1>7
    <3> QED BY <1>5, <3>1
  <2>4. num' = n /\ \A k \in 1 .. n : cells'[k][1] = f[k]
    BY <1>7, <2>1 DEF n
  <2>5. FilledAtOnce'
    <3>1. num' <= Len(cells')
      BY <1>3, <2>2, <2>4
    <3> QED BY <1>4, <1>7, <2>3, <2>4, <3>1 DEF FilledAtOnce, n
  <2>6. result' = "none" /\ stage' = "running" /\ node' \in Filling
    BY <1>1, <1>7
  <2> QED BY <2>5, <2>6
          DEF ResultInv, AppendedSoFar, RollbackCause, Delivered, FailsForCause
<1>8. CASE \E i \in DOMAIN f : node = "duration_to_uint64" /\ f[i] < 0 /\ Fail(FALSE)
  <2> HIDE DEF f, n
  <2>1. PICK i \in 1 .. n : node = "duration_to_uint64" /\ f[i] < 0 /\ Fail(FALSE)
    BY <1>3, <1>8
  <2>2. ~ (f[i] > 0)
    BY <1>3, <2>1 DEF Sample
  <2>3. ~ Sufficient(job)
    BY <1>5, <2>1, <2>2
  <2>4. stage' = "idle" /\ result' = "failed" /\ job' = job
    BY <2>1 DEF Fail
  <2> QED BY <2>3, <2>4
          DEF ResultInv, AppendedSoFar, FilledAtOnce, RollbackCause, Delivered, FailsForCause
<1> QED BY <1>6, <1>7, <1>8

LEMMA FinishedResult ==
  ASSUME MemoryInv, ResultInv, Finish
  PROVE  ResultInv'
<1>1. /\ UNCHANGED <<job, cells, num>>
      /\ stage = "running" /\ stage' = "idle" /\ result' = "ok" /\ todo = <<>>
      /\ job \in Jobs /\ job.kind = node
  BY DEF Finish, arrayVars, MemoryInv, BufferTypeOK
<1>2. /\ Sufficient(job)
      /\ num = Len(Expected(job)) /\ num <= Len(cells)
      /\ \A k \in 1 .. num : cells[k][1] = Expected(job)[k]
  <2>1. CASE node \in Filling
    BY <1>1, <2>1 DEF ResultInv, FilledAtOnce
  <2>2. CASE node \notin Filling
    <3> DEFINE p == Parts(job)
               m == Len(p) - Len(todo)
    <3>1. /\ ~ Rejected(job)
          /\ \A i \in 1 .. m : Present(p[i])
          /\ num = Before(job, m) /\ num <= Len(cells)
          /\ \A k \in 1 .. num : cells[k][1] = Expected(job)[k]
      BY <1>1, <2>2 DEF ResultInv, AppendedSoFar
    <3>2. PartsRight(job)
      BY <1>1, <2>2, <3>1, AllPartsRight
    <3>3. m = Len(p)
      <4>1. Len(p) \in Nat
        BY <3>2, LenProperties DEF PartsRight
      <4> QED BY <1>1, <4>1
    <3> HIDE DEF m
    <3> QED BY <3>1, <3>2, <3>3 DEF PartsRight
  <2> QED BY <2>1, <2>2
<1>3. Delivered'
  BY <1>1, <1>2 DEF Delivered
<1> QED BY <1>1, <1>3 DEF ResultInv, AppendedSoFar, FilledAtOnce, RollbackCause, FailsForCause

LEMMA ResultStep ==
  ASSUME MemoryInv, ResultInv, BufferNext
  PROVE  ResultInv'
<1>1. CASE Reset
  <2>1. result' = "none" /\ stage' = "reset"
    BY <1>1, Cleared DEF Reset
  <2> QED BY <2>1, NothingReported
<1>2. CASE Start
  BY <1>2, StartedResult
<1>3. CASE AppendChunk
  BY <1>3, AppendedResult
<1>4. CASE NotPresent
  BY <1>4, MissingResult
<1>5. CASE NotReserved
  BY <1>5, UnreservedResult
<1>6. CASE NotCopied
  <2>1. stage' = "rollback" /\ result' = "none" /\ starved'
    BY <1>6 DEF NotCopied, Fail
  <2> QED BY <2>1 DEF ResultInv, AppendedSoFar, FilledAtOnce, RollbackCause, Delivered, FailsForCause
<1>7. CASE Resized
  <2>1. result' = "none" /\ stage' = "filling"
    BY <1>7 DEF Resized, Sizing, MemoryInv, NotReported
  <2> QED BY <2>1, NothingReported
<1>8. CASE NotResized
  <2>1. stage' = "idle" /\ result' = "failed" /\ starved'
    BY <1>8 DEF NotResized, Fail
  <2> QED BY <2>1 DEF ResultInv, AppendedSoFar, FilledAtOnce, RollbackCause, Delivered, FailsForCause
<1>9. CASE Filled
  BY <1>9, FilledResult
<1>10. CASE Rollback
  <2>1. /\ stage = "rollback" /\ stage' \in {"idle", "undefined"} /\ result' = "failed"
        /\ UNCHANGED <<job, starved>>
    BY <1>10 DEF Rollback, Empty, Destroy
  <2>2. starved' \/ ~ Sufficient(job')
    BY <2>1 DEF ResultInv, RollbackCause
  <2> QED BY <2>1, <2>2
          DEF ResultInv, AppendedSoFar, FilledAtOnce, RollbackCause, Delivered, FailsForCause
<1>11. CASE Finish
  BY <1>11, FinishedResult
<1>12. CASE ChangeType
  <2>1. result' = "none" /\ stage' = "idle"
    BY <1>12, Cleared DEF ChangeType
  <2> QED BY <2>1, NothingReported
<1>13. CASE DestroyBuffer
  <2>1. result' = "none" /\ stage' = "destroyed"
    BY <1>13, Cleared DEF DestroyBuffer
  <2> QED BY <2>1, NothingReported
<1> QED BY <1>1, <1>2, <1>3, <1>4, <1>5, <1>6, <1>7, <1>8, <1>9, <1>10, <1>11, <1>12, <1>13
        DEF BufferNext

LEMMA ResultSteady ==
  ASSUME ResultInv, UNCHANGED bufferVars
  PROVE  ResultInv'
<1>1. UNCHANGED <<node, cells, num, stage, job, todo, starved, result>>
  BY DEF bufferVars, arrayVars
<1>2. AppendedSoFar'
  BY <1>1 DEF ResultInv, AppendedSoFar
<1>3. FilledAtOnce' /\ RollbackCause' /\ Delivered' /\ FailsForCause'
  BY <1>1 DEF ResultInv, FilledAtOnce, RollbackCause, Delivered, FailsForCause
<1> QED BY <1>2, <1>3 DEF ResultInv

(* A process function that returns 0 had the inputs it needs and leaves    *)
(* the samples it promises, all of them within the buffer; and unless      *)
(* memory is short, one fails for insufficient inputs only, with the       *)
(* exceptions that FailsForCause names: for all inputs, nodes and          *)
(* sequences of calls (process functions of core/dfg/nodes).               *)
THEOREM ResultsCorrect == BufferSpec => []ResultsRight
<1>1. BufferInit => MemoryInv /\ ResultInv
  <2>1. ASSUME BufferInit PROVE ResultInv
    BY <2>1 DEF BufferInit, ResultInv, AppendedSoFar, FilledAtOnce, RollbackCause,
                Delivered, FailsForCause
  <2> QED BY <2>1, BufferStart
<1>2. MemoryInv /\ ResultInv /\ [BufferNext]_bufferVars => MemoryInv' /\ ResultInv'
  BY MemoryStep, MemorySteady, ResultStep, ResultSteady
<1>3. ResultInv => ResultsRight
  BY DEF ResultInv, ResultsRight
<1> QED BY <1>1, <1>2, <1>3, PTL DEF BufferSpec

-----------------------------------------------------------------------------
(* Machine integers: what the lemmas say of a result r of an operation     *)
(* about t                                                                 *)
Told(r, t, least, most) ==
  /\ r.status \in {"exact", "underflow", "overflow"}
  /\ r.status = "exact" <=> t \in least .. most
  /\ r.status = "exact" => r.out = t
  /\ r.status = "underflow" <=> t < least

(* Sums and differences of integers that differ and are not both negative  *)
LEMMA UnsignedSum ==
  ASSUME NEW a \in Unsigned, NEW b \in Unsigned, a # b
  PROVE  Told(AddSafeU(a, b), a + b, 0, UMax)
BY HalfAssumption DEF Unsigned, UMax, Told, AddSafeU, Result, WrapU

LEMMA UnsignedDifference ==
  ASSUME NEW a \in Unsigned, NEW b \in Unsigned
  PROVE  Told(SubSafeU(a, b), a - b, 0, UMax)
BY HalfAssumption DEF Unsigned, UMax, Told, SubSafeU, Result, WrapU

LEMMA SignedSum ==
  ASSUME NEW a \in Signed, NEW b \in Signed, a # b, ~(a < 0 /\ b < 0)
  PROVE  Told(AddSafeI(a, b), a + b, IMin, IMax)
BY HalfAssumption DEF Signed, IMin, IMax, Told, AddSafeI, Result, WrapI

LEMMA SignedDifference ==
  ASSUME NEW a \in Signed, NEW b \in Signed, ~(a = 0 /\ b = IMin)
  PROVE  Told(SubSafeI(a, b), a - b, IMin, IMax)
BY HalfAssumption DEF Signed, IMin, IMax, Told, SubSafeI, Result, WrapI

LEMMA SizeOfNegative ==
  ASSUME NEW v \in Signed, v < 0
  PROVE  SafeNegate(v) = -v
BY HalfAssumption DEF Signed, IMin, IMax, UMax, SafeNegate, WrapU

LEMMA MixedSum ==
  ASSUME NEW a \in Unsigned, NEW b \in Signed, a # b
  PROVE  Told(AddSafeUI(a, b), a + b, 0, UMax)
BY HalfAssumption DEF Unsigned, Signed, IMin, IMax, UMax, Told, AddSafeUI, AddSafeU,
   SubSafeU, Result, WrapU

LEMMA MixedDifference ==
  ASSUME NEW a \in Unsigned, NEW b \in Signed
  PROVE  Told(SubSafeUI(a, b), a - b, 0, UMax)
<1>1. b < 0 => SafeNegate(b) = -b
  BY SizeOfNegative
<1> QED
  BY <1>1, HalfAssumption DEF Unsigned, Signed, IMin, IMax, UMax, Told, SubSafeUI, Result, WrapU

(* The remainder of an integer that is within one divisor of 0             *)
LEMMA Remainder ==
  ASSUME NEW x \in Int, 0 <= x, x <= UMax
  PROVE  Low(x) = x
BY HalfAssumption DEF UMax, Low

LEMMA RemainderOfNegative ==
  ASSUME NEW x \in Int, x < 0, IMin <= x
  PROVE  Low(x) = x + 2 * Half
BY HalfAssumption DEF IMin, Low

LEMMA MixedSumOfSigned ==
  ASSUME NEW a \in Signed, NEW b \in Unsigned
  PROVE  Told(AddSafeIU(a, b), a + b, IMin, IMax)
<1>1. a < 0 => SafeNegate(a) = -a
  BY SizeOfNegative
<1>2. a + b \in IMin .. IMax => LowI(a + b) = a + b
  BY Remainder, RemainderOfNegative, HalfAssumption
     DEF Signed, Unsigned, IMin, IMax, UMax, LowI, WrapI
<1> QED
  BY <1>1, <1>2, HalfAssumption DEF Signed, Unsigned, IMin, IMax, UMax, Told, AddSafeIU, Result

(* What was calculated with twice the bits                                 *)
LEMMA CheckedSigned ==
  ASSUME NEW x \in Int, x \notin Half .. UMax
  PROVE  Told(CheckI(x), x, IMin, IMax)
<1>1. x \in IMin .. IMax => LowI(x) = x
  BY Remainder, RemainderOfNegative, HalfAssumption DEF IMin, IMax, UMax, LowI, WrapI
<1> QED
  BY <1>1, HalfAssumption DEF IMin, IMax, UMax, Told, CheckI

LEMMA CheckedUnsigned ==
  ASSUME NEW x \in Int
  PROVE  Told(CheckU(x), x, 0, UMax)
BY Remainder, HalfAssumption DEF UMax, Told, CheckU

LEMMA QuotientInteger ==
  ASSUME NEW a \in Int, NEW b \in Int, b # 0
  PROVE  Quotient(a, b) \in Int
BY DEF Quotient

LEMMA QuotientUnsigned ==
  ASSUME NEW a \in Nat, NEW b \in Nat, b # 0
  PROVE  Quotient(a, b) = a \div b
BY DEF Quotient

LEMMA QuotientByOne ==
  ASSUME NEW a \in Int
  PROVE  Quotient(a, 1) = a
BY DEF Quotient

(* Sizes that can be represented                                           *)
LEMMA OpenSize ==
  ASSUME NEW a \in Signed, NEW b \in Signed
  PROVE  RightOpenSizeI(a, b) = IF b < a THEN Failed ELSE Exact(b - a)
BY SizeOfNegative, HalfAssumption
   DEF Signed, IMin, IMax, UMax, RightOpenSizeI, Exact, WrapU, Failed

LEMMA ClosedSize ==
  ASSUME NEW a \in Signed, NEW b \in Signed
  PROVE  ClosedSizeI(a, b) = IF b < a \/ b - a + 1 > UMax THEN Failed ELSE Exact(b - a + 1)
BY OpenSize, HalfAssumption
   DEF Signed, IMin, IMax, UMax, ClosedSizeI, Exact, WrapU, Failed

LEMMA UnsignedSize ==
  ASSUME NEW a \in Unsigned, NEW b \in Unsigned
  PROVE  /\ ClosedSizeU(a, b) = IF b < a \/ b - a + 1 > UMax THEN Failed ELSE Exact(b - a + 1)
         /\ (a < Half <=> b < Half) =>
              RightOpenSizeU(a, b) = IF b < a THEN Failed ELSE Exact(b - a)
BY HalfAssumption
   DEF Unsigned, UMax, IMax, IMin, ClosedSizeU, RightOpenSizeU, Exact, WrapU, WrapI, Failed

-----------------------------------------------------------------------------
(* From these lemmas to the operations                                     *)
LEMMA ToldRight ==
  ASSUME NEW o, NEW r, ~IsSize(o), Truth(o) \in Int,
         Told(r, Truth(o), Least(o), Most(o)), r = [status |-> r.status, out |-> r.out]
  PROVE  Right(o, r)
<1>1. Least(o) \in Int /\ Most(o) \in Int /\ Least(o) <= Most(o)
  BY HalfAssumption DEF Least, Most, IMin, IMax, UMax
<1>2. Saturation(o, r).out =
        CASE r.status = "overflow" -> Most(o) [] r.status = "underflow" -> Least(o)
          [] OTHER -> r.out
  BY DEF Saturation, SatI, SatU, Saturated, Least, Most
<1> QED
  BY <1>1, <1>2 DEF Right, ExactRight, Founded, Nearest, Told

LEMMA Sums ==
  ASSUME NEW o \in Operations, NEW r \in Outcomes(o),
         o.op \in {"add_u", "add_i", "add_ui", "add_iu", "sub_u", "sub_i", "sub_ui"}
  PROVE  Right(o, r)
<1>0. ~IsSize(o)
  BY DEF IsSize
<1>1. CASE o.op = "add_u"
  <2>1. o.a \in Unsigned /\ o.b \in Unsigned /\ r = AddSafeU(o.a, o.b)
    BY <1>1 DEF Operations, Outcomes
  <2>2. CASE o.a = o.b
    BY <1>0, <1>1, <2>1, <2>2 DEF Right, Unnoticed, Founded, AddSafeU, Result, Unsigned
  <2>3. CASE o.a # o.b
    <3>1. Told(r, o.a + o.b, 0, UMax)
      BY <2>1, <2>3, UnsignedSum
    <3> QED
      BY <3>1, <2>1, <1>0, <1>1, ToldRight, HalfAssumption
         DEF Truth, Least, Most, IsSigned, AddSafeU, Result, Unsigned, UMax
  <2> QED
    BY <2>2, <2>3
<1>2. CASE o.op = "add_i"
  <2>1. o.a \in Signed /\ o.b \in Signed /\ r = AddSafeI(o.a, o.b)
    BY <1>2 DEF Operations, Outcomes
  <2>2. CASE o.a < 0 /\ o.b < 0
    BY <1>0, <1>2, <2>1, <2>2, HalfAssumption
       DEF Right, Unnoticed, Unfounded, ExactRight, AddSafeI, Result, Signed, IMin, IMax
  <2>3. CASE o.a = o.b /\ ~(o.a < 0 /\ o.b < 0)
    BY <1>0, <1>2, <2>1, <2>3 DEF Right, Unnoticed, Founded, AddSafeI, Result, Signed, IMin, IMax
  <2>4. CASE o.a # o.b /\ ~(o.a < 0 /\ o.b < 0)
    <3>1. Told(r, o.a + o.b, IMin, IMax)
      BY <2>1, <2>4, SignedSum
    <3> QED
      BY <3>1, <2>1, <1>0, <1>2, ToldRight, HalfAssumption
         DEF Truth, Least, Most, IsSigned, AddSafeI, Result, Signed, IMin, IMax
  <2> QED
    BY <2>2, <2>3, <2>4
<1>3. CASE o.op = "add_ui"
  <2>1. o.a \in Unsigned /\ o.b \in Signed /\ r = AddSafeUI(o.a, o.b)
    BY <1>3 DEF Operations, Outcomes
  <2>2. CASE o.a = o.b
    BY <1>0, <1>3, <2>1, <2>2
       DEF Right, Unnoticed, Founded, AddSafeUI, AddSafeU, Result, Unsigned
  <2>3. CASE o.a # o.b
    <3>1. Told(r, o.a + o.b, 0, UMax)
      BY <2>1, <2>3, MixedSum
    <3> QED
      BY <3>1, <2>1, <1>0, <1>3, ToldRight, HalfAssumption
         DEF Truth, Least, Most, IsSigned, AddSafeUI, AddSafeU, SubSafeU, Result, Unsigned,
             Signed, UMax, IMin, IMax
  <2> QED
    BY <2>2, <2>3
<1>4. CASE o.op = "add_iu"
  <2>1. o.a \in Signed /\ o.b \in Unsigned /\ r = AddSafeIU(o.a, o.b)
    BY <1>4 DEF Operations, Outcomes
  <2>2. Told(r, o.a + o.b, IMin, IMax)
    BY <2>1, MixedSumOfSigned
  <2> QED
    BY <2>1, <2>2, <1>0, <1>4, ToldRight, HalfAssumption
       DEF Truth, Least, Most, IsSigned, AddSafeIU, Result, Unsigned, Signed, UMax, IMin, IMax
<1>5. CASE o.op = "sub_u"
  <2>1. o.a \in Unsigned /\ o.b \in Unsigned /\ r = SubSafeU(o.a, o.b)
    BY <1>5 DEF Operations, Outcomes
  <2>2. Told(r, o.a - o.b, 0, UMax)
    BY <2>1, UnsignedDifference
  <2> QED
    BY <2>1, <2>2, <1>0, <1>5, ToldRight, HalfAssumption
       DEF Truth, Least, Most, IsSigned, SubSafeU, Result, Unsigned, UMax
<1>6. CASE o.op = "sub_i"
  <2>1. o.a \in Signed /\ o.b \in Signed /\ r = SubSafeI(o.a, o.b)
    BY <1>6 DEF Operations, Outcomes
  <2>2. CASE o.a = 0 /\ o.b = IMin
    BY <1>0, <1>6, <2>1, <2>2, HalfAssumption
       DEF Right, Unnoticed, Founded, SubSafeI, Result, Signed, IMin, IMax
  <2>3. CASE ~(o.a = 0 /\ o.b = IMin)
    <3>1. Told(r, o.a - o.b, IMin, IMax)
      BY <2>1, <2>3, SignedDifference
    <3> QED
      BY <3>1, <2>1, <1>0, <1>6, ToldRight, HalfAssumption
         DEF Truth, Least, Most, IsSigned, SubSafeI, Result, Signed, IMin, IMax
  <2> QED
    BY <2>2, <2>3
<1>7. CASE o.op = "sub_ui"
  <2>1. o.a \in Unsigned /\ o.b \in Signed /\ r = SubSafeUI(o.a, o.b)
    BY <1>7 DEF Operations, Outcomes
  <2>2. Told(r, o.a - o.b, 0, UMax)
    BY <2>1, MixedDifference
  <2> QED
    BY <2>1, <2>2, <1>0, <1>7, ToldRight, HalfAssumption
       DEF Truth, Least, Most, IsSigned, SubSafeUI, Result, Unsigned, Signed, UMax, IMin, IMax
<1> QED
  BY <1>1, <1>2, <1>3, <1>4, <1>5, <1>6, <1>7

LEMMA SignedProducts ==
  ASSUME NEW o \in Operations, NEW r \in Outcomes(o),
         o.op \in {"mul_i", "mul_iu", "muldiv_i", "muldiv_iuu"}
  PROVE  Right(o, r)
<1>1. o.a \in Int /\ o.b \in Int /\ o.c \in Int /\ o.c # 0
  BY HalfAssumption DEF Operations, Signed, Unsigned, IMin, IMax, UMax
<1>2. o.a * o.b \in Int
  BY <1>1
<1>3. Truth(o) \in Int /\ Truth(o) = Quotient(o.a * o.b, o.c)
  BY <1>1, <1>2, QuotientInteger DEF Truth
<1>4. o.op \in {"mul_i", "mul_iu"} => o.c = 1
  BY DEF Operations
<1>5. r = CheckI(Truth(o))
  BY <1>2, <1>3, <1>4, QuotientByOne DEF Outcomes, MulSafeI, MulDivSafeI
<1>6. Least(o) = IMin /\ Most(o) = IMax /\ ~IsSize(o)
  BY DEF Least, Most, IsSigned, IsSize
<1>7. CASE Truth(o) \in Half .. UMax
  <2>1. r.status = "exact"
    BY <1>5, <1>7, HalfAssumption DEF CheckI, UMax, IMin
  <2> QED
    BY <2>1, <1>7, <1>6 DEF Right, Unnoticed, Founded
<1>8. CASE Truth(o) \notin Half .. UMax
  <2>1. Told(r, Truth(o), Least(o), Most(o))
    BY <1>3, <1>5, <1>6, <1>8, CheckedSigned
  <2> QED
    BY <2>1, <1>3, <1>5, <1>6, ToldRight DEF CheckI
<1> QED
  BY <1>7, <1>8

LEMMA UnsignedProducts ==
  ASSUME NEW o \in Operations, NEW r \in Outcomes(o),
         o.op \in {"mul_u", "muldiv_u", "muldiv_uii"}
  PROVE  Right(o, r)
<1>1. o.a \in Int /\ o.b \in Int /\ o.c \in Int /\ o.c # 0
  BY HalfAssumption DEF Operations, Signed, Unsigned, IMin, IMax, UMax
<1>2. o.a * o.b \in Int
  BY <1>1
<1>3. Truth(o) \in Int /\ Truth(o) = Quotient(o.a * o.b, o.c)
  BY <1>1, <1>2, QuotientInteger DEF Truth
<1>4. Least(o) = 0 /\ Most(o) = UMax /\ ~IsSize(o)
  BY DEF Least, Most, IsSigned, IsSize
<1>5. r = CheckU(Truth(o)) => Right(o, r)
  BY <1>3, <1>4, CheckedUnsigned, ToldRight DEF CheckU
<1>6. CASE o.op = "mul_u"
  <2>1. o.c = 1
    BY <1>6 DEF Operations
  <2>2. Truth(o) = o.a * o.b
    BY <2>1, <1>2, <1>3, QuotientByOne
  <2>3. r \in MulSafeU(o.a, o.b)
    BY <1>6 DEF Outcomes
  <2>4. CASE o.a * o.b < 2 * Half * Half
    BY <2>2, <2>3, <2>4, <1>5 DEF MulSafeU
  <2>5. CASE ~(o.a * o.b < 2 * Half * Half)
    <3>1. r.status \in {"overflow", "underflow"}
      BY <2>3, <2>5 DEF MulSafeU, CheckU
    <3>2. Unfounded(o)
      <4>1. 2 * Half * Half \in Int
        BY HalfAssumption
      <4> QED
        BY <4>1, <2>5, <1>2, <1>6 DEF Unfounded
    <3> QED
      BY <3>1, <3>2 DEF Right, ExactRight
  <2> QED
    BY <2>4, <2>5
<1>7. CASE o.op = "muldiv_u"
  <2>1. o.a \in Nat /\ o.b \in Nat /\ o.c \in Nat
    BY <1>7, HalfAssumption DEF Operations, Unsigned, UMax
  <2>2. o.a * o.b \in Nat
    BY <2>1
  <2>3. r = CheckU((o.a * o.b) \div o.c)
    BY <1>7 DEF Outcomes, MulDivSafeU
  <2> QED
    BY <2>1, <2>2, <2>3, <1>1, <1>3, <1>5, QuotientUnsigned
<1>8. CASE o.op = "muldiv_uii"
  BY <1>3, <1>5, <1>8 DEF Outcomes, MulDivSafeUII
<1> QED
  BY <1>6, <1>7, <1>8

LEMMA Sizes ==
  ASSUME NEW o \in Operations, NEW r \in Outcomes(o), IsSize(o)
  PROVE  Right(o, r)
<1>1. Least(o) = 0 /\ Most(o) = UMax
  BY DEF IsSize, Least, Most, IsSigned
<1>2. CASE o.op \in {"closed_i", "open_i"}
  <2>1. o.a \in Signed /\ o.b \in Signed
    BY <1>2 DEF Operations
  <2>2. CASE o.op = "open_i"
    <3>1. r = IF o.b < o.a THEN Failed ELSE Exact(o.b - o.a)
      BY <2>1, <2>2, OpenSize DEF Outcomes
    <3> QED
      BY <3>1, <2>1, <2>2, <1>1, HalfAssumption
         DEF Right, ExactRight, Founded, IsSize, Truth, Failed, Exact, Signed, IMin, IMax, UMax
  <2>3. CASE o.op = "closed_i"
    <3>1. r = IF o.b < o.a \/ o.b - o.a + 1 > UMax THEN Failed ELSE Exact(o.b - o.a + 1)
      BY <2>1, <2>3, ClosedSize DEF Outcomes
    <3> QED
      BY <3>1, <2>1, <2>3, <1>1, HalfAssumption
         DEF Right, ExactRight, Founded, IsSize, Truth, Failed, Exact, Signed, IMin, IMax, UMax
  <2> QED
    BY <1>2, <2>2, <2>3
<1>3. CASE o.op = "closed_u"
  <2>1. o.a \in Unsigned /\ o.b \in Unsigned
    BY <1>3 DEF Operations
  <2>2. r = IF o.b < o.a \/ o.b - o.a + 1 > UMax THEN Failed ELSE Exact(o.b - o.a + 1)
    BY <2>1, <1>3, UnsignedSize DEF Outcomes
  <2> QED
    BY <2>1, <2>2, <1>1, <1>3, HalfAssumption
       DEF Right, ExactRight, Founded, IsSize, Truth, Failed, Exact, Unsigned, UMax
<1>4. CASE o.op = "open_u"
  <2>1. o.a \in Unsigned /\ o.b \in Unsigned /\ r = RightOpenSizeU(o.a, o.b)
    BY <1>4 DEF Operations, Outcomes
  <2>2. CASE o.a < Half <=> o.b < Half
    <3>1. r = IF o.b < o.a THEN Failed ELSE Exact(o.b - o.a)
      BY <2>1, <2>2, UnsignedSize
    <3> QED
      BY <3>1, <2>1, <1>1, <1>4, HalfAssumption
         DEF Right, ExactRight, Founded, IsSize, Truth, Failed, Exact, Unsigned, UMax
  <2>3. CASE o.a < Half /\ o.b >= Half
    BY <2>1, <2>3, <1>1, <1>4, HalfAssumption
       DEF Right, ExactRight, Unfounded, IsSize, RightOpenSizeU, Failed, Exact, WrapI,
           Unsigned, UMax, IMax, IMin
  <2>4. CASE o.b < Half /\ o.a >= Half
    BY <2>1, <2>4, <1>1, <1>4, HalfAssumption
       DEF Right, Founded, Unnoticed, IsSize, RightOpenSizeU, Failed, Exact, WrapI,
           Unsigned, UMax, IMax, IMin
  <2> QED
    BY <2>1, <2>2, <2>3, <2>4, HalfAssumption DEF Unsigned, UMax
<1> QED
  BY <1>2, <1>3, <1>4 DEF IsSize

(* Every calculation that is called exact is so, and every overflow or     *)
(* underflow that is told of is one, but for the exceptions that the       *)
(* property names, for machine integers of any size (core/arithmetic.h).   *)
THEOREM ArithmeticCorrect == ArithmeticSpec => []ArithmeticRight
<1>1. ArithmeticInit => ArithmeticRight
  BY DEF ArithmeticInit, ArithmeticRight
<1>2. ArithmeticRight /\ [ArithmeticNext]_sum => ArithmeticRight'
  <2> SUFFICES ASSUME ArithmeticRight, ArithmeticNext PROVE ArithmeticRight'
    BY DEF ArithmeticRight
  <2>1. PICK o \in Operations : \E r \in Outcomes(o) : sum' = [of |-> o, result |-> r]
    BY DEF ArithmeticNext, Calculate
  <2>2. PICK r \in Outcomes(o) : sum' = [of |-> o, result |-> r]
    BY <2>1
  <2>3. IsSize(o) \/ o.op \in {"add_u", "add_i", "add_ui", "add_iu", "sub_u", "sub_i", "sub_ui"}
          \/ o.op \in {"mul_i", "mul_iu", "muldiv_i", "muldiv_iuu"}
          \/ o.op \in {"mul_u", "muldiv_u", "muldiv_uii"}
    BY DEF Operations, IsSize
  <2>4. Right(o, r)
    BY <2>3, Sizes, Sums, SignedProducts, UnsignedProducts
  <2> QED
    BY <2>2, <2>4 DEF ArithmeticRight
<1> QED
  BY <1>1, <1>2, PTL DEF ArithmeticSpec
=============================================================================
