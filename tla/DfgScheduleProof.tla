-------------------------- MODULE DfgScheduleProof --------------------------
(***************************************************************************)
(* Theorems about DfgSchedule.  For all node types, topologies, requests   *)
(* and bounds, types are right, the masks of nodes have converged when     *)
(* nodes run, and they are the least ones; if types and requests keep to   *)
(* the contracts of that module, the counters are exact, nodes run once    *)
(* and after their producers, and calls only fail because a process        *)
(* function does.                                                          *)
(***************************************************************************)
EXTENDS DfgSchedule, TLAPS, FiniteSetTheorems, SequenceTheorems, NaturalFacts

-----------------------------------------------------------------------------
(* Masks                                                                   *)

(* The masks of a port name ports of its node type only.                   *)
LEMMA PortMasksType ==
  ASSUME NEW t \in NodeType, NEW i \in PortIdx(t), NEW trigger \in Trigger
  PROVE  PortMasks[t][i][trigger] \in [Reaction -> SUBSET PortIdx(t)]
<1> DEFINE mask(r) == SelfReference(t, i, trigger, r)
                        \cup ExplicitDeps(t, i, trigger, r)
                        \cup PureFunctionalDeps(t, i, trigger, r)
<1>1. PortMasks[t][i][trigger] = [r \in Reaction |-> mask(r)]
  BY DEF PortMasks
<1>2. ASSUME NEW r \in Reaction PROVE mask(r) \subseteq PortIdx(t)
  <2>1. SelfReference(t, i, trigger, r) \subseteq PortIdx(t)
    BY DEF SelfReference
  <2>2. ExplicitDeps(t, i, trigger, r) \subseteq PortIdx(t)
    BY TypesAssumption DEF ExplicitDeps, DepWord
  <2>3. PureFunctionalDeps(t, i, trigger, r) \subseteq PortIdx(t)
    BY <1>2 DEF PureFunctionalDeps, InPorts, OutPorts, Reaction
  <2> QED BY <2>1, <2>2, <2>3
<1> QED BY <1>1, <1>2

LEMMA ApplyType ==
  ASSUME NEW n \in Node, NEW a \in Mask(n), NEW b \in Mask(n)
  PROVE  Apply(a, b) \in Mask(n)
BY DEF Apply, Mask

LEMMA NoMaskType == ASSUME NEW n \in Node PROVE NoMask \in Mask(n)
BY DEF NoMask, Mask

LEMMA PullAllType == ASSUME NEW n \in Node PROVE PullAll(n) \in Mask(n)
BY DEF PullAll, Mask, InPorts

(* The ports of a node are ports of its type.                              *)
LEMMA PortIdxType ==
  ASSUME NEW n \in Node
  PROVE  /\ TypeOf[n] \in NodeType
         /\ PortIdx(TypeOf[n]) \subseteq PortIndexes
         /\ IsFiniteSet(PortIdx(TypeOf[n]))
         /\ \A i \in PortIdx(TypeOf[n]) : <<n, i>> \in Port
<1>1. TypeOf[n] \in NodeType
  BY TypesAssumption
<1>2. PortDir[TypeOf[n]] \in Seq(Dir)
  BY <1>1, TypesAssumption
<1>3. PortIdx(TypeOf[n]) = 1..Len(PortDir[TypeOf[n]])
        /\ Len(PortDir[TypeOf[n]]) \in Nat
  BY <1>2 DEF PortIdx
<1>4. IsFiniteSet(PortIdx(TypeOf[n]))
  BY <1>3, FS_Interval
<1> QED BY <1>1, <1>4 DEF PortIndexes, Port

LEMMA MaskIndexes ==
  ASSUME NEW n \in Node, NEW m \in Mask(n)
  PROVE  /\ m \in [Reaction -> SUBSET PortIndexes]
         /\ InMask(m) \subseteq PortIdx(TypeOf[n])
         /\ OutMask(m) \subseteq PortIdx(TypeOf[n])
         /\ UsedMask(m) \subseteq PortIdx(TypeOf[n])
BY PortIdxType DEF Mask, InMask, OutMask, UsedMask, Reaction

(* A port is a pair of a node and an index.                                *)
LEMMA PortIsPair ==
  ASSUME NEW p \in Port
  PROVE  p[1] \in Node /\ p[2] \in PortIdx(TypeOf[p[1]]) /\ p = <<p[1], p[2]>>
BY DEF Port

-----------------------------------------------------------------------------
(* The list of nodes                                                       *)

(* What is left of a sequence when the j-th element is taken out           *)
LEMMA RemoveAtProperties ==
  ASSUME NEW S, NEW s \in Seq(S), NEW j \in 1..Len(s)
  PROVE  /\ RemoveAt(s, j) \in Seq(S)
         /\ Len(RemoveAt(s, j)) = Len(s) - 1
         /\ \A i \in 1..(Len(s) - 1) :
              RemoveAt(s, j)[i] = IF i < j THEN s[i] ELSE s[i + 1]
<1> DEFINE a == SubSeq(s, 1, j - 1)
           b == SubSeq(s, j + 1, Len(s))
<1>1. Len(s) \in Nat /\ j \in Int /\ \A i \in 1..Len(s) : s[i] \in S
  OBVIOUS
<1>2. /\ a \in Seq(S)
      /\ Len(a) = j - 1
      /\ \A i \in 1..(j - 1) : a[i] = s[i]
  <2>1. \A i \in 1..(j - 1) : s[i] \in S
    BY <1>1
  <2>2. /\ a \in Seq(S)
        /\ Len(a) = IF 1 <= j - 1 THEN (j - 1) - 1 + 1 ELSE 0
        /\ \A i \in 1..((j - 1) - 1 + 1) : a[i] = s[1 + i - 1]
    BY <1>1, <2>1, SubSeqProperties
  <2> HIDE DEF a
  <2> QED BY <1>1, <2>2
<1>3. /\ b \in Seq(S)
      /\ Len(b) = Len(s) - j
      /\ \A i \in 1..(Len(s) - j) : b[i] = s[i + j]
  <2>1. \A i \in (j + 1)..Len(s) : s[i] \in S
    BY <1>1
  <2>2. /\ b \in Seq(S)
        /\ Len(b) = IF j + 1 <= Len(s) THEN Len(s) - (j + 1) + 1 ELSE 0
        /\ \A i \in 1..(Len(s) - (j + 1) + 1) : b[i] = s[(j + 1) + i - 1]
    BY <1>1, <2>1, SubSeqProperties
  <2> HIDE DEF b
  <2> QED BY <1>1, <2>2
<1> HIDE DEF a, b
<1>4. /\ a \o b \in Seq(S)
      /\ Len(a \o b) = Len(a) + Len(b)
      /\ \A i \in 1..(Len(a) + Len(b)) :
           (a \o b)[i] = IF i <= Len(a) THEN a[i] ELSE b[i - Len(a)]
  BY <1>2, <1>3, ConcatProperties
<1>5. RemoveAt(s, j) = a \o b
  BY DEF RemoveAt, a, b
<1>6. ASSUME NEW i \in 1..(Len(s) - 1)
      PROVE  (a \o b)[i] = IF i < j THEN s[i] ELSE s[i + 1]
  <2>1. CASE i < j
    BY <1>1, <1>2, <1>3, <1>4, <2>1
  <2>2. CASE ~ (i < j)
    <3>1. i - Len(a) \in 1..(Len(s) - j) /\ (i - Len(a)) + j = i + 1
      BY <1>1, <1>2, <2>2
    <3>2. (a \o b)[i] = b[i - Len(a)]
      BY <1>1, <1>2, <1>3, <1>4, <2>2
    <3> QED BY <1>3, <2>2, <3>1, <3>2
  <2> QED BY <2>1, <2>2
<1>7. Len(a \o b) = Len(s) - 1
  BY <1>1, <1>2, <1>3, <1>4
<1>8. RemoveAt(s, j) \in Seq(S) /\ Len(RemoveAt(s, j)) = Len(s) - 1
  BY <1>4, <1>5, <1>7
<1>9. \A i \in 1..(Len(s) - 1) :
        RemoveAt(s, j)[i] = IF i < j THEN s[i] ELSE s[i + 1]
  BY <1>5, <1>6
<1> QED BY <1>8, <1>9

LEMMA WithoutProperties ==
  ASSUME NEW s \in Seq(Node), NEW n \in Node
  PROVE  /\ Without(s, n) \in Seq(Node)
         /\ Range(Without(s, n)) \subseteq Range(s)
         /\ Range(s) \subseteq Range(Without(s, n)) \cup {n}
<1>1. CASE n \in Range(s)
  <2>1. \E k \in DOMAIN s : s[k] = n
    BY <1>1 DEF Range
  <2> DEFINE j == CHOOSE k \in DOMAIN s : s[k] = n
             r == RemoveAt(s, j)
  <2>2. j \in 1..Len(s) /\ s[j] = n
    BY <2>1
  <2>3. Without(s, n) = r
    BY <1>1 DEF Without
  <2> HIDE DEF j
  <2>4. /\ r \in Seq(Node)
        /\ Len(r) = Len(s) - 1
        /\ \A i \in 1..(Len(s) - 1) : r[i] = IF i < j THEN s[i] ELSE s[i + 1]
    BY <2>2, RemoveAtProperties
  <2> HIDE DEF r
  <2>5. ASSUME NEW i \in DOMAIN s PROVE s[i] \in Range(r) \cup {n}
    <3>1. CASE i < j
      BY <2>2, <2>4, <3>1 DEF Range
    <3>2. CASE i > j
      <4>1. i - 1 \in 1..(Len(s) - 1) /\ r[i - 1] = s[i]
        BY <2>2, <2>4, <3>2
      <4> QED BY <2>4, <4>1 DEF Range
    <3> QED BY <2>2, <3>1, <3>2
  <2>6. ASSUME NEW i \in DOMAIN r PROVE r[i] \in Range(s)
    BY <2>2, <2>4 DEF Range
  <2> QED BY <2>3, <2>4, <2>5, <2>6 DEF Range
<1>2. CASE n \notin Range(s)
  BY <1>2 DEF Without
<1> QED BY <1>1, <1>2

LEMMA ConsProperties ==
  ASSUME NEW s \in Seq(Node), NEW n \in Node
  PROVE  Cons(n, s) \in Seq(Node) /\ Range(Cons(n, s)) = Range(s) \cup {n}
<1>1. Cons(n, s) \in Seq(Node) /\ Len(Cons(n, s)) = Len(s) + 1
  BY DEF Cons
<1>2. \A i \in DOMAIN s : i + 1 \in DOMAIN Cons(n, s) /\ Cons(n, s)[i + 1] = s[i]
  BY DEF Cons
<1>3. 1 \in DOMAIN Cons(n, s) /\ Cons(n, s)[1] = n
  BY DEF Cons
<1>4. \A i \in DOMAIN Cons(n, s) : i # 1 => i - 1 \in DOMAIN s /\ Cons(n, s)[i] = s[i - 1]
  BY DEF Cons
<1> QED BY <1>1, <1>2, <1>3, <1>4 DEF Range

LEMMA PushFrontProperties ==
  ASSUME NEW s \in Seq(Node), NEW n \in Node
  PROVE  /\ PushFront(s, n) \in Seq(Node)
         /\ Range(PushFront(s, n)) = Range(s) \cup {n}
<1> DEFINE u == Without(s, n)
<1>1. /\ u \in Seq(Node)
      /\ Range(u) \subseteq Range(s)
      /\ Range(s) \subseteq Range(u) \cup {n}
  BY WithoutProperties
<1>2. PushFront(s, n) = Cons(n, u)
  BY DEF PushFront
<1> HIDE DEF u
<1>3. Cons(n, u) \in Seq(Node) /\ Range(Cons(n, u)) = Range(u) \cup {n}
  BY <1>1, ConsProperties
<1> QED BY <1>1, <1>2, <1>3

LEMMA TailRange ==
  ASSUME NEW s \in Seq(Node), s # <<>>
  PROVE  /\ Tail(s) \in Seq(Node) /\ Head(s) \in Node
         /\ Range(s) = Range(Tail(s)) \cup {Head(s)}
<1>1. Tail(s) \in Seq(Node) /\ Head(s) = s[1] /\ 1 \in DOMAIN s
  OBVIOUS
<1>2. \A i \in DOMAIN Tail(s) : i + 1 \in DOMAIN s /\ Tail(s)[i] = s[i + 1]
  OBVIOUS
<1>3. \A i \in DOMAIN s : i # 1 => i - 1 \in DOMAIN Tail(s) /\ s[i] = Tail(s)[i - 1]
  OBVIOUS
<1> QED BY <1>1, <1>2, <1>3 DEF Range

-----------------------------------------------------------------------------
(* The stack of calls                                                      *)

StackOK ==
  /\ stack \in Seq(Frame)
  /\ \A k \in DOMAIN stack : WorkOK(stack[k])

LEMMA TopType ==
  ASSUME StackOK, stack # <<>>
  PROVE  Top \in Frame /\ WorkOK(Top)
BY DEF StackOK, Top

LEMMA SetTopType ==
  ASSUME StackOK, stack # <<>>, conns' = conns,
         NEW f \in Frame, WorkOK(f), SetTop(f)
  PROVE  StackOK' /\ calls' = calls
<1>1. stack' = [stack EXCEPT ![1] = f]
  BY DEF SetTop
<1>2. 1 \in DOMAIN stack /\ stack' \in Seq(Frame) /\ DOMAIN stack' = DOMAIN stack
  BY <1>1 DEF StackOK
<1>3. \A k \in DOMAIN stack : stack'[k] = IF k = 1 THEN f ELSE stack[k]
  BY <1>1, <1>2
<1>4. ASSUME NEW k \in DOMAIN stack' PROVE WorkOK(stack[k])'
  BY <1>2, <1>3 DEF StackOK, WorkOK, IsLink
<1> QED BY <1>2, <1>4 DEF StackOK, SetTop

LEMMA ReturnType ==
  ASSUME StackOK, stack # <<>>, conns' = conns, NEW r, Return(r)
  PROVE  StackOK' /\ calls' = calls /\ ret' = r
<1>1. stack' = Tail(stack)
  BY DEF Return
<1>2. stack' \in Seq(Frame)
  BY <1>1 DEF StackOK
<1>3. \A k \in DOMAIN stack' : k + 1 \in DOMAIN stack /\ stack'[k] = stack[k + 1]
  BY <1>1 DEF StackOK
<1>4. ASSUME NEW k \in DOMAIN stack' PROVE WorkOK(stack[k])'
  BY <1>3 DEF StackOK, WorkOK, IsLink
<1> QED BY <1>2, <1>4 DEF StackOK, Return

(* TypeOK, but for any topology instead of one of those that the module    *)
(* starts from: in a session the graph changes.                            *)
Typed ==
  /\ IsTopology(conns)
  /\ required \in [Node -> [Reaction -> SUBSET PortIndexes]]
  /\ negotiated \in [Node -> [Reaction -> SUBSET PortIndexes]]
  /\ propagated \in [Node -> [Reaction -> SUBSET PortIndexes]]
  /\ \A n \in Node : negotiated[n] \in Mask(n) /\ propagated[n] \in Mask(n)
  /\ deps \in [Node -> Nat]
  /\ marking \in [Node -> Marking]
  /\ generation \in [Port -> 0..GenMax]
  /\ written \subseteq OutPort
  /\ stack \in Seq(Frame)
  /\ \A k \in DOMAIN stack : WorkOK(stack[k])
  /\ ret \in {"none", "ok", "error"}
  /\ calls \in Nat

LEMMA TypedFromType == TypeOK <=> Typed /\ conns \in Graphs
BY GraphsAssumption DEF TypeOK, Typed

(* What follows from Typed about the connections.                         *)
LEMMA ConnsTyped ==
  ASSUME Typed
  PROVE  /\ conns \in [Port -> Seq(Port)]
         /\ \A n \in Node : \A i \in PortIdx(TypeOf[n]) :
              \A j \in DOMAIN conns[<<n, i>>] :
                /\ conns[<<n, i>>][j] \in Port
                /\ conns[<<n, i>>][j][1] \in Node
<1>1. conns \in [Port -> Seq(Port)]
  BY DEF Typed, IsTopology
<1>2. ASSUME NEW n \in Node, NEW i \in PortIdx(TypeOf[n]),
             NEW j \in DOMAIN conns[<<n, i>>]
      PROVE  conns[<<n, i>>][j] \in Port /\ conns[<<n, i>>][j][1] \in Node
  <2>1. conns[<<n, i>>] \in Seq(Port)
    BY <1>1, PortIdxType
  <2>2. conns[<<n, i>>][j] \in Port
    BY <2>1
  <2> QED BY <2>2, PortIsPair
<1> QED BY <1>1, <1>2

(* The links of a node are connections of its ports.                       *)
LEMMA LinksTyped ==
  ASSUME Typed, NEW x \in 1..4, NEW n \in Node,
         NEW ports \in SUBSET PortIdx(TypeOf[n])
  PROVE  /\ Links(x, n, ports) \in SUBSET Work
         /\ \A w \in Links(x, n, ports) : IsLink(n, w)
<1>1. ASSUME NEW w \in Links(x, n, ports)
      PROVE  w \in Work /\ IsLink(n, w)
  <2>1. PICK i \in ports : \E j \in DOMAIN conns[<<n, i>>] : w = <<x, i, j>>
    BY DEF Links
  <2>2. PICK j \in DOMAIN conns[<<n, i>>] : w = <<x, i, j>>
    BY <2>1
  <2>3. i \in PortIdx(TypeOf[n]) /\ i \in PortIndexes
    BY PortIdxType
  <2>4. j \in Nat
    BY <2>2, <2>3, ConnsTyped, PortIdxType
  <2> QED BY <2>2, <2>3, <2>4 DEF Work, IsLink
<1> QED BY <1>1

LEMMA DiffType ==
  ASSUME NEW n \in Node, NEW a \in Mask(n), NEW b \in Mask(n)
  PROVE  Diff(a, b) \in Mask(n)
BY DEF Diff, Mask

(* A call starts with a frame of the right type.                           *)
LEMMA NewFrameType ==
  ASSUME NEW call \in {"component", "graph"}, NEW n \in Node,
         NEW s \in Seq(Node)
  PROVE  NewFrame(call, n, s) \in Frame /\ WorkOK(NewFrame(call, n, s))
<1>1. <<>> \in Seq(Visiting) /\ DOMAIN <<>> = {}
  OBVIOUS
<1> QED BY <1>1 DEF NewFrame, Frame, Phase, WorkOK

-----------------------------------------------------------------------------
(* Type correctness: one lemma per group of actions                        *)

LEMMA ResetType ==
  ASSUME Typed, NEW S \in SUBSET Node, NEW neg,
         \A n \in Node : neg[n] \in Mask(n), Reset(S, neg)
  PROVE  /\ deps' \in [Node -> Nat]
         /\ negotiated' \in [Node -> [Reaction -> SUBSET PortIndexes]]
         /\ propagated' \in [Node -> [Reaction -> SUBSET PortIndexes]]
         /\ \A n \in Node : negotiated'[n] \in Mask(n) /\ propagated'[n] \in Mask(n)
         /\ marking' \in [Node -> Marking]
         /\ written' \subseteq OutPort
<1>1. deps' \in [Node -> Nat] /\ written' \subseteq OutPort
  BY DEF Typed, Reset
<1>2. marking' \in [Node -> Marking]
  BY DEF Typed, Reset, Marking
<1>3. \A n \in Node : negotiated'[n] \in Mask(n) /\ propagated'[n] \in Mask(n)
  BY NoMaskType DEF Typed, Reset
<1>4. /\ negotiated' \in [Node -> [Reaction -> SUBSET PortIndexes]]
      /\ propagated' \in [Node -> [Reaction -> SUBSET PortIndexes]]
  BY <1>3, MaskIndexes DEF Reset
<1> QED BY <1>1, <1>2, <1>3, <1>4

LEMMA StartType ==
  ASSUME Typed, (\E q \in Requests : ScheduleComponent(q.node, q.mask))
                   \/ ScheduleGraph
  PROVE  Typed'
<1>1. ASSUME NEW q \in Requests, ScheduleComponent(q.node, q.mask)
      PROVE  Typed'
  <2>1. q.node \in Node /\ q.mask \in Mask(q.node)
    BY RequestsAssumption
  <2> DEFINE neg == [m \in Node |-> IF m = q.node THEN q.mask ELSE NoMask]
  <2>2. \A n \in Node : neg[n] \in Mask(n)
    BY <2>1, NoMaskType
  <2>3. Component(q.node) \in SUBSET Node /\ Reset(Component(q.node), neg)
    BY <1>1 DEF ScheduleComponent, Component
  <2>4. required' \in [Node -> [Reaction -> SUBSET PortIndexes]]
    BY <1>1, <2>1, MaskIndexes DEF ScheduleComponent, Typed
  <2>5. /\ deps' \in [Node -> Nat]
        /\ negotiated' \in [Node -> [Reaction -> SUBSET PortIndexes]]
        /\ propagated' \in [Node -> [Reaction -> SUBSET PortIndexes]]
        /\ \A n \in Node : negotiated'[n] \in Mask(n) /\ propagated'[n] \in Mask(n)
        /\ marking' \in [Node -> Marking]
        /\ written' \subseteq OutPort
    <3> HIDE DEF neg
    <3> QED BY <2>2, <2>3, ResetType
  <2>6. StackOK'
    <3>1. <<q.node>> \in Seq(Node)
      BY <2>1
    <3> DEFINE f == NewFrame("component", q.node, <<q.node>>)
    <3>2. f \in Frame /\ WorkOK(f)
      BY <2>1, <3>1, NewFrameType
    <3>3. stack' = <<f>> /\ conns' = conns
      BY <1>1 DEF ScheduleComponent
    <3> HIDE DEF f
    <3> QED BY <3>2, <3>3 DEF StackOK, WorkOK, IsLink
  <2>7. calls' \in Nat
    BY <1>1 DEF ScheduleComponent, Typed
  <2> QED BY <1>1, <2>4, <2>5, <2>6, <2>7 DEF ScheduleComponent, Typed, StackOK
<1>2. ASSUME ScheduleGraph PROVE Typed'
  <2> DEFINE neg == [n \in Node |-> PullAll(n)]
  <2>1. \A n \in Node : neg[n] \in Mask(n)
    BY PullAllType
  <2>2. Reset(Node, neg) /\ required' = neg
    BY <1>2 DEF ScheduleGraph
  <2>3. required' \in [Node -> [Reaction -> SUBSET PortIndexes]]
    BY <2>1, <2>2, MaskIndexes
  <2>4. /\ deps' \in [Node -> Nat]
        /\ negotiated' \in [Node -> [Reaction -> SUBSET PortIndexes]]
        /\ propagated' \in [Node -> [Reaction -> SUBSET PortIndexes]]
        /\ \A n \in Node : negotiated'[n] \in Mask(n) /\ propagated'[n] \in Mask(n)
        /\ marking' \in [Node -> Marking]
        /\ written' \subseteq OutPort
    <3> HIDE DEF neg
    <3> QED BY <2>1, <2>2, ResetType
  <2>5. StackOK'
    <3>1. PICK s \in Pushed(Node) : stack' = <<NewFrame("graph", Head(s), s)>>
      BY <1>2 DEF ScheduleGraph
    <3>2. s \in Seq(Node) /\ Head(s) \in Node
      <4>1. s \in [1..Cardinality(Node) -> Node] /\ Cardinality(Node) \in Nat
        BY <3>1, NodesAssumption, FS_CardinalityType DEF Pushed, SetToSeqs
      <4>2. Cardinality(Node) # 0
        BY NodesAssumption, FS_EmptySet
      <4> QED BY <4>1, <4>2
    <3> DEFINE f == NewFrame("graph", Head(s), s)
    <3>3. f \in Frame /\ WorkOK(f)
      BY <3>2, NewFrameType
    <3>4. stack' = <<f>> /\ conns' = conns
      BY <1>2, <3>1 DEF ScheduleGraph
    <3> HIDE DEF f
    <3> QED BY <3>3, <3>4 DEF StackOK, WorkOK, IsLink
  <2>6. calls' \in Nat
    BY <1>2 DEF ScheduleGraph, Typed
  <2> QED BY <1>2, <2>3, <2>4, <2>5, <2>6 DEF ScheduleGraph, Typed, StackOK
<1> QED BY <1>1, <1>2

LEMMA StackFromTyped == Typed => StackOK
BY DEF Typed, StackOK

LEMMA ToPropagateTyped ==
  ASSUME Typed, NEW n \in Node
  PROVE  /\ ToPropagate(n) \in SUBSET Work
         /\ \A w \in ToPropagate(n) : w[3] = 0 \/ IsLink(n, w)
<1> DEFINE ports(x) == Diff(negotiated[n], propagated[n])[Word[x]]
           right(x) == {i \in ports(x) : RightDir(n, x, i)}
           work(x) == Links(x, n, right(x)) \cup {<<x, i, 0>> : i \in ports(x) \ right(x)}
<1>1. ToPropagate(n) = UNION {work(x) : x \in 1..4}
  BY DEF ToPropagate
<1>2. ASSUME NEW x \in 1..4
      PROVE  work(x) \subseteq Work /\ \A w \in work(x) : w[3] = 0 \/ IsLink(n, w)
  <2>1. Diff(negotiated[n], propagated[n]) \in Mask(n)
    BY DiffType DEF Typed
  <2>2. Word[x] \in Reaction
    BY DEF Word, Reaction
  <2>3. ports(x) \in SUBSET PortIdx(TypeOf[n])
    BY <2>1, <2>2 DEF Mask
  <2>4. right(x) \in SUBSET PortIdx(TypeOf[n])
    BY <2>3
  <2>5. \A w \in Links(x, n, right(x)) : w \in Work /\ IsLink(n, w)
    BY <2>4, LinksTyped
  <2>6. \A i \in ports(x) : <<x, i, 0>> \in Work
    BY <2>3, PortIdxType DEF Work
  <2> QED BY <2>5, <2>6
<1> HIDE DEF work
<1> QED BY <1>1, <1>2

LEMMA NegotiateType ==
  ASSUME Typed, Negotiate
  PROVE  Typed'
<1>0. StackOK
  BY StackFromTyped
<1>1. ASSUME EvalStart PROVE Typed'
  <2>1. In("converge") /\ stack # <<>> /\ Top.list # <<>>
    BY <1>1 DEF EvalStart, In
  <2>2. Top \in Frame
    BY <1>0, <2>1, TopType
  <2> DEFINE n == Head(Top.list)
             f == [Top EXCEPT !.list = Tail(@), !.phase = "eval", !.cur = n,
                              !.work = ToPropagate(n)]
  <2>3. n \in Node /\ Tail(Top.list) \in Seq(Node)
    BY <2>1, <2>2 DEF Frame
  <2>4. \A w \in ToPropagate(n) : w[3] = 0 \/ IsLink(n, w)
    BY <2>3, ToPropagateTyped
  <2>5. ToPropagate(n) \in SUBSET Work
    BY <2>3, ToPropagateTyped
  <2>6. f \in Frame
    BY <2>2, <2>3, <2>5 DEF Frame, Phase
  <2>7. WorkOK(f)
    <3>1. f.work = ToPropagate(n) /\ f.cur = n /\ f.phase = "eval"
      BY <2>2 DEF Frame
    <3>2. f.todo = Top.todo /\ WorkOK(Top)
      BY <1>0, <2>1, <2>2, TopType DEF Frame
    <3> QED BY <2>4, <3>1, <3>2 DEF WorkOK
  <2>8. SetTop(f) /\ conns' = conns
    BY <1>1 DEF EvalStart
  <2>9. StackOK' /\ calls' = calls
    <3> HIDE DEF f
    <3> QED BY <1>0, <2>1, <2>6, <2>7, <2>8, SetTopType
  <2> QED BY <1>1, <2>9 DEF EvalStart, Typed, StackOK, maskVars
<1>2. ASSUME Propagate PROVE Typed'
  <2>1. In("eval") /\ stack # <<>> /\ conns' = conns
    BY <1>2 DEF Propagate, In
  <2>2. Top \in Frame /\ WorkOK(Top)
    BY <1>0, <2>1, TopType
  <2>3. PICK w \in Top.work : Propagate!2!(w)
    BY <1>2 DEF Propagate
  <2>4. CASE w[3] = 0
    <3>1. Return("error") /\ negotiated' = negotiated
      BY <2>3, <2>4
    <3>2. StackOK' /\ calls' = calls /\ ret' = "error"
      BY <1>0, <2>1, <3>1, ReturnType
    <3> QED BY <1>2, <3>1, <3>2 DEF Propagate, Typed, StackOK
  <2>5. CASE w[3] # 0
    <3> DEFINE q == Peer(Top.cur, w)
               m == q[1]
               event == IF w[1] \in {1, 3} THEN "new" ELSE "old"
               mask == PortMasks[TypeOf[m]][q[2]][event]
               rest == [Top EXCEPT !.work = @ \ {w}]
    <3>1. Top.cur \in Node /\ w[2] \in PortIdx(TypeOf[Top.cur])
            /\ w[3] \in DOMAIN conns[<<Top.cur, w[2]>>]
      BY <2>2, <2>5 DEF Frame, WorkOK, IsLink
    <3>2. q \in Port
      BY <3>1, ConnsTyped DEF Peer
    <3>3. m \in Node /\ q[2] \in PortIdx(TypeOf[m])
      BY <3>2, PortIsPair
    <3>4. mask \in Mask(m)
      BY <3>3, PortMasksType, PortIdxType DEF Mask, Trigger
    <3>5. rest \in Frame /\ WorkOK(rest)
      BY <2>2 DEF Frame, WorkOK
    <3>6. CASE IsSubset(negotiated[m], mask)
      <4>1. SetTop(rest) /\ negotiated' = negotiated /\ ret' = ret
        BY <2>3, <2>5, <3>6
      <4>2. StackOK' /\ calls' = calls
        <5> HIDE DEF rest
        <5> QED BY <1>0, <2>1, <3>5, <4>1, SetTopType
      <4> QED BY <1>2, <4>1, <4>2 DEF Propagate, Typed, StackOK
    <3>7. CASE ~ IsSubset(negotiated[m], mask)
      <4> DEFINE f == [rest EXCEPT !.list = PushFront(@, m)]
      <4>1. /\ SetTop(f) /\ ret' = ret
            /\ negotiated' = [negotiated EXCEPT ![m] = Apply(@, mask)]
        BY <2>3, <2>5, <3>7
      <4>2. f \in Frame /\ WorkOK(f)
        <5> HIDE DEF rest, m
        <5>1. PushFront(rest.list, m) \in Seq(Node)
          BY <3>3, <3>5, PushFrontProperties DEF Frame
        <5> QED BY <3>5, <5>1 DEF Frame, WorkOK
      <4>3. StackOK' /\ calls' = calls
        <5> HIDE DEF f
        <5> QED BY <1>0, <2>1, <4>1, <4>2, SetTopType
      <4>4. Apply(negotiated[m], mask) \in Mask(m)
        <5> HIDE DEF mask, m
        <5> QED BY <3>3, <3>4, ApplyType DEF Typed
      <4>5. /\ negotiated' \in [Node -> [Reaction -> SUBSET PortIndexes]]
            /\ \A n \in Node : negotiated'[n] \in Mask(n)
        <5> HIDE DEF mask, m
        <5> QED BY <3>3, <4>1, <4>4, MaskIndexes DEF Typed
      <4> QED BY <1>2, <4>1, <4>3, <4>5 DEF Propagate, Typed, StackOK
    <3> QED BY <3>6, <3>7
  <2> QED BY <2>4, <2>5
<1>3. ASSUME EvalEnd PROVE Typed'
  <2>1. In("eval") /\ stack # <<>> /\ conns' = conns
    BY <1>3 DEF EvalEnd, In
  <2>2. Top \in Frame /\ WorkOK(Top) /\ Top.cur \in Node
    BY <1>0, <2>1, TopType DEF Frame
  <2> DEFINE f == [Top EXCEPT !.phase = "converge"]
  <2>3. f \in Frame /\ WorkOK(f)
    BY <1>3, <2>2 DEF Frame, Phase, WorkOK, EvalEnd
  <2>4. SetTop(f)
    BY <1>3 DEF EvalEnd
  <2>5. StackOK' /\ calls' = calls
    <3> HIDE DEF f
    <3> QED BY <1>0, <2>1, <2>3, <2>4, SetTopType
  <2>6. CountDeps(Top.cur) \in Nat
    <3>1. IsFiniteSet(InMask(negotiated[Top.cur]))
      BY <2>2, PortIdxType, MaskIndexes, FS_Subset DEF Typed
    <3> QED BY <3>1, FS_Subset, FS_CardinalityType DEF CountDeps
  <2>7. Apply(propagated[Top.cur], negotiated[Top.cur]) \in Mask(Top.cur)
    BY <2>2, ApplyType DEF Typed
  <2>8. /\ propagated' \in [Node -> [Reaction -> SUBSET PortIndexes]]
        /\ \A n \in Node : propagated'[n] \in Mask(n)
        /\ deps' \in [Node -> Nat]
    BY <1>3, <2>2, <2>6, <2>7, MaskIndexes DEF EvalEnd, Typed
  <2> QED BY <1>3, <2>5, <2>8 DEF EvalEnd, Typed, StackOK
<1> QED BY <1>1, <1>2, <1>3 DEF Negotiate

(* A call that visits a node in the search for roots                       *)
LEMMA VisitType ==
  ASSUME Typed, stack # <<>>, conns' = conns, NEW n \in Node,
         NEW f \in Frame, WorkOK(f), Visit(n, f)
  PROVE  StackOK' /\ calls' = calls
<1> DEFINE links == Links(1, n, UsedMask(negotiated[n]))
           v == [node |-> n, links |-> links]
           list == IF IsRoot(n) THEN Cons(n, f.list) ELSE f.list
           g == [f EXCEPT !.todo = Cons(v, @), !.list = list]
<1>1. links \in SUBSET Work /\ \A w \in links : IsLink(n, w)
  <2>1. UsedMask(negotiated[n]) \subseteq PortIdx(TypeOf[n])
    BY MaskIndexes DEF Typed
  <2> QED BY <2>1, LinksTyped
<1>2. v \in Visiting
  BY <1>1 DEF Visiting
<1>3. Cons(v, f.todo) \in Seq(Visiting)
  <2> HIDE DEF v
  <2> QED BY <1>2 DEF Cons, Frame
<1>4. list \in Seq(Node)
  BY DEF Cons, Frame
<1>5. g \in Frame
  <2> HIDE DEF list, v
  <2> QED BY <1>3, <1>4 DEF Frame
<1>6. WorkOK(g)
  <2>1. g.todo = Cons(v, f.todo) /\ g.work = f.work /\ g.cur = f.cur
          /\ g.phase = f.phase /\ g.outs = f.outs
    <3> HIDE DEF v, list
    <3> QED BY DEF Frame
  <2>2. \A k \in DOMAIN Cons(v, f.todo) :
          Cons(v, f.todo)[k] = IF k = 1 THEN v ELSE f.todo[k - 1]
    <3> HIDE DEF v
    <3> QED BY <1>2 DEF Cons, Frame
  <2>3. \A k \in DOMAIN Cons(v, f.todo) : k # 1 => k - 1 \in DOMAIN f.todo
    <3> HIDE DEF v
    <3> QED BY <1>2 DEF Cons, Frame
  <2>4. \A w \in v.links : IsLink(v.node, w)
    BY <1>1
  <2> HIDE DEF v, g
  <2> QED BY <2>1, <2>2, <2>3, <2>4 DEF WorkOK
<1>7. SetTop(g)
  BY DEF Visit
<1> HIDE DEF g
<1> QED BY <1>5, <1>6, <1>7, StackFromTyped, SetTopType

LEMMA FindRootsType ==
  ASSUME Typed, FindRoots
  PROVE  Typed'
<1>0. StackOK /\ stack # <<>> /\ conns' = conns /\ Top \in Frame /\ WorkOK(Top)
  BY StackFromTyped, TopType
     DEF FindRoots, RootsStart, RootsVisit, RootsBack, RootsEnd, In
<1>1. ASSUME RootsStart PROVE Typed'
  <2> DEFINE f == [Top EXCEPT !.phase = "roots"]
  <2>1. f \in Frame /\ WorkOK(f) /\ Top.node \in Node
    BY <1>0, <1>1 DEF Frame, Phase, WorkOK, RootsStart, In, Top
  <2>2. Visit(Top.node, f)
    BY <1>1 DEF RootsStart
  <2>3. StackOK' /\ calls' = calls
    <3> HIDE DEF f
    <3> QED BY <1>0, <2>1, <2>2, VisitType
  <2>4. marking' \in [Node -> Marking]
    BY <1>1 DEF RootsStart, Typed, Marking
  <2> QED BY <1>1, <2>3, <2>4 DEF RootsStart, Typed, StackOK, maskVars
<1>2. ASSUME RootsVisit PROVE Typed'
  <2>1. PICK w \in Head(Top.todo).links : RootsVisit!3!(w)
    BY <1>2 DEF RootsVisit
  <2> DEFINE v == Head(Top.todo)
             m == Peer(v.node, w)[1]
             rest == [Top EXCEPT !.todo[1].links = @ \ {w}]
  <2>2. Top.todo # <<>> /\ v \in Visiting /\ v = Top.todo[1] /\ 1 \in DOMAIN Top.todo
    BY <1>0, <1>2 DEF RootsVisit, Frame
  <2>3. m \in Node
    <3>1. IsLink(v.node, w) /\ v.node \in Node
      BY <1>0, <2>1, <2>2 DEF WorkOK, Visiting
    <3> QED BY <3>1, ConnsTyped DEF IsLink, Peer
  <2>4. rest.todo = [Top.todo EXCEPT ![1].links = @ \ {w}]
    BY <1>0 DEF Frame
  <2>5. [v EXCEPT !.links = @ \ {w}] \in Visiting
    BY <2>2 DEF Visiting
  <2>6. rest.todo \in Seq(Visiting) /\ DOMAIN rest.todo = DOMAIN Top.todo
    BY <1>0, <2>2, <2>4, <2>5 DEF Frame
  <2>7. rest \in Frame
    BY <1>0, <2>6 DEF Frame
  <2>8. WorkOK(rest)
    <3>1. \A k \in DOMAIN Top.todo :
            rest.todo[k].node = Top.todo[k].node
            /\ rest.todo[k].links \subseteq Top.todo[k].links
      <4>1. \A k \in DOMAIN Top.todo : Top.todo[k] \in Visiting
        BY <1>0 DEF Frame
      <4>2. \A k \in DOMAIN Top.todo : rest.todo[k] =
              IF k = 1 THEN [v EXCEPT !.links = @ \ {w}] ELSE Top.todo[k]
        BY <2>2, <2>4
      <4> HIDE DEF rest, v
      <4> QED BY <2>2, <4>1, <4>2 DEF Visiting
    <3>2. rest.work = Top.work /\ rest.cur = Top.cur /\ rest.phase = Top.phase
            /\ rest.outs = Top.outs
      BY <1>0 DEF Frame
    <3> HIDE DEF rest, v
    <3> QED BY <1>0, <2>6, <3>1, <3>2 DEF WorkOK
  <2>9. CASE marking[m] = "find_roots"
    <3>1. SetTop(rest) /\ marking' = marking
      BY <2>1, <2>9
    <3>2. StackOK' /\ calls' = calls
      <4> HIDE DEF rest
      <4> QED BY <1>0, <2>7, <2>8, <3>1, SetTopType
    <3> QED BY <1>2, <3>1, <3>2 DEF RootsVisit, Typed, StackOK, maskVars
  <2>10. CASE marking[m] # "find_roots"
    <3>1. Visit(m, rest) /\ marking' = [marking EXCEPT ![m] = "find_roots"]
      BY <2>1, <2>10
    <3>2. StackOK' /\ calls' = calls
      <4> HIDE DEF rest, m
      <4> QED BY <1>0, <2>3, <2>7, <2>8, <3>1, VisitType
    <3>3. marking' \in [Node -> Marking]
      BY <3>1 DEF Typed, Marking
    <3> QED BY <1>2, <3>2, <3>3 DEF RootsVisit, Typed, StackOK, maskVars
  <2> QED BY <2>9, <2>10
<1>3. ASSUME RootsBack PROVE Typed'
  <2> DEFINE f == [Top EXCEPT !.todo = Tail(@)]
  <2>1. f \in Frame /\ f.todo = Tail(Top.todo) /\ f.work = Top.work /\ f.cur = Top.cur
        /\ f.phase = Top.phase /\ f.outs = Top.outs
    <3>1. Tail(Top.todo) \in Seq(Visiting)
      BY <1>0, <1>3 DEF RootsBack, Frame
    <3> QED BY <1>0, <3>1 DEF Frame
  <2>2. \A k \in DOMAIN Tail(Top.todo) :
          k + 1 \in DOMAIN Top.todo /\ Tail(Top.todo)[k] = Top.todo[k + 1]
    BY <1>0, <1>3 DEF RootsBack, Frame
  <2>3. WorkOK(f)
    <3> HIDE DEF f
    <3> QED BY <1>0, <2>1, <2>2 DEF WorkOK
  <2>4. SetTop(f)
    BY <1>3 DEF RootsBack
  <2>5. StackOK' /\ calls' = calls
    <3> HIDE DEF f
    <3> QED BY <1>0, <2>1, <2>3, <2>4, SetTopType
  <2> QED BY <1>3, <2>5 DEF RootsBack, Typed, StackOK, maskVars
<1>4. ASSUME RootsEnd PROVE Typed'
  <2>1. CASE Return("error")
    <3>1. StackOK' /\ calls' = calls /\ ret' = "error"
      BY <1>0, <2>1, ReturnType
    <3> QED BY <1>4, <3>1 DEF RootsEnd, Typed, StackOK, maskVars
  <2> DEFINE f == [Top EXCEPT !.phase = "run"]
  <2>2. CASE SetTop(f) /\ UNCHANGED ret
    <3>1. f \in Frame /\ WorkOK(f)
      BY <1>0, <1>4 DEF Frame, Phase, WorkOK, RootsEnd, In, Top
    <3>2. StackOK' /\ calls' = calls
      <4> HIDE DEF f
      <4> QED BY <1>0, <2>2, <3>1, SetTopType
    <3> QED BY <1>4, <2>2, <3>2 DEF RootsEnd, Typed, StackOK, maskVars
  <2> QED BY <1>4, <2>1, <2>2 DEF RootsEnd
<1> QED BY <1>1, <1>2, <1>3, <1>4 DEF FindRoots

LEMMA FindReadyType ==
  ASSUME Typed, FindReady
  PROVE  Typed'
<1>0. StackOK /\ stack # <<>> /\ conns' = conns /\ Top \in Frame /\ WorkOK(Top)
  BY StackFromTyped, TopType DEF FindReady, In
<1>1. PICK s \in Pushed({n \in Node : deps[n] = 0}) :
        SetTop([Top EXCEPT !.phase = "run", !.list = s])
  BY DEF FindReady
<1>2. s \in Seq(Node)
  <2> DEFINE ready == {n \in Node : deps[n] = 0}
  <2>1. Cardinality(ready) \in Nat
    BY NodesAssumption, FS_Subset, FS_CardinalityType
  <2>2. s \in [1..Cardinality(ready) -> ready]
    BY DEF Pushed, SetToSeqs
  <2>3. s \in [1..Cardinality(ready) -> Node]
    BY <2>2
  <2> HIDE DEF ready
  <2> QED BY <2>1, <2>3
<1> DEFINE f == [Top EXCEPT !.phase = "run", !.list = s]
<1>3. f \in Frame /\ WorkOK(f)
  BY <1>0, <1>2 DEF Frame, Phase, WorkOK, FindReady, In, Top
<1>4. StackOK' /\ calls' = calls
  <2> HIDE DEF f
  <2> QED BY <1>0, <1>1, <1>3, SetTopType DEF f
<1> QED BY <1>4 DEF FindReady, Typed, StackOK, maskVars

LEMMA NextGenerationType ==
  ASSUME NEW g \in 0..GenMax
  PROVE  NextGeneration(g) \in 0..GenMax
BY BoundsAssumption DEF NextGeneration

LEMMA ExecuteType ==
  ASSUME Typed, Execute
  PROVE  Typed'
<1>0. StackOK /\ stack # <<>> /\ conns' = conns /\ Top \in Frame /\ WorkOK(Top)
  BY StackFromTyped, TopType
     DEF Execute, ProcessStart, ProcessSkip, ProcessOk, ProcessFail, Notify,
         NotifyEnd, RunEnd, In
<1>1. ASSUME NEW f \in Frame, WorkOK(f), SetTop(f) PROVE StackOK' /\ calls' = calls
  BY <1>0, <1>1, SetTopType
<1>2. ASSUME NEW r \in {"ok", "error"}, Return(r)
      PROVE  StackOK' /\ calls' = calls /\ ret' = r
  BY <1>0, <1>2, ReturnType
<1>3. ASSUME ProcessStart PROVE Typed'
  <2>1. PICK n \in Node : ProcessStart!2!(n)
    BY <1>3 DEF ProcessStart
  <2>2. CASE deps[n] # 0
    <3>1. Return("error") /\ UNCHANGED <<marking, generation>>
      BY <2>1, <2>2
    <3> QED BY <1>2, <1>3, <3>1 DEF ProcessStart, Typed, StackOK, maskVars
  <2>3. CASE deps[n] = 0
    <3>1. marking' \in [Node -> Marking]
      BY <2>1, <2>3 DEF Typed, Marking
    <3>2. generation' \in [Port -> 0..GenMax]
      <4>1. generation' = [p \in Port |->
              IF p[1] = n /\ p[2] \in negotiated[n]["push_new"]
                THEN NextGeneration(generation[p]) ELSE generation[p]]
        BY <2>1, <2>3
      <4>2. \A p \in Port : generation[p] \in 0..GenMax
                             /\ NextGeneration(generation[p]) \in 0..GenMax
        BY NextGenerationType DEF Typed
      <4> QED BY <4>1, <4>2
    <3> DEFINE phase == IF \A i \in UsedMask(negotiated[n]) :
                             ~ Activated(<<n, i>>, negotiated, generation')
                          THEN "skip" ELSE "call"
               f == [Top EXCEPT !.list = RestOf(@), !.cur = n,
                       !.ins = InMask(negotiated[n]),
                       !.outs = OutMask(negotiated[n]), !.phase = phase]
    <3>3. SetTop(f) /\ ret' = ret
      BY <2>1, <2>3
    <3>4. RestOf(Top.list) \in Seq(Node) /\ phase \in Phase
      BY <1>0 DEF Frame, RestOf, Phase
    <3>5. InMask(negotiated[n]) \subseteq PortIndexes
            /\ OutMask(negotiated[n]) \subseteq PortIndexes
      BY MaskIndexes, PortIdxType DEF Typed
    <3>6. f \in Frame
      <4> HIDE DEF phase
      <4> QED BY <1>0, <3>4, <3>5 DEF Frame
    <3>7. f.work = Top.work /\ f.todo = Top.todo /\ f.cur = n
            /\ f.outs = OutMask(negotiated[n])
      <4> HIDE DEF phase
      <4> QED BY <1>0 DEF Frame
    <3>8. Top.work = {}
      BY <1>0, <1>3 DEF ProcessStart, WorkOK, In, Top
    <3>9. WorkOK(f)
      <4> HIDE DEF f
      <4> QED BY <1>0, <3>7, <3>8, MaskIndexes DEF WorkOK, Typed
    <3>10. StackOK' /\ calls' = calls
      <4> HIDE DEF f
      <4> QED BY <1>1, <3>3, <3>6, <3>9
    <3> QED BY <1>3, <3>1, <3>2, <3>3, <3>10
            DEF ProcessStart, Typed, StackOK, maskVars
  <2> QED BY <2>2, <2>3
<1>4. ASSUME AfterProcess, In("skip") \/ In("call")
      PROVE  /\ StackOK' /\ calls' = calls
             /\ generation' \in [Port -> 0..GenMax]
  <2> DEFINE n == Top.cur
             links == Links(1, n, Top.outs \cap PortIdx(TypeOf[n]))
             f == [Top EXCEPT !.phase = "notify", !.work = Links(1, n, Top.outs)]
  <2>1. generation' \in [Port -> 0..GenMax]
    <3>1. generation' = [p \in Port |->
            IF p[1] = n /\ p[2] \in Top.ins /\ conns[p] # <<>>
              THEN generation[conns[p][1]] ELSE generation[p]]
      BY <1>4 DEF AfterProcess, Seen
    <3>2. \A p \in Port : conns[p] # <<>> => conns[p][1] \in Port
      BY ConnsTyped
    <3>3. \A p \in Port : generation[p] \in 0..GenMax
      BY DEF Typed
    <3> QED BY <3>1, <3>2, <3>3
  <2>2. n \in Node /\ Top.outs \in SUBSET PortIdx(TypeOf[n])
    BY <1>0, <1>4 DEF WorkOK, Frame, In, Top
  <2>3. Links(1, n, Top.outs) \in SUBSET Work
          /\ \A w \in Links(1, n, Top.outs) : IsLink(n, w)
    BY <2>2, LinksTyped
  <2>4. f \in Frame
    BY <1>0, <2>3 DEF Frame, Phase
  <2>5. f.work = Links(1, n, Top.outs) /\ f.phase = "notify" /\ f.cur = n
          /\ f.todo = Top.todo
    BY <1>0 DEF Frame
  <2>6. WorkOK(f)
    <3>1. f.outs = Top.outs
      BY <1>0 DEF Frame
    <3> HIDE DEF f, n
    <3> QED BY <1>0, <2>2, <2>3, <2>5, <3>1 DEF WorkOK
  <2>7. SetTop(f)
    BY <1>4 DEF AfterProcess
  <2> HIDE DEF f
  <2> QED BY <1>1, <2>1, <2>4, <2>6, <2>7
<1>5. ASSUME ProcessSkip PROVE Typed'
  BY <1>4, <1>5 DEF ProcessSkip, Typed, StackOK, maskVars
<1>6. ASSUME ProcessOk PROVE Typed'
  <2>1. written' \subseteq OutPort
    BY <1>6 DEF ProcessOk, Typed
  <2> QED BY <1>4, <1>6, <2>1 DEF ProcessOk, Typed, StackOK, maskVars
<1>7. ASSUME ProcessFail PROVE Typed'
  BY <1>2, <1>7 DEF ProcessFail, Typed, StackOK, maskVars
<1>8. ASSUME Notify PROVE Typed'
  <2>1. PICK w \in Top.work : Notify!2!(w)
    BY <1>8 DEF Notify
  <2> DEFINE q == Peer(Top.cur, w)
             m == q[1]
             rest == [Top EXCEPT !.work = @ \ {w}]
             next == [rest EXCEPT !.list = Cons(m, @)]
  <2>2. Top.phase = "notify" /\ Top.cur \in Node
    BY <1>0, <1>8 DEF Notify, In, Top, Frame
  <2>3. m \in Node
    <3>1. IsLink(Top.cur, w)
      BY <1>0, <2>2 DEF WorkOK
    <3> QED BY <2>2, <3>1, ConnsTyped DEF IsLink, Peer
  <2>4. rest \in Frame /\ rest.phase = "notify" /\ WorkOK(rest)
    BY <1>0, <2>2 DEF Frame, WorkOK
  <2>5. next \in Frame /\ WorkOK(next)
    <3>1. Cons(m, rest.list) \in Seq(Node)
      <4> HIDE DEF rest, m
      <4> QED BY <2>3, <2>4 DEF Cons, Frame
    <3> HIDE DEF rest, m
    <3> QED BY <2>4, <3>1 DEF Frame, WorkOK
  <2>6. CASE ~ Activated(q, negotiated, generation) /\ SetTop(rest)
               /\ UNCHANGED <<deps, ret>>
    <3>1. StackOK' /\ calls' = calls
      <4> HIDE DEF rest
      <4> QED BY <1>1, <2>4, <2>6
    <3> QED BY <1>8, <2>6, <3>1 DEF Notify, Typed, StackOK, maskVars
  <2>7. CASE Return("error") /\ UNCHANGED deps
    BY <1>2, <1>8, <2>7 DEF Notify, Typed, StackOK, maskVars
  <2>8. CASE /\ deps[m] # 0
             /\ deps' = [deps EXCEPT ![m] = @ - 1]
             /\ SetTop(IF deps[m] = 1 THEN next ELSE rest)
             /\ UNCHANGED ret
    <3>1. StackOK' /\ calls' = calls
      <4> HIDE DEF rest, next, m
      <4> QED BY <1>1, <2>4, <2>5, <2>8
    <3>2. deps' \in [Node -> Nat]
      <4> HIDE DEF m
      <4> QED BY <2>3, <2>8 DEF Typed
    <3> QED BY <1>8, <2>8, <3>1, <3>2 DEF Notify, Typed, StackOK, maskVars
  <2> QED BY <2>1, <2>6, <2>7, <2>8
<1>9. ASSUME NotifyEnd PROVE Typed'
  <2> DEFINE f == [Top EXCEPT !.phase = "run"]
  <2>1. f \in Frame /\ WorkOK(f)
    BY <1>0, <1>9 DEF Frame, Phase, WorkOK, NotifyEnd
  <2>2. SetTop(f)
    BY <1>9 DEF NotifyEnd
  <2>3. StackOK' /\ calls' = calls
    <3> HIDE DEF f
    <3> QED BY <1>1, <2>1, <2>2
  <2>4. marking' \in [Node -> Marking]
    BY <1>9 DEF NotifyEnd, Typed, Marking
  <2> QED BY <1>9, <2>3, <2>4 DEF NotifyEnd, Typed, StackOK, maskVars
<1>10. ASSUME RunEnd PROVE Typed'
  BY <1>2, <1>10 DEF RunEnd, Typed, StackOK, maskVars
<1> QED BY <1>3, <1>5, <1>6, <1>7, <1>8, <1>9, <1>10 DEF Execute

-----------------------------------------------------------------------------
(* The same for the topologies that the module starts from                 *)
LEMMA StackFromType == TypeOK => StackOK
BY DEF TypeOK, StackOK

LEMMA ConnsType ==
  ASSUME TypeOK
  PROVE  /\ conns \in [Port -> Seq(Port)]
         /\ \A n \in Node : \A i \in PortIdx(TypeOf[n]) :
              \A j \in DOMAIN conns[<<n, i>>] :
                /\ conns[<<n, i>>][j] \in Port
                /\ conns[<<n, i>>][j][1] \in Node
BY TypedFromType, ConnsTyped

LEMMA LinksType ==
  ASSUME TypeOK, NEW x \in 1..4, NEW n \in Node,
         NEW ports \in SUBSET PortIdx(TypeOf[n])
  PROVE  /\ Links(x, n, ports) \in SUBSET Work
         /\ \A w \in Links(x, n, ports) : IsLink(n, w)
BY TypedFromType, LinksTyped

LEMMA ToPropagateType ==
  ASSUME TypeOK, NEW n \in Node
  PROVE  /\ ToPropagate(n) \in SUBSET Work
         /\ \A w \in ToPropagate(n) : w[3] = 0 \/ IsLink(n, w)
BY TypedFromType, ToPropagateTyped

-----------------------------------------------------------------------------

LEMMA InitType == Init => TypeOK
<1> SUFFICES ASSUME Init PROVE TypeOK
  OBVIOUS
<1>1. \A n \in Node : NoMask \in Mask(n) /\ NoMask \in [Reaction -> SUBSET PortIndexes]
  BY NoMaskType, MaskIndexes
<1>2. generation \in [Port -> 0..GenMax]
  BY BoundsAssumption DEF Init
<1>3. stack \in Seq(Frame) /\ DOMAIN stack = {}
  BY DEF Init
<1> QED BY <1>1, <1>2, <1>3 DEF Init, TypeOK, Marking

(* The scheduler leaves the connections alone.                             *)
LEMMA StepKeepsConns == Step => conns' = conns
BY DEF Step, Negotiate, EvalStart, Propagate, EvalEnd, FindRoots, RootsStart,
       RootsVisit, RootsBack, RootsEnd, FindReady, Execute, ProcessStart,
       ProcessSkip, ProcessOk, ProcessFail, Notify, NotifyEnd, RunEnd

LEMMA NextType == TypeOK /\ [Next]_vars => TypeOK'
<1> SUFFICES ASSUME TypeOK, [Next]_vars PROVE TypeOK'
  OBVIOUS
<1>1. CASE UNCHANGED vars
  BY <1>1 DEF TypeOK, vars, maskVars, WorkOK, IsLink
<1>2. Typed /\ conns \in Graphs
  BY TypedFromType
<1>3. CASE (\E q \in Requests : ScheduleComponent(q.node, q.mask))
             \/ ScheduleGraph
  <2>1. conns' = conns
    BY <1>3 DEF ScheduleComponent, ScheduleGraph
  <2>2. Typed'
    BY <1>2, <1>3, StartType
  <2> QED BY <1>2, <2>1, <2>2 DEF TypeOK, Typed
<1>4. ASSUME Step PROVE Typed' /\ conns' = conns
  <2>1. conns' = conns
    BY <1>4, StepKeepsConns
  <2>2. Typed'
    BY <1>2, <1>4, NegotiateType, FindRootsType, FindReadyType, ExecuteType DEF Step
  <2> QED BY <2>1, <2>2
<1>5. CASE Step
  BY <1>2, <1>4, <1>5 DEF TypeOK, Typed
<1> QED BY <1>1, <1>3, <1>5 DEF Next

(* The variables keep their types in every reachable state, for all node   *)
(* types, topologies and requests, and however many calls are made.        *)
THEOREM TypeCorrect == Spec => []TypeOK
BY InitType, NextType, PTL DEF Spec

-----------------------------------------------------------------------------
(* Convergence                                                             *)

(* Calls do not nest in this module.                                       *)
OneCall == DOMAIN stack \subseteq {1}

(* Why Converged holds: until the nodes run, a node with changes to        *)
(* propagate is on the list or being evaluated, and nothing counts as      *)
(* propagated that was not negotiated.                                     *)
PendingListed ==
  stack # <<>> =>
    \A n \in Reached :
      /\ IsSubset(negotiated[n], propagated[n])
      /\ \/ negotiated[n] = propagated[n]
         \/ Top.phase \in {"converge", "eval"} /\ n \in Range(Top.list)
         \/ Top.phase = "eval" /\ n = Top.cur

(* Calls of the innermost frame: its successor is about the same nodes.    *)
LEMMA SetTopCall ==
  ASSUME StackOK, OneCall, stack # <<>>, conns' = conns,
         NEW f \in Frame, SetTop(f), f.call = Top.call, f.node = Top.node
  PROVE  stack' # <<>> /\ Top' = f /\ OneCall' /\ Reached' = Reached
<1>1. stack' = [stack EXCEPT ![1] = f] /\ 1 \in DOMAIN stack
  BY DEF SetTop, StackOK
<1>2. stack' # <<>> /\ DOMAIN stack' = DOMAIN stack /\ Top' = f
  BY <1>1 DEF StackOK, Top
<1>3. \A n : Component(n)' = Component(n)
  BY DEF Component, Neighbours
<1> QED BY <1>2, <1>3 DEF OneCall, Reached

LEMMA ReturnCall ==
  ASSUME StackOK, OneCall, stack # <<>>, NEW r, Return(r)
  PROVE  stack' = <<>> /\ OneCall' /\ PendingListed'
<1>1. stack' = Tail(stack) /\ Len(stack) = 1
  <2>1. Len(stack) \in Nat /\ DOMAIN stack = 1..Len(stack) /\ Len(stack) # 0
    BY DEF StackOK
  <2>2. 2 \notin DOMAIN stack
    BY DEF OneCall
  <2> QED BY <2>1, <2>2 DEF Return
<1>2. stack' = <<>>
  BY <1>1 DEF StackOK
<1> QED BY <1>2 DEF OneCall, PendingListed

(* When nothing is pending, nothing comes to be.                           *)
LEMMA SettledStays ==
  ASSUME StackOK, OneCall, stack # <<>>, PendingListed,
         \A n \in Reached : negotiated[n] = propagated[n],
         UNCHANGED <<conns, negotiated, propagated>>, StackOK',
         NEW f, SetTop(f), f.call = Top.call, f.node = Top.node
  PROVE  OneCall' /\ PendingListed'
<1>0. f \in Frame
  <2>1. stack' = [stack EXCEPT ![1] = f] /\ 1 \in DOMAIN stack
    BY DEF SetTop, StackOK
  <2>2. stack'[1] = f /\ 1 \in DOMAIN stack'
    BY <2>1 DEF StackOK
  <2> QED BY <2>2 DEF StackOK
<1>1. stack' # <<>> /\ Top' = f /\ OneCall' /\ Reached' = Reached
  BY <1>0, SetTopCall
<1> QED BY <1>1 DEF PendingListed, IsSubset

(* A sequence of all the elements of a finite set leaves none out.         *)
LEMMA SetToSeqsRange ==
  ASSUME NEW S, IsFiniteSet(S), NEW s \in SetToSeqs(S)
  PROVE  s \in Seq(S) /\ Range(s) = S
<1> DEFINE D == 1..Cardinality(S)
<1>1. Cardinality(S) \in Nat
  BY FS_CardinalityType
<1>2. s \in [D -> S] /\ \A i, j \in D : i # j => s[i] # s[j]
  BY DEF SetToSeqs
<1>3. ASSUME NEW x \in S, x \notin Range(s) PROVE FALSE
  <2>1. s \in [D -> S \ {x}]
    BY <1>2, <1>3 DEF Range
  <2>2. IsFiniteSet(S \ {x}) /\ Cardinality(S \ {x}) = Cardinality(S) - 1
    BY FS_RemoveElement
  <2>3. IsFiniteSet(D) /\ Cardinality(D) = Cardinality(S)
    BY <1>1, FS_Interval
  <2>4. Cardinality(S \ {x}) < Cardinality(D)
    BY <1>1, <2>2, <2>3
  <2> HIDE DEF D
  <2>5. \E i, j \in D : i # j /\ s[i] = s[j]
    BY <2>1, <2>2, <2>3, <2>4, FS_PigeonHole
  <2> QED BY <1>2, <2>5
<1>4. s \in Seq(S) /\ Range(s) \subseteq S
  BY <1>1, <1>2 DEF Range
<1> QED BY <1>3, <1>4

LEMMA StartPending ==
  ASSUME TypeOK, (\E q \in Requests : ScheduleComponent(q.node, q.mask))
                   \/ ScheduleGraph
  PROVE  OneCall' /\ PendingListed'
<1>1. ASSUME NEW q \in Requests, ScheduleComponent(q.node, q.mask)
      PROVE  OneCall' /\ PendingListed'
  <2> DEFINE f == NewFrame("component", q.node, <<q.node>>)
             neg == [m \in Node |-> IF m = q.node THEN q.mask ELSE NoMask]
  <2>1. stack' = <<f>> /\ conns' = conns /\ Reset(Component(q.node), neg)
    BY <1>1 DEF ScheduleComponent
  <2>2. /\ f.call = "component" /\ f.node = q.node
        /\ f.phase = "converge" /\ f.list = <<q.node>>
    BY DEF NewFrame
  <2>3. Top' = f /\ OneCall'
    <3> HIDE DEF f
    <3> QED BY <2>1 DEF Top, OneCall
  <2>4. Reached' = Component(q.node)
    <3>1. Component(q.node)' = Component(q.node)
      BY <2>1 DEF Component, Neighbours
    <3> QED BY <2>2, <2>3, <3>1 DEF Reached
  <2>5. \A n \in Reached' : negotiated'[n] = neg[n] /\ propagated'[n] = NoMask
    BY <2>1, <2>4 DEF Reset, Component
  <2>6. \A n \in Reached' : IsSubset(negotiated'[n], propagated'[n])
    BY <2>5 DEF IsSubset, NoMask
  <2>7. \A n \in Reached' : n # q.node => negotiated'[n] = propagated'[n]
    BY <2>4, <2>5 DEF Component
  <2>8. q.node \in Range(Top'.list)
    BY <2>2, <2>3 DEF Range
  <2>9. PendingListed'
    BY <2>2, <2>3, <2>6, <2>7, <2>8 DEF PendingListed
  <2> QED BY <2>3, <2>9
<1>2. ASSUME ScheduleGraph PROVE OneCall' /\ PendingListed'
  <2>1. PICK s \in Pushed(Node) : stack' = <<NewFrame("graph", Head(s), s)>>
    BY <1>2 DEF ScheduleGraph
  <2>2. Range(s) = Node
    BY <2>1, NodesAssumption, SetToSeqsRange DEF Pushed
  <2> DEFINE f == NewFrame("graph", Head(s), s)
  <2>3. f.call = "graph" /\ f.phase = "converge" /\ f.list = s
    BY DEF NewFrame
  <2>4. Top' = f /\ OneCall'
    <3>1. stack' = <<f>>
      BY <2>1
    <3> HIDE DEF f
    <3> QED BY <3>1 DEF Top, OneCall
  <2>5. Reached' = Node
    BY <2>3, <2>4 DEF Reached
  <2>6. \A n \in Node : propagated'[n] = NoMask
    BY <1>2 DEF ScheduleGraph, Reset
  <2>7. \A n \in Node : IsSubset(negotiated'[n], propagated'[n])
    BY <2>6 DEF IsSubset, NoMask
  <2>8. PendingListed'
    BY <2>2, <2>3, <2>4, <2>5, <2>7 DEF PendingListed
  <2> QED BY <2>4, <2>8
<1> QED BY <1>1, <1>2

LEMMA NegotiatePending ==
  ASSUME TypeOK, OneCall, PendingListed, Negotiate
  PROVE  OneCall' /\ PendingListed'
<1>0. StackOK
  BY StackFromType
<1>1. ASSUME EvalStart PROVE OneCall' /\ PendingListed'
  <2>1. Top.phase = "converge" /\ stack # <<>> /\ Top.list # <<>>
    BY <1>1 DEF EvalStart, In, Top
  <2>2. Top \in Frame
    BY <1>0, <2>1, TopType
  <2> DEFINE n == Head(Top.list)
             f == [Top EXCEPT !.list = Tail(@), !.phase = "eval", !.cur = n,
                              !.work = ToPropagate(n)]
  <2>3. /\ Tail(Top.list) \in Seq(Node) /\ n \in Node
        /\ Range(Top.list) = Range(Tail(Top.list)) \cup {n}
    BY <2>1, <2>2, TailRange DEF Frame
  <2>4. ToPropagate(n) \in SUBSET Work
    BY <2>3, ToPropagateType
  <2>5. f \in Frame
    BY <2>2, <2>3, <2>4 DEF Frame, Phase
  <2>6. /\ f.call = Top.call /\ f.node = Top.node /\ f.phase = "eval"
        /\ f.list = Tail(Top.list) /\ f.cur = n
    BY <2>2 DEF Frame
  <2>7. SetTop(f) /\ UNCHANGED <<conns, negotiated, propagated>>
    BY <1>1 DEF EvalStart, maskVars
  <2>8. stack' # <<>> /\ Top' = f /\ OneCall' /\ Reached' = Reached
    <3> HIDE DEF f
    <3> QED BY <1>0, <2>1, <2>5, <2>6, <2>7, SetTopCall
  <2> HIDE DEF f, n
  <2> QED BY <2>1, <2>3, <2>6, <2>7, <2>8 DEF PendingListed
<1>2. ASSUME Propagate PROVE OneCall' /\ PendingListed'
  <2>1. Top.phase = "eval" /\ stack # <<>>
    BY <1>2 DEF Propagate, In, Top
  <2>2. Top \in Frame /\ WorkOK(Top)
    BY <1>0, <2>1, TopType
  <2>3. PICK w \in Top.work :
       IF w[3] = 0 THEN Return("error") /\ UNCHANGED negotiated
       ELSE LET q == Peer(Top.cur, w)
                m == q[1]
                event == IF w[1] \in {1, 3} THEN "new" ELSE "old"
                mask == PortMasks[TypeOf[m]][q[2]][event]
                rest == [Top EXCEPT !.work = @ \ {w}]
            IN /\ UNCHANGED ret
               /\ IF IsSubset(negotiated[m], mask)
                    THEN SetTop(rest) /\ UNCHANGED negotiated
                    ELSE /\ negotiated' =
                              [negotiated EXCEPT ![m] = Apply(@, mask)]
                         /\ SetTop([rest EXCEPT !.list = PushFront(@, m)])
    BY <1>2 DEF Propagate
  <2>4. CASE w[3] = 0
    BY <1>0, <2>1, <2>3, <2>4, ReturnCall
  <2>5. CASE w[3] # 0
    <3> DEFINE q == Peer(Top.cur, w)
               m == q[1]
               event == IF w[1] \in {1, 3} THEN "new" ELSE "old"
               mask == PortMasks[TypeOf[m]][q[2]][event]
               rest == [Top EXCEPT !.work = @ \ {w}]
               more == [rest EXCEPT !.list = PushFront(@, m)]
    <3>1. q \in Port /\ m \in Node
      BY <2>1, <2>2, <2>3, <2>5, ConnsType DEF WorkOK, IsLink, Peer, Frame
    <3>2. IF IsSubset(negotiated[m], mask)
            THEN SetTop(rest) /\ UNCHANGED negotiated
            ELSE /\ negotiated' = [negotiated EXCEPT ![m] = Apply(@, mask)]
                 /\ SetTop(more)
      BY <2>3, <2>5
    <3>3. /\ rest \in Frame /\ rest.call = Top.call /\ rest.node = Top.node
          /\ rest.list = Top.list /\ rest.phase = Top.phase
          /\ rest.cur = Top.cur
      BY <2>2 DEF Frame
    <3>4. conns' = conns /\ propagated' = propagated
      BY <1>2 DEF Propagate
    <3>5. CASE IsSubset(negotiated[m], mask)
      <4>1. SetTop(rest) /\ negotiated' = negotiated
        BY <3>2, <3>5
      <4> HIDE DEF rest
      <4>2. stack' # <<>> /\ Top' = rest /\ OneCall' /\ Reached' = Reached
        BY <1>0, <2>1, <3>3, <3>4, <4>1, SetTopCall
      <4> QED BY <2>1, <3>3, <3>4, <4>1, <4>2 DEF PendingListed
    <3>6. CASE ~ IsSubset(negotiated[m], mask)
      <4>1. SetTop(more) /\ negotiated' = [negotiated EXCEPT ![m] = Apply(@, mask)]
        BY <3>2, <3>6
      <4> HIDE DEF mask
      <4>2. Top.list \in Seq(Node)
        BY <2>2 DEF Frame
      <4> HIDE DEF m
      <4>3. /\ PushFront(Top.list, m) \in Seq(Node)
            /\ Range(PushFront(Top.list, m)) = Range(Top.list) \cup {m}
        BY <3>1, <4>2, PushFrontProperties
      <4>4. /\ more \in Frame /\ more.call = Top.call /\ more.node = Top.node
            /\ more.list = PushFront(Top.list, m) /\ more.phase = Top.phase
            /\ more.cur = Top.cur
        <5> HIDE DEF rest
        <5> QED BY <3>3, <4>3 DEF Frame
      <4> HIDE DEF more
      <4>5. stack' # <<>> /\ Top' = more /\ OneCall' /\ Reached' = Reached
        BY <1>0, <2>1, <3>4, <4>1, <4>4, SetTopCall
      <4>6. Reached \subseteq Node
        BY <2>2 DEF Reached, Component
      <4>7. ASSUME NEW n \in Reached, n # m
            PROVE  negotiated'[n] = negotiated[n]
        BY <4>1, <4>6, <4>7 DEF TypeOK
      <4>8. ASSUME m \in Reached
            PROVE  IsSubset(negotiated'[m], propagated[m])
        <5>1. negotiated'[m] = Apply(negotiated[m], mask)
          BY <3>1, <4>1 DEF TypeOK
        <5>2. IsSubset(negotiated[m], propagated[m])
          BY <2>1, <4>8 DEF PendingListed
        <5> QED BY <5>1, <5>2 DEF IsSubset, Apply
      <4> QED BY <2>1, <3>4, <4>3, <4>4, <4>5, <4>7, <4>8 DEF PendingListed
    <3> QED BY <3>5, <3>6
  <2> QED BY <2>4, <2>5
<1>3. ASSUME EvalEnd PROVE OneCall' /\ PendingListed'
  <2>1. Top.phase = "eval" /\ stack # <<>>
    BY <1>3 DEF EvalEnd, In, Top
  <2>2. Top \in Frame
    BY <1>0, <2>1, TopType
  <2> DEFINE f == [Top EXCEPT !.phase = "converge"]
  <2>3. /\ f \in Frame /\ f.call = Top.call /\ f.node = Top.node
        /\ f.list = Top.list /\ f.phase = "converge"
    BY <2>2 DEF Frame, Phase
  <2>4. /\ SetTop(f) /\ conns' = conns /\ negotiated' = negotiated
        /\ propagated' = [propagated EXCEPT ![Top.cur] =
                            Apply(@, negotiated[Top.cur])]
    BY <1>3 DEF EvalEnd
  <2> HIDE DEF f
  <2>5. stack' # <<>> /\ Top' = f /\ OneCall' /\ Reached' = Reached
    BY <1>0, <2>1, <2>3, <2>4, SetTopCall
  <2>6. Reached \subseteq Node
    BY <2>2 DEF Reached, Component
  <2>7. ASSUME NEW n \in Reached, n = Top.cur
        PROVE  propagated'[n] = negotiated[n]
    <3>1. propagated'[n] = Apply(propagated[n], negotiated[n])
      BY <2>4, <2>6, <2>7 DEF TypeOK
    <3>2. IsSubset(negotiated[n], propagated[n])
      BY <2>1 DEF PendingListed
    <3>3. negotiated[n] = [r \in Reaction |-> negotiated[n][r]]
      BY <2>6 DEF TypeOK
    <3> QED BY <3>1, <3>2, <3>3 DEF Apply, IsSubset
  <2>8. ASSUME NEW n \in Reached, n # Top.cur
        PROVE  propagated'[n] = propagated[n]
    BY <2>4, <2>6, <2>8 DEF TypeOK
  <2>9. \A r \in Reaction : \A n \in Reached : negotiated[n][r] \subseteq negotiated[n][r]
    OBVIOUS
  <2> QED BY <2>1, <2>3, <2>4, <2>5, <2>7, <2>8, <2>9 DEF PendingListed, IsSubset
<1> QED BY <1>1, <1>2, <1>3 DEF Negotiate

(* After the negotiation, every step goes on with the call or returns from *)
(* it; the masks stay as they are and the negotiation does not resume.     *)
Continues(f) ==
  /\ f.call = Top.call /\ f.node = Top.node /\ f.loop = Top.loop
  /\ f.phase \notin {"converge", "eval"}

Onward ==
  /\ UNCHANGED <<conns, maskVars>>
  /\ \/ \E r \in {"ok", "error"} : Return(r)
     \/ \E f : SetTop(f) /\ Continues(f)

LEMMA OnwardTop ==
  ASSUME UNCHANGED <<conns, maskVars>>,
         NEW f, SetTop(f), Continues(f)
  PROVE  Onward
BY DEF Onward

LEMMA OnwardVisit ==
  ASSUME UNCHANGED <<conns, maskVars>>, NEW n,
         NEW f \in Frame, Visit(n, f), Continues(f)
  PROVE  Onward
<1> DEFINE g == [f EXCEPT
      !.todo = Cons([node |-> n, links |-> Links(1, n, UsedMask(negotiated[n]))], @),
      !.list = IF IsRoot(n) THEN Cons(n, @) ELSE @]
<1>1. SetTop(g)
  BY DEF Visit
<1>2. g.call = f.call /\ g.node = f.node /\ g.loop = f.loop /\ g.phase = f.phase
  BY DEF Frame
<1> HIDE DEF g
<1> QED BY <1>1, <1>2, OnwardTop DEF Continues

LEMMA FindRootsOnward ==
  ASSUME TypeOK, FindRoots \/ FindReady
  PROVE  /\ stack # <<>> /\ Onward
         /\ \/ Top.phase = "roots"
            \/ Top.phase = "converge" /\ Top.list = <<>>
<1>0. /\ stack # <<>> /\ Top \in Frame
      /\ UNCHANGED <<conns, maskVars>>
  BY StackFromType, TopType DEF FindRoots, FindReady, RootsStart, RootsVisit,
     RootsBack, RootsEnd, In, maskVars
<1>1. CASE RootsStart
  <2> DEFINE f == [Top EXCEPT !.phase = "roots"]
  <2>1. f \in Frame /\ Continues(f)
    BY <1>0 DEF Frame, Phase, Continues
  <2>2. Visit(Top.node, f)
    BY <1>1 DEF RootsStart
  <2>3. Top.phase = "converge" /\ Top.list = <<>>
    BY <1>1 DEF RootsStart, In, Top
  <2> HIDE DEF f
  <2> QED BY <1>0, <2>1, <2>2, <2>3, OnwardVisit
<1>2. CASE RootsVisit
  <2>1. PICK w \in Head(Top.todo).links : RootsVisit!3!(w)
    BY <1>2 DEF RootsVisit
  <2> DEFINE m == Peer(Head(Top.todo).node, w)[1]
             rest == [Top EXCEPT !.todo[1].links = @ \ {w}]
             f == [rest EXCEPT
                     !.todo = Cons([node |-> m, links |-> Links(1, m, UsedMask(negotiated[m]))], @),
                     !.list = IF IsRoot(m) THEN Cons(m, @) ELSE @]
  <2>2. SetTop(rest) \/ SetTop(f)
    BY <2>1 DEF Visit
  <2>3. Top.phase = "roots"
    BY <1>2 DEF RootsVisit, In, Top
  <2>4. Continues(rest)
    <3>1. /\ rest.call = Top.call /\ rest.node = Top.node /\ rest.loop = Top.loop
          /\ rest.phase = Top.phase
      BY <1>0 DEF Frame
    <3> HIDE DEF rest
    <3> QED BY <3>1, <2>3 DEF Continues
  <2>5. Continues(f)
    <3>1. DOMAIN rest = DOMAIN Top
      OBVIOUS
    <3> HIDE DEF rest
    <3>2. /\ f.call = rest.call /\ f.node = rest.node /\ f.loop = rest.loop
          /\ f.phase = rest.phase
      BY <1>0, <3>1 DEF Frame
    <3> HIDE DEF f
    <3> QED BY <2>4, <3>2 DEF Continues
  <2> HIDE DEF rest, f
  <2> QED BY <1>0, <2>2, <2>4, <2>5, <2>3, OnwardTop
<1>3. CASE RootsBack
  <2> DEFINE f == [Top EXCEPT !.todo = Tail(@)]
  <2>1. SetTop(f) /\ Top.phase = "roots"
    BY <1>3 DEF RootsBack, In, Top
  <2>2. Continues(f)
    BY <1>0, <2>1 DEF Frame, Continues
  <2> HIDE DEF f
  <2> QED BY <1>0, <2>2, <2>1, OnwardTop
<1>4. CASE RootsEnd
  <2> DEFINE f == [Top EXCEPT !.phase = "run"]
  <2>1. Continues(f)
    BY <1>0 DEF Frame, Continues
  <2>2. (SetTop(f) \/ Return("error")) /\ Top.phase = "roots"
    BY <1>4 DEF RootsEnd, In, Top
  <2> HIDE DEF f
  <2> QED BY <1>0, <2>1, <2>2, OnwardTop DEF Onward
<1>5. CASE FindReady
  <2>1. PICK s \in Pushed({n \in Node : deps[n] = 0}) :
          SetTop([Top EXCEPT !.phase = "run", !.list = s])
    BY <1>5 DEF FindReady
  <2> DEFINE f == [Top EXCEPT !.phase = "run", !.list = s]
  <2>2. Continues(f)
    BY <1>0 DEF Frame, Continues
  <2>3. SetTop(f) /\ Top.phase = "converge" /\ Top.list = <<>>
    BY <1>5, <2>1 DEF FindReady, In, Top
  <2> HIDE DEF f
  <2> QED BY <1>0, <2>2, <2>3, OnwardTop
<1> QED BY <1>1, <1>2, <1>3, <1>4, <1>5 DEF FindRoots

LEMMA ExecuteOnward ==
  ASSUME TypeOK, Execute
  PROVE  stack # <<>> /\ Onward /\ Top.phase \in {"run", "call", "skip", "notify"}
<1>0. /\ stack # <<>> /\ Top \in Frame
      /\ UNCHANGED <<conns, maskVars>>
      /\ Top.phase \in {"run", "call", "skip", "notify"}
  BY StackFromType, TopType DEF Execute, ProcessStart, ProcessSkip, ProcessOk,
     ProcessFail, Notify, NotifyEnd, RunEnd, In, Top, maskVars
<1>1. CASE ProcessStart
  <2>1. PICK n \in Node : ProcessStart!2!(n)
    BY <1>1 DEF ProcessStart
  <2>2. CASE deps[n] # 0
    BY <1>0, <2>1, <2>2 DEF Onward
  <2>3. CASE deps[n] = 0
    <3> DEFINE omittable == \A i \in UsedMask(negotiated[n]) :
                              ~ Activated(<<n, i>>, negotiated, generation')
               f == [Top EXCEPT !.list = RestOf(@), !.cur = n,
                       !.ins = InMask(negotiated[n]),
                       !.outs = OutMask(negotiated[n]),
                       !.phase = IF omittable THEN "skip" ELSE "call"]
    <3>1. SetTop(f)
      BY <2>1, <2>3
    <3>2. Continues(f)
      <4> HIDE DEF omittable
      <4> QED BY <1>0 DEF Frame, Continues
    <3> HIDE DEF f
    <3> QED BY <1>0, <3>1, <3>2, OnwardTop
  <2> QED BY <1>0, <2>2, <2>3
<1>2. CASE ProcessSkip \/ ProcessOk
  <2> DEFINE f == [Top EXCEPT !.phase = "notify",
                     !.work = Links(1, Top.cur, Top.outs)]
  <2>1. SetTop(f)
    BY <1>2 DEF ProcessSkip, ProcessOk, AfterProcess
  <2>2. Continues(f)
    BY <1>0 DEF Frame, Continues
  <2> HIDE DEF f
  <2> QED BY <1>0, <2>1, <2>2, OnwardTop
<1>3. CASE ProcessFail \/ RunEnd
  BY <1>0, <1>3 DEF ProcessFail, RunEnd, Onward
<1>4. CASE Notify
  <2>1. PICK w \in Top.work : Notify!2!(w)
    BY <1>4 DEF Notify
  <2> DEFINE m == Peer(Top.cur, w)[1]
             rest == [Top EXCEPT !.work = @ \ {w}]
             f == [rest EXCEPT !.list = Cons(m, @)]
  <2>2. SetTop(rest) \/ SetTop(f) \/ Return("error")
    BY <2>1
  <2>3. Continues(rest) /\ Continues(f)
    <3>1. Top.phase = "notify"
      BY <1>4 DEF Notify, In, Top
    <3> QED BY <1>0, <3>1 DEF Frame, Continues
  <2> HIDE DEF rest, f
  <2> QED BY <1>0, <2>2, <2>3, OnwardTop DEF Onward
<1>5. CASE NotifyEnd
  <2> DEFINE f == [Top EXCEPT !.phase = "run"]
  <2>1. SetTop(f)
    BY <1>5 DEF NotifyEnd
  <2>2. Continues(f)
    BY <1>0 DEF Frame, Continues
  <2> HIDE DEF f
  <2> QED BY <1>0, <2>1, <2>2, OnwardTop
<1> QED BY <1>1, <1>2, <1>3, <1>4, <1>5 DEF Execute

LEMMA PendingStep ==
  ASSUME TypeOK, OneCall, PendingListed, [Next]_vars
  PROVE  OneCall' /\ PendingListed'
<1>0. StackOK /\ StackOK'
  <2>1. TypeOK'
    BY NextType
  <2>2. StackOK'
    BY <2>1 DEF TypeOK, StackOK
  <2> QED BY <2>2, StackFromType
<1>1. CASE UNCHANGED vars
  <2>1. UNCHANGED <<stack, conns, negotiated, propagated>>
    BY <1>1 DEF vars, maskVars
  <2>2. \A n : Component(n)' = Component(n)
    BY <2>1 DEF Component, Neighbours
  <2>3. Top' = Top /\ Reached' = Reached
    BY <2>1, <2>2 DEF Top, Reached
  <2> QED BY <2>1, <2>3 DEF OneCall, PendingListed
<1>2. CASE (\E q \in Requests : ScheduleComponent(q.node, q.mask))
             \/ ScheduleGraph
  BY <1>2, StartPending
<1>3. CASE Negotiate
  BY <1>3, NegotiatePending
<1>4. CASE FindRoots \/ FindReady \/ Execute
  <2>1. /\ stack # <<>> /\ Onward
        /\ \/ Top.phase \notin {"converge", "eval"}
           \/ Top.phase = "converge" /\ Top.list = <<>>
    BY <1>4, FindRootsOnward, ExecuteOnward
  <2>2. \A n \in Reached : negotiated[n] = propagated[n]
    BY <2>1 DEF PendingListed, Range
  <2>3. CASE \E r \in {"ok", "error"} : Return(r)
    BY <1>0, <2>1, <2>3, ReturnCall
  <2>4. CASE \E f : SetTop(f) /\ Continues(f)
    <3>1. UNCHANGED <<conns, negotiated, propagated>>
      BY <2>1 DEF Onward, maskVars
    <3> QED BY <1>0, <2>1, <2>2, <2>4, <3>1, SettledStays DEF Continues
  <2> QED BY <2>1, <2>3, <2>4 DEF Onward
<1> QED BY <1>1, <1>2, <1>3, <1>4 DEF Next, Step

(* Once the nodes run, every node's changes have been propagated, for all  *)
(* topologies and requests (am_dfg_schedule_converge_deps).                *)
THEOREM ConvergedCorrect == Spec => []Converged
<1>1. Init => TypeOK /\ OneCall /\ PendingListed
  BY InitType DEF Init, OneCall, PendingListed
<1>2. TypeOK /\ OneCall /\ PendingListed /\ [Next]_vars
        => (OneCall /\ PendingListed)'
  BY PendingStep
<1>3. PendingListed => Converged
  BY DEF PendingListed, Converged, Executing
<1> QED BY <1>1, <1>2, <1>3, TypeCorrect, PTL DEF Spec

-----------------------------------------------------------------------------
(* The bits of masks                                                       *)

AllBits == UNION {UNION {{<<n, r, i>> : i \in PortIdx(TypeOf[n])}
                           : r \in Reaction} : n \in Node}

LEMMA AllBitsMember ==
  /\ \A n \in Node, r \in Reaction : \A i \in PortIdx(TypeOf[n]) : <<n, r, i>> \in AllBits
  /\ \A b \in AllBits : /\ b[1] \in Node /\ b[2] \in Reaction
                        /\ b[3] \in PortIdx(TypeOf[b[1]]) /\ b = <<b[1], b[2], b[3]>>
BY DEF AllBits

LEMMA BitsMember ==
  ASSUME NEW f
  PROVE  /\ \A n \in Node, r \in Reaction : \A i \in f[n][r] : <<n, r, i>> \in Bits(f)
         /\ \A b \in Bits(f) : /\ b[1] \in Node /\ b[2] \in Reaction
                               /\ b[3] \in f[b[1]][b[2]] /\ b = <<b[1], b[2], b[3]>>
BY DEF Bits

(* A node has finitely many ports, and a port four bits.                   *)
LEMMA PortsFinite == IsFiniteSet(Port)
<1> DEFINE of(n) == {<<n, i>> : i \in PortIdx(TypeOf[n])}
           All == {of(n) : n \in Node}
           f == [n \in Node |-> of(n)]
<1>1. IsFiniteSet(All)
  <2>1. f \in Surjection(Node, All)
    BY DEF Surjection
  <2> HIDE DEF All, f
  <2> QED BY <2>1, FS_Surjection, NodesAssumption
<1>2. ASSUME NEW n \in Node PROVE IsFiniteSet(of(n))
  <2> DEFINE g == [i \in PortIdx(TypeOf[n]) |-> <<n, i>>]
  <2>1. g \in Surjection(PortIdx(TypeOf[n]), of(n))
    BY DEF Surjection
  <2>2. IsFiniteSet(PortIdx(TypeOf[n]))
    BY PortIdxType
  <2> HIDE DEF of, g
  <2> QED BY <2>1, <2>2, FS_Surjection
<1>3. \A T \in All : IsFiniteSet(T)
  BY <1>2
<1>4. Port = UNION All
  BY DEF Port
<1> HIDE DEF All
<1> QED BY <1>1, <1>3, <1>4, FS_UNION

LEMMA ReactionsFour == IsFiniteSet(Reaction) /\ Cardinality(Reaction) = 4
<1> DEFINE A == {"pull_new"}
           B == A \cup {"pull_old"}
           C == B \cup {"push_new"}
<1>1. IsFiniteSet(A) /\ Cardinality(A) = 1
  BY FS_Singleton
<1>2. IsFiniteSet(B) /\ Cardinality(B) = 2
  <2>1. "pull_old" \notin A
    OBVIOUS
  <2> HIDE DEF A
  <2> QED BY <1>1, <2>1, FS_AddElement
<1>3. IsFiniteSet(C) /\ Cardinality(C) = 3
  <2>1. "push_new" \notin B
    OBVIOUS
  <2> HIDE DEF B
  <2> QED BY <1>2, <2>1, FS_AddElement
<1>4. "push_old" \notin C /\ Reaction = C \cup {"push_old"}
  BY DEF Reaction
<1> HIDE DEF C
<1> QED BY <1>3, <1>4, FS_AddElement

LEMMA AllBitsCount ==
  /\ IsFiniteSet(AllBits)
  /\ Cardinality(AllBits) \in Nat
  /\ 4 * Cardinality(Port) \in Nat
  /\ Cardinality(AllBits) <= 4 * Cardinality(Port)
<1> DEFINE D == Port \X Reaction
           f == [x \in D |-> <<x[1][1], x[2], x[1][2]>>]
<1>1. IsFiniteSet(D) /\ Cardinality(D) = Cardinality(Port) * 4
  BY PortsFinite, ReactionsFour, FS_Product
<1>2. f \in Surjection(D, AllBits)
  <2>1. ASSUME NEW x \in D PROVE f[x] \in AllBits
    <3>1. x[1] \in Port /\ x[2] \in Reaction
      OBVIOUS
    <3>2. x[1][1] \in Node /\ x[1][2] \in PortIdx(TypeOf[x[1][1]])
      BY <3>1, PortIsPair
    <3> QED BY <3>1, <3>2, AllBitsMember
  <2>2. ASSUME NEW b \in AllBits PROVE \E x \in D : f[x] = b
    <3>1. /\ b[1] \in Node /\ b[2] \in Reaction
          /\ b[3] \in PortIdx(TypeOf[b[1]]) /\ b = <<b[1], b[2], b[3]>>
      BY AllBitsMember
    <3>2. <<b[1], b[3]>> \in Port
      BY <3>1, PortIdxType
    <3>3. <<<<b[1], b[3]>>, b[2]>> \in D
      BY <3>1, <3>2
    <3> QED BY <3>1, <3>3
  <2>3. f \in [D -> AllBits]
    BY <2>1
  <2> QED BY <2>2, <2>3 DEF Surjection
<1>3. Cardinality(Port) \in Nat
  BY PortsFinite, FS_CardinalityType
<1> HIDE DEF D, f
<1>4. IsFiniteSet(AllBits) /\ Cardinality(AllBits) <= Cardinality(D)
  BY <1>1, <1>2, FS_Surjection
<1>5. Cardinality(AllBits) \in Nat
  BY <1>4, FS_CardinalityType
<1> QED BY <1>1, <1>3, <1>4, <1>5

-----------------------------------------------------------------------------
(* What a set of bits causes                                               *)

Event(r) == IF r \in {"pull_new", "push_new"} THEN "new" ELSE "old"

(* The bits that an event at a connection causes at the peer q             *)
CausedAt(q, event) ==
  UNION {{<<q[1], r, i>> : i \in PortMasks[TypeOf[q[1]]][q[2]][event][r]}
           : r \in Reaction}

LEMMA CausesOf ==
  ASSUME NEW b
  PROVE  Causes(b) = UNION {CausedAt(conns[<<b[1], b[3]>>][j], Event(b[2]))
                              : j \in DOMAIN conns[<<b[1], b[3]>>]}
BY DEF Causes, CausedAt, Event

LEMMA CausedAtType ==
  ASSUME NEW q \in Port, NEW event \in Trigger
  PROVE  /\ CausedAt(q, event) \subseteq AllBits
         /\ PortMasks[TypeOf[q[1]]][q[2]][event] \in Mask(q[1])
<1>1. q[1] \in Node /\ q[2] \in PortIdx(TypeOf[q[1]])
  BY PortIsPair
<1>2. PortMasks[TypeOf[q[1]]][q[2]][event] \in [Reaction -> SUBSET PortIdx(TypeOf[q[1]])]
  BY <1>1, PortIdxType, PortMasksType
<1>3. ASSUME NEW r \in Reaction, NEW i \in PortMasks[TypeOf[q[1]]][q[2]][event][r]
      PROVE  <<q[1], r, i>> \in AllBits
  <2>1. i \in PortIdx(TypeOf[q[1]])
    BY <1>2
  <2> QED BY <1>1, <2>1, AllBitsMember
<1> QED BY <1>2, <1>3 DEF CausedAt, Mask

LEMMA CausesType ==
  ASSUME TypeOK, NEW b \in AllBits
  PROVE  Causes(b) \subseteq AllBits
<1>1. b[1] \in Node /\ b[3] \in PortIdx(TypeOf[b[1]])
  BY AllBitsMember
<1>2. ASSUME NEW j \in DOMAIN conns[<<b[1], b[3]>>]
      PROVE  CausedAt(conns[<<b[1], b[3]>>][j], Event(b[2])) \subseteq AllBits
  <2>1. conns[<<b[1], b[3]>>][j] \in Port
    BY <1>1, ConnsType
  <2>2. Event(b[2]) \in Trigger
    BY DEF Event, Trigger
  <2> QED BY <2>1, <2>2, CausedAtType
<1> QED BY <1>2, CausesOf

Closed(S) == \A b \in S : Causes(b) \subseteq S

(* One round of the propagation of causes                                  *)
Spread(S) == S \cup UNION {Causes(b) : b \in S}

SpreadStep(bits, g, k) == IF k = 0 THEN bits ELSE Spread(g[k - 1])

LEMMA SpreadExists ==
  ASSUME NEW bits, NEW n \in Nat
  PROVE  \E g : g = [k \in 0 .. n |-> SpreadStep(bits, g, k)]
<1> DEFINE Solves(g, m) == g = [k \in 0 .. m |-> SpreadStep(bits, g, k)]
           T == {m \in Nat : \E g : Solves(g, m)}
<1>1. 0 \in T
  <2>1. Solves([k \in 0 .. 0 |-> bits], 0)
    BY DEF SpreadStep
  <2> QED BY <2>1
<1>2. ASSUME NEW m \in Nat, m \in T PROVE m + 1 \in T
  <2>1. PICK g : Solves(g, m)
    BY <1>2
  <2> DEFINE h == [k \in 0 .. m + 1 |-> IF k = m + 1 THEN SpreadStep(bits, g, m + 1) ELSE g[k]]
  <2>2. \A k \in 0 .. m : h[k] = g[k] /\ k # m + 1
    OBVIOUS
  <2>3. \A k \in 0 .. m + 1 : h[k] = SpreadStep(bits, h, k)
    <3> SUFFICES ASSUME NEW k \in 0 .. m + 1 PROVE h[k] = SpreadStep(bits, h, k)
      OBVIOUS
    <3>1. k # 0 => k - 1 \in 0 .. m
      OBVIOUS
    <3>2. k # 0 => h[k - 1] = g[k - 1]
      BY <3>1, <2>2
    <3>3. SpreadStep(bits, h, k) = SpreadStep(bits, g, k)
      BY <3>2 DEF SpreadStep
    <3>4. CASE k = m + 1
      BY <3>3, <3>4
    <3>5. CASE k # m + 1
      <4>1. k \in 0 .. m
        BY <3>5
      <4>2. g[k] = SpreadStep(bits, g, k)
        BY <2>1, <4>1
      <4> QED BY <3>3, <4>1, <4>2, <2>2
    <3> QED BY <3>4, <3>5
  <2>4. Solves(h, m + 1)
    <3>1. h = [k \in 0 .. m + 1 |-> h[k]]
      OBVIOUS
    <3> HIDE DEF h
    <3> QED BY <2>3, <3>1
  <2>5. \E f : Solves(f, m + 1)
    <3> HIDE DEF h, Solves
    <3> QED BY <2>4
  <2> HIDE DEF Solves
  <2> QED BY <2>5
<1>3. n \in T
  <2> HIDE DEF T
  <2> QED BY <1>1, <1>2, NumberInduction
<1> QED BY <1>3

(* CausedBy is the last of a chain of rounds.                              *)
LEMMA CausedByChain ==
  ASSUME NEW bits
  PROVE  \E g : /\ g[0] = bits
                /\ \A k \in 1 .. 4 * Cardinality(Port) : g[k] = Spread(g[k - 1])
                /\ CausedBy(bits) = g[4 * Cardinality(Port)]
<1> DEFINE N == 4 * Cardinality(Port)
           Solves(g) == g = [k \in 0 .. N |-> SpreadStep(bits, g, k)]
           a == CHOOSE g : Solves(g)
<1>1. CausedBy(bits) = a[N]
  BY DEF CausedBy, SpreadStep, Spread
<1>2. N \in Nat
  BY AllBitsCount
<1> HIDE DEF N
<1>3. \E g : Solves(g)
  BY <1>2, SpreadExists
<1>4. Solves(a)
  <2> HIDE DEF Solves
  <2> QED BY <1>3
<1> HIDE DEF a
<1>5. \A k \in 0 .. N : a[k] = SpreadStep(bits, a, k)
  BY <1>4
<1>6. 0 \in 0 .. N /\ \A k \in 1 .. N : k \in 0 .. N /\ k # 0
  BY <1>2
<1>7. a[0] = bits /\ \A k \in 1 .. N : a[k] = Spread(a[k - 1])
  BY <1>5, <1>6 DEF SpreadStep
<1> QED BY <1>1, <1>7 DEF N

(* CausedBy(bits) is the least closed set that contains bits: a round that *)
(* adds no bit is the last, and there are no more bits than rounds.        *)
LEMMA CausedByLeast ==
  ASSUME TypeOK, NEW bits \in SUBSET AllBits
  PROVE  /\ CausedBy(bits) \in SUBSET AllBits
         /\ bits \subseteq CausedBy(bits)
         /\ Closed(CausedBy(bits))
         /\ \A S : bits \subseteq S /\ Closed(S) => CausedBy(bits) \subseteq S
<1> DEFINE N == 4 * Cardinality(Port)
<1>1. PICK g : /\ g[0] = bits
               /\ \A k \in 1 .. N : g[k] = Spread(g[k - 1])
               /\ CausedBy(bits) = g[N]
  BY CausedByChain
<1>2. N \in Nat /\ IsFiniteSet(AllBits) /\ Cardinality(AllBits) \in Nat /\ Cardinality(AllBits) <= N
  BY AllBitsCount
<1> HIDE DEF N
<1>3. ASSUME NEW k \in Nat, k + 1 <= N PROVE g[k + 1] = Spread(g[k])
  <2>1. k + 1 \in 1 .. N /\ (k + 1) - 1 = k
    BY <1>2, <1>3
  <2> QED BY <1>1, <2>1
<1>4. g[N] \in SUBSET AllBits /\ bits \subseteq g[N]
  <2> DEFINE T == {k \in Nat : k <= N => g[k] \in SUBSET AllBits /\ bits \subseteq g[k]}
  <2>1. 0 \in T
    BY <1>1
  <2>2. ASSUME NEW k \in Nat, k \in T PROVE k + 1 \in T
    <3> SUFFICES ASSUME k + 1 <= N
                 PROVE  g[k + 1] \in SUBSET AllBits /\ bits \subseteq g[k + 1]
      OBVIOUS
    <3>1. k <= N
      BY <1>2
    <3>2. g[k] \in SUBSET AllBits /\ bits \subseteq g[k]
      BY <2>2, <3>1
    <3>3. Spread(g[k]) \in SUBSET AllBits /\ g[k] \subseteq Spread(g[k])
      BY <3>2, CausesType DEF Spread
    <3> QED BY <1>3, <3>2, <3>3
  <2>3. N \in T
    <3> HIDE DEF T
    <3> QED BY <1>2, <2>1, <2>2, NumberInduction
  <2> QED BY <1>2, <2>3
<1>5. Closed(g[N])
  <2> DEFINE T == {k \in Nat : k <= N => /\ g[k] \in SUBSET AllBits
                                         /\ Closed(g[k]) \/ Cardinality(g[k]) >= k}
  <2>1. 0 \in T
    <3>1. IsFiniteSet(bits)
      BY <1>2, FS_Subset
    <3>2. Cardinality(bits) >= 0
      BY <3>1, FS_CardinalityType
    <3> QED BY <1>1, <3>2
  <2>2. ASSUME NEW k \in Nat, k \in T PROVE k + 1 \in T
    <3> SUFFICES ASSUME k + 1 <= N
                 PROVE  /\ g[k + 1] \in SUBSET AllBits
                        /\ Closed(g[k + 1]) \/ Cardinality(g[k + 1]) >= k + 1
      OBVIOUS
    <3>1. k <= N
      BY <1>2
    <3>2. g[k] \in SUBSET AllBits /\ (Closed(g[k]) \/ Cardinality(g[k]) >= k)
      BY <2>2, <3>1
    <3>3. Spread(g[k]) \in SUBSET AllBits /\ g[k] \subseteq Spread(g[k])
      BY <3>2, CausesType DEF Spread
    <3>4. g[k + 1] = Spread(g[k])
      BY <1>3
    <3>5. CASE Closed(g[k])
      <4>1. Spread(g[k]) = g[k]
        BY <3>5 DEF Closed, Spread
      <4> QED BY <3>2, <3>4, <3>5, <4>1
    <3>6. CASE ~ Closed(g[k])
      <4> DEFINE X == g[k]
                 Y == g[k + 1]
      <4>1. X \subseteq Y /\ Y \in SUBSET AllBits /\ Cardinality(X) >= k
        BY <3>2, <3>3, <3>4, <3>6
      <4>2. X # Y
        BY <3>4, <3>6 DEF Closed, Spread
      <4> HIDE DEF X, Y
      <4>3. IsFiniteSet(Y)
        BY <1>2, <4>1, FS_Subset
      <4>4. IsFiniteSet(X) /\ Cardinality(X) <= Cardinality(Y)
            /\ (Cardinality(X) = Cardinality(Y) => X = Y)
        BY <4>1, <4>3, FS_Subset
      <4>5. Cardinality(X) \in Nat /\ Cardinality(Y) \in Nat
        BY <4>3, <4>4, FS_CardinalityType
      <4>6. Cardinality(Y) >= k + 1
        BY <4>1, <4>2, <4>4, <4>5
      <4> QED BY <4>1, <4>6 DEF Y
    <3> QED BY <3>5, <3>6
  <2>3. N \in T
    <3> HIDE DEF T
    <3> QED BY <1>2, <2>1, <2>2, NumberInduction
  <2>4. CASE Closed(g[N])
    BY <2>4
  <2>5. CASE Cardinality(g[N]) >= N
    <3> DEFINE X == g[N]
    <3>1. X \in SUBSET AllBits /\ Cardinality(X) >= N
      BY <1>4, <2>5
    <3> HIDE DEF X
    <3>2. /\ IsFiniteSet(X) /\ Cardinality(X) <= Cardinality(AllBits)
          /\ Cardinality(AllBits) = Cardinality(X) => AllBits = X
      BY <1>2, <3>1, FS_Subset
    <3>3. Cardinality(X) \in Nat
      BY <3>2, FS_CardinalityType
    <3>4. AllBits = X
      BY <1>2, <3>1, <3>2, <3>3
    <3>5. Closed(AllBits)
      BY CausesType DEF Closed
    <3> QED BY <3>4, <3>5 DEF X
  <2> QED BY <1>2, <2>3, <2>4, <2>5
<1>6. ASSUME NEW S, bits \subseteq S, Closed(S) PROVE g[N] \subseteq S
  <2> DEFINE T == {k \in Nat : k <= N => g[k] \subseteq S}
  <2>1. 0 \in T
    BY <1>1, <1>6
  <2>2. ASSUME NEW k \in Nat, k \in T PROVE k + 1 \in T
    <3> SUFFICES ASSUME k + 1 <= N PROVE g[k + 1] \subseteq S
      OBVIOUS
    <3>1. k <= N
      BY <1>2
    <3>2. g[k] \subseteq S
      BY <2>2, <3>1
    <3>3. Spread(g[k]) \subseteq S
      BY <1>6, <3>2 DEF Spread, Closed
    <3> QED BY <1>3, <3>3
  <2>3. N \in T
    <3> HIDE DEF T
    <3> QED BY <1>2, <2>1, <2>2, NumberInduction
  <2> QED BY <1>2, <2>3
<1> QED BY <1>1, <1>4, <1>5, <1>6

-----------------------------------------------------------------------------
(* Why NegotiationLeast holds                                              *)

Within(masks) == [n \in Node |-> IF n \in Reached THEN masks[n] ELSE NoMask]

(* The bits negotiated so far and those that all neighbours were told of   *)
Have == Bits(Within(negotiated))
Told == Bits(Within(propagated))

(* What the evaluation of a node has left to do leads to all the bits that *)
(* its new bits cause; a port of the wrong direction ends the call.        *)
WorkLeft ==
  /\ Top.cur \in Reached
  /\ \A w \in Top.work : w[3] # 0 => w[2] \in negotiated[Top.cur][Word[w[1]]]
  /\ \/ \E w \in Top.work : w[3] = 0
     \/ \A x \in 1..4 :
          \A i \in negotiated[Top.cur][Word[x]] \ propagated[Top.cur][Word[x]] :
            \A j \in DOMAIN conns[<<Top.cur, i>>] :
              \/ <<x, i, j>> \in Top.work
              \/ CausedAt(conns[<<Top.cur, i>>][j], Event(Word[x])) \subseteq Have

(* Every bit negotiated so far has a chain of causes that starts at the    *)
(* requests, and what the bits that count as propagated cause is there.    *)
CausesFollowed ==
  stack # <<>> =>
    /\ Bits(Requested) \subseteq Have
    /\ \A S \in SUBSET AllBits :
         Bits(Requested) \subseteq S /\ Closed(S) => Have \subseteq S
    /\ \A b \in Told : Causes(b) \subseteq Have
    /\ Top.phase \in {"converge", "eval"} => Range(Top.list) \subseteq Reached
    /\ Top.phase = "eval" => WorkLeft

(* Sets of bits, and a call about all that a node is connected to          *)
LEMMA HaveMember ==
  ASSUME TypeOK, stack # <<>>
  PROVE  /\ Have \in SUBSET AllBits /\ Told \in SUBSET AllBits
         /\ \A n \in Reached, r \in Reaction :
              /\ \A i \in negotiated[n][r] : <<n, r, i>> \in Have
              /\ \A i \in propagated[n][r] : <<n, r, i>> \in Told
         /\ \A b \in Have : /\ b[1] \in Reached /\ b[2] \in Reaction
                            /\ b[3] \in negotiated[b[1]][b[2]] /\ b = <<b[1], b[2], b[3]>>
         /\ \A b \in Told : /\ b[1] \in Reached /\ b[2] \in Reaction
                            /\ b[3] \in propagated[b[1]][b[2]] /\ b = <<b[1], b[2], b[3]>>
<1>1. Reached \subseteq Node
  BY DEF Reached, Component
<1>2. ASSUME NEW m, \A n \in Node : m[n] \in Mask(n)
      PROVE  /\ Bits(Within(m)) \in SUBSET AllBits
             /\ \A n \in Reached, r \in Reaction : \A i \in m[n][r] : <<n, r, i>> \in Bits(Within(m))
             /\ \A b \in Bits(Within(m)) :
                  /\ b[1] \in Reached /\ b[2] \in Reaction
                  /\ b[3] \in m[b[1]][b[2]] /\ b = <<b[1], b[2], b[3]>>
  <2> DEFINE f == Within(m)
  <2>1. \A n \in Node : f[n] = IF n \in Reached THEN m[n] ELSE NoMask
    BY DEF Within
  <2> HIDE DEF f
  <2>2. ASSUME NEW b \in Bits(f)
        PROVE  /\ b[1] \in Reached /\ b[2] \in Reaction /\ b \in AllBits
               /\ b[3] \in m[b[1]][b[2]] /\ b = <<b[1], b[2], b[3]>>
    <3>1. /\ b[1] \in Node /\ b[2] \in Reaction
          /\ b[3] \in f[b[1]][b[2]] /\ b = <<b[1], b[2], b[3]>>
      BY BitsMember
    <3>2. b[1] \in Reached
      BY <2>1, <3>1 DEF NoMask
    <3>3. b[3] \in m[b[1]][b[2]]
      BY <2>1, <3>1, <3>2
    <3>4. b[3] \in PortIdx(TypeOf[b[1]])
      BY <1>2, <3>1, <3>3 DEF Mask
    <3> QED BY <3>1, <3>2, <3>3, <3>4, AllBitsMember
  <2>3. ASSUME NEW n \in Reached, NEW r \in Reaction, NEW i \in m[n][r]
        PROVE  <<n, r, i>> \in Bits(f)
    <3>1. n \in Node /\ i \in f[n][r]
      BY <1>1, <2>1
    <3> QED BY <3>1, BitsMember
  <2> QED BY <2>2, <2>3 DEF f
<1>3. \A n \in Node : negotiated[n] \in Mask(n) /\ propagated[n] \in Mask(n)
  BY DEF TypeOK
<1> QED BY <1>2, <1>3 DEF Have, Told

LEMMA ReachedClosed ==
  ASSUME TypeOK, stack # <<>>, NEW n \in Reached, NEW i \in PortIdx(TypeOf[n]),
         NEW j \in DOMAIN conns[<<n, i>>]
  PROVE  conns[<<n, i>>][j][1] \in Reached /\ conns[<<n, i>>][j][1] # n
<1> DEFINE q == conns[<<n, i>>][j]
<1>1. n \in Node
  BY DEF Reached, Component
<1>2. q[1] \in Node /\ <<n, i>> \in Port
  BY <1>1, ConnsType, PortIdxType
<1>3. q[1] # n
  BY <1>2, GraphsAssumption, SMTT(30) DEF TypeOK, IsTopology
<1>4. q \in Range(conns[<<n, i>>])
  BY DEF Range
<1> HIDE DEF q
<1>5. q[1] \in Neighbours(n)
  BY <1>4 DEF Neighbours
<1>6. q[1] \in Reached
  BY <1>2, <1>5 DEF Reached, Component
<1> QED BY <1>3, <1>6 DEF q

-----------------------------------------------------------------------------
(* The steps of the negotiation                                            *)

LEMMA StartFollowed ==
  ASSUME TypeOK, TypeOK',
         (\E q \in Requests : ScheduleComponent(q.node, q.mask)) \/ ScheduleGraph
  PROVE  CausesFollowed'
<1> SUFFICES /\ stack' # <<>> /\ Bits(Requested)' = Have' /\ Told' = {}
             /\ Top'.phase = "converge" /\ Range(Top'.list) \subseteq Reached'
  BY DEF CausesFollowed
<1>1. ASSUME NEW f, stack' = <<f>> PROVE stack' # <<>> /\ Top' = f
  BY <1>1 DEF Top
<1>2. ASSUME \A n \in Reached' : propagated'[n] = NoMask PROVE Told' = {}
  BY <1>2 DEF Told, Within, Bits, NoMask
<1>3. ASSUME \A n \in Node : Requested'[n] = Within(negotiated)'[n]
      PROVE  Bits(Requested)' = Have'
  BY <1>3 DEF Have, Bits
<1>4. ASSUME NEW q \in Requests, ScheduleComponent(q.node, q.mask)
      PROVE  /\ stack' # <<>> /\ Bits(Requested)' = Have' /\ Told' = {}
             /\ Top'.phase = "converge" /\ Range(Top'.list) \subseteq Reached'
  <2> DEFINE f == NewFrame("component", q.node, <<q.node>>)
             neg == [m \in Node |-> IF m = q.node THEN q.mask ELSE NoMask]
  <2>1. stack' = <<f>> /\ conns' = conns /\ Reset(Component(q.node), neg)
        /\ required' = [required EXCEPT ![q.node] = q.mask] /\ q.node \in Node
    BY <1>4, RequestsAssumption DEF ScheduleComponent
  <2>2. /\ f.call = "component" /\ f.node = q.node
        /\ f.phase = "converge" /\ f.list = <<q.node>>
    BY DEF NewFrame
  <2>3. stack' # <<>> /\ Top' = f
    <3> HIDE DEF f
    <3> QED BY <1>1, <2>1
  <2>4. Reached' = Component(q.node)
    <3>1. Component(q.node)' = Component(q.node)
      BY <2>1 DEF Component, Neighbours
    <3> QED BY <2>2, <2>3, <3>1 DEF Reached
  <2>5. q.node \in Component(q.node) /\ Component(q.node) \subseteq Node
    BY <2>1 DEF Component
  <2>6. \A n \in Reached' : negotiated'[n] = neg[n] /\ propagated'[n] = NoMask
    BY <2>1, <2>4, <2>5 DEF Reset
  <2>7. ASSUME NEW n \in Node PROVE Requested'[n] = Within(negotiated)'[n]
    <3>1. Requested'[n] = IF n = q.node THEN required'[n] ELSE NoMask
      BY <2>2, <2>3 DEF Requested
    <3>2. required'[q.node] = q.mask
      BY <2>1 DEF TypeOK
    <3>3. Within(negotiated)'[n] = IF n \in Reached' THEN negotiated'[n] ELSE NoMask
      BY DEF Within
    <3> QED BY <2>4, <2>5, <2>6, <3>1, <3>2, <3>3
  <2>8. Range(Top'.list) = {q.node}
    BY <2>2, <2>3 DEF Range
  <2> QED BY <1>2, <1>3, <2>2, <2>3, <2>4, <2>5, <2>6, <2>7, <2>8
<1>5. ASSUME ScheduleGraph
      PROVE  /\ stack' # <<>> /\ Bits(Requested)' = Have' /\ Told' = {}
             /\ Top'.phase = "converge" /\ Range(Top'.list) \subseteq Reached'
  <2>1. PICK s \in Pushed(Node) : stack' = <<NewFrame("graph", Head(s), s)>>
    BY <1>5 DEF ScheduleGraph
  <2>2. Range(s) = Node
    BY <2>1, NodesAssumption, SetToSeqsRange DEF Pushed
  <2> DEFINE f == NewFrame("graph", Head(s), s)
  <2>3. f.call = "graph" /\ f.phase = "converge" /\ f.list = s
    BY DEF NewFrame
  <2>4. stack' # <<>> /\ Top' = f
    <3>1. stack' = <<f>>
      BY <2>1
    <3> HIDE DEF f
    <3> QED BY <1>1, <3>1
  <2>5. Reached' = Node
    BY <2>3, <2>4 DEF Reached
  <2>6. \A n \in Node : propagated'[n] = NoMask /\ negotiated'[n] = required'[n]
    BY <1>5 DEF ScheduleGraph, Reset
  <2>7. ASSUME NEW n \in Node PROVE Requested'[n] = Within(negotiated)'[n]
    BY <2>3, <2>4, <2>5, <2>6 DEF Requested, Within
  <2> QED BY <1>2, <1>3, <2>2, <2>3, <2>4, <2>5, <2>6, <2>7
<1> QED BY <1>4, <1>5

(* The items of work for the bits that the neighbours were not told of     *)
LEMMA ToPropagateMember ==
  ASSUME TypeOK, NEW n \in Node, IsSubset(negotiated[n], propagated[n])
  PROVE  /\ \A w \in ToPropagate(n) :
              /\ w[1] \in 1..4
              /\ w[2] \in negotiated[n][Word[w[1]]] \ propagated[n][Word[w[1]]]
              /\ RightDir(n, w[1], w[2]) <=> w[3] # 0
         /\ \A x \in 1..4 : \A i \in negotiated[n][Word[x]] \ propagated[n][Word[x]] :
              IF RightDir(n, x, i)
                THEN \A j \in DOMAIN conns[<<n, i>>] : <<x, i, j>> \in ToPropagate(n)
                ELSE <<x, i, 0>> \in ToPropagate(n)
<1> DEFINE ports(x) == Diff(negotiated[n], propagated[n])[Word[x]]
           right(x) == {i \in ports(x) : RightDir(n, x, i)}
           work(x) == Links(x, n, right(x)) \cup {<<x, i, 0>> : i \in ports(x) \ right(x)}
<1>1. ToPropagate(n) = UNION {work(x) : x \in 1..4}
  BY DEF ToPropagate
<1>2. \A x \in 1..4 : ports(x) = negotiated[n][Word[x]] \ propagated[n][Word[x]]
  <2>1. \A x \in 1..4 : Word[x] \in Reaction
    BY DEF Word, Reaction
  <2> QED BY <2>1 DEF Diff, IsSubset
<1>3. \A x \in 1..4 : ports(x) \subseteq PortIdx(TypeOf[n])
  <2>1. \A x \in 1..4 : Word[x] \in Reaction
    BY DEF Word, Reaction
  <2> QED BY <1>2, <2>1 DEF TypeOK, Mask
<1> HIDE DEF ports
<1>4. ASSUME NEW w \in ToPropagate(n)
      PROVE  /\ w[1] \in 1..4
             /\ w[2] \in negotiated[n][Word[w[1]]] \ propagated[n][Word[w[1]]]
             /\ RightDir(n, w[1], w[2]) <=> w[3] # 0
  <2>1. PICK x \in 1..4 : w \in work(x)
    BY <1>1
  <2>2. CASE w \in Links(x, n, right(x))
    <3>1. PICK i \in right(x) : \E j \in DOMAIN conns[<<n, i>>] : w = <<x, i, j>>
      BY <2>2 DEF Links
    <3>2. i \in ports(x) /\ RightDir(n, x, i)
      OBVIOUS
    <3>3. PICK j \in DOMAIN conns[<<n, i>>] : w = <<x, i, j>>
      BY <3>1
    <3>4. j # 0
      BY <1>3, <3>2, <3>3, ConnsType, PortIdxType
    <3>5. w[1] = x /\ w[2] = i /\ w[3] = j
      BY <3>3
    <3> QED BY <1>2, <3>2, <3>4, <3>5
  <2>3. CASE \E i \in ports(x) \ right(x) : w = <<x, i, 0>>
    BY <1>2, <2>3
  <2> QED BY <2>1, <2>2, <2>3
<1>5. ASSUME NEW x \in 1..4, NEW i \in ports(x), ~ RightDir(n, x, i)
      PROVE  <<x, i, 0>> \in ToPropagate(n)
  BY <1>1, <1>5
<1>6. ASSUME NEW x \in 1..4, NEW i \in ports(x), RightDir(n, x, i),
             NEW j \in DOMAIN conns[<<n, i>>]
      PROVE  <<x, i, j>> \in ToPropagate(n)
  <2>1. i \in right(x)
    BY <1>6
  <2>2. <<x, i, j>> \in Links(x, n, right(x))
    <3> HIDE DEF right
    <3> QED BY <2>1 DEF Links
  <2> QED BY <1>1, <2>2
<1> QED BY <1>2, <1>4, <1>5, <1>6

(* A node is taken off the list: every new bit gets its items of work.     *)
LEMMA EvalStartFollowed ==
  ASSUME TypeOK, OneCall, PendingListed, CausesFollowed, EvalStart
  PROVE  CausesFollowed'
<1>0. StackOK
  BY StackFromType
<1>1. Top.phase = "converge" /\ stack # <<>> /\ Top.list # <<>>
  BY DEF EvalStart, In, Top
<1>2. Top \in Frame
  BY <1>0, <1>1, TopType
<1> DEFINE n == Head(Top.list)
           f == [Top EXCEPT !.list = Tail(@), !.phase = "eval", !.cur = n,
                            !.work = ToPropagate(n)]
<1>3. /\ Tail(Top.list) \in Seq(Node) /\ n \in Node
      /\ Range(Top.list) = Range(Tail(Top.list)) \cup {n}
  BY <1>1, <1>2, TailRange DEF Frame
<1>4. ToPropagate(n) \in SUBSET Work
  BY <1>3, ToPropagateType
<1>5. f \in Frame
  BY <1>2, <1>3, <1>4 DEF Frame, Phase
<1>6. /\ f.call = Top.call /\ f.node = Top.node /\ f.phase = "eval"
      /\ f.list = Tail(Top.list) /\ f.cur = n /\ f.work = ToPropagate(n)
  BY <1>2 DEF Frame
<1>7. SetTop(f) /\ UNCHANGED <<conns, required, negotiated, propagated>>
  BY DEF EvalStart, maskVars
<1> HIDE DEF f
<1>8. stack' # <<>> /\ Top' = f /\ OneCall' /\ Reached' = Reached
  BY <1>0, <1>1, <1>5, <1>6, <1>7, SetTopCall
<1>9. Bits(Requested)' = Bits(Requested) /\ Have' = Have /\ Told' = Told
      /\ \A b : Causes(b)' = Causes(b)
  BY <1>6, <1>7, <1>8 DEF Bits, Requested, Have, Told, Within, Causes
<1>10. n \in Reached /\ Range(Tail(Top.list)) \subseteq Reached
  BY <1>1, <1>3 DEF CausesFollowed
<1> HIDE DEF n
<1>11. IsSubset(negotiated[n], propagated[n])
  BY <1>1, <1>10 DEF PendingListed
<1>12. /\ \A w \in ToPropagate(n) : w[2] \in negotiated[n][Word[w[1]]]
       /\ \A x \in 1..4 : \A i \in negotiated[n][Word[x]] \ propagated[n][Word[x]] :
            IF RightDir(n, x, i)
              THEN \A j \in DOMAIN conns[<<n, i>>] : <<x, i, j>> \in ToPropagate(n)
              ELSE <<x, i, 0>> \in ToPropagate(n)
  BY <1>3, <1>11, ToPropagateMember
<1>13. WorkLeft'
  <2>1. Top'.cur \in Reached' /\ Top'.cur = n /\ Top'.work = ToPropagate(n)
    BY <1>6, <1>8, <1>10
  <2>2. negotiated' = negotiated /\ propagated' = propagated /\ conns' = conns
    BY <1>7
  <2>3. CASE \E x \in 1..4 : \E i \in negotiated[n][Word[x]] \ propagated[n][Word[x]] :
               ~ RightDir(n, x, i)
    <3>1. \E w \in ToPropagate(n) : w[3] = 0
      <4>1. PICK x \in 1..4 :
              \E i \in negotiated[n][Word[x]] \ propagated[n][Word[x]] : ~ RightDir(n, x, i)
        BY <2>3
      <4>2. PICK i \in negotiated[n][Word[x]] \ propagated[n][Word[x]] : ~ RightDir(n, x, i)
        BY <4>1
      <4>3. <<x, i, 0>>[3] = 0
        OBVIOUS
      <4> QED BY <1>12, <4>2, <4>3
    <3> QED BY <1>12, <2>1, <2>2, <3>1 DEF WorkLeft
  <2>4. CASE \A x \in 1..4 : \A i \in negotiated[n][Word[x]] \ propagated[n][Word[x]] :
               RightDir(n, x, i)
    <3>1. \A x \in 1..4 : \A i \in negotiated[n][Word[x]] \ propagated[n][Word[x]] :
            \A j \in DOMAIN conns[<<n, i>>] : <<x, i, j>> \in ToPropagate(n)
      BY <1>12, <2>4
    <3> QED BY <1>12, <2>1, <2>2, <3>1 DEF WorkLeft
  <2> QED BY <2>3, <2>4
<1>14. \A S : Closed(S)' <=> Closed(S)
  BY <1>9 DEF Closed
<1>15. /\ (Bits(Requested) \subseteq Have)'
       /\ \A S \in SUBSET AllBits :
            (Bits(Requested) \subseteq S /\ Closed(S) => Have \subseteq S)'
       /\ (\A b \in Told : Causes(b) \subseteq Have)'
  BY <1>1, <1>9, <1>14 DEF CausesFollowed
<1>16. Range(Top'.list) \subseteq Reached'
  BY <1>6, <1>8, <1>10
<1> QED BY <1>13, <1>15, <1>16 DEF CausesFollowed

(* A connection is followed: what it causes at the peer is there           *)
(* afterwards, and nothing else is added.                                  *)
LEMMA PropagateFollowed ==
  ASSUME TypeOK, TypeOK', OneCall, CausesFollowed, Propagate
  PROVE  CausesFollowed'
<1>0. StackOK
  BY StackFromType
<1>1. Top.phase = "eval" /\ stack # <<>>
  BY DEF Propagate, In, Top
<1>2. Top \in Frame /\ WorkOK(Top)
  BY <1>0, <1>1, TopType
<1>3. PICK w \in Top.work : Propagate!2!(w)
  BY DEF Propagate
<1>4. CASE w[3] = 0
  <2>1. Return("error")
    BY <1>3, <1>4
  <2>2. stack' = <<>>
    BY <1>0, <1>1, <2>1, ReturnCall DEF PendingListed
  <2> QED BY <2>2 DEF CausesFollowed
<1>5. CASE w[3] # 0
  <2> DEFINE q == Peer(Top.cur, w)
             m == q[1]
             event == IF w[1] \in {1, 3} THEN "new" ELSE "old"
             mask == PortMasks[TypeOf[m]][q[2]][event]
             rest == [Top EXCEPT !.work = @ \ {w}]
             more == [rest EXCEPT !.list = PushFront(@, m)]
             new == CausedAt(q, event)
             n == Top.cur
  <2>1. /\ n \in Reached /\ n \in Node /\ w[1] \in 1..4
        /\ w[2] \in negotiated[n][Word[w[1]]]
        /\ IsLink(n, w)
    BY <1>1, <1>2, <1>5 DEF CausesFollowed, WorkLeft, WorkOK, Reached, Component, Frame, Work
  <2>2. q = conns[<<n, w[2]>>][w[3]]
    BY DEF Peer
  <2>3. Event(Word[w[1]]) = event
    BY <2>1 DEF Event, Word
  <2>4. q \in Port /\ m \in Node /\ m \in Reached /\ m # n
    <3>1. w[2] \in PortIdx(TypeOf[n]) /\ w[3] \in DOMAIN conns[<<n, w[2]>>]
      BY <2>1 DEF IsLink
    <3>2. q \in Port
      BY <2>1, <2>2, <3>1, ConnsType
    <3>3. m \in Reached /\ m # n
      BY <1>1, <2>1, <2>2, <3>1, ReachedClosed
    <3>4. m \in Node
      BY <3>2, PortIsPair
    <3> QED BY <3>2, <3>3, <3>4
  <2>5. new \subseteq AllBits /\ mask \in Mask(m)
    <3>1. event \in Trigger
      BY DEF Trigger
    <3> HIDE DEF q, event
    <3> QED BY <2>4, <3>1, CausedAtType
  <2>6. Word[w[1]] \in Reaction /\ <<n, Word[w[1]], w[2]>> \in Have
    <3>1. Word[w[1]] \in Reaction
      BY <2>1 DEF Word, Reaction
    <3> QED BY <1>1, <2>1, <3>1, HaveMember
  <2>7. new \subseteq Causes(<<n, Word[w[1]], w[2]>>)
    <3> DEFINE b == <<n, Word[w[1]], w[2]>>
    <3>1. b[1] = n /\ b[2] = Word[w[1]] /\ b[3] = w[2]
      OBVIOUS
    <3>2. w[3] \in DOMAIN conns[<<n, w[2]>>]
      BY <2>1 DEF IsLink
    <3> HIDE DEF b, new, q, n, event
    <3>3. CausedAt(conns[<<b[1], b[3]>>][w[3]], Event(b[2])) \subseteq Causes(b)
      BY <3>1, <3>2, CausesOf
    <3> QED BY <2>2, <2>3, <3>1, <3>3 DEF new, b
  <2>8. \A x \in new : /\ x[1] = m /\ x[2] \in Reaction
                       /\ x[3] \in mask[x[2]] /\ x = <<x[1], x[2], x[3]>>
    BY SMTT(30) DEF CausedAt
  <2>9. \A r \in Reaction : \A i \in mask[r] : <<m, r, i>> \in new
    BY SMTT(30) DEF CausedAt
  <2>10. IF IsSubset(negotiated[m], mask)
           THEN SetTop(rest) /\ UNCHANGED negotiated
           ELSE /\ negotiated' = [negotiated EXCEPT ![m] = Apply(@, mask)]
                /\ SetTop(more)
    BY <1>3, <1>5
  <2>11. conns' = conns /\ propagated' = propagated /\ required' = required
    BY DEF Propagate
  <2> HIDE DEF mask, new, m, event, q
  <2>12. \E f \in Frame :
           /\ SetTop(f) /\ f.call = Top.call /\ f.node = Top.node
           /\ f.phase = "eval" /\ f.cur = n /\ f.work = Top.work \ {w}
           /\ Range(f.list) \subseteq Range(Top.list) \cup {m}
    <3>1. /\ rest \in Frame /\ rest.call = Top.call /\ rest.node = Top.node
          /\ rest.list = Top.list /\ rest.phase = Top.phase
          /\ rest.cur = Top.cur /\ rest.work = Top.work \ {w}
      BY <1>2 DEF Frame
    <3> HIDE DEF rest
    <3>2. Top.list \in Seq(Node)
      BY <1>2 DEF Frame
    <3>3. /\ PushFront(Top.list, m) \in Seq(Node)
          /\ Range(PushFront(Top.list, m)) = Range(Top.list) \cup {m}
      BY <2>4, <3>2, PushFrontProperties
    <3>4. /\ more \in Frame /\ more.call = Top.call /\ more.node = Top.node
          /\ more.list = PushFront(Top.list, m) /\ more.phase = Top.phase
          /\ more.cur = Top.cur /\ more.work = Top.work \ {w}
      BY <3>1, <3>3 DEF Frame
    <3> HIDE DEF more
    <3>5. SetTop(rest) \/ SetTop(more)
      BY <2>10
    <3> QED BY <1>1, <3>1, <3>3, <3>4, <3>5
  <2>13. PICK f \in Frame :
           /\ SetTop(f) /\ f.call = Top.call /\ f.node = Top.node
           /\ f.phase = "eval" /\ f.cur = n /\ f.work = Top.work \ {w}
           /\ Range(f.list) \subseteq Range(Top.list) \cup {m}
    BY <2>12
  <2>14. stack' # <<>> /\ Top' = f /\ OneCall' /\ Reached' = Reached
    BY <1>0, <1>1, <2>11, <2>13, SetTopCall
  <2>15. \A k \in Node, r \in Reaction :
           negotiated'[k][r] = negotiated[k][r] \cup (IF k = m THEN mask[r] ELSE {})
    <3>1. CASE IsSubset(negotiated[m], mask)
      BY <2>10, <3>1 DEF IsSubset
    <3>2. CASE ~ IsSubset(negotiated[m], mask)
      <4>1. negotiated' = [negotiated EXCEPT ![m] = Apply(@, mask)]
        BY <2>10, <3>2
      <4>2. \A k \in Node : negotiated'[k] = IF k = m THEN Apply(negotiated[k], mask) ELSE negotiated[k]
        BY <2>4, <4>1 DEF TypeOK
      <4> QED BY <4>2 DEF Apply
    <3> QED BY <3>1, <3>2
  <2>16. Have' = Have \cup new
    <3>1. \A x \in Have : x \in Have'
      <4> SUFFICES ASSUME NEW x \in Have PROVE x \in Have'
        OBVIOUS
      <4>1. /\ x[1] \in Reached /\ x[2] \in Reaction
            /\ x[3] \in negotiated[x[1]][x[2]] /\ x = <<x[1], x[2], x[3]>>
        BY <1>1, HaveMember
      <4>2. x[1] \in Node
        BY <4>1 DEF Reached, Component
      <4>3. x[3] \in Within(negotiated)'[x[1]][x[2]]
        BY <2>14, <2>15, <4>1, <4>2 DEF Within
      <4> QED BY <4>1, <4>2, <4>3 DEF Have, Bits
    <3>2. \A x \in new : x \in Have'
      <4> SUFFICES ASSUME NEW x \in new PROVE x \in Have'
        OBVIOUS
      <4>1. x[1] = m /\ x[2] \in Reaction /\ x[3] \in mask[x[2]] /\ x = <<x[1], x[2], x[3]>>
        BY <2>8
      <4>2. x[3] \in Within(negotiated)'[m][x[2]]
        BY <2>4, <2>14, <2>15, <4>1 DEF Within
      <4> QED BY <2>4, <4>1, <4>2 DEF Have, Bits
    <3>3. \A x \in Have' : x \in Have \cup new
      <4> SUFFICES ASSUME NEW x \in Have' PROVE x \in Have \cup new
        OBVIOUS
      <4>1. /\ x[1] \in Node /\ x[2] \in Reaction
            /\ x[3] \in Within(negotiated)'[x[1]][x[2]] /\ x = <<x[1], x[2], x[3]>>
        BY DEF Have, Bits
      <4>2. x[1] \in Reached /\ x[3] \in negotiated'[x[1]][x[2]]
        BY <2>14, <4>1 DEF Within, NoMask
      <4>3. CASE x[3] \in negotiated[x[1]][x[2]]
        BY <1>1, <4>1, <4>2, <4>3, HaveMember
      <4>4. CASE x[1] = m /\ x[3] \in mask[x[2]]
        BY <2>9, <4>1, <4>4
      <4> QED BY <2>15, <4>1, <4>2, <4>3, <4>4
    <3> QED BY <3>1, <3>2, <3>3
  <2>17. Bits(Requested)' = Bits(Requested) /\ Told' = Told
         /\ \A b : Causes(b)' = Causes(b)
    BY <2>11, <2>13, <2>14 DEF Bits, Requested, Told, Within, Causes
  <2>18. \A S : Closed(S)' <=> Closed(S)
    BY <2>17 DEF Closed
  <2>19. ASSUME NEW S \in SUBSET AllBits, Bits(Requested) \subseteq S, Closed(S)
         PROVE  Have' \subseteq S
    <3>1. Have \subseteq S
      BY <1>1, <2>19 DEF CausesFollowed
    <3>2. Causes(<<n, Word[w[1]], w[2]>>) \subseteq S
      BY <2>6, <2>19, <3>1 DEF Closed
    <3> QED BY <2>7, <2>16, <3>1, <3>2
  <2>20. /\ (Bits(Requested) \subseteq Have)'
         /\ (\A b \in Told : Causes(b) \subseteq Have)'
    BY <1>1, <2>16, <2>17 DEF CausesFollowed
  <2>21. \A S \in SUBSET AllBits :
           (Bits(Requested) \subseteq S /\ Closed(S) => Have \subseteq S)'
    BY <2>17, <2>18, <2>19
  <2>22. Range(Top'.list) \subseteq Reached'
    BY <1>1, <2>4, <2>13, <2>14 DEF CausesFollowed
  <2>23. \A r \in Reaction : negotiated'[n][r] = negotiated[n][r]
    <3> HIDE DEF n
    <3>1. \A r \in Reaction : negotiated'[n][r] = negotiated[n][r] \cup {}
      BY <2>1, <2>4, <2>15
    <3> QED BY <3>1
  <2>24. \A x \in 1..4 : Word[x] \in Reaction
    BY DEF Word, Reaction
  <2>25. WorkLeft'
    <3>1. Top'.cur = n /\ Top'.work = Top.work \ {w} /\ n \in Reached'
      BY <2>1, <2>13, <2>14
    <3>2. \A v \in Top.work : v[1] \in 1..4
      BY <1>2 DEF Frame, Work
    <3>3. \A v \in Top.work \ {w} : v[3] # 0 => v[2] \in negotiated'[n][Word[v[1]]]
      BY <1>1, <2>23, <2>24, <3>2 DEF CausesFollowed, WorkLeft
    <3>4. CASE \E v \in Top.work : v[3] = 0
      <4>1. \E v \in Top.work \ {w} : v[3] = 0
        BY <1>5, <3>4
      <4> QED BY <3>1, <3>3, <4>1 DEF WorkLeft
    <3>5. CASE ~ \E v \in Top.work : v[3] = 0
      <4>1. ASSUME NEW x \in 1..4, NEW i \in negotiated'[n][Word[x]] \ propagated'[n][Word[x]],
                   NEW j \in DOMAIN conns[<<n, i>>]
            PROVE  \/ <<x, i, j>> \in Top.work \ {w}
                   \/ CausedAt(conns[<<n, i>>][j], Event(Word[x])) \subseteq Have'
        <5>1. i \in negotiated[n][Word[x]] \ propagated[n][Word[x]]
          BY <2>11, <2>23, <2>24
        <5>2. \/ <<x, i, j>> \in Top.work
              \/ CausedAt(conns[<<n, i>>][j], Event(Word[x])) \subseteq Have
          BY <1>1, <3>5, <5>1 DEF CausesFollowed, WorkLeft
        <5>3. CASE <<x, i, j>> = w
          <6>1. w[1] = x /\ w[2] = i /\ w[3] = j
            BY <5>3
          <6>2. CausedAt(conns[<<n, i>>][j], Event(Word[x])) = new
            BY <2>2, <2>3, <6>1 DEF new
          <6> QED BY <2>16, <6>2
        <5> QED BY <2>16, <5>2, <5>3
      <4> QED BY <2>11, <3>1, <3>3, <4>1 DEF WorkLeft
    <3> QED BY <3>4, <3>5
  <2> QED BY <2>20, <2>21, <2>22, <2>25 DEF CausesFollowed
<1> QED BY <1>4, <1>5

(* The evaluation of a node ends: the neighbours were told of all its bits.*)
LEMMA EvalEndFollowed ==
  ASSUME TypeOK, TypeOK', OneCall, PendingListed, CausesFollowed, EvalEnd
  PROVE  CausesFollowed'
<1>0. StackOK
  BY StackFromType
<1>1. Top.phase = "eval" /\ stack # <<>> /\ Top.work = {}
  BY DEF EvalEnd, In, Top
<1>2. Top \in Frame
  BY <1>0, <1>1, TopType
<1> DEFINE f == [Top EXCEPT !.phase = "converge"]
           n == Top.cur
<1>3. /\ f \in Frame /\ f.call = Top.call /\ f.node = Top.node
      /\ f.list = Top.list /\ f.phase = "converge"
  BY <1>2 DEF Frame, Phase
<1>4. /\ SetTop(f) /\ UNCHANGED <<conns, required, negotiated>>
      /\ propagated' = [propagated EXCEPT ![n] = Apply(@, negotiated[n])]
  BY DEF EvalEnd
<1> HIDE DEF f
<1>5. stack' # <<>> /\ Top' = f /\ OneCall' /\ Reached' = Reached
  BY <1>0, <1>1, <1>3, <1>4, SetTopCall
<1>6. n \in Reached /\ n \in Node
  BY <1>1 DEF CausesFollowed, WorkLeft, Reached, Component
<1>7. Bits(Requested)' = Bits(Requested) /\ Have' = Have
      /\ \A b : Causes(b)' = Causes(b)
  BY <1>3, <1>4, <1>5 DEF Bits, Requested, Have, Within, Causes
<1>8. \A S : Closed(S)' <=> Closed(S)
  BY <1>7 DEF Closed
<1>9. ASSUME NEW b \in Told' PROVE Causes(b) \subseteq Have
  <2>1. /\ b[1] \in Reached /\ b[1] \in Node /\ b[2] \in Reaction
        /\ b[3] \in propagated'[b[1]][b[2]] /\ b = <<b[1], b[2], b[3]>>
    <3>1. /\ b[1] \in Node /\ b[2] \in Reaction
          /\ b[3] \in Within(propagated)'[b[1]][b[2]] /\ b = <<b[1], b[2], b[3]>>
      BY DEF Told, Bits
    <3> QED BY <1>5, <3>1 DEF Within, NoMask
  <2>2. CASE b[3] \in propagated[b[1]][b[2]]
    <3>1. b \in Told
      BY <1>1, <2>1, <2>2, HaveMember
    <3> QED BY <1>1, <3>1 DEF CausesFollowed
  <2>3. CASE b[3] \notin propagated[b[1]][b[2]]
    <3>1. b[1] = n /\ b[3] \in negotiated[n][b[2]]
      <4>1. propagated'[b[1]] = IF b[1] = n THEN Apply(propagated[n], negotiated[n]) ELSE propagated[b[1]]
        BY <1>4, <1>6, <2>1 DEF TypeOK
      <4> QED BY <2>1, <2>3, <4>1 DEF Apply
    <3>2. PICK x \in 1..4 : Word[x] = b[2]
      <4>1. 1 \in 1..4 /\ 2 \in 1..4 /\ 3 \in 1..4 /\ 4 \in 1..4
        OBVIOUS
      <4> QED BY <2>1, <4>1 DEF Word, Reaction
    <3>3. \A j \in DOMAIN conns[<<n, b[3]>>] :
            CausedAt(conns[<<n, b[3]>>][j], Event(b[2])) \subseteq Have
      BY <1>1, <2>3, <3>1, <3>2 DEF CausesFollowed, WorkLeft
    <3> QED BY <3>1, <3>3, CausesOf
  <2> QED BY <2>2, <2>3
<1>10. /\ (Bits(Requested) \subseteq Have)'
       /\ \A S \in SUBSET AllBits :
            (Bits(Requested) \subseteq S /\ Closed(S) => Have \subseteq S)'
       /\ (\A b \in Told : Causes(b) \subseteq Have)'
  BY <1>1, <1>7, <1>8, <1>9 DEF CausesFollowed
<1>11. Range(Top'.list) \subseteq Reached' /\ Top'.phase # "eval"
  BY <1>1, <1>3, <1>5 DEF CausesFollowed
<1> QED BY <1>10, <1>11 DEF CausesFollowed

(* After the negotiation, the masks stay as they are.                      *)
LEMMA OnwardFollowed ==
  ASSUME TypeOK, TypeOK', OneCall, CausesFollowed, stack # <<>>, Onward
  PROVE  CausesFollowed'
<1>0. StackOK /\ UNCHANGED <<conns, required, negotiated, propagated>>
  BY StackFromType DEF Onward, maskVars
<1>1. CASE \E r \in {"ok", "error"} : Return(r)
  <2>1. stack' = <<>>
    BY <1>0, <1>1, ReturnCall
  <2> QED BY <2>1 DEF CausesFollowed
<1>2. ASSUME NEW f, SetTop(f), Continues(f) PROVE CausesFollowed'
  <2>1. f \in Frame
    <3>1. stack' = [stack EXCEPT ![1] = f] /\ 1 \in DOMAIN stack
      BY <1>0, <1>2 DEF SetTop, StackOK
    <3>2. stack'[1] = f /\ 1 \in DOMAIN stack' /\ stack' \in Seq(Frame)
      BY <1>0, <3>1 DEF StackOK, TypeOK
    <3> QED BY <3>2
  <2>2. stack' # <<>> /\ Top' = f /\ Reached' = Reached
    BY <1>0, <1>2, <2>1, SetTopCall DEF Continues
  <2>3. Bits(Requested)' = Bits(Requested) /\ Have' = Have /\ Told' = Told
        /\ \A b : Causes(b)' = Causes(b)
    BY <1>0, <1>2, <2>2 DEF Continues, Bits, Requested, Have, Told, Within, Causes
  <2>4. \A S : Closed(S)' <=> Closed(S)
    BY <2>3 DEF Closed
  <2>5. /\ (Bits(Requested) \subseteq Have)'
        /\ \A S \in SUBSET AllBits :
             (Bits(Requested) \subseteq S /\ Closed(S) => Have \subseteq S)'
        /\ (\A b \in Told : Causes(b) \subseteq Have)'
    BY <2>3, <2>4 DEF CausesFollowed
  <2> QED BY <1>2, <2>2, <2>5 DEF CausesFollowed, Continues
<1> QED BY <1>1, <1>2 DEF Onward

-----------------------------------------------------------------------------
(* The theorem                                                             *)

LEMMA LeastWhenConverged ==
  ASSUME TypeOK, PendingListed, CausesFollowed
  PROVE  NegotiationLeast
<1> SUFFICES ASSUME In("run") PROVE Have = CausedBy(Bits(Requested))
  BY DEF NegotiationLeast, Have, Within
<1>1. stack # <<>> /\ Top.phase = "run"
  BY DEF In, Top
<1>2. Bits(Requested) \subseteq Have /\ Have \in SUBSET AllBits
  BY <1>1, HaveMember DEF CausesFollowed
<1>3. /\ CausedBy(Bits(Requested)) \in SUBSET AllBits
      /\ Bits(Requested) \subseteq CausedBy(Bits(Requested))
      /\ Closed(CausedBy(Bits(Requested)))
      /\ \A S : Bits(Requested) \subseteq S /\ Closed(S)
                 => CausedBy(Bits(Requested)) \subseteq S
  <2> DEFINE bits == Bits(Requested)
  <2>1. bits \in SUBSET AllBits
    BY <1>2
  <2> HIDE DEF bits
  <2>2. /\ CausedBy(bits) \in SUBSET AllBits /\ bits \subseteq CausedBy(bits)
        /\ Closed(CausedBy(bits))
        /\ \A S : bits \subseteq S /\ Closed(S) => CausedBy(bits) \subseteq S
    BY <2>1, CausedByLeast
  <2> QED BY <2>2 DEF bits
<1>4. Have \subseteq CausedBy(Bits(Requested))
  BY <1>1, <1>3 DEF CausesFollowed
<1>5. Told = Have
  <2>1. \A n \in Reached : negotiated[n] = propagated[n]
    BY <1>1 DEF PendingListed
  <2>2. Within(negotiated) = Within(propagated)
    BY <2>1 DEF Within
  <2> QED BY <2>2 DEF Have, Told
<1>6. Closed(Have)
  BY <1>1, <1>5 DEF CausesFollowed, Closed
<1> QED BY <1>2, <1>3, <1>4, <1>6

LEMMA CausesStep ==
  ASSUME TypeOK, TypeOK', OneCall, PendingListed, CausesFollowed, [Next]_vars
  PROVE  OneCall' /\ PendingListed' /\ CausesFollowed'
<1>1. OneCall' /\ PendingListed'
  BY PendingStep
<1>2. CASE UNCHANGED vars
  <2>1. UNCHANGED <<stack, conns, required, negotiated, propagated>>
    BY <1>2 DEF vars, maskVars
  <2>2. \A n : Component(n)' = Component(n)
    BY <2>1 DEF Component, Neighbours
  <2>3. Top' = Top /\ Reached' = Reached
    BY <2>1, <2>2 DEF Top, Reached
  <2>4. Bits(Requested)' = Bits(Requested) /\ Have' = Have /\ Told' = Told
        /\ \A b : Causes(b)' = Causes(b)
    BY <2>1, <2>3 DEF Bits, Requested, Have, Told, Within, Causes
  <2>5. \A S : Closed(S)' <=> Closed(S)
    BY <2>4 DEF Closed
  <2>6. WorkLeft => WorkLeft'
    BY <2>1, <2>3, <2>4, SMTT(30) DEF WorkLeft
  <2> QED BY <1>1, <2>1, <2>3, <2>4, <2>5, <2>6 DEF CausesFollowed
<1>3. CASE (\E q \in Requests : ScheduleComponent(q.node, q.mask))
             \/ ScheduleGraph
  BY <1>1, <1>3, StartFollowed
<1>4. CASE Negotiate
  BY <1>1, <1>4, EvalStartFollowed, PropagateFollowed, EvalEndFollowed DEF Negotiate
<1>5. CASE FindRoots \/ FindReady \/ Execute
  BY <1>1, <1>5, FindRootsOnward, ExecuteOnward, OnwardFollowed
<1> QED BY <1>2, <1>3, <1>4, <1>5 DEF Next, Step

(* The negotiation computes the least masks that contain the requests and  *)
(* are closed under the port dependencies, for all topologies, node types  *)
(* and requests and in whatever order nodes are evaluated                  *)
(* (am_dfg_schedule_converge_deps).                                        *)
THEOREM NegotiationCorrect == Spec => []NegotiationLeast
<1> DEFINE IInv == OneCall /\ PendingListed /\ CausesFollowed
<1>1. Init => IInv
  BY DEF Init, OneCall, PendingListed, CausesFollowed
<1>2. TypeOK /\ TypeOK' /\ IInv /\ [Next]_vars => IInv'
  BY CausesStep
<1>3. TypeOK /\ IInv => NegotiationLeast
  BY LeastWhenConverged
<1> HIDE DEF IInv
<1> QED BY <1>1, <1>2, <1>3, TypeCorrect, PTL DEF Spec

-----------------------------------------------------------------------------
(* Ports and connections                                                   *)

LEMMA PortsByDirection ==
  /\ \A n \in Node : \A i \in InPorts(TypeOf[n]) : <<n, i>> \in InPort
  /\ \A n \in Node : \A i \in OutPorts(TypeOf[n]) : <<n, i>> \in OutPort
  /\ \A p \in InPort : /\ p \in Port /\ p \notin OutPort /\ p = <<p[1], p[2]>>
                       /\ p[1] \in Node /\ p[2] \in InPorts(TypeOf[p[1]])
  /\ \A p \in OutPort : /\ p \in Port /\ p \notin InPort /\ p = <<p[1], p[2]>>
                        /\ p[1] \in Node /\ p[2] \in OutPorts(TypeOf[p[1]])
BY DEF InPort, OutPort, Port, InPorts, OutPorts

(* The producer of a connected input, and the consumers of an output       *)
LEMMA ConnectedPorts ==
  ASSUME TypeOK
  PROVE  /\ \A p \in InPort : conns[p] # <<>> =>
              /\ conns[p][1] \in OutPort /\ DOMAIN conns[p] = {1}
              /\ conns[p][1][1] # p[1]
              /\ \E k \in DOMAIN conns[conns[p][1]] : conns[conns[p][1]][k] = p
         /\ \A q \in OutPort : \A k \in DOMAIN conns[q] :
              /\ conns[q][k] \in InPort /\ conns[conns[q][k]] # <<>>
              /\ conns[conns[q][k]][1] = q
         /\ \A q \in Port : \A j, k \in DOMAIN conns[q] : conns[q][j] = conns[q][k] => j = k
<1>1. IsTopology(conns)
  BY GraphsAssumption DEF TypeOK
<1>2. ASSUME NEW p \in InPort, conns[p] # <<>>
      PROVE  /\ conns[p][1] \in OutPort /\ DOMAIN conns[p] = {1}
             /\ conns[p][1][1] # p[1]
             /\ \E k \in DOMAIN conns[conns[p][1]] : conns[conns[p][1]][k] = p
  <2>1. p \in Port
    BY PortsByDirection
  <2>2. conns[p] \in Seq(Port) /\ Len(conns[p]) <= 1
    BY <1>1, <2>1 DEF IsTopology
  <2>3. DOMAIN conns[p] = {1}
    BY <1>2, <2>2
  <2> QED BY <1>1, <2>1, <2>3 DEF IsTopology
<1>3. ASSUME NEW q \in OutPort, NEW k \in DOMAIN conns[q]
      PROVE  /\ conns[q][k] \in InPort /\ conns[conns[q][k]] # <<>>
             /\ conns[conns[q][k]][1] = q
  <2> DEFINE p == conns[q][k]
  <2>1. q \in Port
    BY PortsByDirection
  <2>2. p \in InPort /\ \E j \in DOMAIN conns[p] : conns[p][j] = q
    BY <1>1, <2>1 DEF IsTopology
  <2> HIDE DEF p
  <2>3. conns[p] # <<>>
    BY <2>2
  <2>4. DOMAIN conns[p] = {1}
    BY <1>2, <2>2, <2>3
  <2>5. conns[p][1] = q
    BY <2>2, <2>4
  <2> QED BY <2>2, <2>3, <2>5 DEF p
<1> QED BY <1>1, <1>2, <1>3 DEF IsTopology

-----------------------------------------------------------------------------
(* The steps, by what they do to the innermost call                        *)

SameCall ==
  /\ stack' # <<>> /\ Reached' = Reached
  /\ Top'.call = Top.call /\ Top'.node = Top.node /\ Top'.loop = Top.loop

LEMMA SetTopSame ==
  ASSUME TypeOK, OneCall, stack # <<>>, conns' = conns, NEW f \in Frame, SetTop(f),
         f.call = Top.call, f.node = Top.node, f.loop = Top.loop
  PROVE  SameCall /\ Top' = f
BY StackFromType, SetTopCall DEF SameCall

LEMMA EvalStartTop ==
  ASSUME TypeOK, OneCall, EvalStart
  PROVE  /\ stack # <<>> /\ Top.phase = "converge" /\ Top.list # <<>>
         /\ SameCall /\ Top'.phase = "eval" /\ Top'.cur = Head(Top.list)
         /\ Top'.cur \in Node /\ Top'.cur \in Range(Top.list)
         /\ Top'.work = ToPropagate(Head(Top.list)) /\ Top'.todo = Top.todo
         /\ UNCHANGED <<conns, maskVars, deps, marking, generation, written, ret>>
<1>1. Top.phase = "converge" /\ stack # <<>> /\ Top.list # <<>>
  BY DEF EvalStart, In, Top
<1>2. Top \in Frame
  BY <1>1, StackFromType, TopType
<1> DEFINE n == Head(Top.list)
           f == [Top EXCEPT !.list = Tail(@), !.phase = "eval", !.cur = n,
                            !.work = ToPropagate(n)]
<1>3. Tail(Top.list) \in Seq(Node) /\ n \in Node /\ n \in Range(Top.list)
  BY <1>1, <1>2, TailRange DEF Frame
<1>4. ToPropagate(n) \in SUBSET Work
  BY <1>3, ToPropagateType
<1>5. f \in Frame
  BY <1>2, <1>3, <1>4 DEF Frame, Phase
<1>6. /\ f.call = Top.call /\ f.node = Top.node /\ f.loop = Top.loop /\ f.phase = "eval"
      /\ f.cur = n /\ f.work = ToPropagate(n) /\ f.todo = Top.todo
  BY <1>2 DEF Frame
<1>7. /\ SetTop(f)
      /\ UNCHANGED <<conns, maskVars, deps, marking, generation, written, ret>>
  BY DEF EvalStart
<1> HIDE DEF f
<1>8. SameCall /\ Top' = f
  BY <1>1, <1>5, <1>6, <1>7, SetTopSame
<1> QED BY <1>1, <1>3, <1>6, <1>7, <1>8

(* The step of Propagate that follows the connection of the work item w    *)
Follows(w) ==
  /\ w \in Top.work /\ w[3] # 0 /\ SameCall
  /\ Top'.phase = "eval" /\ Top'.cur = Top.cur /\ Top'.work = Top.work \ {w}
  /\ Top'.todo = Top.todo
  /\ LET q == Peer(Top.cur, w)
         event == IF w[1] \in {1, 3} THEN "new" ELSE "old"
     IN \A k \in Node, r \in Reaction :
          negotiated'[k][r] = negotiated[k][r] \cup
            (IF k = q[1] THEN PortMasks[TypeOf[q[1]]][q[2]][event][r] ELSE {})

LEMMA PropagateTop ==
  ASSUME TypeOK, OneCall, Propagate
  PROVE  /\ stack # <<>> /\ Top.phase = "eval"
         /\ UNCHANGED <<conns, required, propagated, deps, marking, generation, written>>
         /\ \/ \E w \in Top.work : Follows(w) /\ ret' = ret
            \/ (\E w \in Top.work : w[3] = 0) /\ stack' = <<>> /\ ret' = "error"
               /\ negotiated' = negotiated
<1>1. /\ Top.phase = "eval" /\ stack # <<>>
      /\ UNCHANGED <<conns, required, propagated, deps, marking, generation, written>>
  BY DEF Propagate, In, Top
<1>2. Top \in Frame /\ WorkOK(Top)
  BY <1>1, StackFromType, TopType
<1>3. PICK w \in Top.work : Propagate!2!(w)
  BY DEF Propagate
<1>4. CASE w[3] = 0
  <2>1. Return("error") /\ negotiated' = negotiated
    BY <1>3, <1>4
  <2>2. stack' = <<>> /\ ret' = "error"
    BY <1>1, <2>1, StackFromType, ReturnCall DEF Return
  <2> QED BY <1>1, <1>4, <2>1, <2>2
<1>5. CASE w[3] # 0
  <2> DEFINE q == Peer(Top.cur, w)
             m == q[1]
             event == IF w[1] \in {1, 3} THEN "new" ELSE "old"
             mask == PortMasks[TypeOf[m]][q[2]][event]
             rest == [Top EXCEPT !.work = @ \ {w}]
             more == [rest EXCEPT !.list = PushFront(@, m)]
  <2>1. q \in Port /\ m \in Node
    BY <1>1, <1>2, <1>5, ConnsType DEF WorkOK, IsLink, Peer, Frame
  <2>2. IF IsSubset(negotiated[m], mask)
          THEN SetTop(rest) /\ UNCHANGED negotiated
          ELSE /\ negotiated' = [negotiated EXCEPT ![m] = Apply(@, mask)]
               /\ SetTop(more)
    BY <1>3, <1>5
  <2>3. ret' = ret
    BY <1>3, <1>5
  <2>4. /\ rest \in Frame /\ rest.call = Top.call /\ rest.node = Top.node
        /\ rest.loop = Top.loop /\ rest.list = Top.list /\ rest.phase = Top.phase
        /\ rest.cur = Top.cur /\ rest.work = Top.work \ {w} /\ rest.todo = Top.todo
    BY <1>2 DEF Frame
  <2> HIDE DEF rest, q
  <2>5. Top.list \in Seq(Node)
    BY <1>2 DEF Frame
  <2>6. PushFront(Top.list, m) \in Seq(Node)
    <3> HIDE DEF m
    <3> QED BY <2>1, <2>5, PushFrontProperties
  <2>7. /\ more \in Frame /\ more.call = Top.call /\ more.node = Top.node
        /\ more.loop = Top.loop /\ more.phase = Top.phase
        /\ more.cur = Top.cur /\ more.work = Top.work \ {w} /\ more.todo = Top.todo
    BY <2>4, <2>6 DEF Frame
  <2> HIDE DEF more, mask, m
  <2>8. /\ SameCall /\ Top'.phase = "eval" /\ Top'.cur = Top.cur
        /\ Top'.work = Top.work \ {w} /\ Top'.todo = Top.todo
    <3>1. CASE SetTop(rest)
      BY <1>1, <2>4, <3>1, SetTopSame
    <3>2. CASE SetTop(more)
      BY <1>1, <2>7, <3>2, SetTopSame
    <3> QED BY <2>2, <3>1, <3>2
  <2>9. \A k \in Node, r \in Reaction :
           negotiated'[k][r] = negotiated[k][r] \cup (IF k = m THEN mask[r] ELSE {})
    <3>1. CASE IsSubset(negotiated[m], mask)
      BY <2>2, <3>1 DEF IsSubset
    <3>2. CASE ~ IsSubset(negotiated[m], mask)
      <4>1. negotiated' = [negotiated EXCEPT ![m] = Apply(@, mask)]
        BY <2>2, <3>2
      <4>2. \A k \in Node : negotiated'[k] = IF k = m THEN Apply(negotiated[k], mask) ELSE negotiated[k]
        BY <2>1, <4>1 DEF TypeOK
      <4> QED BY <4>2 DEF Apply
    <3> QED BY <3>1, <3>2
  <2>10. Follows(w)
    BY <1>5, <2>8, <2>9 DEF Follows, q, m, mask
  <2> QED BY <1>1, <2>3, <2>10
<1> QED BY <1>4, <1>5

LEMMA EvalEndTop ==
  ASSUME TypeOK, OneCall, EvalEnd
  PROVE  /\ stack # <<>> /\ Top.phase = "eval" /\ Top.work = {} /\ Top.cur \in Node
         /\ SameCall /\ Top'.phase = "converge" /\ Top'.todo = Top.todo
         /\ propagated' = [propagated EXCEPT ![Top.cur] = Apply(@, negotiated[Top.cur])]
         /\ deps' = [deps EXCEPT ![Top.cur] = CountDeps(Top.cur)]
         /\ UNCHANGED <<conns, required, negotiated, marking, generation, written, ret>>
<1>1. Top.phase = "eval" /\ stack # <<>> /\ Top.work = {}
  BY DEF EvalEnd, In, Top
<1>2. Top \in Frame
  BY <1>1, StackFromType, TopType
<1> DEFINE f == [Top EXCEPT !.phase = "converge"]
<1>3. /\ f \in Frame /\ f.call = Top.call /\ f.node = Top.node /\ f.loop = Top.loop
      /\ f.phase = "converge" /\ f.todo = Top.todo
  BY <1>2 DEF Frame, Phase
<1>4. /\ SetTop(f)
      /\ propagated' = [propagated EXCEPT ![Top.cur] = Apply(@, negotiated[Top.cur])]
      /\ deps' = [deps EXCEPT ![Top.cur] = CountDeps(Top.cur)]
      /\ UNCHANGED <<conns, required, negotiated, marking, generation, written, ret>>
  BY DEF EvalEnd
<1> HIDE DEF f
<1>5. SameCall /\ Top' = f
  BY <1>1, <1>3, <1>4, SetTopSame
<1>6. Top.cur \in Node
  BY <1>2 DEF Frame
<1> QED BY <1>1, <1>3, <1>4, <1>5, <1>6

(* The same, when the types of the next state are known                    *)
LEMMA SetTopTyped ==
  ASSUME TypeOK, TypeOK', OneCall, stack # <<>>, conns' = conns, NEW f, SetTop(f),
         f.call = Top.call, f.node = Top.node, f.loop = Top.loop
  PROVE  SameCall /\ Top' = f
<1>1. stack' = [stack EXCEPT ![1] = f] /\ 1 \in DOMAIN stack
  BY DEF SetTop, TypeOK
<1>2. stack'[1] = f /\ 1 \in DOMAIN stack' /\ stack' \in Seq(Frame)
  BY <1>1 DEF TypeOK
<1>3. f \in Frame
  BY <1>2
<1> QED BY <1>3, SetTopSame

LEMMA ReturnTop ==
  ASSUME TypeOK, OneCall, stack # <<>>, NEW r, Return(r)
  PROVE  stack' = <<>> /\ ret' = r
BY StackFromType, ReturnCall DEF Return

(* The node n is added to those that the search for roots has seen; rest   *)
(* is the stack of the search before.                                      *)
Visits(n, rest) ==
  /\ Top'.phase = "roots"
  /\ Top'.todo = Cons([node |-> n, links |-> Links(1, n, UsedMask(negotiated[n]))], rest)
  /\ Top'.list = IF IsRoot(n) THEN Cons(n, Top.list) ELSE Top.list

LEMMA VisitTop ==
  ASSUME TypeOK, TypeOK', OneCall, stack # <<>>, conns' = conns, NEW n,
         NEW f \in Frame, Visit(n, f), f.phase = "roots", f.list = Top.list,
         f.call = Top.call, f.node = Top.node, f.loop = Top.loop
  PROVE  SameCall /\ Visits(n, f.todo)
<1> DEFINE v == [node |-> n, links |-> Links(1, n, UsedMask(negotiated[n]))]
           list == IF IsRoot(n) THEN Cons(n, f.list) ELSE f.list
           g == [f EXCEPT !.todo = Cons(v, @), !.list = list]
<1>1. SetTop(g)
  BY DEF Visit
<1>2. /\ g.call = Top.call /\ g.node = Top.node /\ g.loop = Top.loop
      /\ g.phase = "roots" /\ g.todo = Cons(v, f.todo) /\ g.list = list
  <2> HIDE DEF v, list
  <2> QED BY DEF Frame
<1> HIDE DEF g
<1>3. SameCall /\ Top' = g
  BY <1>1, <1>2, SetTopTyped
<1> QED BY <1>2, <1>3 DEF Visits

LEMMA RootsStartTop ==
  ASSUME TypeOK, TypeOK', OneCall, RootsStart
  PROVE  /\ stack # <<>> /\ Top.phase = "converge" /\ Top.list = <<>> /\ Top.call = "component"
         /\ SameCall /\ Visits(Top.node, Top.todo)
         /\ marking' = [n \in Node |-> IF n = Top.node THEN "find_roots"
                                       ELSE IF n \in Component(Top.node) THEN "none"
                                       ELSE marking[n]]
         /\ UNCHANGED <<conns, maskVars, deps, generation, written, ret>>
<1>1. stack # <<>> /\ Top.phase = "converge" /\ Top.list = <<>> /\ Top.call = "component"
  BY DEF RootsStart, In, Top
<1>2. Top \in Frame
  BY <1>1, StackFromType, TopType
<1> DEFINE f == [Top EXCEPT !.phase = "roots"]
<1>3. Visit(Top.node, f) /\ conns' = conns
  BY DEF RootsStart
<1>4. /\ f \in Frame /\ f.phase = "roots" /\ f.list = Top.list /\ f.todo = Top.todo
      /\ f.call = Top.call /\ f.node = Top.node /\ f.loop = Top.loop
  BY <1>2 DEF Frame, Phase
<1> HIDE DEF f
<1>5. SameCall /\ Visits(Top.node, Top.todo)
  BY <1>1, <1>3, <1>4, VisitTop
<1> QED BY <1>1, <1>5 DEF RootsStart

LEMMA RootsVisitTop ==
  ASSUME TypeOK, TypeOK', OneCall, RootsVisit
  PROVE  /\ stack # <<>> /\ Top.phase = "roots" /\ Top.todo # <<>>
         /\ SameCall
         /\ UNCHANGED <<conns, maskVars, deps, generation, written, ret>>
         /\ \E w \in Top.todo[1].links :
              LET m == Peer(Top.todo[1].node, w)[1]
                  rest == [Top.todo EXCEPT ![1].links = @ \ {w}]
              IN \/ /\ marking[m] = "find_roots" /\ marking' = marking
                    /\ Top'.phase = "roots" /\ Top'.todo = rest /\ Top'.list = Top.list
                 \/ /\ marking[m] # "find_roots"
                    /\ marking' = [marking EXCEPT ![m] = "find_roots"]
                    /\ Visits(m, rest)
<1>1. stack # <<>> /\ Top.phase = "roots" /\ Top.todo # <<>>
  BY DEF RootsVisit, In, Top
<1>2. Top \in Frame /\ WorkOK(Top)
  BY <1>1, StackFromType, TopType
<1>3. PICK w \in Head(Top.todo).links : RootsVisit!3!(w)
  BY DEF RootsVisit
<1> DEFINE v == Head(Top.todo)
           m == Peer(v.node, w)[1]
           rest == [Top EXCEPT !.todo[1].links = @ \ {w}]
<1>4. v \in Visiting /\ v = Top.todo[1] /\ 1 \in DOMAIN Top.todo
  BY <1>1, <1>2 DEF Frame
<1>5. /\ rest.todo = [Top.todo EXCEPT ![1].links = @ \ {w}]
      /\ rest.phase = "roots" /\ rest.list = Top.list
      /\ rest.call = Top.call /\ rest.node = Top.node /\ rest.loop = Top.loop
  BY <1>1, <1>2 DEF Frame
<1>6. rest \in Frame
  <2>1. [v EXCEPT !.links = @ \ {w}] \in Visiting
    BY <1>4 DEF Visiting
  <2>2. rest.todo \in Seq(Visiting)
    BY <1>2, <1>4, <1>5, <2>1 DEF Frame
  <2> QED BY <1>2, <2>2 DEF Frame
<1>7. UNCHANGED <<conns, maskVars, deps, generation, written, ret>>
  BY DEF RootsVisit
<1>8. CASE marking[m] = "find_roots"
  <2>1. SetTop(rest) /\ marking' = marking
    BY <1>3, <1>8
  <2> HIDE DEF rest
  <2>2. SameCall /\ Top' = rest
    BY <1>1, <1>5, <1>7, <2>1, SetTopTyped
  <2> QED BY <1>1, <1>4, <1>5, <1>7, <1>8, <2>1, <2>2
<1>9. CASE marking[m] # "find_roots"
  <2>1. Visit(m, rest) /\ marking' = [marking EXCEPT ![m] = "find_roots"]
    BY <1>3, <1>9
  <2> HIDE DEF rest, m
  <2>2. SameCall /\ Visits(m, rest.todo)
    BY <1>1, <1>5, <1>6, <1>7, <2>1, VisitTop
  <2>3. Visits(m, [Top.todo EXCEPT ![1].links = @ \ {w}])
    BY <1>5, <2>2
  <2> QED BY <1>1, <1>4, <1>7, <1>9, <2>1, <2>2, <2>3 DEF m
<1> QED BY <1>8, <1>9

LEMMA RootsBackTop ==
  ASSUME TypeOK, TypeOK', OneCall, RootsBack
  PROVE  /\ stack # <<>> /\ Top.phase = "roots" /\ Top.todo # <<>> /\ Top.todo[1].links = {}
         /\ SameCall /\ Top'.phase = "roots" /\ Top'.todo = Tail(Top.todo)
         /\ Top'.list = Top.list
         /\ UNCHANGED <<conns, maskVars, deps, marking, generation, written, ret>>
<1>1. stack # <<>> /\ Top.phase = "roots" /\ Top.todo # <<>> /\ Head(Top.todo).links = {}
  BY DEF RootsBack, In, Top
<1>2. Top \in Frame
  BY <1>1, StackFromType, TopType
<1> DEFINE f == [Top EXCEPT !.todo = Tail(@)]
<1>3. /\ SetTop(f)
      /\ UNCHANGED <<conns, maskVars, deps, marking, generation, written, ret>>
  BY DEF RootsBack
<1>4. /\ f.phase = "roots" /\ f.list = Top.list /\ f.todo = Tail(Top.todo)
      /\ f.call = Top.call /\ f.node = Top.node /\ f.loop = Top.loop
  BY <1>1, <1>2 DEF Frame
<1> HIDE DEF f
<1>5. SameCall /\ Top' = f
  BY <1>1, <1>3, <1>4, SetTopTyped
<1>6. Head(Top.todo) = Top.todo[1]
  BY <1>1, <1>2 DEF Frame
<1> QED BY <1>1, <1>3, <1>4, <1>5, <1>6

LEMMA RootsEndTop ==
  ASSUME TypeOK, TypeOK', OneCall, RootsEnd
  PROVE  /\ stack # <<>> /\ Top.phase = "roots" /\ Top.todo = <<>>
         /\ UNCHANGED <<conns, maskVars, deps, marking, generation, written>>
         /\ \/ stack' = <<>> /\ ret' = "error"
            \/ /\ SameCall /\ Top'.phase = "run" /\ Top'.list = Top.list /\ ret' = ret
<1>1. stack # <<>> /\ Top.phase = "roots" /\ Top.todo = <<>>
  BY DEF RootsEnd, In, Top
<1>2. Top \in Frame
  BY <1>1, StackFromType, TopType
<1> DEFINE f == [Top EXCEPT !.phase = "run"]
<1>3. /\ Return("error") \/ (SetTop(f) /\ ret' = ret)
      /\ UNCHANGED <<conns, maskVars, deps, marking, generation, written>>
  BY DEF RootsEnd
<1>4. /\ f.phase = "run" /\ f.list = Top.list
      /\ f.call = Top.call /\ f.node = Top.node /\ f.loop = Top.loop
  BY <1>1, <1>2 DEF Frame
<1> HIDE DEF f
<1> QED BY <1>1, <1>3, <1>4, SetTopTyped, ReturnTop

LEMMA FindReadyTop ==
  ASSUME TypeOK, TypeOK', OneCall, FindReady
  PROVE  /\ stack # <<>> /\ Top.phase = "converge" /\ Top.list = <<>> /\ Top.call = "graph"
         /\ SameCall /\ Top'.phase = "run"
         /\ Top'.list \in Pushed({n \in Node : deps[n] = 0})
         /\ UNCHANGED <<conns, maskVars, deps, marking, generation, written, ret>>
<1>1. stack # <<>> /\ Top.phase = "converge" /\ Top.list = <<>> /\ Top.call = "graph"
  BY DEF FindReady, In, Top
<1>2. Top \in Frame
  BY <1>1, StackFromType, TopType
<1>3. PICK s \in Pushed({n \in Node : deps[n] = 0}) :
        SetTop([Top EXCEPT !.phase = "run", !.list = s])
  BY DEF FindReady
<1> DEFINE f == [Top EXCEPT !.phase = "run", !.list = s]
<1>4. /\ SetTop(f)
      /\ UNCHANGED <<conns, maskVars, deps, marking, generation, written, ret>>
  BY <1>3 DEF FindReady
<1>5. /\ f.phase = "run" /\ f.list = s
      /\ f.call = Top.call /\ f.node = Top.node /\ f.loop = Top.loop
  BY <1>1, <1>2 DEF Frame
<1> HIDE DEF f
<1>6. SameCall /\ Top' = f
  BY <1>1, <1>4, <1>5, SetTopTyped
<1> QED BY <1>1, <1>3, <1>4, <1>5, <1>6

(* The node n is taken off the list and runs.                              *)
Starts(n) ==
  /\ deps[n] = 0 /\ SameCall /\ ret' = ret
  /\ Top'.list = RestOf(Top.list) /\ Top'.cur = n
  /\ Top'.ins = InMask(negotiated[n]) /\ Top'.outs = OutMask(negotiated[n])
  /\ Top'.phase = IF \A i \in UsedMask(negotiated[n]) :
                        ~ Activated(<<n, i>>, negotiated, generation')
                     THEN "skip" ELSE "call"
  /\ marking' = [marking EXCEPT ![n] = "processing"]
  /\ generation' = [p \in Port |->
                      IF p[1] = n /\ p[2] \in negotiated[n]["push_new"]
                        THEN NextGeneration(generation[p]) ELSE generation[p]]

LEMMA ProcessStartTop ==
  ASSUME TypeOK, TypeOK', OneCall, ProcessStart
  PROVE  /\ stack # <<>> /\ Top.phase = "run"
         /\ UNCHANGED <<conns, maskVars, deps, written>>
         /\ \E n \in Node :
              /\ Popped(n)
              /\ \/ Starts(n)
                 \/ /\ deps[n] # 0 /\ stack' = <<>> /\ ret' = "error"
                    /\ UNCHANGED <<marking, generation>>
<1>1. /\ stack # <<>> /\ Top.phase = "run"
      /\ UNCHANGED <<conns, maskVars, deps, written>>
  BY DEF ProcessStart, In, Top
<1>2. Top \in Frame
  BY <1>1, StackFromType, TopType
<1>3. PICK n \in Node : ProcessStart!2!(n)
  BY DEF ProcessStart
<1>4. CASE deps[n] # 0
  BY <1>1, <1>3, <1>4, ReturnTop
<1>5. CASE deps[n] = 0
  <2> DEFINE phase == IF \A i \in UsedMask(negotiated[n]) :
                           ~ Activated(<<n, i>>, negotiated, generation')
                        THEN "skip" ELSE "call"
             f == [Top EXCEPT !.list = RestOf(@), !.cur = n,
                     !.ins = InMask(negotiated[n]),
                     !.outs = OutMask(negotiated[n]), !.phase = phase]
  <2>1. SetTop(f) /\ ret' = ret
    BY <1>3, <1>5
  <2>2. /\ marking' = [marking EXCEPT ![n] = "processing"]
        /\ generation' = [p \in Port |->
                      IF p[1] = n /\ p[2] \in negotiated[n]["push_new"]
                        THEN NextGeneration(generation[p]) ELSE generation[p]]
    BY <1>3, <1>5
  <2>3. /\ f.phase = phase /\ f.list = RestOf(Top.list) /\ f.cur = n
        /\ f.ins = InMask(negotiated[n]) /\ f.outs = OutMask(negotiated[n])
        /\ f.call = Top.call /\ f.node = Top.node /\ f.loop = Top.loop
    <3> HIDE DEF phase
    <3> QED BY <1>2 DEF Frame
  <2> HIDE DEF f
  <2>4. SameCall /\ Top' = f
    BY <1>1, <2>1, <2>3, SetTopTyped
  <2>5. Starts(n)
    BY <1>5, <2>1, <2>2, <2>3, <2>4 DEF Starts
  <2> QED BY <1>1, <1>3, <2>5
<1> QED BY <1>4, <1>5

(* The process function of the current node or its omission is over.       *)
LEMMA AfterProcessTop ==
  ASSUME TypeOK, TypeOK', OneCall, ProcessSkip \/ ProcessOk
  PROVE  /\ stack # <<>> /\ SameCall /\ Top'.phase = "notify"
         /\ Top.phase = (IF ProcessSkip THEN "skip" ELSE "call")
         /\ Top'.list = Top.list /\ Top'.cur = Top.cur
         /\ Top'.ins = Top.ins /\ Top'.outs = Top.outs
         /\ Top'.work = Links(1, Top.cur, Top.outs)
         /\ generation' = [p \in Port |->
                             IF p[1] = Top.cur /\ p[2] \in Top.ins /\ conns[p] # <<>>
                               THEN generation[conns[p][1]] ELSE generation[p]]
         /\ UNCHANGED <<conns, maskVars, deps, marking, ret>>
<1>1. stack # <<>> /\ conns' = conns
  BY DEF ProcessSkip, ProcessOk, In
<1>2. Top \in Frame
  BY <1>1, StackFromType, TopType
<1>3. Top.phase = (IF ProcessSkip THEN "skip" ELSE "call")
  <2>1. CASE ProcessSkip
    BY <2>1 DEF ProcessSkip, In, Top
  <2>2. CASE ~ ProcessSkip
    BY <2>2 DEF ProcessOk, In, Top
  <2> QED BY <2>1, <2>2
<1> DEFINE f == [Top EXCEPT !.phase = "notify", !.work = Links(1, Top.cur, Top.outs)]
<1>4. SetTop(f)
  BY DEF ProcessSkip, ProcessOk, AfterProcess
<1>5. generation' = [p \in Port |->
                       IF p[1] = Top.cur /\ p[2] \in Top.ins /\ conns[p] # <<>>
                         THEN generation[conns[p][1]] ELSE generation[p]]
  BY DEF ProcessSkip, ProcessOk, AfterProcess, Seen
<1>6. UNCHANGED <<conns, maskVars, deps, marking, ret>>
  BY DEF ProcessSkip, ProcessOk
<1>7. /\ f.phase = "notify" /\ f.list = Top.list /\ f.cur = Top.cur
      /\ f.ins = Top.ins /\ f.outs = Top.outs /\ f.work = Links(1, Top.cur, Top.outs)
      /\ f.call = Top.call /\ f.node = Top.node /\ f.loop = Top.loop
  BY <1>2 DEF Frame
<1> HIDE DEF f
<1>8. SameCall /\ Top' = f
  BY <1>1, <1>4, <1>7, SetTopTyped
<1> QED BY <1>1, <1>3, <1>5, <1>6, <1>7, <1>8

(* The consumer at the other end of the work item w is notified.           *)
Notifies(w) ==
  LET q == Peer(Top.cur, w)
      m == q[1]
  IN /\ SameCall /\ ret' = ret /\ Top'.phase = "notify"
     /\ Top'.cur = Top.cur /\ Top'.ins = Top.ins /\ Top'.outs = Top.outs
     /\ Top'.work = Top.work \ {w}
     /\ IF Activated(q, negotiated, generation)
          THEN /\ deps[m] # 0 /\ deps' = [deps EXCEPT ![m] = @ - 1]
               /\ Top'.list = IF deps[m] = 1 THEN Cons(m, Top.list) ELSE Top.list
          ELSE deps' = deps /\ Top'.list = Top.list

LEMMA NotifyTop ==
  ASSUME TypeOK, TypeOK', OneCall, Notify
  PROVE  /\ stack # <<>> /\ Top.phase = "notify"
         /\ UNCHANGED <<conns, maskVars, marking, generation, written>>
         /\ \E w \in Top.work :
              \/ Notifies(w)
              \/ LET q == Peer(Top.cur, w) IN
                   /\ Activated(q, negotiated, generation) /\ deps[q[1]] = 0
                   /\ stack' = <<>> /\ ret' = "error" /\ deps' = deps
<1>1. /\ stack # <<>> /\ Top.phase = "notify"
      /\ UNCHANGED <<conns, maskVars, marking, generation, written>>
  BY DEF Notify, In, Top
<1>2. Top \in Frame
  BY <1>1, StackFromType, TopType
<1>3. PICK w \in Top.work : Notify!2!(w)
  BY DEF Notify
<1> DEFINE q == Peer(Top.cur, w)
           m == q[1]
           rest == [Top EXCEPT !.work = @ \ {w}]
           next == [rest EXCEPT !.list = Cons(m, @)]
<1>4. /\ rest.phase = "notify" /\ rest.list = Top.list /\ rest.cur = Top.cur
      /\ rest.ins = Top.ins /\ rest.outs = Top.outs /\ rest.work = Top.work \ {w}
      /\ rest.call = Top.call /\ rest.node = Top.node /\ rest.loop = Top.loop
  BY <1>1, <1>2 DEF Frame
<1>5. /\ next.phase = "notify" /\ next.list = Cons(m, Top.list) /\ next.cur = Top.cur
      /\ next.ins = Top.ins /\ next.outs = Top.outs /\ next.work = Top.work \ {w}
      /\ next.call = Top.call /\ next.node = Top.node /\ next.loop = Top.loop
  BY <1>1, <1>2 DEF Frame
<1>6. CASE ~ Activated(q, negotiated, generation)
  <2>1. SetTop(rest) /\ deps' = deps /\ ret' = ret
    BY <1>3, <1>6
  <2> HIDE DEF rest
  <2>2. SameCall /\ Top' = rest
    BY <1>1, <1>4, <2>1, SetTopTyped
  <2> QED BY <1>1, <1>4, <1>6, <2>1, <2>2 DEF Notifies
<1>7. CASE Activated(q, negotiated, generation) /\ deps[m] = 0
  <2>1. Return("error") /\ deps' = deps
    BY <1>3, <1>7
  <2> QED BY <1>1, <1>7, <2>1, ReturnTop
<1>8. CASE Activated(q, negotiated, generation) /\ deps[m] # 0
  <2>1. /\ SetTop(IF deps[m] = 1 THEN next ELSE rest)
        /\ deps' = [deps EXCEPT ![m] = @ - 1] /\ ret' = ret
    BY <1>3, <1>8
  <2> HIDE DEF rest, next, m
  <2>2. SameCall /\ Top' = IF deps[m] = 1 THEN next ELSE rest
    <3>1. CASE deps[m] = 1
      BY <1>1, <1>5, <2>1, <3>1, SetTopTyped
    <3>2. CASE deps[m] # 1
      BY <1>1, <1>4, <2>1, <3>2, SetTopTyped
    <3> QED BY <3>1, <3>2
  <2>3. Notifies(w)
    BY <1>4, <1>5, <1>8, <2>1, <2>2 DEF Notifies, m
  <2> QED BY <1>1, <2>3
<1> QED BY <1>6, <1>7, <1>8

LEMMA NotifyEndTop ==
  ASSUME TypeOK, TypeOK', OneCall, NotifyEnd
  PROVE  /\ stack # <<>> /\ Top.phase = "notify" /\ Top.work = {}
         /\ SameCall /\ Top'.phase = "run" /\ Top'.list = Top.list
         /\ marking' = [marking EXCEPT ![Top.cur] = "done"]
         /\ UNCHANGED <<conns, maskVars, deps, generation, written, ret>>
<1>1. stack # <<>> /\ Top.phase = "notify" /\ Top.work = {}
  BY DEF NotifyEnd, In, Top
<1>2. Top \in Frame
  BY <1>1, StackFromType, TopType
<1> DEFINE f == [Top EXCEPT !.phase = "run"]
<1>3. /\ SetTop(f) /\ marking' = [marking EXCEPT ![Top.cur] = "done"]
      /\ UNCHANGED <<conns, maskVars, deps, generation, written, ret>>
  BY DEF NotifyEnd
<1>4. /\ f.phase = "run" /\ f.list = Top.list
      /\ f.call = Top.call /\ f.node = Top.node /\ f.loop = Top.loop
  BY <1>2 DEF Frame
<1> HIDE DEF f
<1>5. SameCall /\ Top' = f
  BY <1>1, <1>3, <1>4, SetTopTyped
<1> QED BY <1>1, <1>3, <1>4, <1>5

-----------------------------------------------------------------------------
(* The negotiation                                                         *)

(* The bits that count as propagated have the right direction, and so have *)
(* the items of work but for those that end the call.                      *)
WordsDirected ==
  stack # <<>> =>
    /\ \A n \in Reached : \A x \in 1..4 :
         \A i \in propagated[n][Word[x]] : RightDir(n, x, i)
    /\ Top.phase = "eval" =>
         /\ \A w \in Top.work : RightDir(Top.cur, w[1], w[2]) <=> w[3] # 0
         /\ \A w \in Top.work : w[2] \in negotiated[Top.cur][Word[w[1]]]
         /\ \A x \in 1..4 :
              \A i \in negotiated[Top.cur][Word[x]] \ propagated[Top.cur][Word[x]] :
                RightDir(Top.cur, x, i) \/ <<x, i, 0>> \in Top.work

(* An input of a node that only pulls new data when told of it             *)
AwaitsNews(n, i) == i \in InPorts(TypeOf[n]) /\ ~ HearsNew(TypeOf[n], i)

(* Such an input pulls new data only if its producer pushes new data.      *)
NewsAnnounced ==
  stack # <<>> =>
    \A n \in Reached : \A i \in negotiated[n]["pull_new"] :
      AwaitsNews(n, i) =>
        \A j \in DOMAIN conns[<<n, i>>] :
          LET q == conns[<<n, i>>][j] IN q[2] \in negotiated[q[1]]["push_new"]

(* The inputs in use, and those among them that are in use whatever the    *)
(* producers announce from now on                                          *)
InUse(n) == {i \in InMask(negotiated[n]) : Activated(<<n, i>>, negotiated, generation)}

InUseForSure(n) ==
  {i \in InMask(negotiated[n]) :
     conns[<<n, i>>] # <<>> /\ (i \in negotiated[n]["pull_old"] \/ ~ HearsNew(TypeOf[n], i))}

(* The counter of a node that is not to be evaluated again                 *)
CountersBetween ==
  (stack # <<>> /\ Top.phase \in {"converge", "eval", "roots"}) =>
    \A n \in Reached : negotiated[n] = propagated[n] =>
      /\ Cardinality(InUseForSure(n)) <= deps[n]
      /\ deps[n] <= Cardinality(InUse(n))

(* The markings while no node runs                                         *)
MarkingsReset ==
  stack # <<>> =>
    /\ Top.phase \in {"converge", "eval"} =>
         Top.todo = <<>> /\ \A n \in Reached : marking[n] = "reset"
    /\ Top.phase = "roots" => \A n \in Reached : marking[n] \in {"none", "find_roots"}
    /\ Top.node \in Reached /\ Top.loop = {}

NegotiationInv == WordsDirected /\ NewsAnnounced /\ CountersBetween /\ MarkingsReset

(* Ports in the direction of their words                                   *)
LEMMA PortEither == \A p \in Port : p \in InPort \/ p \in OutPort
<1> SUFFICES ASSUME NEW p \in Port PROVE p \in InPort \/ p \in OutPort
  OBVIOUS
<1>1. p[1] \in Node /\ p[2] \in PortIdx(TypeOf[p[1]]) /\ p = <<p[1], p[2]>>
  BY PortIsPair
<1>2. PortDir[TypeOf[p[1]]] \in Seq(Dir)
  BY <1>1, TypesAssumption
<1>3. PortDir[TypeOf[p[1]]][p[2]] \in {"in", "out"}
  BY <1>1, <1>2 DEF PortIdx, Dir
<1>4. p[2] \in InPorts(TypeOf[p[1]]) \/ p[2] \in OutPorts(TypeOf[p[1]])
  BY <1>1, <1>3 DEF InPorts, OutPorts
<1> QED BY <1>1, <1>4, PortsByDirection

LEMMA WordsFour ==
  /\ Word[1] = "pull_new" /\ Word[2] = "pull_old"
  /\ Word[3] = "push_new" /\ Word[4] = "push_old"
  /\ \A x \in 1..4 : Word[x] \in Reaction
  /\ \A n, i : /\ RightDir(n, 1, i) <=> i \in InPorts(TypeOf[n])
               /\ RightDir(n, 2, i) <=> i \in InPorts(TypeOf[n])
               /\ RightDir(n, 3, i) <=> i \in OutPorts(TypeOf[n])
               /\ RightDir(n, 4, i) <=> i \in OutPorts(TypeOf[n])
BY DEF Word, Reaction, RightDir

(* The words of a node that has nothing to propagate                       *)
LEMMA SettledDirected ==
  ASSUME TypeOK, WordsDirected, stack # <<>>, NEW n \in Reached, negotiated[n] = propagated[n]
  PROVE  /\ n \in Node
         /\ InMask(negotiated[n]) \subseteq InPorts(TypeOf[n])
         /\ OutMask(negotiated[n]) \subseteq OutPorts(TypeOf[n])
         /\ \A i \in InMask(negotiated[n]) : <<n, i>> \in InPort
         /\ \A i \in OutMask(negotiated[n]) : <<n, i>> \in OutPort
<1>1. n \in Node
  BY DEF Reached, Component
<1>2. 1 \in 1..4 /\ 2 \in 1..4 /\ 3 \in 1..4 /\ 4 \in 1..4
  OBVIOUS
<1>3. \A x \in 1..4 : \A i \in negotiated[n][Word[x]] : RightDir(n, x, i)
  BY DEF WordsDirected
<1>4. /\ InMask(negotiated[n]) \subseteq InPorts(TypeOf[n])
      /\ OutMask(negotiated[n]) \subseteq OutPorts(TypeOf[n])
  BY <1>2, <1>3, WordsFour DEF InMask, OutMask
<1> QED BY <1>1, <1>4, PortsByDirection

LEMMA InUseFinite ==
  ASSUME TypeOK, NEW n \in Node
  PROVE  /\ IsFiniteSet(InUse(n)) /\ Cardinality(InUse(n)) \in Nat
         /\ IsFiniteSet(InUseForSure(n)) /\ Cardinality(InUseForSure(n)) \in Nat
<1>1. negotiated[n] \in Mask(n)
  BY DEF TypeOK
<1>2. InMask(negotiated[n]) \subseteq PortIdx(TypeOf[n])
  BY <1>1, MaskIndexes
<1>3. InUse(n) \subseteq PortIdx(TypeOf[n]) /\ InUseForSure(n) \subseteq PortIdx(TypeOf[n])
  BY <1>2 DEF InUse, InUseForSure
<1>4. IsFiniteSet(InUse(n)) /\ IsFiniteSet(InUseForSure(n))
  BY <1>3, PortIdxType, FS_Subset
<1> QED BY <1>4, FS_CardinalityType

(* An input that awaits news and pulls new data is in use.                 *)
LEMMA SureInUse ==
  ASSUME TypeOK, NewsAnnounced, stack # <<>>, NEW n \in Reached,
         \A i \in InMask(negotiated[n]) : <<n, i>> \in InPort
  PROVE  InUseForSure(n) \subseteq InUse(n)
<1> SUFFICES ASSUME NEW i \in InUseForSure(n) PROVE i \in InUse(n)
  OBVIOUS
<1>1. i \in InMask(negotiated[n]) /\ <<n, i>> \in InPort /\ conns[<<n, i>>] # <<>>
  BY DEF InUseForSure
<1>2. i \in InPorts(TypeOf[n]) /\ 1 \in DOMAIN conns[<<n, i>>]
  BY <1>1, PortsByDirection, ConnectedPorts
<1>3. InActivated(<<n, i>>, negotiated)
  <2>1. CASE i \in negotiated[n]["pull_old"]
    BY <1>1, <2>1 DEF InActivated
  <2>2. CASE i \notin negotiated[n]["pull_old"]
    <3>1. i \in negotiated[n]["pull_new"] /\ AwaitsNews(n, i)
      BY <1>1, <1>2, <2>2 DEF InUseForSure, InMask, AwaitsNews
    <3>2. conns[<<n, i>>][1][2] \in negotiated[conns[<<n, i>>][1][1]]["push_new"]
      BY <1>2, <3>1 DEF NewsAnnounced
    <3> QED BY <1>1, <3>1, <3>2 DEF InActivated
  <2> QED BY <2>1, <2>2
<1> QED BY <1>1, <1>3 DEF InUse, Activated

Start == (\E q \in Requests : ScheduleComponent(q.node, q.mask)) \/ ScheduleGraph

LEMMA StartTop ==
  ASSUME TypeOK, TypeOK', Responsive, Start
  PROVE  /\ stack = <<>> /\ stack' # <<>> /\ UNCHANGED <<conns, generation, ret>>
         /\ Top'.phase = "converge" /\ Top'.todo = <<>> /\ Top'.loop = {}
         /\ Top'.node \in Reached' /\ Reached' \subseteq Node
         /\ \A n \in Reached' :
              /\ propagated'[n] = NoMask /\ deps'[n] = 0 /\ marking'[n] = "reset"
              /\ \A i \in negotiated'[n]["pull_new"] : HearsNew(TypeOf[n], i)
         /\ \A n \in Node : n \notin Reached' =>
              negotiated'[n] = negotiated[n] /\ marking'[n] = marking[n]
         /\ \A n \in Reached' : Neighbours(n) \cap Node \subseteq Reached'
<1>1. ASSUME NEW f, stack' = <<f>> PROVE stack' # <<>> /\ Top' = f
  BY <1>1 DEF Top
<1>2. CASE \E q \in Requests : ScheduleComponent(q.node, q.mask)
  <2>1. PICK q \in Requests : ScheduleComponent(q.node, q.mask)
    BY <1>2
  <2> DEFINE f == NewFrame("component", q.node, <<q.node>>)
             neg == [m \in Node |-> IF m = q.node THEN q.mask ELSE NoMask]
  <2>2. /\ stack = <<>> /\ stack' = <<f>> /\ UNCHANGED <<conns, generation, ret>>
        /\ Reset(Component(q.node), neg)
        /\ q.node \in Node
    BY <2>1, RequestsAssumption DEF ScheduleComponent, Idle
  <2>3. /\ f.call = "component" /\ f.node = q.node /\ f.loop = {}
        /\ f.phase = "converge" /\ f.todo = <<>>
    BY DEF NewFrame
  <2>4. stack' # <<>> /\ Top' = f
    <3> HIDE DEF f
    <3> QED BY <1>1, <2>2
  <2>5. Reached' = Component(q.node)
    <3>1. Component(q.node)' = Component(q.node)
      BY <2>2 DEF Component, Neighbours
    <3> QED BY <2>3, <2>4, <3>1 DEF Reached
  <2>6. q.node \in Component(q.node) /\ Component(q.node) \subseteq Node
    BY <2>2 DEF Component
  <2>7. \A n \in Reached' : /\ negotiated'[n] = neg[n] /\ propagated'[n] = NoMask
                            /\ deps'[n] = 0 /\ marking'[n] = "reset"
    BY <2>2, <2>5, <2>6 DEF Reset
  <2>8. \A n \in Node : n \notin Reached' =>
          negotiated'[n] = negotiated[n] /\ marking'[n] = marking[n]
    BY <2>2, <2>5 DEF Reset
  <2>9. \A n \in Reached' : \A i \in negotiated'[n]["pull_new"] : HearsNew(TypeOf[n], i)
    BY <2>5, <2>6, <2>7, ZenonT(30) DEF Responsive, NoMask, Reaction
  <2>10. \A n \in Reached' : Neighbours(n) \cap Node \subseteq Reached'
    BY <2>5 DEF Component
  <2> QED BY <2>2, <2>3, <2>4, <2>5, <2>6, <2>7, <2>8, <2>9, <2>10
<1>3. CASE ScheduleGraph
  <2>1. PICK s \in Pushed(Node) : stack' = <<NewFrame("graph", Head(s), s)>>
    BY <1>3 DEF ScheduleGraph
  <2> DEFINE f == NewFrame("graph", Head(s), s)
  <2>2. /\ f.call = "graph" /\ f.phase = "converge" /\ f.loop = {} /\ f.todo = <<>>
        /\ f.node = Head(s)
    BY DEF NewFrame
  <2>3. Head(s) \in Node
    <3>1. s \in Seq(Node) /\ Range(s) = Node
      BY <2>1, NodesAssumption, SetToSeqsRange DEF Pushed
    <3>2. s # <<>>
      BY <3>1, NodesAssumption DEF Range
    <3> QED BY <3>1, <3>2
  <2>4. stack' # <<>> /\ Top' = f
    <3>1. stack' = <<f>>
      BY <2>1
    <3> HIDE DEF f
    <3> QED BY <1>1, <3>1
  <2>5. Reached' = Node
    BY <2>2, <2>4 DEF Reached
  <2>6. \A n \in Node : /\ propagated'[n] = NoMask /\ negotiated'[n] = PullAll(n)
                        /\ deps'[n] = 0 /\ marking'[n] = "reset"
    BY <1>3 DEF ScheduleGraph, Reset
  <2>7. \A n \in Node : negotiated'[n]["pull_new"] = {}
    BY <2>6 DEF PullAll, Reaction
  <2>8. stack = <<>> /\ UNCHANGED <<conns, generation, ret>>
    BY <1>3 DEF ScheduleGraph, Idle
  <2> QED BY <2>2, <2>3, <2>4, <2>5, <2>6, <2>7, <2>8
<1> QED BY <1>2, <1>3 DEF Start

LEMMA StartNegotiation ==
  ASSUME TypeOK, TypeOK', Responsive, Start
  PROVE  NegotiationInv'
<1>1. /\ stack' # <<>>
      /\ Top'.phase = "converge" /\ Top'.todo = <<>> /\ Top'.loop = {}
      /\ Top'.node \in Reached' /\ Reached' \subseteq Node
      /\ \A n \in Reached' :
           /\ propagated'[n] = NoMask /\ deps'[n] = 0 /\ marking'[n] = "reset"
           /\ \A i \in negotiated'[n]["pull_new"] : HearsNew(TypeOf[n], i)
  BY StartTop
<1>2. WordsDirected'
  <2>1. \A n \in Reached' : \A x \in 1..4 : propagated'[n][Word[x]] = {}
    BY <1>1, WordsFour DEF NoMask
  <2> QED BY <1>1, <2>1 DEF WordsDirected
<1>3. NewsAnnounced'
  BY <1>1 DEF NewsAnnounced, AwaitsNews
<1>4. CountersBetween'
  <2> SUFFICES ASSUME NEW n \in Reached', negotiated'[n] = NoMask
               PROVE  /\ Cardinality(InUseForSure(n)') <= deps'[n]
                      /\ deps'[n] <= Cardinality(InUse(n)')
    BY <1>1 DEF CountersBetween
  <2>1. InMask(negotiated[n])' = {}
    BY DEF InMask, NoMask, Reaction
  <2>2. InUse(n)' = {} /\ InUseForSure(n)' = {}
    BY <2>1 DEF InUse, InUseForSure
  <2>3. Cardinality({}) = 0
    BY FS_EmptySet
  <2> QED BY <1>1, <2>2, <2>3
<1>5. MarkingsReset'
  BY <1>1 DEF MarkingsReset
<1> QED BY <1>2, <1>3, <1>4, <1>5 DEF NegotiationInv

LEMMA EvalStartNegotiation ==
  ASSUME TypeOK, OneCall, PendingListed, CausesFollowed, NegotiationInv, EvalStart
  PROVE  NegotiationInv'
<1> DEFINE n == Head(Top.list)
<1>1. /\ stack # <<>> /\ Top.phase = "converge"
      /\ stack' # <<>> /\ Reached' = Reached /\ Top'.node = Top.node /\ Top'.loop = Top.loop
      /\ Top'.phase = "eval" /\ Top'.cur = n /\ Top'.todo = Top.todo
      /\ n \in Node /\ n \in Range(Top.list) /\ Top'.work = ToPropagate(n)
      /\ UNCHANGED <<conns, negotiated, propagated, deps, marking, generation>>
  BY EvalStartTop DEF SameCall, maskVars
<1>2. n \in Reached
  BY <1>1 DEF CausesFollowed
<1>3. IsSubset(negotiated[n], propagated[n])
  BY <1>1, <1>2 DEF PendingListed
<1> HIDE DEF n
<1>4. /\ \A w \in ToPropagate(n) :
           /\ w[1] \in 1..4
           /\ w[2] \in negotiated[n][Word[w[1]]] \ propagated[n][Word[w[1]]]
           /\ RightDir(n, w[1], w[2]) <=> w[3] # 0
      /\ \A x \in 1..4 : \A i \in negotiated[n][Word[x]] \ propagated[n][Word[x]] :
           IF RightDir(n, x, i)
             THEN \A j \in DOMAIN conns[<<n, i>>] : <<x, i, j>> \in ToPropagate(n)
             ELSE <<x, i, 0>> \in ToPropagate(n)
  BY <1>1, <1>3, ToPropagateMember
<1>5. WordsDirected'
  <2>1. \A k \in Reached' : \A x \in 1..4 :
          \A i \in propagated'[k][Word[x]] : RightDir(k, x, i)
    BY <1>1 DEF NegotiationInv, WordsDirected
  <2>2. \A w \in Top'.work : RightDir(n, w[1], w[2]) <=> w[3] # 0
    BY <1>1, <1>4
  <2>3. \A w \in Top'.work : w[2] \in negotiated'[n][Word[w[1]]]
    BY <1>1, <1>4
  <2>4. \A x \in 1..4 : \A i \in negotiated'[n][Word[x]] \ propagated'[n][Word[x]] :
          RightDir(n, x, i) \/ <<x, i, 0>> \in Top'.work
    BY <1>1, <1>4
  <2> QED BY <1>1, <2>1, <2>2, <2>3, <2>4 DEF WordsDirected
<1>6. NewsAnnounced'
  BY <1>1 DEF NegotiationInv, NewsAnnounced
<1>7. CountersBetween'
  <2>1. \A k : InUse(k)' = InUse(k) /\ InUseForSure(k)' = InUseForSure(k)
    BY <1>1 DEF InUse, InUseForSure, Activated, InActivated, OutActivated
  <2> QED BY <1>1, <2>1 DEF NegotiationInv, CountersBetween
<1>8. MarkingsReset'
  BY <1>1 DEF NegotiationInv, MarkingsReset
<1> QED BY <1>5, <1>6, <1>7, <1>8 DEF NegotiationInv

LEMMA EvalEndNegotiation ==
  ASSUME TypeOK, TypeOK', OneCall, PendingListed, CausesFollowed, NegotiationInv, EvalEnd
  PROVE  NegotiationInv'
<1> DEFINE n == Top.cur
<1>1. /\ stack # <<>> /\ Top.phase = "eval" /\ Top.work = {}
      /\ stack' # <<>> /\ Reached' = Reached /\ Top'.node = Top.node /\ Top'.loop = Top.loop
      /\ Top'.phase = "converge" /\ Top'.todo = Top.todo
      /\ propagated' = [propagated EXCEPT ![n] = Apply(@, negotiated[n])]
      /\ deps' = [deps EXCEPT ![n] = CountDeps(n)]
      /\ UNCHANGED <<conns, negotiated, marking, generation>>
  BY EvalEndTop DEF SameCall
<1>2. n \in Reached /\ n \in Node /\ Reached \subseteq Node
  BY <1>1 DEF CausesFollowed, WorkLeft, Reached, Component
<1>3. \A k \in Reached : propagated'[k] = IF k = n THEN negotiated[n] ELSE propagated[k]
  <2>1. IsSubset(negotiated[n], propagated[n])
    BY <1>1, <1>2 DEF PendingListed
  <2>2. negotiated[n] = [r \in Reaction |-> negotiated[n][r]]
    BY <1>2 DEF TypeOK
  <2>3. Apply(propagated[n], negotiated[n]) = negotiated[n]
    BY <2>1, <2>2 DEF Apply, IsSubset
  <2> HIDE DEF n
  <2> QED BY <1>1, <1>2, <2>3 DEF TypeOK
<1>4. WordsDirected'
  <2>1. \A x \in 1..4 : \A i \in negotiated[n][Word[x]] : RightDir(n, x, i)
    <3> SUFFICES ASSUME NEW x \in 1..4, NEW i \in negotiated[n][Word[x]]
                 PROVE  RightDir(n, x, i)
      OBVIOUS
    <3>1. CASE i \in propagated[n][Word[x]]
      BY <1>1, <1>2, <3>1 DEF NegotiationInv, WordsDirected
    <3>2. CASE i \notin propagated[n][Word[x]]
      BY <1>1, <3>2 DEF NegotiationInv, WordsDirected
    <3> QED BY <3>1, <3>2
  <2> HIDE DEF n
  <2> QED BY <1>1, <1>3, <2>1 DEF NegotiationInv, WordsDirected
<1>5. NewsAnnounced'
  BY <1>1 DEF NegotiationInv, NewsAnnounced
<1> HIDE DEF n
<1>6. CountersBetween'
  <2>1. \A k \in Reached : InUse(k)' = InUse(k) /\ InUseForSure(k)' = InUseForSure(k)
    BY <1>1 DEF InUse, InUseForSure, Activated, InActivated, OutActivated
  <2>2. ASSUME NEW k \in Reached, negotiated'[k] = propagated'[k]
        PROVE  /\ Cardinality(InUseForSure(k)) <= deps'[k]
               /\ deps'[k] <= Cardinality(InUse(k))
    <3>1. CASE k # n
      <4>1. deps'[k] = deps[k] /\ negotiated[k] = propagated[k]
        BY <1>1, <1>2, <1>3, <2>2, <3>1 DEF TypeOK
      <4> QED BY <1>1, <4>1 DEF NegotiationInv, CountersBetween
    <3>2. CASE k = n
      <4>1. deps'[n] = Cardinality(InUse(n))
        BY <1>1, <1>2 DEF TypeOK, CountDeps, InUse
      <4>2. \A i \in InMask(negotiated[n]) : <<n, i>> \in InPort
        <5>1. 1 \in 1..4 /\ 2 \in 1..4
          OBVIOUS
        <5>2. \A x \in 1..4 : \A i \in negotiated[n][Word[x]] : RightDir(n, x, i)
          BY <1>1, <1>2, <1>3, <1>4 DEF WordsDirected
        <5> QED BY <1>2, <5>1, <5>2, WordsFour, PortsByDirection DEF InMask
      <4>3. InUseForSure(n) \subseteq InUse(n)
        BY <1>1, <1>2, <4>2, SureInUse DEF NegotiationInv
      <4>4. IsFiniteSet(InUse(n)) /\ Cardinality(InUse(n)) \in Nat
        BY <1>2, InUseFinite
      <4>5. Cardinality(InUseForSure(n)) <= Cardinality(InUse(n))
        BY <4>3, <4>4, FS_Subset
      <4> QED BY <3>2, <4>1, <4>4, <4>5
    <3> QED BY <3>1, <3>2
  <2> QED BY <1>1, <2>1, <2>2 DEF CountersBetween
<1>7. MarkingsReset'
  BY <1>1 DEF NegotiationInv, MarkingsReset
<1> QED BY <1>4, <1>5, <1>6, <1>7 DEF NegotiationInv

(* A new bit pulls new data at an input that awaits news only if the       *)
(* connection it comes from announces new data.                            *)
LEMMA PropagateNegotiation ==
  ASSUME TypeOK, TypeOK', Responsive, OneCall, PendingListed, CausesFollowed,
         NegotiationInv, Propagate
  PROVE  NegotiationInv'
<1>1. /\ stack # <<>> /\ Top.phase = "eval"
      /\ UNCHANGED <<conns, propagated, deps, marking, generation>>
      /\ (\E w \in Top.work : Follows(w)) \/ stack' = <<>>
  BY PropagateTop
<1>2. CASE stack' = <<>>
  BY <1>2 DEF NegotiationInv, WordsDirected, NewsAnnounced, CountersBetween, MarkingsReset
<1>3. ASSUME NEW w \in Top.work, Follows(w) PROVE NegotiationInv'
  <2> DEFINE n == Top.cur
             p == <<n, w[2]>>
             q == Peer(n, w)
             m == q[1]
             event == IF w[1] \in {1, 3} THEN "new" ELSE "old"
             mask == PortMasks[TypeOf[m]][q[2]][event]
  <2>1. /\ w[3] # 0 /\ stack' # <<>> /\ Reached' = Reached /\ Top'.node = Top.node
        /\ Top'.loop = Top.loop /\ Top'.phase = "eval" /\ Top'.cur = n
        /\ Top'.work = Top.work \ {w} /\ Top'.todo = Top.todo
        /\ \A k \in Node, r \in Reaction :
             negotiated'[k][r] = negotiated[k][r] \cup (IF k = m THEN mask[r] ELSE {})
    BY <1>3 DEF Follows, SameCall
  <2>2. Top \in Frame /\ WorkOK(Top) /\ w \in Work
    BY <1>1, StackFromType, TopType DEF Frame
  <2>3. n \in Reached /\ n \in Node /\ Reached \subseteq Node
    BY <1>1 DEF CausesFollowed, WorkLeft, Reached, Component
  <2>4. /\ w[1] \in 1..4 /\ w[2] \in PortIdx(TypeOf[n]) /\ w[3] \in DOMAIN conns[p]
        /\ p \in Port /\ q = conns[p][w[3]]
    BY <1>1, <2>1, <2>2, <2>3, PortIdxType DEF WorkOK, IsLink, Work, Peer
  <2>5. /\ RightDir(n, w[1], w[2]) /\ w[2] \in negotiated[n][Word[w[1]]]
    BY <1>1, <2>1 DEF NegotiationInv, WordsDirected
  <2>6. m \in Reached /\ m # n
    BY <1>1, <2>3, <2>4, ReachedClosed
  <2>7. q \in Port
    BY <2>3, <2>4, ConnsType
  <2> HIDE DEF q, m, mask, event, n, p
  <2>8. \A r \in Reaction : negotiated'[n][r] = negotiated[n][r]
    <3>1. \A r \in Reaction : negotiated'[n][r] = negotiated[n][r] \cup {}
      BY <2>1, <2>3, <2>6
    <3> QED BY <3>1
  <2>9. \A k \in Node, r \in Reaction : negotiated[k][r] \subseteq negotiated'[k][r]
    BY <2>1
  <2>10. WordsDirected'
    <3>1. \A k \in Reached' : \A x \in 1..4 :
            \A i \in propagated'[k][Word[x]] : RightDir(k, x, i)
      BY <1>1, <2>1 DEF NegotiationInv, WordsDirected
    <3>2. \A v \in Top'.work : RightDir(n, v[1], v[2]) <=> v[3] # 0
      BY <1>1, <2>1 DEF NegotiationInv, WordsDirected, n
    <3>3. \A v \in Top'.work : v[2] \in negotiated'[n][Word[v[1]]]
      <4>1. \A v \in Top.work : v[1] \in 1..4
        BY <2>2 DEF Frame, Work
      <4> QED BY <1>1, <2>1, <2>3, <2>9, <4>1, WordsFour DEF NegotiationInv, WordsDirected, n
    <3>4. ASSUME NEW x \in 1..4, NEW i \in negotiated'[n][Word[x]] \ propagated'[n][Word[x]]
          PROVE  RightDir(n, x, i) \/ <<x, i, 0>> \in Top'.work
      <4>1. i \in negotiated[n][Word[x]] \ propagated[n][Word[x]]
        BY <1>1, <2>8, WordsFour
      <4>2. RightDir(n, x, i) \/ <<x, i, 0>> \in Top.work
        BY <1>1, <4>1 DEF NegotiationInv, WordsDirected, n
      <4>3. <<x, i, 0>> # w
        BY <2>1
      <4> QED BY <2>1, <4>2, <4>3
    <3> QED BY <2>1, <3>1, <3>2, <3>3, <3>4 DEF WordsDirected
  <2>11. NewsAnnounced'
    <3> SUFFICES ASSUME NEW k \in Reached, NEW i \in negotiated'[k]["pull_new"], AwaitsNews(k, i),
                        NEW j \in DOMAIN conns[<<k, i>>]
                 PROVE  conns[<<k, i>>][j][2] \in negotiated'[conns[<<k, i>>][j][1]]["push_new"]
      BY <1>1, <2>1 DEF NewsAnnounced, AwaitsNews
    <3> DEFINE s == conns[<<k, i>>][j]
    <3>1. k \in Node /\ "pull_new" \in Reaction /\ "push_new" \in Reaction
      BY <2>3 DEF Reaction
    <3>2. i \in InPorts(TypeOf[k]) /\ i \in PortIdx(TypeOf[k]) /\ ~ HearsNew(TypeOf[k], i)
      BY DEF AwaitsNews, InPorts
    <3>3. s[1] \in Node
      BY <3>1, <3>2, ConnsType
    <3>4. CASE i \in negotiated[k]["pull_new"]
      <4>1. s[2] \in negotiated[s[1]]["push_new"]
        BY <1>1, <3>4 DEF NegotiationInv, NewsAnnounced
      <4> QED BY <2>9, <3>1, <3>3, <4>1
    <3>5. CASE i \notin negotiated[k]["pull_new"]
      <4>1. k = m /\ i \in mask["pull_new"]
        BY <2>1, <3>1, <3>5
      <4>2. q[2] = i /\ event = "new"
        <5>1. q[2] \in PortIdx(TypeOf[m]) /\ TypeOf[m] \in NodeType
          BY <2>7, <3>1, <4>1, PortIsPair, PortIdxType DEF m
        <5>2. event \in Trigger
          BY DEF event, Trigger
        <5>3. PullsWhenTold(TypeOf[m], i)
          BY <3>2, <4>1, <5>1 DEF Responsive
        <5> QED BY <4>1, <5>1, <5>2, <5>3 DEF PullsWhenTold, mask
      <4>3. q = <<k, i>> /\ q \in InPort /\ q \notin OutPort
        <5>1. q = <<k, i>>
          BY <2>7, <4>1, <4>2, PortIsPair DEF m
        <5> QED BY <3>1, <3>2, <5>1, PortsByDirection
      <4>4. p \in OutPort
        <5>1. CASE p \in InPort
          <6>1. DOMAIN conns[p] = {1} /\ conns[p][1] \in OutPort
            BY <2>4, <5>1, ConnectedPorts
          <6> QED BY <2>4, <4>3, <6>1
        <5> QED BY <2>4, <5>1, PortEither
      <4>5. w[1] = 3
        <5>1. w[2] \in OutPorts(TypeOf[n]) /\ w[2] \notin InPorts(TypeOf[n])
          BY <2>3, <4>4, PortsByDirection DEF p
        <5> QED BY <2>4, <2>5, <4>2, <5>1, WordsFour DEF event
      <4>6. conns[q][1] = p /\ DOMAIN conns[q] = {1}
        <5>1. conns[q] # <<>> /\ conns[q][1] = p
          <6>1. \A x \in DOMAIN conns[p] : conns[conns[p][x]] # <<>> /\ conns[conns[p][x]][1] = p
            BY <4>4, ConnectedPorts
          <6> QED BY <2>4, <6>1
        <5> QED BY <4>3, <5>1, ConnectedPorts
      <4>7. s = p
        BY <4>3, <4>6
      <4>8. w[2] \in negotiated'[n]["push_new"]
        BY <2>3, <2>5, <2>9, <3>1, <4>5, WordsFour
      <4> QED BY <4>7, <4>8 DEF p
    <3> QED BY <3>4, <3>5
  <2>12. CountersBetween'
    <3> SUFFICES ASSUME NEW k \in Reached, negotiated'[k] = propagated[k]
                 PROVE  /\ Cardinality(InUseForSure(k)') <= deps[k]
                        /\ deps[k] <= Cardinality(InUse(k)')
      BY <1>1, <2>1 DEF CountersBetween
    <3>1. negotiated'[k] = negotiated[k] /\ k \in Node
      <4>1. k \in Node /\ negotiated[k] \in [Reaction -> SUBSET PortIndexes]
            /\ negotiated'[k] \in [Reaction -> SUBSET PortIndexes]
        BY <2>3 DEF TypeOK
      <4>2. IsSubset(negotiated[k], propagated[k])
        BY <1>1 DEF PendingListed
      <4>3. \A r \in Reaction : negotiated'[k][r] = negotiated[k][r]
        BY <2>9, <4>1, <4>2 DEF IsSubset
      <4> QED BY <4>1, <4>3
    <3>2. InUseForSure(k)' = InUseForSure(k)
      BY <1>1, <3>1 DEF InUseForSure
    <3>3. InUse(k) \subseteq InUse(k)'
      <4> SUFFICES ASSUME NEW i \in InUse(k) PROVE i \in InUse(k)'
        OBVIOUS
      <4>1. <<k, i>> \in InPort /\ i \in InMask(negotiated[k])
        BY <1>1, <3>1, SettledDirected DEF NegotiationInv, InUse
      <4>2. InActivated(<<k, i>>, negotiated)
        BY <4>1 DEF InUse, Activated
      <4>3. conns[<<k, i>>][1][1] \in Node /\ "push_new" \in Reaction
        BY <4>1, <4>2, ConnectedPorts, PortsByDirection DEF InActivated, Reaction
      <4>4. InActivated(<<k, i>>, negotiated)'
        BY <1>1, <2>9, <3>1, <4>2, <4>3 DEF InActivated
      <4> QED BY <3>1, <4>1, <4>4 DEF InUse, Activated
    <3>4. IsFiniteSet(InUse(k)') /\ Cardinality(InUse(k)') \in Nat
      <4>1. ASSUME NEW S, IsFiniteSet(S) PROVE Cardinality(S) \in Nat
        BY <4>1, FS_CardinalityType
      <4>2. negotiated'[k] \in Mask(k)
        BY <3>1 DEF TypeOK
      <4>3. InUse(k)' \subseteq PortIdx(TypeOf[k])
        BY <3>1, <4>2, MaskIndexes DEF InUse
      <4>4. IsFiniteSet(InUse(k)')
        BY <3>1, <4>3, PortIdxType, FS_Subset
      <4> QED BY <4>1, <4>4
    <3>5. Cardinality(InUse(k)) <= Cardinality(InUse(k)') /\ Cardinality(InUse(k)) \in Nat
      BY <3>1, <3>3, <3>4, FS_Subset, InUseFinite
    <3>6. Cardinality(InUseForSure(k)) <= deps[k] /\ deps[k] <= Cardinality(InUse(k))
      BY <1>1, <3>1 DEF NegotiationInv, CountersBetween
    <3>7. deps[k] \in Nat
      BY <3>1 DEF TypeOK
    <3> QED BY <3>2, <3>4, <3>5, <3>6, <3>7
  <2>13. MarkingsReset'
    BY <1>1, <2>1 DEF NegotiationInv, MarkingsReset
  <2> QED BY <2>10, <2>11, <2>12, <2>13 DEF NegotiationInv
<1> QED BY <1>1, <1>2, <1>3

-----------------------------------------------------------------------------
(* The search for roots                                                    *)

Distinct(s) == \A k, l \in DOMAIN s : s[k] = s[l] => k = l

(* The search for roots has seen the nodes with the marking and will see   *)
(* what they are linked to.                                                *)
RootsFound ==
  (stack # <<>> /\ Top.phase = "roots") =>
    /\ Top.call = "component"
    /\ marking[Top.node] = "find_roots"
    /\ Distinct(Top.list)
    /\ Range(Top.list) = {n \in Reached : marking[n] = "find_roots" /\ IsRoot(n)}
    /\ \A k \in DOMAIN Top.todo : Top.todo[k].node \in Reached
    /\ \A n \in Reached : marking[n] = "find_roots" =>
         \A w \in Links(1, n, UsedMask(negotiated[n])) :
           \/ marking[Peer(n, w)[1]] = "find_roots"
           \/ \E k \in DOMAIN Top.todo : Top.todo[k].node = n /\ w \in Top.todo[k].links

(* The elements of the sequence c, which is x in front of s                *)
IsCons(c, x, s) ==
  /\ DOMAIN c \subseteq Nat /\ 1 \in DOMAIN c /\ c[1] = x
  /\ \A k \in DOMAIN s : k + 1 \in DOMAIN c /\ c[k + 1] = s[k]
  /\ \A k \in DOMAIN c : k = 1 \/ (k - 1 \in DOMAIN s /\ c[k] = s[k - 1])

LEMMA ConsElements ==
  ASSUME NEW S, NEW s \in Seq(S), NEW x \in S
  PROVE  IsCons(Cons(x, s), x, s)
BY DEF Cons, IsCons

LEMMA ConsDistinct ==
  ASSUME NEW s \in Seq(Node), NEW n \in Node, Distinct(s), n \notin Range(s)
  PROVE  Distinct(Cons(n, s))
<1> DEFINE c == Cons(n, s)
<1>1. IsCons(c, n, s)
  BY ConsElements
<1> HIDE DEF c
<1>2. \A k \in DOMAIN s : s[k] # n
  BY DEF Range
<1>3. \A k, l \in DOMAIN c : c[k] = c[l] => k = l
  BY <1>1, <1>2 DEF Distinct, IsCons
<1> QED BY <1>3 DEF Distinct, c

LEMMA TailDistinct ==
  ASSUME NEW s \in Seq(Node), s # <<>>, Distinct(s)
  PROVE  Distinct(Tail(s)) /\ Head(s) \notin Range(Tail(s))
<1>1. \A k \in DOMAIN Tail(s) : k + 1 \in DOMAIN s /\ Tail(s)[k] = s[k + 1] /\ k \in Nat /\ k # 0
  OBVIOUS
<1>2. Head(s) = s[1] /\ 1 \in DOMAIN s
  OBVIOUS
<1> QED BY <1>1, <1>2 DEF Distinct, Range

(* Whether a node is a root and what it is linked to depends on masks,     *)
(* counters and generations only.                                          *)
LEMMA RootsSame ==
  ASSUME UNCHANGED <<conns, maskVars, deps, generation>>
  PROVE  /\ \A n : IsRoot(n)' <=> IsRoot(n)
         /\ \A n : Links(1, n, UsedMask(negotiated[n]))' = Links(1, n, UsedMask(negotiated[n]))
         /\ \A n, w : Peer(n, w)' = Peer(n, w)
BY DEF maskVars, IsRoot, Activated, InActivated, OutActivated, Links, Peer

(* The search has seen the marked nodes but for n, which is marked now and *)
(* whose links are to be followed.                                         *)
SeenBut(n, rest) ==
  /\ Top.list \in Seq(Node) /\ Distinct(Top.list) /\ rest \in Seq(Visiting)
  /\ Range(Top.list) = {k \in Reached : k # n /\ marking'[k] = "find_roots" /\ IsRoot(k)}
  /\ marking'[n] = "find_roots" /\ Top.call = "component" /\ marking'[Top.node] = "find_roots"
  /\ \A k \in DOMAIN rest : rest[k].node \in Reached
  /\ \A m \in Reached : m # n /\ marking'[m] = "find_roots" =>
       \A w \in Links(1, m, UsedMask(negotiated[m])) :
         \/ marking'[Peer(m, w)[1]] = "find_roots"
         \/ \E k \in DOMAIN rest : rest[k].node = m /\ w \in rest[k].links

LEMMA VisitsRoots ==
  ASSUME TypeOK, TypeOK', stack # <<>>, SameCall, NEW n \in Reached, NEW rest, Visits(n, rest),
         UNCHANGED <<conns, maskVars, deps, generation>>, SeenBut(n, rest)
  PROVE  RootsFound'
<1> DEFINE links == Links(1, n, UsedMask(negotiated[n]))
           v == [node |-> n, links |-> links]
           todo == Cons(v, rest)
<1>1. /\ stack' # <<>> /\ Reached' = Reached /\ Top'.call = Top.call /\ Top'.node = Top.node
      /\ Top'.phase = "roots" /\ Top'.todo = todo
      /\ Top'.list = IF IsRoot(n) THEN Cons(n, Top.list) ELSE Top.list
  BY DEF SameCall, Visits
<1>0. /\ Top.list \in Seq(Node) /\ Distinct(Top.list) /\ rest \in Seq(Visiting)
      /\ Range(Top.list) = {k \in Reached : k # n /\ marking'[k] = "find_roots" /\ IsRoot(k)}
      /\ marking'[n] = "find_roots" /\ Top.call = "component" /\ marking'[Top.node] = "find_roots"
      /\ \A k \in DOMAIN rest : rest[k].node \in Reached
      /\ \A m \in Reached : m # n /\ marking'[m] = "find_roots" =>
           \A w \in Links(1, m, UsedMask(negotiated[m])) :
             \/ marking'[Peer(m, w)[1]] = "find_roots"
             \/ \E k \in DOMAIN rest : rest[k].node = m /\ w \in rest[k].links
  BY DEF SeenBut
<1>2. v \in Visiting /\ n \in Node
  <2>1. n \in Node /\ UsedMask(negotiated[n]) \subseteq PortIdx(TypeOf[n])
    BY MaskIndexes DEF TypeOK, Reached, Component
  <2>2. links \in SUBSET Work
    <3>1. 1 \in 1..4
      OBVIOUS
    <3> QED BY <2>1, <3>1, LinksType
  <2> QED BY <2>1, <2>2 DEF Visiting
<1>3. v.node = n /\ v.links = links
  OBVIOUS
<1>4. \A m : IsRoot(m)' <=> IsRoot(m)
  BY RootsSame
<1>5. \A m : Links(1, m, UsedMask(negotiated[m]))' = Links(1, m, UsedMask(negotiated[m]))
  BY RootsSame
<1>6. \A m, w : Peer(m, w)' = Peer(m, w)
  BY RootsSame
<1> HIDE DEF v
<1>7. /\ todo[1] = v /\ 1 \in DOMAIN todo
      /\ \A k \in DOMAIN rest : k + 1 \in DOMAIN todo /\ todo[k + 1] = rest[k]
      /\ \A k \in DOMAIN todo : k = 1 \/ (k - 1 \in DOMAIN rest /\ todo[k] = rest[k - 1])
  <2>1. IsCons(todo, v, rest)
    BY <1>0, <1>2, ConsElements
  <2> HIDE DEF todo
  <2> QED BY <2>1 DEF IsCons
<1> HIDE DEF todo, links
<1>8. Range(Top'.list) = {k \in Reached : marking'[k] = "find_roots" /\ IsRoot(k)} /\ Distinct(Top'.list)
  <2>1. CASE IsRoot(n)
    <3>1. Range(Top'.list) = Range(Top.list) \cup {n}
      BY <1>0, <1>1, <1>2, <2>1, ConsProperties
    <3>2. Distinct(Top'.list)
      BY <1>0, <1>1, <1>2, <2>1, ConsDistinct
    <3> QED BY <1>0, <2>1, <3>1, <3>2
  <2>2. CASE ~ IsRoot(n)
    BY <1>0, <1>1, <2>2
  <2> QED BY <2>1, <2>2
<1>9. \A k \in DOMAIN Top'.todo : Top'.todo[k].node \in Reached
  BY <1>0, <1>1, <1>3, <1>7
<1>10. ASSUME NEW m \in Reached, marking'[m] = "find_roots",
              NEW w \in Links(1, m, UsedMask(negotiated[m]))
       PROVE  \/ marking'[Peer(m, w)[1]] = "find_roots"
              \/ \E k \in DOMAIN todo : todo[k].node = m /\ w \in todo[k].links
  <2>1. CASE m = n
    <3>1. todo[1].node = m /\ w \in todo[1].links
      BY <1>3, <1>7, <1>10, <2>1 DEF links
    <3> QED BY <1>7, <3>1
  <2>2. CASE m # n
    <3>1. CASE \E k \in DOMAIN rest : rest[k].node = m /\ w \in rest[k].links
      <4>1. PICK k \in DOMAIN rest : rest[k].node = m /\ w \in rest[k].links
        BY <3>1
      <4>2. k + 1 \in DOMAIN todo /\ todo[k + 1] = rest[k]
        BY <1>7
      <4> QED BY <4>1, <4>2
    <3> QED BY <1>0, <1>10, <2>2, <3>1
  <2> QED BY <2>1, <2>2
<1> QED BY <1>0, <1>1, <1>4, <1>5, <1>6, <1>8, <1>9, <1>10 DEF RootsFound

LEMMA RootsStartFound ==
  ASSUME TypeOK, TypeOK', OneCall, NegotiationInv, RootsStart
  PROVE  RootsFound'
<1>1. /\ stack # <<>> /\ Top.phase = "converge" /\ Top.list = <<>> /\ Top.call = "component"
      /\ SameCall /\ Visits(Top.node, Top.todo)
      /\ marking' = [n \in Node |-> IF n = Top.node THEN "find_roots"
                                    ELSE IF n \in Component(Top.node) THEN "none"
                                    ELSE marking[n]]
      /\ UNCHANGED <<conns, maskVars, deps, generation, written, ret>>
  BY RootsStartTop
<1>2. Top.node \in Reached /\ Top.todo = <<>> /\ Reached = Component(Top.node) /\ Reached \subseteq Node
  BY <1>1 DEF NegotiationInv, MarkingsReset, Reached, Component
<1> DEFINE n == Top.node
<1>3. n \in Reached /\ \A k \in Reached : marking'[k] = "find_roots" <=> k = n
  BY <1>1, <1>2
<1>4. /\ Top.list \in Seq(Node) /\ Top.todo \in Seq(Visiting)
      /\ Distinct(Top.list) /\ DOMAIN Top.todo = {} /\ Range(Top.list) = {}
  BY <1>1, <1>2 DEF Distinct, Range
<1>5. Range(Top.list) = {k \in Reached : k # n /\ marking'[k] = "find_roots" /\ IsRoot(k)}
  BY <1>3, <1>4
<1>6. marking'[n] = "find_roots"
  BY <1>3
<1>7. \A m \in Reached : m # n /\ marking'[m] = "find_roots" => FALSE
  BY <1>3
<1> DEFINE rest == Top.todo
<1>8. Visits(n, rest) /\ rest \in Seq(Visiting) /\ \A k \in DOMAIN rest : FALSE
  BY <1>1, <1>4
<1> HIDE DEF rest
<1>9. marking'[Top.node] = "find_roots"
  BY <1>6
<1> HIDE DEF n
<1>10. SeenBut(n, rest)
  BY <1>1, <1>3, <1>4, <1>5, <1>6, <1>7, <1>8, <1>9 DEF SeenBut
<1> QED BY <1>1, <1>3, <1>8, <1>10, VisitsRoots

LEMMA RootsVisitFound ==
  ASSUME TypeOK, TypeOK', OneCall, NegotiationInv, RootsFound, RootsVisit
  PROVE  RootsFound'
<1> DEFINE v == Top.todo[1]
<1>1. /\ stack # <<>> /\ Top.phase = "roots" /\ Top.todo # <<>> /\ SameCall
      /\ UNCHANGED <<conns, maskVars, deps, generation, written, ret>>
  BY RootsVisitTop
<1>2. PICK w \in v.links :
        LET m == Peer(v.node, w)[1]
            rest == [Top.todo EXCEPT ![1].links = @ \ {w}]
        IN \/ /\ marking[m] = "find_roots" /\ marking' = marking
              /\ Top'.phase = "roots" /\ Top'.todo = rest /\ Top'.list = Top.list
           \/ /\ marking[m] # "find_roots"
              /\ marking' = [marking EXCEPT ![m] = "find_roots"]
              /\ Visits(m, rest)
  BY RootsVisitTop
<1> DEFINE n == v.node
           m == Peer(n, w)[1]
           rest == [Top.todo EXCEPT ![1].links = @ \ {w}]
<1>3. Top \in Frame /\ WorkOK(Top)
  BY <1>1, StackFromType, TopType
<1>4. /\ Top.todo \in Seq(Visiting) /\ 1 \in DOMAIN Top.todo /\ v \in Visiting
      /\ Top.list \in Seq(Node)
  BY <1>1, <1>3 DEF Frame
<1>5. n \in Reached /\ IsLink(n, w)
  BY <1>1, <1>3, <1>4 DEF RootsFound, WorkOK
<1>6. m \in Reached /\ m \in Node
  <2>1. n \in Node
    BY <1>5 DEF Reached, Component
  <2>2. w[2] \in PortIdx(TypeOf[n]) /\ w[3] \in DOMAIN conns[<<n, w[2]>>]
    BY <1>5 DEF IsLink
  <2>3. conns[<<n, w[2]>>][w[3]][1] \in Reached
    BY <1>1, <1>5, <2>2, ReachedClosed
  <2> QED BY <2>3 DEF Peer, Reached, Component
<1>7. /\ rest \in Seq(Visiting) /\ DOMAIN rest = DOMAIN Top.todo
      /\ \A k \in DOMAIN rest : /\ rest[k].node = Top.todo[k].node
                                /\ rest[k].links = IF k = 1 THEN v.links \ {w} ELSE Top.todo[k].links
  <2>1. [v EXCEPT !.links = @ \ {w}] \in Visiting
    BY <1>4 DEF Visiting
  <2>2. rest = [Top.todo EXCEPT ![1] = [v EXCEPT !.links = @ \ {w}]]
    OBVIOUS
  <2>3. \A k \in DOMAIN Top.todo : rest[k] = IF k = 1 THEN [v EXCEPT !.links = @ \ {w}] ELSE Top.todo[k]
    BY <1>4, <2>2
  <2>4. rest \in Seq(Visiting) /\ DOMAIN rest = DOMAIN Top.todo
    BY <1>4, <2>1, <2>2
  <2>5. /\ [v EXCEPT !.links = @ \ {w}].node = v.node
        /\ [v EXCEPT !.links = @ \ {w}].links = v.links \ {w}
    BY <1>4 DEF Visiting
  <2> HIDE DEF rest
  <2> QED BY <2>3, <2>4, <2>5
<1>8. /\ Distinct(Top.list) /\ Top.call = "component" /\ marking[Top.node] = "find_roots"
      /\ Range(Top.list) = {k \in Reached : marking[k] = "find_roots" /\ IsRoot(k)}
      /\ \A k \in DOMAIN Top.todo : Top.todo[k].node \in Reached
      /\ \A k \in Reached : marking[k] = "find_roots" =>
           \A x \in Links(1, k, UsedMask(negotiated[k])) :
             \/ marking[Peer(k, x)[1]] = "find_roots"
             \/ \E l \in DOMAIN Top.todo : Top.todo[l].node = k /\ x \in Top.todo[l].links
  BY <1>1 DEF RootsFound
<1>9. Top.node \in Node
  BY <1>3 DEF Frame
<1> HIDE DEF rest, m
(* Once its connection has been followed, the node is not waited for.      *)
<1>10. ASSUME NEW k \in Reached, marking[k] = "find_roots",
              NEW x \in Links(1, k, UsedMask(negotiated[k]))
       PROVE  \/ marking[Peer(k, x)[1]] = "find_roots" \/ (k = n /\ x = w)
              \/ \E l \in DOMAIN rest : rest[l].node = k /\ x \in rest[l].links
  <2>1. CASE \E l \in DOMAIN Top.todo : Top.todo[l].node = k /\ x \in Top.todo[l].links
    <3>1. PICK l \in DOMAIN Top.todo : Top.todo[l].node = k /\ x \in Top.todo[l].links
      BY <2>1
    <3>2. CASE l = 1 /\ x = w
      BY <3>1, <3>2
    <3>3. CASE ~ (l = 1 /\ x = w)
      <4>1. l \in DOMAIN rest /\ rest[l].node = k /\ x \in rest[l].links
        BY <1>7, <3>1, <3>3
      <4> QED BY <4>1
    <3> QED BY <3>2, <3>3
  <2> QED BY <1>8, <1>10, <2>1
<1>11. CASE /\ marking[m] = "find_roots" /\ marking' = marking
            /\ Top'.phase = "roots" /\ Top'.todo = rest /\ Top'.list = Top.list
  <2>1. /\ stack' # <<>> /\ Reached' = Reached /\ Top'.call = Top.call /\ Top'.node = Top.node
    BY <1>1 DEF SameCall
  <2>2. /\ \A k : IsRoot(k)' <=> IsRoot(k)
        /\ \A k : Links(1, k, UsedMask(negotiated[k]))' = Links(1, k, UsedMask(negotiated[k]))
        /\ \A k, x : Peer(k, x)' = Peer(k, x)
    BY <1>1, RootsSame
  <2>3. Range(Top'.list) = {k \in Reached : marking'[k] = "find_roots" /\ IsRoot(k)'}
    BY <1>8, <1>11, <2>2
  <2>4. \A k \in DOMAIN rest : rest[k].node \in Reached
    BY <1>7, <1>8
  <2>5. \A k \in Reached : marking'[k] = "find_roots" =>
          \A x \in Links(1, k, UsedMask(negotiated[k])) :
            \/ marking'[Peer(k, x)[1]] = "find_roots"
            \/ \E l \in DOMAIN rest : rest[l].node = k /\ x \in rest[l].links
    BY <1>10, <1>11 DEF m
  <2> QED BY <1>8, <1>11, <2>1, <2>2, <2>3, <2>4, <2>5 DEF RootsFound
<1>12. CASE /\ marking[m] # "find_roots" /\ Visits(m, rest)
            /\ marking' = [marking EXCEPT ![m] = "find_roots"]
  <2>1. \A k \in Node : marking'[k] = IF k = m THEN "find_roots" ELSE marking[k]
    BY <1>12 DEF TypeOK
  <2>2. Reached \subseteq Node
    BY DEF Reached, Component
  <2>3. Range(Top.list) = {k \in Reached : k # m /\ marking'[k] = "find_roots" /\ IsRoot(k)}
    BY <1>8, <1>12, <2>1, <2>2
  <2>4. \A k \in DOMAIN rest : rest[k].node \in Reached
    BY <1>7, <1>8
  <2>5. ASSUME NEW k \in Reached, k # m /\ marking'[k] = "find_roots",
               NEW x \in Links(1, k, UsedMask(negotiated[k]))
        PROVE  \/ marking'[Peer(k, x)[1]] = "find_roots"
               \/ \E l \in DOMAIN rest : rest[l].node = k /\ x \in rest[l].links
    <3>1. marking[k] = "find_roots"
      BY <2>1, <2>2, <2>5
    <3>2. CASE k = n /\ x = w
      BY <1>6, <2>1, <3>2 DEF m
    <3>3. CASE marking[Peer(k, x)[1]] = "find_roots"
      <4>1. Peer(k, x)[1] \in Node
        <5>1. Peer(k, x)[1] \in DOMAIN marking' => Peer(k, x)[1] \in Node
          BY <1>12 DEF TypeOK
        <5>2. PICK i \in UsedMask(negotiated[k]) : \E j \in DOMAIN conns[<<k, i>>] : x = <<1, i, j>>
          BY DEF Links
        <5>3. PICK j \in DOMAIN conns[<<k, i>>] : x = <<1, i, j>>
          BY <5>2
        <5>4. k \in Node /\ i \in PortIdx(TypeOf[k])
          BY <2>2, MaskIndexes DEF TypeOK
        <5> QED BY <5>3, <5>4, ConnsType DEF Peer
      <4> QED BY <2>1, <3>3, <4>1
    <3> QED BY <1>10, <3>1, <3>2, <3>3
  <2>6. marking'[m] = "find_roots" /\ marking'[Top.node] = "find_roots"
    BY <1>6, <1>8, <1>9, <2>1
  <2>7. SeenBut(m, rest)
    BY <1>4, <1>7, <1>8, <2>3, <2>4, <2>5, <2>6 DEF SeenBut
  <2>8. Visits(m, rest)
    BY <1>12
  <2> QED BY <1>1, <1>6, <2>7, <2>8, VisitsRoots
<1> QED BY <1>2, <1>11, <1>12 DEF m, rest

LEMMA RootsBackFound ==
  ASSUME TypeOK, TypeOK', OneCall, RootsFound, RootsBack
  PROVE  RootsFound'
<1>1. /\ stack # <<>> /\ Top.phase = "roots" /\ Top.todo # <<>> /\ Top.todo[1].links = {}
      /\ SameCall /\ Top'.phase = "roots" /\ Top'.todo = Tail(Top.todo)
      /\ Top'.list = Top.list
      /\ UNCHANGED <<conns, maskVars, deps, marking, generation, written, ret>>
  BY RootsBackTop
<1>2. Top.todo \in Seq(Visiting)
  BY <1>1, StackFromType, TopType DEF Frame
<1>3. /\ \A k \in DOMAIN Tail(Top.todo) : k + 1 \in DOMAIN Top.todo /\ Tail(Top.todo)[k] = Top.todo[k + 1]
      /\ \A k \in DOMAIN Top.todo : k = 1 \/ (k - 1 \in DOMAIN Tail(Top.todo)
                                              /\ Tail(Top.todo)[k - 1] = Top.todo[k])
  BY <1>1, <1>2
<1>4. /\ \A k : IsRoot(k)' <=> IsRoot(k)
      /\ \A k : Links(1, k, UsedMask(negotiated[k]))' = Links(1, k, UsedMask(negotiated[k]))
      /\ \A k, x : Peer(k, x)' = Peer(k, x)
  BY <1>1, RootsSame
<1>5. /\ stack' # <<>> /\ Reached' = Reached /\ Top'.call = Top.call /\ Top'.node = Top.node
  BY <1>1 DEF SameCall
<1>6. /\ Distinct(Top.list) /\ Top.call = "component" /\ marking[Top.node] = "find_roots"
      /\ Range(Top.list) = {k \in Reached : marking[k] = "find_roots" /\ IsRoot(k)}
      /\ \A k \in DOMAIN Top.todo : Top.todo[k].node \in Reached
      /\ \A k \in Reached : marking[k] = "find_roots" =>
           \A x \in Links(1, k, UsedMask(negotiated[k])) :
             \/ marking[Peer(k, x)[1]] = "find_roots"
             \/ \E l \in DOMAIN Top.todo : Top.todo[l].node = k /\ x \in Top.todo[l].links
  BY <1>1 DEF RootsFound
<1> DEFINE rest == Tail(Top.todo)
<1>7. ASSUME NEW k, NEW x, \E l \in DOMAIN Top.todo : Top.todo[l].node = k /\ x \in Top.todo[l].links
      PROVE  \E l \in DOMAIN rest : rest[l].node = k /\ x \in rest[l].links
  <2>1. PICK l \in DOMAIN Top.todo : Top.todo[l].node = k /\ x \in Top.todo[l].links
    BY <1>7
  <2>2. l - 1 \in DOMAIN rest /\ rest[l - 1] = Top.todo[l]
    BY <1>1, <1>3, <2>1
  <2> QED BY <2>1, <2>2
<1>8. \A k \in DOMAIN rest : rest[k].node \in Reached
  BY <1>3, <1>6
<1> HIDE DEF rest
<1>9. Top'.todo = rest
  BY <1>1 DEF rest
<1>10. Range(Top'.list) = {k \in Reached : marking'[k] = "find_roots" /\ IsRoot(k)'}
  BY <1>1, <1>4, <1>6
<1>11. \A k \in Reached : marking'[k] = "find_roots" =>
         \A x \in Links(1, k, UsedMask(negotiated[k])) :
           \/ marking'[Peer(k, x)[1]] = "find_roots"
           \/ \E l \in DOMAIN rest : rest[l].node = k /\ x \in rest[l].links
  BY <1>1, <1>6, <1>7
<1>12. Distinct(Top'.list) /\ Top'.call = "component" /\ marking'[Top'.node] = "find_roots"
  BY <1>1, <1>5, <1>6
<1> QED BY <1>4, <1>5, <1>8, <1>9, <1>10, <1>11, <1>12 DEF RootsFound

(* After the negotiation                                                   *)
LEMMA OnwardNegotiation ==
  ASSUME TypeOK, OneCall, NegotiationInv, stack # <<>>, SameCall, UNCHANGED <<conns, maskVars>>,
         Top'.phase \notin {"converge", "eval"},
         Top'.phase = "roots" =>
           /\ UNCHANGED <<deps, generation>> /\ Top.phase \in {"converge", "roots"}
           /\ \A n \in Reached : marking'[n] \in {"none", "find_roots"}
  PROVE  NegotiationInv'
<1>1. /\ stack' # <<>> /\ Reached' = Reached /\ Top'.node = Top.node /\ Top'.loop = Top.loop
      /\ UNCHANGED <<negotiated, propagated>>
  BY DEF SameCall, maskVars
<1>2. WordsDirected'
  BY <1>1 DEF NegotiationInv, WordsDirected
<1>3. NewsAnnounced'
  BY <1>1 DEF NegotiationInv, NewsAnnounced
<1>4. CountersBetween'
  <2> SUFFICES ASSUME Top'.phase = "roots" PROVE CountersBetween'
    BY DEF CountersBetween
  <2>1. \A k : InUse(k)' = InUse(k) /\ InUseForSure(k)' = InUseForSure(k)
    BY <1>1 DEF InUse, InUseForSure, Activated, InActivated, OutActivated
  <2> QED BY <1>1, <2>1 DEF NegotiationInv, CountersBetween
<1>5. MarkingsReset'
  BY <1>1 DEF NegotiationInv, MarkingsReset
<1> QED BY <1>2, <1>3, <1>4, <1>5 DEF NegotiationInv

-----------------------------------------------------------------------------
(* What holds while nodes run                                              *)

Running == stack # <<>> /\ Top.phase \in {"call", "skip", "notify"}

Over(n) == marking[n] = "done" \/ (In("notify") /\ Top.cur = n)

(* The lists and the node that runs                                        *)
Listed ==
  Executing =>
    /\ Range(Top.list) \subseteq Reached /\ Distinct(Top.list)
    /\ \A n \in Range(Top.list) : deps[n] = 0 /\ marking[n] # "done"
    /\ Running => /\ Top.cur \in Reached /\ Top.cur \notin Range(Top.list)
                  /\ deps[Top.cur] = 0 /\ marking[Top.cur] # "done"
                  /\ Top.ins = InMask(negotiated[Top.cur])
                  /\ Top.outs = OutMask(negotiated[Top.cur])
    /\ Top.phase = "skip" =>
         \A i \in UsedMask(negotiated[Top.cur]) :
           ~ Activated(<<Top.cur, i>>, negotiated, generation)
    /\ Top.phase = "notify" => Top.work \subseteq Links(1, Top.cur, Top.outs)
    /\ \A n \in Reached :
         Used(n) /\ deps[n] = 0 /\ marking[n] # "done" =>
           n \in Range(Top.list) \/ (Running /\ n = Top.cur)

(* Outputs that were used for an exchange have been written.               *)
OutputsWritten ==
  Executing =>
    \A p \in InPort :
      p[1] \in Reached /\ Activated(p, negotiated, generation) =>
        LET q == conns[p][1] IN
          Over(q[1]) /\ q[2] \in OutMask(negotiated[q[1]]) => q \in written

(* Inputs that were used for an exchange have seen the data, which stays.  *)
InputsSeen ==
  \A p \in InPort :
    Over(p[1]) /\ Activated(p, negotiated, generation) =>
      /\ generation[p] = generation[conns[p][1]]
      /\ marking[conns[p][1][1]] = "done"
      /\ conns[p][1] \in written

RunInv == Listed /\ CountersExact /\ OutputsWritten /\ InputsSeen

(* A node without anything left to propagate pulls inputs and pushes       *)
(* outputs.                                                                *)
Directions ==
  \A n \in Reached :
    /\ n \in Node
    /\ InMask(negotiated[n]) \subseteq InPorts(TypeOf[n])
    /\ \A i \in InMask(negotiated[n]) : <<n, i>> \in InPort
    /\ \A i \in OutMask(negotiated[n]) : <<n, i>> \in OutPort

LEMMA SettledDirections ==
  ASSUME TypeOK, PendingListed, NegotiationInv, stack # <<>>,
         Top.phase \notin {"converge", "eval"} \/ (Top.phase = "converge" /\ Top.list = <<>>)
  PROVE  Directions /\ \A n \in Reached : negotiated[n] = propagated[n]
<1>1. \A n \in Reached : negotiated[n] = propagated[n]
  BY DEF PendingListed, Range
<1>2. WordsDirected
  BY DEF NegotiationInv
<1>3. ASSUME NEW n \in Reached
      PROVE  /\ n \in Node
             /\ InMask(negotiated[n]) \subseteq InPorts(TypeOf[n])
             /\ \A i \in InMask(negotiated[n]) : <<n, i>> \in InPort
             /\ \A i \in OutMask(negotiated[n]) : <<n, i>> \in OutPort
  BY <1>1, <1>2, SettledDirected
<1> QED BY <1>1, <1>3 DEF Directions

(* The input p has not been told of its producer's data.                   *)
Notified(p) == In("notify") /\ Top.cur = conns[p][1][1] /\ \A w \in Top.work : Peer(conns[p][1][1], w) # p

Waits(p) ==
  \/ conns[p][1][2] \notin OutMask(negotiated[conns[p][1][1]])
  \/ marking[conns[p][1][1]] # "done" /\ ~ Notified(p)

LEMMA OutstandingMember ==
  ASSUME Directions, NEW n \in Reached, NEW i
  PROVE  i \in Outstanding(n) <=>
           /\ i \in InMask(negotiated[n]) /\ InActivated(<<n, i>>, negotiated)
           /\ Waits(<<n, i>>)
<1>1. i \in InMask(negotiated[n]) =>
        (Activated(<<n, i>>, negotiated, generation) <=> InActivated(<<n, i>>, negotiated))
  BY DEF Directions, Activated
<1> QED BY <1>1 DEF Outstanding, Waits, Notified

LEMMA OutstandingFinite ==
  ASSUME TypeOK, NEW n \in Node
  PROVE  IsFiniteSet(Outstanding(n)) /\ Cardinality(Outstanding(n)) \in Nat
<1>1. negotiated[n] \in Mask(n)
  BY DEF TypeOK
<1>2. InMask(negotiated[n]) \subseteq PortIdx(TypeOf[n])
  BY <1>1, MaskIndexes
<1>3. Outstanding(n) \subseteq PortIdx(TypeOf[n])
  BY <1>2 DEF Outstanding
<1>4. IsFiniteSet(Outstanding(n))
  BY <1>3, PortIdxType, FS_Subset
<1> QED BY <1>4, FS_CardinalityType

(* An input that is used for an exchange has a producer that reaches it.   *)
LEMMA ProducerOf ==
  ASSUME TypeOK, NEW p \in InPort, conns[p] # <<>>
  PROVE  LET q == conns[p][1] IN
           /\ q \in OutPort /\ q \in Port /\ q \notin InPort /\ q = <<q[1], q[2]>>
           /\ q[1] \in Node /\ q[2] \in PortIdx(TypeOf[q[1]]) /\ q[1] # p[1]
           /\ \E k \in DOMAIN conns[q] : conns[q][k] = p
           /\ stack # <<>> => (q[1] \in Reached <=> p[1] \in Reached)
<1> DEFINE q == conns[p][1]
<1>1. q \in OutPort /\ q[1] # p[1] /\ DOMAIN conns[p] = {1}
  BY ConnectedPorts
<1>2. PICK k \in DOMAIN conns[q] : conns[q][k] = p
  BY ConnectedPorts
<1> HIDE DEF q
<1>3. q \in Port /\ q \notin InPort /\ q = <<q[1], q[2]>>
  BY <1>1, PortsByDirection
<1>4. q[1] \in Node /\ q[2] \in PortIdx(TypeOf[q[1]])
  BY <1>3, PortIsPair
<1>5. p[1] \in Node /\ p[2] \in PortIdx(TypeOf[p[1]]) /\ p = <<p[1], p[2]>>
  BY PortsByDirection, PortIsPair
<1>6. ASSUME stack # <<>>, p[1] \in Reached PROVE q[1] \in Reached
  <2>1. 1 \in DOMAIN conns[<<p[1], p[2]>>]
    BY <1>1, <1>5
  <2>2. conns[<<p[1], p[2]>>][1][1] \in Reached
    BY <1>5, <1>6, <2>1, ReachedClosed
  <2> QED BY <1>5, <2>2 DEF q
<1>7. ASSUME stack # <<>>, q[1] \in Reached PROVE p[1] \in Reached
  <2>1. k \in DOMAIN conns[<<q[1], q[2]>>]
    BY <1>2, <1>3
  <2>2. conns[<<q[1], q[2]>>][k][1] \in Reached
    BY <1>4, <1>7, <2>1, ReachedClosed
  <2> QED BY <1>2, <1>3, <2>2
<1> QED BY <1>1, <1>2, <1>3, <1>4, <1>6, <1>7 DEF q

(* A producer whose output is pushed exchanges data with a consumer that   *)
(* uses its input.                                                         *)
LEMMA ProducerActivated ==
  ASSUME TypeOK, NEW p \in InPort, InActivated(p, negotiated),
         conns[p][1][2] \in OutMask(negotiated[conns[p][1][1]])
  PROVE  Activated(conns[p][1], negotiated, generation)
<1> DEFINE q == conns[p][1]
<1>1. conns[p] # <<>>
  BY DEF InActivated
<1>2. q \notin InPort /\ \E k \in DOMAIN conns[q] : conns[q][k] = p
  BY <1>1, ProducerOf
<1>3. PICK k \in DOMAIN conns[q] : conns[q][k] = p
  BY <1>2
<1>4. conns[q] # <<>>
  BY <1>3
<1>5. q[2] \in negotiated[q[1]]["push_new"] \/ q[2] \in negotiated[q[1]]["push_old"]
  BY DEF OutMask
<1>6. p[2] \in negotiated[p[1]]["pull_old"] \/ q[2] \in negotiated[q[1]]["push_new"]
  BY DEF InActivated
<1> HIDE DEF q
<1>7. OutActivated(q, negotiated, generation)
  BY <1>3, <1>4, <1>5, <1>6 DEF OutActivated
<1> QED BY <1>2, <1>7 DEF Activated, q

-----------------------------------------------------------------------------
(* What earlier calls left behind                                          *)

(* The masks of the nodes in R change, but none of these nodes is done.    *)
LEMMA SeenKept ==
  ASSUME TypeOK, InputsSeen, NEW R, UNCHANGED <<conns, generation>>, ~ In("notify")',
         \A p \in InPort : conns[p] # <<>> /\ conns[p][1][1] \in R => p[1] \in R,
         \A n \in Node : n \notin R =>
           marking'[n] = marking[n] /\ \A r \in Reaction : negotiated'[n][r] = negotiated[n][r],
         \A n \in R : marking'[n] # "done",
         \A q \in written : q[1] \notin R => q \in written'
  PROVE  InputsSeen'
<1> SUFFICES ASSUME NEW p \in InPort, Over(p[1])', Activated(p, negotiated, generation)'
             PROVE  /\ generation'[p] = generation'[conns'[p][1]]
                    /\ marking'[conns'[p][1][1]] = "done"
                    /\ conns'[p][1] \in written'
  BY DEF InputsSeen
<1> DEFINE q == conns[p][1]
<1>1. p[1] \in Node /\ p[1] \notin R /\ marking'[p[1]] = "done"
  BY PortsByDirection DEF Over
<1>2. InActivated(p, negotiated)' /\ conns[p] # <<>>
  BY DEF Activated, InActivated
<1>3. q[1] \notin R /\ q[1] \in Node
  BY <1>1, <1>2, ProducerOf
<1>4. InActivated(p, negotiated)
  BY <1>1, <1>2, <1>3 DEF InActivated, Reaction
<1>5. Over(p[1]) /\ Activated(p, negotiated, generation)
  BY <1>1, <1>4 DEF Over, Activated
<1>6. generation[p] = generation[q] /\ marking[q[1]] = "done" /\ q \in written
  BY <1>5 DEF InputsSeen
<1> QED BY <1>1, <1>3, <1>6

(* What nodes wrote that a call does not reach stays.                      *)
LEMMA StartWritten ==
  ASSUME TypeOK, Start
  PROVE  \A q \in written : q[1] \notin Reached' => q \in written'
<1>1. CASE ScheduleGraph
  <2>1. Reached' = Node
    BY <1>1 DEF Reached, ScheduleGraph, NewFrame, Top
  <2> QED BY <2>1, PortsByDirection DEF TypeOK
<1>2. ASSUME NEW r \in Requests, ScheduleComponent(r.node, r.mask)
      PROVE  \A q \in written : q[1] \notin Reached' => q \in written'
  <2>1. /\ written' = {q \in written : q[1] \notin Component(r.node)}
        /\ Top'.call = "component" /\ Top'.node = r.node /\ conns' = conns
    BY <1>2 DEF ScheduleComponent, Reset, NewFrame, Top
  <2>2. Reached' = Component(r.node)
    BY <2>1 DEF Reached, Component, Neighbours
  <2> QED BY <2>1, <2>2
<1> QED BY <1>1, <1>2 DEF Start

LEMMA StartSeen ==
  ASSUME TypeOK, TypeOK', Responsive, InputsSeen, Start
  PROVE  InputsSeen'
<1> DEFINE R == Reached'
<1>1. /\ UNCHANGED <<conns, generation>> /\ stack' # <<>> /\ Top'.phase = "converge"
      /\ R \subseteq Node
      /\ \A n \in R : marking'[n] = "reset"
      /\ \A n \in Node : n \notin R => negotiated'[n] = negotiated[n] /\ marking'[n] = marking[n]
      /\ \A n \in R : Neighbours(n) \cap Node \subseteq R
  BY StartTop
<1>2. ~ In("notify")'
  BY <1>1 DEF In, Top
<1> HIDE DEF R
<1>3. ASSUME NEW p \in InPort, conns[p] # <<>>, conns[p][1][1] \in R PROVE p[1] \in R
  <2> DEFINE q == conns[p][1]
  <2>1. /\ q = <<q[1], q[2]>> /\ q[2] \in PortIdx(TypeOf[q[1]])
        /\ \E k \in DOMAIN conns[q] : conns[q][k] = p
    BY <1>3, ProducerOf
  <2>2. p \in Range(conns[q]) /\ p[1] \in Node
    BY <2>1, PortsByDirection DEF Range
  <2> HIDE DEF q
  <2>3. p[1] \in Neighbours(q[1])
    BY <2>1, <2>2 DEF Neighbours
  <2> QED BY <1>1, <1>3, <2>2, <2>3 DEF q
<1>4. \A n \in R : marking'[n] # "done"
  BY <1>1
<1>5. \A q \in written : q[1] \notin R => q \in written'
  BY StartWritten DEF R
<1> QED BY <1>1, <1>2, <1>3, <1>4, <1>5, SeenKept

LEMMA PropagateSeen ==
  ASSUME TypeOK, OneCall, CausesFollowed, NegotiationInv, InputsSeen, Propagate
  PROVE  InputsSeen'
<1>1. /\ stack # <<>> /\ Top.phase = "eval"
      /\ UNCHANGED <<conns, propagated, deps, marking, generation, written>>
      /\ \/ \E w \in Top.work : Follows(w)
         \/ stack' = <<>> /\ negotiated' = negotiated
  BY PropagateTop
<1>2. CASE stack' = <<>> /\ negotiated' = negotiated
  <2>1. ~ In("notify")'
    BY <1>2 DEF In
  <2> QED BY <1>1, <1>2, <2>1, SeenKept
<1>3. ASSUME NEW w \in Top.work, Follows(w) PROVE InputsSeen'
  <2> DEFINE n == Top.cur
             m == Peer(n, w)[1]
  <2>1. /\ w[3] # 0 /\ stack' # <<>> /\ Top'.phase = "eval"
        /\ \A k \in Node, r \in Reaction : k # m => negotiated'[k][r] = negotiated[k][r]
    <3>1. \A k \in Node, r \in Reaction : k # m => negotiated'[k][r] = negotiated[k][r] \cup {}
      BY <1>3 DEF Follows
    <3> QED BY <1>3, <3>1, SMTT(30) DEF Follows, SameCall
  <2>2. Top \in Frame /\ WorkOK(Top)
    BY <1>1, StackFromType, TopType
  <2>3. n \in Reached /\ n \in Node
    BY <1>1 DEF CausesFollowed, WorkLeft, Reached, Component
  <2>4. w[2] \in PortIdx(TypeOf[n]) /\ w[3] \in DOMAIN conns[<<n, w[2]>>]
    BY <1>1, <2>1, <2>2 DEF WorkOK, IsLink
  <2>5. m \in Reached
    BY <1>1, <2>3, <2>4, ReachedClosed DEF Peer
  <2> HIDE DEF n, m
  <2>6. ~ In("notify")'
    BY <2>1 DEF In, Top
  <2>7. \A p \in InPort : conns[p] # <<>> /\ conns[p][1][1] \in Reached => p[1] \in Reached
    BY <1>1, ProducerOf
  <2>8. \A k \in Reached : marking'[k] # "done"
    BY <1>1 DEF NegotiationInv, MarkingsReset
  <2>9. \A k \in Node : k \notin Reached =>
          marking'[k] = marking[k] /\ \A r \in Reaction : negotiated'[k][r] = negotiated[k][r]
    BY <1>1, <2>1, <2>5
  <2> HIDE DEF Reached
  <2> QED BY <1>1, <2>6, <2>7, <2>8, <2>9, SeenKept
<1> QED BY <1>1, <1>2, <1>3

(* Only the markings of the nodes of the call change.                      *)
LEMMA MarkedSeen ==
  ASSUME TypeOK, InputsSeen, stack # <<>>, UNCHANGED <<conns, negotiated, generation, written>>,
         ~ In("notify")',
         \A n \in Node : n \notin Reached => marking'[n] = marking[n],
         \A n \in Reached : marking'[n] # "done"
  PROVE  InputsSeen'
<1>1. \A p \in InPort : conns[p] # <<>> /\ conns[p][1][1] \in Reached => p[1] \in Reached
  BY ProducerOf
<1> HIDE DEF Reached
<1> QED BY <1>1, SeenKept

-----------------------------------------------------------------------------
(* The counters when the negotiation is over                               *)

Settled ==
  /\ stack # <<>>
  /\ Top.phase = "roots" \/ (Top.phase = "converge" /\ Top.list = <<>>)

LEMMA CausesHave ==
  ASSUME TypeOK, PendingListed, CausesFollowed, NegotiationInv, Settled
  PROVE  Closed(Have)
<1>1. stack # <<>> /\ \A n \in Reached : negotiated[n] = propagated[n]
  BY SettledDirections DEF Settled
<1>2. Within(negotiated) = Within(propagated)
  BY <1>1 DEF Within
<1>3. Told = Have
  BY <1>2 DEF Told, Have
<1> QED BY <1>1, <1>3 DEF CausesFollowed, Closed

(* Counters that were computed before the producers' masks had all their   *)
(* bits count as if computed afterwards.                                   *)
LEMMA CountersSettled ==
  ASSUME TypeOK, PendingListed, CausesFollowed, NegotiationInv, Settled
  PROVE  \A n \in Reached : deps[n] = Cardinality(InUse(n))
<1> SUFFICES ASSUME NEW n \in Reached PROVE deps[n] = Cardinality(InUse(n))
  OBVIOUS
<1>1. stack # <<>> /\ Directions /\ negotiated[n] = propagated[n]
  BY SettledDirections DEF Settled
<1>2. n \in Node /\ \A i \in InMask(negotiated[n]) : <<n, i>> \in InPort
  BY <1>1 DEF Directions
<1>3. InUseForSure(n) \subseteq InUse(n)
  BY <1>1, <1>2, SureInUse DEF NegotiationInv
<1>4. InUse(n) \subseteq InUseForSure(n)
  <2> SUFFICES ASSUME NEW i \in InUse(n) PROVE i \in InUseForSure(n)
    OBVIOUS
  <2> DEFINE p == <<n, i>>
             q == conns[p][1]
  <2>1. i \in InMask(negotiated[n]) /\ p \in InPort
    BY <1>2 DEF InUse
  <2>2. InActivated(p, negotiated) /\ conns[p] # <<>>
    BY <2>1 DEF InUse, Activated, InActivated
  <2>3. CASE i \in negotiated[n]["pull_old"] \/ ~ HearsNew(TypeOf[n], i)
    BY <2>1, <2>2, <2>3 DEF InUseForSure
  <2>4. CASE i \notin negotiated[n]["pull_old"] /\ HearsNew(TypeOf[n], i)
    <3>1. q[2] \in negotiated[q[1]]["push_new"]
      BY <2>2, <2>4 DEF InActivated
    <3>2. /\ q = <<q[1], q[2]>> /\ q[1] \in Reached
          /\ \E k \in DOMAIN conns[q] : conns[q][k] = p
      BY <1>1, <2>1, <2>2, ProducerOf
    <3>3. PICK k \in DOMAIN conns[q] : conns[q][k] = p
      BY <3>2
    <3> HIDE DEF q
    <3> DEFINE b == <<q[1], "push_new", q[2]>>
    <3>4. b \in Have
      BY <1>1, <3>1, <3>2, HaveMember DEF Reaction
    <3>5. Causes(b) \subseteq Have
      BY <3>4, CausesHave DEF Closed
    <3>6. CausedAt(p, "new") \subseteq Causes(b)
      <4>1. /\ k \in DOMAIN conns[<<b[1], b[3]>>] /\ conns[<<b[1], b[3]>>][k] = p
            /\ Event(b[2]) = "new"
        BY <3>2, <3>3 DEF Event
      <4> HIDE DEF b, p
      <4> QED BY <4>1, CausesOf
    <3>7. <<n, "pull_old", i>> \in CausedAt(p, "new")
      BY <2>4 DEF CausedAt, HearsNew, Reaction
    <3>8. <<n, "pull_old", i>> \in Have
      BY <3>5, <3>6, <3>7
    <3>9. i \in negotiated[n]["pull_old"]
      BY <1>1, <3>8, HaveMember
    <3> QED BY <2>4, <3>9
  <2> QED BY <2>3, <2>4
<1>5. Cardinality(InUseForSure(n)) <= deps[n] /\ deps[n] <= Cardinality(InUse(n))
  BY <1>1 DEF NegotiationInv, CountersBetween, Settled
<1>6. InUseForSure(n) = InUse(n)
  BY <1>3, <1>4
<1>7. Cardinality(InUse(n)) \in Nat /\ deps[n] \in Nat
  BY <1>2, InUseFinite DEF TypeOK
<1> QED BY <1>5, <1>6, <1>7

(* From the negotiation to the execution                                   *)
LEMMA RunBegins ==
  ASSUME TypeOK, PendingListed, CausesFollowed, NegotiationInv, Settled, InputsSeen,
         SameCall, UNCHANGED <<conns, maskVars, deps, marking, generation, written>>,
         Top'.phase = "run", Range(Top'.list) \subseteq Reached, Distinct(Top'.list),
         \A n \in Range(Top'.list) : deps[n] = 0,
         \A n \in Reached : Used(n) /\ deps[n] = 0 => n \in Range(Top'.list)
  PROVE  RunInv'
<1>1. /\ stack # <<>> /\ Directions
      /\ \A n \in Reached : marking[n] # "done"
      /\ \A n \in Reached : deps[n] = Cardinality(InUse(n))
  BY SettledDirections, CountersSettled DEF Settled, NegotiationInv, MarkingsReset
<1>2. stack' # <<>> /\ Reached' = Reached /\ negotiated' = negotiated /\ ~ In("notify")'
  BY DEF SameCall, maskVars, In, Top
<1>3. \A n : Used(n)' <=> Used(n)
  BY <1>2 DEF Used, Activated, InActivated, OutActivated
<1>4. Listed'
  BY <1>1, <1>2, <1>3 DEF Listed, Running
<1>5. CountersExact'
  <2>1. ASSUME NEW n \in Reached PROVE Outstanding(n)' = InUse(n)
    <3>1. ASSUME NEW i \in InMask(negotiated[n]), Activated(<<n, i>>, negotiated, generation)
          PROVE  marking[conns[<<n, i>>][1][1]] # "done"
      <4>1. <<n, i>> \in InPort
        BY <1>1 DEF Directions
      <4>2. conns[<<n, i>>] # <<>>
        BY <3>1, <4>1 DEF Activated, InActivated
      <4>3. conns[<<n, i>>][1][1] \in Reached
        BY <1>1, <4>1, <4>2, ProducerOf
      <4> QED BY <1>1, <4>3
    <3>2. \A i : Activated(<<n, i>>, negotiated, generation)'
                   <=> Activated(<<n, i>>, negotiated, generation)
      BY <1>2 DEF Activated, InActivated, OutActivated
    <3> QED BY <1>2, <3>1, <3>2 DEF Outstanding, InUse
  <2> QED BY <1>1, <1>2, <2>1 DEF CountersExact
<1>6. OutputsWritten'
  <2> SUFFICES ASSUME NEW p \in InPort, p[1] \in Reached,
                      Activated(p, negotiated, generation)', Over(conns[p][1][1])'
               PROVE  FALSE
    BY <1>2 DEF OutputsWritten
  <2>1. conns[p] # <<>>
    BY DEF Activated, InActivated
  <2>2. conns[p][1][1] \in Reached
    BY <1>1, <2>1, ProducerOf
  <2> QED BY <1>1, <1>2, <2>2 DEF Over
<1>7. InputsSeen'
  BY <1>1, <1>2, MarkedSeen
<1> QED BY <1>4, <1>5, <1>6, <1>7 DEF RunInv

LEMMA FindReadyRun ==
  ASSUME TypeOK, TypeOK', OneCall, PendingListed, CausesFollowed, NegotiationInv,
         InputsSeen, FindReady
  PROVE  RunInv'
<1> DEFINE S == {n \in Node : deps[n] = 0}
           s == Top'.list
<1>1. /\ stack # <<>> /\ Top.phase = "converge" /\ Top.list = <<>> /\ Top.call = "graph"
      /\ SameCall /\ Top'.phase = "run" /\ s \in Pushed(S)
      /\ UNCHANGED <<conns, maskVars, deps, marking, generation, written, ret>>
  BY FindReadyTop
<1>2. Reached = Node
  BY <1>1 DEF Reached
<1>3. IsFiniteSet(S)
  BY NodesAssumption, FS_Subset
<1> HIDE DEF S
<1>4. /\ s \in Seq(S) /\ Range(s) = S
      /\ \A i, j \in DOMAIN s : i < j => NodeId[s[i]] > NodeId[s[j]]
  BY <1>1, <1>3, SetToSeqsRange DEF Pushed
<1>5. Distinct(s)
  <2> SUFFICES ASSUME NEW i \in DOMAIN s, NEW j \in DOMAIN s, s[i] = s[j], i # j PROVE FALSE
    BY DEF Distinct
  <2> HIDE DEF s
  <2>1. i < j \/ j < i
    BY <1>4
  <2>2. s[i] \in Node
    BY <1>4 DEF S
  <2>3. NodeId[s[i]] \in Int
    BY <2>2, NodesAssumption
  <2> QED BY <1>4, <2>1, <2>3
<1>6. Settled
  BY <1>1 DEF Settled
<1> QED BY <1>1, <1>2, <1>4, <1>5, <1>6, RunBegins DEF S

(* The search for roots reaches every node that takes part, since nothing  *)
(* is requested without a cause.                                           *)
LEMMA RootsEndRun ==
  ASSUME TypeOK, TypeOK', OneCall, PendingListed, CausesFollowed, NegotiationInv, RootsFound,
         InputsSeen, RootsEnd, stack' # <<>>
  PROVE  RunInv'
<1>1. /\ stack # <<>> /\ Top.phase = "roots" /\ Top.todo = <<>>
      /\ SameCall /\ Top'.phase = "run" /\ Top'.list = Top.list
      /\ UNCHANGED <<conns, maskVars, deps, marking, generation, written>>
  BY RootsEndTop
<1>2. Settled
  BY <1>1 DEF Settled
<1>3. /\ Top.call = "component" /\ marking[Top.node] = "find_roots" /\ Distinct(Top.list)
      /\ Range(Top.list) = {n \in Reached : marking[n] = "find_roots" /\ IsRoot(n)}
      /\ \A n \in Reached : marking[n] = "find_roots" =>
           \A w \in Links(1, n, UsedMask(negotiated[n])) : marking[Peer(n, w)[1]] = "find_roots"
  BY <1>1 DEF RootsFound
<1> DEFINE S == {b \in Have : marking[b[1]] = "find_roots"}
<1>4. S \in SUBSET AllBits
  BY <1>1, HaveMember
<1>5. Bits(Requested) \subseteq S
  <2> SUFFICES ASSUME NEW b \in Bits(Requested) PROVE b \in S
    OBVIOUS
  <2>1. b \in Have
    BY <1>1 DEF CausesFollowed
  <2>2. b[1] \in Node /\ b[2] \in Reaction /\ b[3] \in Requested[b[1]][b[2]]
    BY BitsMember
  <2>3. b[1] = Top.node
    BY <1>3, <2>2 DEF Requested, NoMask
  <2> QED BY <1>3, <2>1, <2>3
<1>6. Closed(S)
  <2> SUFFICES ASSUME NEW b \in S, NEW c \in Causes(b) PROVE c \in S
    BY DEF Closed
  <2> DEFINE n == b[1]
             i == b[3]
  <2>1. n \in Reached /\ b[2] \in Reaction /\ i \in negotiated[n][b[2]] /\ marking[n] = "find_roots"
    BY <1>1, HaveMember
  <2>2. c \in Have
    BY <1>2, CausesHave DEF Closed
  <2>3. PICK j \in DOMAIN conns[<<n, i>>] : c \in CausedAt(conns[<<n, i>>][j], Event(b[2]))
    BY CausesOf
  <2>4. c[1] = conns[<<n, i>>][j][1]
    <3> DEFINE q == conns[<<n, i>>][j]
    <3>1. c \in CausedAt(q, Event(b[2]))
      BY <2>3
    <3> HIDE DEF q
    <3>2. PICK r \in Reaction :
            c \in {<<q[1], r, k>> : k \in PortMasks[TypeOf[q[1]]][q[2]][Event(b[2])][r]}
      BY <3>1 DEF CausedAt
    <3>3. PICK k : c = <<q[1], r, k>>
      BY <3>2
    <3> QED BY <3>3 DEF q
  <2>5. i \in UsedMask(negotiated[n])
    BY <2>1 DEF UsedMask, InMask, OutMask, Reaction
  <2> HIDE DEF n, i
  <2>6. <<1, i, j>> \in Links(1, n, UsedMask(negotiated[n]))
    BY <2>3, <2>5 DEF Links
  <2>7. Peer(n, <<1, i, j>>) = conns[<<n, i>>][j]
    BY DEF Peer
  <2>8. marking[c[1]] = "find_roots"
    BY <1>3, <2>1, <2>4, <2>6, <2>7
  <2> QED BY <2>2, <2>8
<1>7. Have \subseteq S
  <2> HIDE DEF S
  <2> QED BY <1>1, <1>4, <1>5, <1>6 DEF CausesFollowed
<1>8. ASSUME NEW n \in Reached, Used(n), deps[n] = 0 PROVE n \in Range(Top.list)
  <2>1. PICK i \in UsedMask(negotiated[n]) : Activated(<<n, i>>, negotiated, generation)
    BY <1>8 DEF Used
  <2>2. \E r \in Reaction : i \in negotiated[n][r]
    BY DEF UsedMask, InMask, OutMask, Reaction
  <2>3. marking[n] = "find_roots"
    <3>1. PICK r \in Reaction : i \in negotiated[n][r]
      BY <2>2
    <3>2. <<n, r, i>> \in S
      BY <1>1, <1>7, <3>1, HaveMember
    <3> QED BY <3>2
  <2>4. InUse(n) = {}
    <3>1. n \in Node
      BY <1>1 DEF Reached, Component
    <3>2. Cardinality(InUse(n)) = 0 /\ IsFiniteSet(InUse(n))
      BY <1>2, <1>8, <3>1, CountersSettled, InUseFinite
    <3> QED BY <3>2, FS_EmptySet
  <2>5. i \in OutMask(negotiated[n])
    BY <2>1, <2>4 DEF InUse, UsedMask
  <2> QED BY <1>3, <1>8, <2>1, <2>3, <2>5 DEF IsRoot
<1>9. \A n \in Range(Top.list) : n \in Reached /\ deps[n] = 0
  BY <1>3 DEF IsRoot
<1>10. \A n \in Range(Top'.list) : deps[n] = 0
  BY <1>1, <1>9
<1>11. Range(Top'.list) \subseteq Reached /\ Distinct(Top'.list)
  BY <1>1, <1>3, <1>9
<1>12. \A n \in Reached : Used(n) /\ deps[n] = 0 => n \in Range(Top'.list)
  BY <1>1, <1>8
<1> QED BY <1>1, <1>2, <1>10, <1>11, <1>12, RunBegins

-----------------------------------------------------------------------------
(* The steps of the execution                                              *)

LEMMA RunFacts ==
  ASSUME TypeOK, PendingListed, NegotiationInv, RunInv, Executing
  PROVE  /\ stack # <<>> /\ Top \in Frame /\ Top.loop = {} /\ Directions
         /\ Reached \subseteq Node
         /\ \A n \in Reached : deps[n] = Cardinality(Outstanding(n)) /\ deps[n] \in Nat
         /\ Listed /\ OutputsWritten /\ InputsSeen
<1>1. stack # <<>> /\ Directions /\ Top.loop = {}
  BY SettledDirections DEF Executing, NegotiationInv, MarkingsReset
<1>2. Top \in Frame
  BY <1>1, StackFromType, TopType
<1>3. Reached \subseteq Node
  BY DEF Reached, Component
<1>4. \A n \in Reached : deps[n] = Cardinality(Outstanding(n)) /\ deps[n] \in Nat
  BY <1>3 DEF RunInv, CountersExact, TypeOK
<1> QED BY <1>1, <1>2, <1>3, <1>4 DEF RunInv

(* The use of the inputs does not depend on generations.                   *)
LEMMA InputsStay ==
  ASSUME UNCHANGED <<conns, negotiated>>
  PROVE  /\ \A p \in InPort : Activated(p, negotiated, generation)' <=> InActivated(p, negotiated)
         /\ \A p \in InPort : Activated(p, negotiated, generation) <=> InActivated(p, negotiated)
         /\ \A p : InActivated(p, negotiated) => conns[p] # <<>> /\ p[2] \in InMask(negotiated[p[1]])
BY DEF Activated, InActivated, InMask

LEMMA OutstandingNext ==
  ASSUME Directions, UNCHANGED <<conns, negotiated>>, NEW n \in Reached, NEW i
  PROVE  i \in Outstanding(n)' <=>
           /\ i \in InMask(negotiated[n]) /\ InActivated(<<n, i>>, negotiated)
           /\ Waits(<<n, i>>)'
<1>1. i \in InMask(negotiated[n]) =>
        (Activated(<<n, i>>, negotiated, generation)' <=> InActivated(<<n, i>>, negotiated))
  BY InputsStay DEF Directions
<1> QED BY <1>1 DEF Outstanding, Waits, Notified

LEMMA OutstandingStays ==
  ASSUME Directions, UNCHANGED <<conns, negotiated>>, NEW n \in Reached,
         \A p \in InPort : p[1] = n /\ InActivated(p, negotiated) => (Waits(p)' <=> Waits(p))
  PROVE  Outstanding(n)' = Outstanding(n)
<1>1. ASSUME NEW i PROVE i \in Outstanding(n)' <=> i \in Outstanding(n)
  <2>1. ASSUME i \in InMask(negotiated[n]), InActivated(<<n, i>>, negotiated)
        PROVE  Waits(<<n, i>>)' <=> Waits(<<n, i>>)
    <3>1. <<n, i>> \in InPort
      BY <2>1 DEF Directions
    <3> QED BY <2>1, <3>1
  <2> QED BY <2>1, OutstandingNext, OutstandingMember
<1> QED BY <1>1

(* A node without outstanding inputs                                       *)
LEMMA NothingOutstanding ==
  ASSUME TypeOK, PendingListed, NegotiationInv, RunInv, Executing,
         NEW n \in Reached, deps[n] = 0
  PROVE  Outstanding(n) = {}
<1>1. Cardinality(Outstanding(n)) = 0 /\ n \in Node
  BY RunFacts
<1>2. IsFiniteSet(Outstanding(n))
  BY <1>1, OutstandingFinite
<1> QED BY <1>1, <1>2, FS_EmptySet

LEMMA ReturnRun ==
  ASSUME TypeOK, InputsSeen, stack' = <<>>,
         UNCHANGED <<conns, negotiated, marking, generation, written>>
  PROVE  RunInv'
<1>1. Listed' /\ CountersExact' /\ OutputsWritten'
  BY DEF Executing, Listed, CountersExact, OutputsWritten
<1>2. \A n : Over(n)' => Over(n)
  BY DEF In, Over
<1>3. \A p \in InPort : Activated(p, negotiated, generation)' <=> Activated(p, negotiated, generation)
  BY DEF Activated, InActivated
<1>4. InputsSeen'
  BY <1>2, <1>3 DEF InputsSeen
<1> QED BY <1>1, <1>4 DEF RunInv

LEMMA StartsRun ==
  ASSUME TypeOK, TypeOK', PendingListed, NegotiationInv, RunInv, stack # <<>>,
         Top.phase = "run", NEW n \in Node, Popped(n), Starts(n),
         UNCHANGED <<conns, maskVars, deps, written>>
  PROVE  RunInv'
<1>1. /\ Executing /\ ~ In("notify") /\ ~ Running
  BY DEF Executing, In, Running, Top
<1>2. /\ Top \in Frame /\ Top.loop = {} /\ Directions /\ Reached \subseteq Node
      /\ \A k \in Reached : deps[k] = Cardinality(Outstanding(k))
      /\ Listed /\ OutputsWritten /\ InputsSeen
  BY <1>1, RunFacts
<1>3. Top.list \in Seq(Node) /\ Top.list # <<>> /\ n = Head(Top.list)
  BY <1>2 DEF Frame, Popped
<1>4. /\ Range(Top.list) = Range(Tail(Top.list)) \cup {n} /\ n \notin Range(Tail(Top.list))
      /\ Distinct(Tail(Top.list)) /\ n \in Reached /\ marking[n] # "done" /\ deps[n] = 0
  BY <1>1, <1>2, <1>3, TailRange, TailDistinct DEF Listed
<1>5. /\ stack' # <<>> /\ Reached' = Reached /\ Top'.list = Tail(Top.list) /\ Top'.cur = n
      /\ Top'.ins = InMask(negotiated[n]) /\ Top'.outs = OutMask(negotiated[n])
      /\ Top'.phase \in {"skip", "call"}
      /\ Top'.phase = "skip" => \A i \in UsedMask(negotiated[n]) :
                                  ~ Activated(<<n, i>>, negotiated, generation')
      /\ UNCHANGED <<conns, negotiated>>
  BY <1>3 DEF Starts, SameCall, RestOf, maskVars
<1>6. \A k \in Node : marking'[k] = IF k = n THEN "processing" ELSE marking[k]
  BY DEF Starts, TypeOK
<1>7. \A p \in Port : (p[1] = n => p \in InPort) => generation'[p] = generation[p]
  <2>1. \A p \in Port : generation'[p] = IF p[1] = n /\ p[2] \in negotiated[n]["push_new"]
                                           THEN NextGeneration(generation[p]) ELSE generation[p]
    BY DEF Starts
  <2>2. \A p \in InPort : p[1] = n => p[2] \notin negotiated[n]["push_new"]
    <3>1. \A i \in negotiated[n]["push_new"] : <<n, i>> \in OutPort
      BY <1>2, <1>4 DEF Directions, OutMask
    <3> QED BY <3>1, PortsByDirection
  <2> QED BY <2>1, <2>2
<1>8. ~ In("notify")' /\ Executing' /\ Running' /\ \A k \in Node : Over(k)' <=> marking[k] = "done"
  <2>1. ~ In("notify")' /\ Executing' /\ Running'
    BY <1>5 DEF In, Executing, Running, Top
  <2> QED BY <1>4, <1>6, <2>1 DEF Over
<1>9. \A k \in Reached : k # n /\ Used(k)' => Used(k)
  <2> SUFFICES ASSUME NEW k \in Reached, k # n, NEW i \in UsedMask(negotiated[k]),
                      Activated(<<k, i>>, negotiated, generation)'
               PROVE  Activated(<<k, i>>, negotiated, generation)
    BY <1>5 DEF Used
  <2>1. \/ i \in InMask(negotiated[k]) /\ <<k, i>> \in InPort
        \/ i \in OutMask(negotiated[k]) /\ <<k, i>> \in OutPort
    BY <1>2 DEF Directions, UsedMask
  <2>2. CASE <<k, i>> \in InPort
    BY <1>5, <2>2, InputsStay
  <2>3. CASE <<k, i>> \in OutPort
    <3> DEFINE q == <<k, i>>
    <3>1. q \in Port /\ q \notin InPort /\ q[1] # n
      BY <2>3, PortsByDirection
    <3>2. ASSUME NEW j \in DOMAIN conns[q] PROVE generation'[conns[q][j]] = generation[conns[q][j]]
      <4>1. conns[q][j] \in InPort
        BY <2>3, ConnectedPorts
      <4> QED BY <1>7, <4>1, PortsByDirection
    <3>3. generation'[q] = generation[q]
      BY <1>7, <3>1
    <3> HIDE DEF q
    <3>4. OutActivated(q, negotiated, generation)' => OutActivated(q, negotiated, generation)
      BY <1>5, <3>2, <3>3 DEF OutActivated
    <3> QED BY <3>1, <3>4 DEF Activated, q
  <2> QED BY <2>1, <2>2, <2>3
<1>10. Listed'
  <2>1. Range(Top'.list) \subseteq Reached' /\ Distinct(Top'.list)
    BY <1>1, <1>2, <1>4, <1>5 DEF Listed
  <2>2. \A k \in Range(Top'.list) : deps'[k] = 0 /\ marking'[k] # "done"
    BY <1>1, <1>2, <1>4, <1>5, <1>6 DEF Listed
  <2>3. /\ Top'.cur \in Reached' /\ Top'.cur \notin Range(Top'.list)
        /\ deps'[Top'.cur] = 0 /\ marking'[Top'.cur] # "done"
        /\ Top'.ins = InMask(negotiated'[Top'.cur])
        /\ Top'.outs = OutMask(negotiated'[Top'.cur])
    BY <1>2, <1>4, <1>5, <1>6
  <2>4. (Top.phase = "skip" => \A i \in UsedMask(negotiated[Top.cur]) :
                                 ~ Activated(<<Top.cur, i>>, negotiated, generation))'
    BY <1>5 DEF Activated, InActivated, OutActivated
  <2>5. \A k \in Reached' : Used(k)' /\ deps'[k] = 0 /\ marking'[k] # "done" =>
          k \in Range(Top'.list) \/ k = Top'.cur
    BY <1>1, <1>2, <1>4, <1>5, <1>6, <1>9 DEF Listed
  <2> QED BY <1>5, <1>8, <2>1, <2>2, <2>3, <2>4, <2>5 DEF Listed
<1>11. CountersExact'
  <2>1. ASSUME NEW p \in InPort, InActivated(p, negotiated) PROVE Waits(p)' <=> Waits(p)
    <3>1. conns[p][1][1] \in Node
      BY <1>5, <2>1, InputsStay, ProducerOf
    <3>2. ~ Notified(p) /\ ~ Notified(p)'
      BY <1>1, <1>8 DEF Notified
    <3> QED BY <1>4, <1>5, <1>6, <3>1, <3>2 DEF Waits
  <2>2. \A k \in Reached : Outstanding(k)' = Outstanding(k)
    BY <1>2, <1>5, <2>1, OutstandingStays
  <2> QED BY <1>2, <1>5, <2>2 DEF CountersExact
<1>12. OutputsWritten'
  <2> SUFFICES ASSUME NEW p \in InPort, p[1] \in Reached, Activated(p, negotiated, generation)',
                      Over(conns[p][1][1])', conns[p][1][2] \in OutMask(negotiated[conns[p][1][1]])
               PROVE  conns[p][1] \in written'
    BY <1>5 DEF OutputsWritten
  <2>1. Activated(p, negotiated, generation) /\ conns[p][1][1] \in Node
    BY <1>5, InputsStay, ProducerOf
  <2>2. Over(conns[p][1][1])
    BY <1>8, <2>1 DEF Over
  <2> QED BY <1>1, <1>2, <2>1, <2>2 DEF OutputsWritten
<1>13. InputsSeen'
  <2> SUFFICES ASSUME NEW p \in InPort, Over(p[1])', Activated(p, negotiated, generation)'
               PROVE  /\ generation'[p] = generation'[conns[p][1]]
                      /\ marking'[conns[p][1][1]] = "done"
                      /\ conns[p][1] \in written'
    BY <1>5 DEF InputsSeen
  <2> DEFINE q == conns[p][1]
  <2>1. Activated(p, negotiated, generation) /\ q[1] \in Node /\ q \in Port
    BY <1>5, InputsStay, ProducerOf
  <2>2. p[1] \in Node /\ p \in Port
    BY PortsByDirection
  <2>3. marking[p[1]] = "done"
    BY <1>8, <2>2
  <2>4. generation[p] = generation[q] /\ marking[q[1]] = "done" /\ q \in written
    BY <1>2, <2>1, <2>3 DEF InputsSeen, Over
  <2>5. generation'[p] = generation[p] /\ generation'[q] = generation[q]
    BY <1>4, <1>7, <2>1, <2>2, <2>3, <2>4
  <2> QED BY <1>4, <1>6, <2>1, <2>4, <2>5
<1> QED BY <1>10, <1>11, <1>12, <1>13 DEF RunInv


(* An input of another node does not see data twice, and an output does    *)
(* not become used because an input has seen its data.                     *)
LEMMA SeenUsed ==
  ASSUME TypeOK, Directions, UNCHANGED <<conns, negotiated>>,
         \A q \in OutPort : generation'[q] = generation[q],
         \A p \in InPort : \/ generation'[p] = generation[p]
                           \/ generation'[p] = generation[conns[p][1]]
  PROVE  \A k \in Reached : Used(k)' => Used(k)
<1> SUFFICES ASSUME NEW k \in Reached, NEW i \in UsedMask(negotiated[k]),
                    Activated(<<k, i>>, negotiated, generation)'
             PROVE  Activated(<<k, i>>, negotiated, generation)
  BY DEF Used
<1>1. <<k, i>> \in InPort \/ <<k, i>> \in OutPort
  BY DEF Directions, UsedMask
<1>2. CASE <<k, i>> \in InPort
  BY <1>2, InputsStay
<1>3. CASE <<k, i>> \in OutPort
  <2> DEFINE q == <<k, i>>
  <2>1. q \notin InPort /\ generation'[q] = generation[q]
    BY <1>3, PortsByDirection
  <2>2. ASSUME NEW j \in DOMAIN conns[q], generation'[q] # generation'[conns[q][j]]
        PROVE  generation[q] # generation[conns[q][j]]
    <3>1. conns[q][j] \in InPort /\ conns[conns[q][j]][1] = q
      BY <1>3, ConnectedPorts
    <3> HIDE DEF q
    <3> QED BY <2>1, <2>2, <3>1
  <2> HIDE DEF q
  <2>3. OutActivated(q, negotiated, generation)' => OutActivated(q, negotiated, generation)
    BY <2>2 DEF OutActivated
  <2> QED BY <2>1, <2>3 DEF Activated, q
<1> QED BY <1>1, <1>2, <1>3

(* What a consumer waits for when the notification of n's consumers starts *)
LEMMA NobodyNotified ==
  ASSUME TypeOK, SameCall, UNCHANGED <<conns, negotiated, marking>>, ~ In("notify"),
         Top'.cur = Top.cur, Top'.work = Links(1, Top.cur, OutMask(negotiated[Top.cur])),
         NEW p \in InPort, InActivated(p, negotiated)
  PROVE  Waits(p)' <=> Waits(p)
<1> DEFINE q == conns[p][1]
<1>1. ~ Notified(p)
  BY DEF Notified
<1>2. CASE q[2] \notin OutMask(negotiated[q[1]])
  BY <1>2 DEF Waits
<1>3. CASE q[2] \in OutMask(negotiated[q[1]])
  <2>1. q = <<q[1], q[2]>> /\ \E k \in DOMAIN conns[q] : conns[q][k] = p
    BY ProducerOf DEF InActivated
  <2>2. PICK k \in DOMAIN conns[q] : conns[q][k] = p
    BY <2>1
  <2>3. Top.cur = q[1] => <<1, q[2], k>> \in Top'.work
    <3> HIDE DEF q
    <3> QED BY <1>3, <2>1, <2>2 DEF Links
  <2>4. conns[<<q[1], q[2]>>][k] = p
    <3> HIDE DEF q
    <3> QED BY <2>1, <2>2
  <2>5. PICK w : /\ Top'.cur = conns'[p][1][1] => w \in Top'.work
                 /\ conns'[<<conns'[p][1][1], w[2]>>][w[3]] = p
    <3> DEFINE w == <<1, q[2], k>>
    <3>1. w[2] = q[2] /\ w[3] = k
      OBVIOUS
    <3>2. (Top'.cur = conns'[p][1][1] => w \in Top'.work) /\ conns'[<<conns'[p][1][1], w[2]>>][w[3]] = p
      BY <2>3, <2>4, <3>1
    <3> HIDE DEF w
    <3> QED BY <3>2
  <2>6. ~ Notified(p)'
    BY <2>5 DEF Notified, Peer
  <2> QED BY <1>1, <2>6 DEF Waits
<1> QED BY <1>2, <1>3


LEMMA AfterProcessRun ==
  ASSUME TypeOK, TypeOK', OneCall, PendingListed, NegotiationInv, RunInv, ProcessSkip \/ ProcessOk
  PROVE  RunInv'
<1> DEFINE n == Top.cur
<1>1. /\ stack # <<>> /\ SameCall /\ Top'.phase = "notify"
      /\ Top.phase = (IF ProcessSkip THEN "skip" ELSE "call")
      /\ Top'.list = Top.list /\ Top'.cur = n /\ Top'.ins = Top.ins /\ Top'.outs = Top.outs
      /\ Top'.work = Links(1, n, Top.outs)
      /\ UNCHANGED <<conns, negotiated, deps, marking>>
  BY AfterProcessTop DEF maskVars
<1>2. /\ Executing /\ Running /\ ~ In("notify") /\ stack' # <<>> /\ Reached' = Reached
  BY <1>1 DEF Executing, Running, In, Top, SameCall
<1>3. /\ Directions /\ Reached \subseteq Node
      /\ \A k \in Reached : deps[k] = Cardinality(Outstanding(k))
      /\ Listed /\ OutputsWritten /\ InputsSeen
  BY <1>2, RunFacts
<1>4. /\ n \in Reached /\ n \notin Range(Top.list) /\ deps[n] = 0 /\ marking[n] # "done"
      /\ Top.ins = InMask(negotiated[n]) /\ Top.outs = OutMask(negotiated[n])
      /\ Top.phase = "skip" => \A i \in UsedMask(negotiated[n]) :
                                 ~ Activated(<<n, i>>, negotiated, generation)
  BY <1>2, <1>3 DEF Listed
<1>5. In("notify")' /\ Executing' /\ Running'
  BY <1>1, <1>2 DEF In, Executing, Running, Top
<1>6. \A k : Over(k)' <=> k = n \/ Over(k)
  BY <1>1, <1>2, <1>5 DEF Over
<1>7. \A p \in Port : generation'[p] = IF p[1] = n /\ p[2] \in Top.ins /\ conns[p] # <<>>
                                         THEN generation[conns[p][1]] ELSE generation[p]
  BY AfterProcessTop
<1>8. \A q \in OutPort : generation'[q] = generation[q]
  <2>1. \A q \in OutPort : q \in Port /\ (q[1] = n => q[2] \notin Top.ins)
    BY <1>3, <1>4, PortsByDirection DEF Directions
  <2> QED BY <1>7, <2>1
<1>9. \A p \in InPort : \/ generation'[p] = generation[p]
                        \/ generation'[p] = generation[conns[p][1]]
  BY <1>7, PortsByDirection
<1> HIDE DEF n
<1>10. Listed'
  <2>1. \A k \in Reached : Used(k)' => Used(k)
    BY <1>1, <1>3, <1>8, <1>9, SeenUsed
  <2>2. /\ Range(Top'.list) \subseteq Reached' /\ Distinct(Top'.list)
        /\ \A k \in Range(Top'.list) : deps'[k] = 0 /\ marking'[k] # "done"
    BY <1>1, <1>2, <1>3 DEF Listed
  <2>3. /\ Top'.cur \in Reached' /\ Top'.cur \notin Range(Top'.list)
        /\ deps'[Top'.cur] = 0 /\ marking'[Top'.cur] # "done"
        /\ Top'.ins = InMask(negotiated'[Top'.cur])
        /\ Top'.outs = OutMask(negotiated'[Top'.cur])
    BY <1>1, <1>2, <1>4
  <2>4. Top'.work \subseteq Links(1, Top.cur, Top.outs)'
    BY <1>1 DEF Links, n
  <2>5. \A k \in Reached' : Used(k)' /\ deps'[k] = 0 /\ marking'[k] # "done" =>
          k \in Range(Top'.list) \/ k = Top'.cur
    BY <1>1, <1>2, <1>3, <2>1 DEF Listed, n
  <2> QED BY <1>1, <1>5, <2>2, <2>3, <2>4, <2>5 DEF Listed
<1>11. CountersExact'
  <2>1. Top'.work = Links(1, Top.cur, OutMask(negotiated[Top.cur])) /\ Top'.cur = Top.cur
    BY <1>1, <1>4 DEF n
  <2>2. \A p \in InPort : InActivated(p, negotiated) => (Waits(p)' <=> Waits(p))
    BY <1>1, <1>2, <2>1, NobodyNotified
  <2>3. \A k \in Reached : Outstanding(k)' = Outstanding(k)
    BY <1>1, <1>3, <2>2, OutstandingStays
  <2> QED BY <1>1, <1>2, <1>3, <2>3 DEF CountersExact
<1>12. OutputsWritten'
  <2> SUFFICES ASSUME NEW p \in InPort, p[1] \in Reached, Activated(p, negotiated, generation)',
                      Over(conns[p][1][1])', conns[p][1][2] \in OutMask(negotiated[conns[p][1][1]])
               PROVE  conns[p][1] \in written'
    BY <1>1, <1>2 DEF OutputsWritten
  <2> DEFINE q == conns[p][1]
  <2>1. Activated(p, negotiated, generation) /\ InActivated(p, negotiated)
    BY <1>1, InputsStay
  <2>2. Activated(q, negotiated, generation) /\ q \in OutPort /\ q = <<q[1], q[2]>>
    BY <2>1, ProducerActivated, ProducerOf DEF InActivated
  <2>3. written \subseteq written'
    BY DEF ProcessSkip, ProcessOk
  <2>4. CASE Over(q[1])
    BY <1>2, <1>3, <2>1, <2>3, <2>4 DEF OutputsWritten
  <2>5. CASE q[1] = n
    <3>1. CASE ProcessSkip
      <4>1. q[2] \in UsedMask(negotiated[n]) /\ q = <<n, q[2]>>
        BY <2>2, <2>5 DEF UsedMask
      <4> QED BY <1>1, <1>4, <2>2, <3>1, <4>1
    <3>2. CASE ProcessOk
      <4>1. written' = written \cup
              {x \in OutPort : x[1] = n /\ Activated(x, negotiated, generation)}
        BY <3>2 DEF ProcessOk, n
      <4> HIDE DEF q
      <4>2. q \in written'
        BY <2>2, <2>5, <4>1
      <4> QED BY <4>2 DEF q
    <3> QED BY <3>1, <3>2
  <2>6. Over(q[1]) \/ q[1] = n
    BY <1>1 DEF Over
  <2> QED BY <2>4, <2>5, <2>6
<1>13. InputsSeen'
  <2> SUFFICES ASSUME NEW p \in InPort, Over(p[1])', Activated(p, negotiated, generation)'
               PROVE  /\ generation'[p] = generation'[conns[p][1]]
                      /\ marking'[conns[p][1][1]] = "done"
                      /\ conns[p][1] \in written'
    BY <1>1 DEF InputsSeen
  <2> DEFINE q == conns[p][1]
  <2>1. Activated(p, negotiated, generation) /\ InActivated(p, negotiated)
        /\ conns[p] # <<>> /\ p[2] \in InMask(negotiated[p[1]])
    BY <1>1, InputsStay
  <2>2. q \in OutPort /\ p \in Port /\ p = <<p[1], p[2]>>
    BY <2>1, ProducerOf, PortsByDirection
  <2>3. generation'[q] = generation[q]
    BY <1>8, <2>2
  <2>4. CASE p[1] # n
    <3>1. generation[p] = generation[q] /\ marking[q[1]] = "done" /\ q \in written
      BY <1>3, <1>6, <2>1, <2>4 DEF InputsSeen
    <3>2. generation'[p] = generation[p]
      BY <1>7, <2>2, <2>4
    <3>3. q \in written'
      BY <3>1 DEF ProcessSkip, ProcessOk
    <3> QED BY <1>1, <2>3, <3>1, <3>2, <3>3
  <2>5. CASE p[1] = n
    <3>1. Outstanding(n) = {}
      BY <1>2, <1>4, NothingOutstanding
    <3>2. ~ Waits(p)
      BY <1>3, <1>4, <2>1, <2>2, <2>5, <3>1, OutstandingMember
    <3>3. marking[q[1]] = "done" /\ q[2] \in OutMask(negotiated[q[1]])
      BY <1>2, <3>2 DEF Waits, Notified
    <3>4. generation'[p] = generation[q]
      BY <1>4, <1>7, <2>1, <2>2, <2>5
    <3>5. q \in written
      BY <1>2, <1>3, <1>4, <2>1, <2>5, <3>3 DEF OutputsWritten, Over
    <3>6. q \in written'
      BY <3>5 DEF ProcessSkip, ProcessOk
    <3> QED BY <1>1, <2>3, <3>3, <3>4, <3>6
  <2> QED BY <2>4, <2>5
<1> QED BY <1>10, <1>11, <1>12, <1>13 DEF RunInv


(* The consumer that the work item w leads to                              *)
LEMMA ConsumerOf ==
  ASSUME TypeOK, PendingListed, NegotiationInv, RunInv, stack # <<>>, Top.phase = "notify",
         NEW w \in Top.work
  PROVE  LET c == Peer(Top.cur, w) IN
           /\ c \in InPort /\ c = <<c[1], c[2]>> /\ conns[c] # <<>>
           /\ conns[c][1][1] = Top.cur /\ conns[c][1][2] \in OutMask(negotiated[Top.cur])
           /\ c[1] \in Reached /\ c[1] # Top.cur
           /\ \A v \in Top.work : Peer(Top.cur, v) = c => v = w
<1> DEFINE n == Top.cur
           c == Peer(n, w)
<1>1. /\ Executing /\ Running /\ Directions /\ Listed
  BY RunFacts DEF Executing, Running
<1>2. n \in Reached /\ Top.outs = OutMask(negotiated[n]) /\ Top.work \subseteq Links(1, n, Top.outs)
  BY <1>1 DEF Listed
<1>3. ASSUME NEW v \in Top.work
      PROVE  /\ v = <<1, v[2], v[3]>> /\ v[2] \in OutMask(negotiated[n])
             /\ v[3] \in DOMAIN conns[<<n, v[2]>>] /\ Peer(n, v) = conns[<<n, v[2]>>][v[3]]
             /\ <<n, v[2]>> \in OutPort
             /\ Peer(n, v) \in InPort /\ conns[Peer(n, v)] # <<>> /\ conns[Peer(n, v)][1] = <<n, v[2]>>
  <2>1. v \in Links(1, n, Top.outs)
    BY <1>2
  <2>2. PICK i \in Top.outs : v \in {<<1, i, j>> : j \in DOMAIN conns[<<n, i>>]}
    BY <2>1 DEF Links
  <2>3. PICK j \in DOMAIN conns[<<n, i>>] : v = <<1, i, j>>
    BY <2>2
  <2>4. v[2] = i /\ v[3] = j
    BY <2>3
  <2>5. <<n, i>> \in OutPort
    BY <1>1, <1>2 DEF Directions
  <2> DEFINE q == <<n, i>>
  <2> HIDE DEF q
  <2>6. conns[q][j] \in InPort /\ conns[conns[q][j]] # <<>> /\ conns[conns[q][j]][1] = q
    BY <2>3, <2>5, ConnectedPorts DEF q
  <2> QED BY <1>2, <2>3, <2>4, <2>5, <2>6 DEF q, Peer
<1>4. /\ c \in InPort /\ conns[c] # <<>> /\ conns[c][1] = <<n, w[2]>>
      /\ w[2] \in OutMask(negotiated[n])
  BY <1>3
<1>5. c = <<c[1], c[2]>> /\ (conns[c][1][1] \in Reached <=> c[1] \in Reached) /\ conns[c][1][1] # c[1]
  <2> HIDE DEF c
  <2> QED BY <1>4, PortsByDirection, ProducerOf
<1>6. ASSUME NEW v \in Top.work, Peer(n, v) = c PROVE v = w
  <2>1. <<n, v[2]>> = <<n, w[2]>>
    BY <1>3, <1>4, <1>6
  <2>2. v[2] = w[2]
    BY <2>1
  <2> DEFINE q == <<n, w[2]>>
  <2>3. v[3] \in DOMAIN conns[q] /\ w[3] \in DOMAIN conns[q] /\ conns[q][v[3]] = conns[q][w[3]]
    BY <1>3, <1>6, <2>2
  <2>4. q \in Port
    BY <1>3, PortsByDirection
  <2> HIDE DEF q
  <2>5. v[3] = w[3]
    BY <2>3, <2>4, ConnectedPorts
  <2>6. v = <<1, v[2], v[3]>> /\ w = <<1, w[2], w[3]>>
    BY <1>3
  <2> QED BY <2>2, <2>5, <2>6
<1> HIDE DEF c
<1> QED BY <1>2, <1>4, <1>5, <1>6 DEF c

(* A consumer that has not been notified is still waiting.                 *)
LEMMA ConsumerWaits ==
  ASSUME TypeOK, PendingListed, NegotiationInv, RunInv, stack # <<>>, Top.phase = "notify",
         NEW w \in Top.work, Activated(Peer(Top.cur, w), negotiated, generation)
  PROVE  LET c == Peer(Top.cur, w) IN
           /\ c[2] \in Outstanding(c[1]) /\ deps[c[1]] # 0 /\ ~ Over(c[1])
<1> DEFINE n == Top.cur
           c == Peer(n, w)
<1>1. /\ c \in InPort /\ c = <<c[1], c[2]>> /\ conns[c] # <<>>
      /\ conns[c][1][1] = n /\ c[1] \in Reached /\ c[1] # n
  BY ConsumerOf
<1>2. Executing /\ Running /\ In("notify")
  BY DEF Executing, Running, In, Top
<1>3. /\ Directions /\ Listed /\ InputsSeen /\ marking[n] # "done"
      /\ Reached \subseteq Node
      /\ \A k \in Reached : deps[k] = Cardinality(Outstanding(k))
  BY <1>2, RunFacts DEF Listed
<1>4. InActivated(c, negotiated) /\ c[2] \in InMask(negotiated[c[1]])
  <2> HIDE DEF c
  <2> QED BY <1>1 DEF Activated, InActivated, InMask, c
<1>5. ~ Notified(c)
  BY <1>1 DEF Notified
<1>6. Waits(c)
  BY <1>1, <1>3, <1>5 DEF Waits
<1>7. Activated(c, negotiated, generation)
  OBVIOUS
<1> HIDE DEF c, n
<1>8. c[2] \in Outstanding(c[1])
  BY <1>1, <1>3, <1>4, <1>6, OutstandingMember
<1>9. deps[c[1]] # 0
  <2>1. c[1] \in Node /\ deps[c[1]] = Cardinality(Outstanding(c[1]))
    BY <1>1, <1>3
  <2>2. IsFiniteSet(Outstanding(c[1]))
    BY <2>1, OutstandingFinite
  <2> QED BY <1>8, <2>1, <2>2, FS_EmptySet
<1>10. ~ Over(c[1])
  BY <1>1, <1>3, <1>7 DEF InputsSeen
<1> QED BY <1>8, <1>9, <1>10 DEF c, n


LEMMA NotifiesRun ==
  ASSUME TypeOK, TypeOK', PendingListed, NegotiationInv, RunInv, stack # <<>>,
         Top.phase = "notify", NEW w \in Top.work, Notifies(w),
         UNCHANGED <<conns, maskVars, marking, generation, written>>
  PROVE  RunInv'
<1> DEFINE n == Top.cur
           c == Peer(n, w)
           m == c[1]
           used == Activated(c, negotiated, generation)
<1>1. /\ Executing /\ Running /\ In("notify") /\ stack' # <<>> /\ Reached' = Reached
      /\ UNCHANGED <<conns, negotiated>>
  BY DEF Executing, Running, In, Top, Notifies, SameCall, maskVars
<1>2. /\ Directions /\ Reached \subseteq Node /\ Top \in Frame
      /\ \A k \in Reached : deps[k] = Cardinality(Outstanding(k)) /\ deps[k] \in Nat
      /\ Listed /\ OutputsWritten /\ InputsSeen
  BY <1>1, RunFacts
<1>3. /\ n \in Reached /\ n \notin Range(Top.list) /\ deps[n] = 0 /\ marking[n] # "done"
      /\ Top.ins = InMask(negotiated[n]) /\ Top.outs = OutMask(negotiated[n])
      /\ Top.work \subseteq Links(1, n, Top.outs)
      /\ Range(Top.list) \subseteq Reached /\ Distinct(Top.list)
      /\ \A k \in Range(Top.list) : deps[k] = 0 /\ marking[k] # "done"
  BY <1>1, <1>2 DEF Listed
<1>4. /\ c \in InPort /\ c = <<m, c[2]>> /\ conns[c] # <<>> /\ conns[c][1][1] = n
      /\ m \in Reached /\ m # n /\ \A v \in Top.work : Peer(n, v) = c => v = w
  BY ConsumerOf
<1>5. /\ used <=> InActivated(c, negotiated)
      /\ used => c[2] \in Outstanding(m) /\ deps[m] # 0 /\ ~ Over(m)
  <2>1. used <=> InActivated(c, negotiated)
    <3> HIDE DEF c
    <3> QED BY <1>4 DEF Activated, c
  <2> QED BY <2>1, ConsumerWaits
<1>6. /\ Top'.phase = "notify" /\ Top'.cur = n /\ Top'.ins = Top.ins /\ Top'.outs = Top.outs
      /\ Top'.work = Top.work \ {w}
  BY DEF Notifies
<1>7. IF used THEN /\ deps' = [deps EXCEPT ![m] = @ - 1]
                   /\ Top'.list = IF deps[m] = 1 THEN Cons(m, Top.list) ELSE Top.list
              ELSE deps' = deps /\ Top'.list = Top.list
  BY DEF Notifies
<1>8. In("notify")' /\ Executing' /\ Running'
  BY <1>1, <1>6 DEF In, Executing, Running, Top
<1>9. \A k : Over(k)' <=> Over(k)
  BY <1>1, <1>6, <1>8 DEF Over
<1>10. \A k \in Node : deps'[k] = IF used /\ k = m THEN deps[k] - 1 ELSE deps[k]
  <2> HIDE DEF m, used
  <2> QED BY <1>2, <1>4, <1>7 DEF TypeOK
<1>11. \A k \in Reached : Used(k)' <=> Used(k)
  BY <1>1 DEF Used, Activated, InActivated, OutActivated
<1>12. \A v : Peer(n, v)' = Peer(n, v)
  BY <1>1, <1>6 DEF Peer
<1> HIDE DEF c, used, m, n
<1>13. Listed'
  <2>1. /\ Range(Top'.list) = Range(Top.list) \cup (IF used /\ deps[m] = 1 THEN {m} ELSE {})
        /\ Distinct(Top'.list)
    <3>1. Top.list \in Seq(Node) /\ m \in Node
      BY <1>2, <1>4 DEF Frame
    <3>2. CASE used /\ deps[m] = 1
      <4>1. m \notin Range(Top.list)
        BY <1>3, <3>2
      <4>2. Top'.list = Cons(m, Top.list)
        BY <1>7, <3>2
      <4> QED BY <1>3, <3>1, <3>2, <4>1, <4>2, ConsProperties, ConsDistinct
    <3>3. CASE ~ (used /\ deps[m] = 1)
      BY <1>3, <1>7, <3>3
    <3> QED BY <3>2, <3>3
  <2>2. Range(Top'.list) \subseteq Reached'
    BY <1>1, <1>3, <1>4, <2>1
  <2>3. \A k \in Range(Top'.list) : deps'[k] = 0 /\ marking'[k] # "done"
    <3> SUFFICES ASSUME NEW k \in Range(Top'.list) PROVE deps'[k] = 0 /\ marking[k] # "done"
      OBVIOUS
    <3>1. CASE used /\ k = m /\ deps[m] = 1
      <4>1. deps'[k] = 0
        BY <1>2, <1>4, <1>10, <3>1
      <4> QED BY <1>5, <3>1, <4>1 DEF Over
    <3>2. CASE ~ (used /\ k = m /\ deps[m] = 1)
      <4>1. k \in Range(Top.list) /\ deps[k] = 0 /\ marking[k] # "done" /\ k \in Node
        BY <1>2, <1>3, <2>1, <3>2
      <4> QED BY <1>5, <1>10, <4>1
    <3> QED BY <3>1, <3>2
  <2>4. /\ Top'.cur \in Reached' /\ Top'.cur \notin Range(Top'.list)
        /\ deps'[Top'.cur] = 0 /\ marking'[Top'.cur] # "done"
        /\ Top'.ins = InMask(negotiated'[Top'.cur])
        /\ Top'.outs = OutMask(negotiated'[Top'.cur])
    BY <1>1, <1>2, <1>3, <1>4, <1>6, <1>10, <2>1
  <2>5. Top'.work \subseteq Links(1, Top.cur, Top.outs)'
    <3>1. Links(1, Top.cur, Top.outs)' = Links(1, n, Top.outs)
      BY <1>1, <1>6 DEF Links
    <3> QED BY <1>3, <1>6, <3>1
  <2>6. ASSUME NEW k \in Reached, Used(k), deps'[k] = 0, marking[k] # "done"
        PROVE  k \in Range(Top'.list) \/ k = n
    <3>1. CASE used /\ k = m
      <4>1. deps[m] = 1
        BY <1>2, <1>4, <1>10, <2>6, <3>1
      <4> QED BY <2>1, <3>1, <4>1
    <3>2. CASE ~ (used /\ k = m)
      <4>1. deps[k] = 0
        BY <1>2, <1>10, <2>6, <3>2
      <4> QED BY <1>1, <1>2, <2>1, <2>6, <4>1 DEF Listed, n
    <3> QED BY <3>1, <3>2
  <2>7. \A k \in Reached' : Used(k)' /\ deps'[k] = 0 /\ marking'[k] # "done" =>
          k \in Range(Top'.list) \/ k = Top'.cur
    BY <1>1, <1>6, <1>11, <2>6
  <2> QED BY <1>6, <1>8, <2>1, <2>2, <2>3, <2>4, <2>5, <2>7 DEF Listed
<1>14. CountersExact'
  <2>1. ASSUME NEW p \in InPort, InActivated(p, negotiated)
        PROVE  Waits(p)' <=> Waits(p) /\ p # c
    <3>1. p # c => (Notified(p)' <=> Notified(p))
      BY <1>1, <1>6, <1>8, <1>12 DEF Notified, n, c
    <3>2. p = c => Notified(p)'
      BY <1>1, <1>4, <1>6, <1>8 DEF Notified, Peer
    <3>3. p = c => conns[c][1][2] \in OutMask(negotiated[n])
      BY ConsumerOf DEF c, n
    <3> QED BY <1>1, <1>4, <3>1, <3>2, <3>3 DEF Waits
  <2>2. ASSUME NEW k \in Reached
        PROVE  Outstanding(k)' = IF used /\ k = m THEN Outstanding(k) \ {c[2]} ELSE Outstanding(k)
    <3>1. ASSUME NEW i PROVE i \in Outstanding(k)' <=> i \in Outstanding(k) /\ <<k, i>> # c
      <4>1. ASSUME i \in InMask(negotiated[k]), InActivated(<<k, i>>, negotiated)
            PROVE  Waits(<<k, i>>)' <=> Waits(<<k, i>>) /\ <<k, i>> # c
        <5>1. <<k, i>> \in InPort
          BY <1>2, <4>1 DEF Directions
        <5> QED BY <2>1, <4>1, <5>1
      <4>2. i \in Outstanding(k)' <=>
              /\ i \in InMask(negotiated[k]) /\ InActivated(<<k, i>>, negotiated)
              /\ Waits(<<k, i>>)'
        BY <1>1, <1>2, OutstandingNext
      <4>3. i \in Outstanding(k) <=>
              /\ i \in InMask(negotiated[k]) /\ InActivated(<<k, i>>, negotiated)
              /\ Waits(<<k, i>>)
        BY <1>2, OutstandingMember
      <4> QED BY <4>1, <4>2, <4>3
    <3>2. CASE k = m
      <4>1. \A i : <<k, i>> = c <=> i = c[2]
        BY <1>4, <3>2
      <4>2. ~ used => c[2] \notin Outstanding(k)
        BY <1>2, <1>4, <1>5, <3>2, OutstandingMember
      <4>3. CASE used
        BY <3>1, <3>2, <4>1, <4>3
      <4>4. CASE ~ used
        BY <3>1, <3>2, <4>1, <4>2, <4>4
      <4> QED BY <4>3, <4>4
    <3>3. CASE k # m
      <4>1. \A i : <<k, i>> # c
        BY <1>4, <3>3
      <4> QED BY <3>1, <3>3, <4>1
    <3> QED BY <3>2, <3>3
  <2>3. ASSUME NEW k \in Reached PROVE deps'[k] = Cardinality(Outstanding(k)')
    <3>1. CASE used /\ k = m
      <4>1. k \in Node /\ IsFiniteSet(Outstanding(k)) /\ c[2] \in Outstanding(k)
        BY <1>2, <1>5, <3>1, OutstandingFinite
      <4>2. Cardinality(Outstanding(k) \ {c[2]}) = Cardinality(Outstanding(k)) - 1
        BY <4>1, FS_RemoveElement
      <4> QED BY <1>2, <1>10, <2>2, <3>1, <4>1, <4>2
    <3>2. CASE ~ (used /\ k = m)
      BY <1>2, <1>10, <2>2, <3>2
    <3> QED BY <3>1, <3>2
  <2> QED BY <1>1, <2>3 DEF CountersExact
<1>15. OutputsWritten'
  <2> SUFFICES ASSUME NEW p \in InPort, p[1] \in Reached, Activated(p, negotiated, generation)',
                      Over(conns[p][1][1])', conns[p][1][2] \in OutMask(negotiated[conns[p][1][1]])
               PROVE  conns[p][1] \in written
    BY <1>1 DEF OutputsWritten
  <2>1. Activated(p, negotiated, generation)
    BY <1>1, InputsStay
  <2>2. Over(conns[p][1][1])
    BY <1>1, <1>6 DEF Over, n
  <2> QED BY <1>1, <1>2, <2>1, <2>2 DEF OutputsWritten
<1>16. InputsSeen'
  <2> SUFFICES ASSUME NEW p \in InPort, Over(p[1])', Activated(p, negotiated, generation)'
               PROVE  /\ generation[p] = generation[conns[p][1]]
                      /\ marking[conns[p][1][1]] = "done"
                      /\ conns[p][1] \in written
    BY <1>1 DEF InputsSeen
  <2>1. Activated(p, negotiated, generation) /\ Over(p[1])
    BY <1>1, <1>9, InputsStay
  <2> QED BY <1>2, <2>1 DEF InputsSeen
<1> QED BY <1>13, <1>14, <1>15, <1>16 DEF RunInv


LEMMA NotifyEndRun ==
  ASSUME TypeOK, TypeOK', OneCall, PendingListed, NegotiationInv, RunInv, NotifyEnd
  PROVE  RunInv'
<1> DEFINE n == Top.cur
<1>1. /\ stack # <<>> /\ Top.phase = "notify" /\ Top.work = {} /\ stack' # <<>>
      /\ Reached' = Reached /\ Top'.phase = "run" /\ Top'.list = Top.list
      /\ marking' = [marking EXCEPT ![n] = "done"]
      /\ UNCHANGED <<conns, negotiated, deps, generation, written>>
  BY NotifyEndTop DEF SameCall, maskVars
<1>2. /\ Executing /\ Running /\ In("notify") /\ Executing' /\ ~ Running' /\ ~ In("notify")'
  BY <1>1 DEF Executing, Running, In, Top
<1>3. /\ Directions /\ Reached \subseteq Node
      /\ \A k \in Reached : deps[k] = Cardinality(Outstanding(k))
      /\ Listed /\ OutputsWritten /\ InputsSeen
  BY <1>2, RunFacts
<1>4. n \in Reached /\ n \notin Range(Top.list)
  BY <1>2, <1>3 DEF Listed
<1>5. \A k \in Node : marking'[k] = IF k = n THEN "done" ELSE marking[k]
  BY <1>1 DEF TypeOK
<1>6. \A k \in Node : Over(k)' <=> Over(k)
  BY <1>2, <1>5 DEF Over
<1>7. \A k : Used(k)' <=> Used(k)
  BY <1>1 DEF Used, Activated, InActivated, OutActivated
<1>8. \A k \in Node : marking[k] = "done" => marking'[k] = "done"
  BY <1>5
<1> HIDE DEF n
<1>9. Listed'
  <2>1. /\ Range(Top'.list) \subseteq Reached' /\ Distinct(Top'.list)
        /\ \A k \in Range(Top'.list) : deps'[k] = 0 /\ marking'[k] # "done"
    BY <1>1, <1>2, <1>3, <1>4, <1>5 DEF Listed
  <2>2. \A k \in Reached' : Used(k)' /\ deps'[k] = 0 /\ marking'[k] # "done" =>
          k \in Range(Top'.list)
    BY <1>1, <1>2, <1>3, <1>5, <1>7 DEF Listed, n
  <2> QED BY <1>1, <1>2, <2>1, <2>2 DEF Listed
<1>10. CountersExact'
  <2>1. ASSUME NEW p \in InPort, InActivated(p, negotiated) PROVE Waits(p)' <=> Waits(p)
    <3>1. conns[p][1][1] \in Node
      BY <2>1, ProducerOf DEF InActivated
    <3>2. Notified(p) <=> conns[p][1][1] = n
      BY <1>1, <1>2 DEF Notified, n
    <3>3. ~ Notified(p)'
      BY <1>2 DEF Notified
    <3> QED BY <1>1, <1>5, <3>1, <3>2, <3>3 DEF Waits
  <2>2. \A k \in Reached : Outstanding(k)' = Outstanding(k)
    BY <1>1, <1>3, <2>1, OutstandingStays
  <2> QED BY <1>1, <1>2, <1>3, <2>2 DEF CountersExact
<1>11. OutputsWritten'
  <2> SUFFICES ASSUME NEW p \in InPort, p[1] \in Reached, Activated(p, negotiated, generation)',
                      Over(conns[p][1][1])', conns[p][1][2] \in OutMask(negotiated[conns[p][1][1]])
               PROVE  conns[p][1] \in written
    BY <1>1 DEF OutputsWritten
  <2>1. Activated(p, negotiated, generation) /\ conns[p][1][1] \in Node
    BY <1>1, InputsStay, ProducerOf
  <2>2. Over(conns[p][1][1])
    BY <1>1, <1>2, <1>5, <2>1 DEF Over, n
  <2> QED BY <1>2, <1>3, <2>1, <2>2 DEF OutputsWritten
<1>12. InputsSeen'
  <2> SUFFICES ASSUME NEW p \in InPort, Over(p[1])', Activated(p, negotiated, generation)'
               PROVE  /\ generation[p] = generation[conns[p][1]]
                      /\ marking'[conns[p][1][1]] = "done"
                      /\ conns[p][1] \in written
    BY <1>1 DEF InputsSeen
  <2>1. Activated(p, negotiated, generation) /\ Over(p[1]) /\ conns[p][1][1] \in Node
    BY <1>1, <1>6, InputsStay, ProducerOf, PortsByDirection
  <2> QED BY <1>3, <1>8, <2>1 DEF InputsSeen
<1> QED BY <1>9, <1>10, <1>11, <1>12 DEF RunInv

LEMMA ExecuteRun ==
  ASSUME TypeOK, TypeOK', OneCall, PendingListed, NegotiationInv, RunInv, Execute
  PROVE  RunInv' /\ (stack' = <<>> /\ ret' = "error" => Top.phase = "call")
<1>1. stack # <<>> /\ Executing
  BY ExecuteOnward DEF Executing
<1>2. Listed /\ InputsSeen /\ Top.loop = {} /\ Top \in Frame
  BY <1>1, RunFacts
<1>3. CASE ProcessStart
  <2>1. /\ Top.phase = "run" /\ UNCHANGED <<conns, maskVars, deps, written>>
    BY <1>3, ProcessStartTop
  <2>2. PICK n \in Node : /\ Popped(n)
                          /\ \/ Starts(n)
                             \/ /\ deps[n] # 0 /\ stack' = <<>> /\ ret' = "error"
                                /\ UNCHANGED <<marking, generation>>
    BY <1>3, ProcessStartTop
  <2>3. deps[n] = 0
    <3>1. Top.list \in Seq(Node) /\ Top.list # <<>> /\ n = Head(Top.list)
      BY <1>2, <2>2 DEF Popped, Frame
    <3>2. n \in Range(Top.list)
      BY <3>1, TailRange
    <3> QED BY <1>1, <1>2, <3>2 DEF Listed
  <2>4. Starts(n) /\ stack' # <<>>
    BY <2>2, <2>3 DEF Starts, SameCall
  <2> QED BY <1>1, <2>1, <2>2, <2>4, StartsRun
<1>4. CASE ProcessSkip \/ ProcessOk
  BY <1>4, AfterProcessRun, AfterProcessTop DEF SameCall
<1>5. CASE ProcessFail
  <2>1. /\ Top.phase = "call" /\ Return("error")
        /\ UNCHANGED <<conns, maskVars, deps, marking, generation, written>>
    BY <1>5 DEF ProcessFail, In, Top
  <2>2. stack' = <<>> /\ UNCHANGED <<conns, negotiated, marking, generation, written>>
    BY <1>1, <2>1, ReturnTop DEF maskVars
  <2> QED BY <1>2, <2>1, <2>2, ReturnRun
<1>6. CASE RunEnd
  <2>1. /\ Return("ok")
        /\ UNCHANGED <<conns, maskVars, deps, marking, generation, written>>
    BY <1>6 DEF RunEnd
  <2>2. stack' = <<>> /\ ret' = "ok" /\ UNCHANGED <<conns, negotiated, marking, generation, written>>
    BY <1>1, <2>1, ReturnTop DEF maskVars
  <2> QED BY <1>2, <2>2, ReturnRun
<1>7. CASE Notify
  <2>1. /\ Top.phase = "notify"
        /\ UNCHANGED <<conns, maskVars, marking, generation, written>>
    BY <1>7, NotifyTop
  <2>2. PICK w \in Top.work :
          \/ Notifies(w)
          \/ LET q == Peer(Top.cur, w) IN
               /\ Activated(q, negotiated, generation) /\ deps[q[1]] = 0
               /\ stack' = <<>> /\ ret' = "error" /\ deps' = deps
    BY <1>7, NotifyTop
  <2>3. Notifies(w) /\ stack' # <<>>
    BY <1>1, <2>1, <2>2, ConsumerWaits DEF Notifies, SameCall
  <2> QED BY <1>1, <2>1, <2>3, NotifiesRun
<1>8. CASE NotifyEnd
  BY <1>8, NotifyEndRun, NotifyEndTop DEF SameCall
<1> QED BY <1>3, <1>4, <1>5, <1>6, <1>7, <1>8 DEF Execute


-----------------------------------------------------------------------------
(* The inductive invariant                                                 *)

CallInv == OneCall /\ PendingListed /\ CausesFollowed
ExecInv == NegotiationInv /\ RootsFound /\ RunInv

LEMMA ExecuteTop ==
  ASSUME TypeOK, TypeOK', OneCall, Execute
  PROVE  /\ stack # <<>> /\ UNCHANGED <<conns, maskVars>>
         /\ \/ stack' = <<>>
            \/ SameCall /\ Top'.phase \in {"run", "call", "skip", "notify"}
<1>1. stack # <<>> /\ UNCHANGED <<conns, maskVars>>
  BY ExecuteOnward DEF Onward
<1>2. CASE ProcessStart
  BY <1>1, <1>2, ProcessStartTop DEF Starts
<1>3. CASE ProcessSkip \/ ProcessOk
  BY <1>1, <1>3, AfterProcessTop
<1>4. CASE ProcessFail \/ RunEnd
  BY <1>1, <1>4, ReturnTop DEF ProcessFail, RunEnd
<1>5. CASE Notify
  BY <1>1, <1>5, NotifyTop DEF Notifies
<1>6. CASE NotifyEnd
  BY <1>1, <1>6, NotifyEndTop
<1> QED BY <1>2, <1>3, <1>4, <1>5, <1>6 DEF Execute

(* While no node runs, what is said of the execution is what earlier calls *)
(* left behind.                                                            *)
LEMMA BeforeRun ==
  ASSUME stack' # <<>>, Top'.phase \in {"converge", "eval", "roots"}, InputsSeen'
  PROVE  RunInv' /\ (Top'.phase # "roots" => RootsFound')
<1>1. ~ Executing'
  BY DEF Executing
<1> QED BY <1>1 DEF RunInv, Listed, CountersExact, OutputsWritten, RootsFound

LEMMA NoCall ==
  ASSUME stack' = <<>>
  PROVE  NegotiationInv' /\ RootsFound'
BY DEF NegotiationInv, WordsDirected, NewsAnnounced, CountersBetween, MarkingsReset, RootsFound

LEMMA StartExec ==
  ASSUME TypeOK, TypeOK', Responsive, ExecInv, Start
  PROVE  ExecInv'
<1>1. NegotiationInv'
  BY StartNegotiation
<1>2. InputsSeen'
  BY StartSeen DEF ExecInv, RunInv
<1>3. stack' # <<>> /\ Top'.phase = "converge"
  BY StartTop
<1> QED BY <1>1, <1>2, <1>3, BeforeRun DEF ExecInv

LEMMA NegotiateExec ==
  ASSUME TypeOK, TypeOK', Responsive, CallInv, ExecInv, Negotiate
  PROVE  ExecInv'
<1>1. NegotiationInv /\ InputsSeen /\ OneCall /\ PendingListed /\ CausesFollowed
  BY DEF ExecInv, RunInv, CallInv
<1>2. CASE EvalStart \/ EvalEnd
  <2>1. /\ stack # <<>> /\ Top.phase \in {"converge", "eval"}
        /\ stack' # <<>> /\ Top'.phase \in {"converge", "eval"}
        /\ UNCHANGED <<conns, negotiated, marking, generation, written>>
    BY <1>1, <1>2, EvalStartTop, EvalEndTop DEF SameCall, maskVars
  <2>2. NegotiationInv'
    BY <1>1, <1>2, EvalStartNegotiation, EvalEndNegotiation
  <2>3. ~ In("notify")' /\ \A n \in Reached : marking'[n] # "done"
    BY <1>1, <2>1 DEF In, Top, NegotiationInv, MarkingsReset
  <2>4. InputsSeen'
    BY <1>1, <2>1, <2>3, MarkedSeen
  <2> QED BY <2>1, <2>2, <2>4, BeforeRun DEF ExecInv
<1>3. CASE Propagate
  <2>1. InputsSeen' /\ NegotiationInv'
    BY <1>1, <1>3, PropagateSeen, PropagateNegotiation
  <2>2. /\ UNCHANGED <<conns, marking, generation, written>>
        /\ \/ stack' # <<>> /\ Top'.phase = "eval"
           \/ stack' = <<>> /\ negotiated' = negotiated
    BY <1>1, <1>3, PropagateTop DEF Follows, SameCall
  <2>3. CASE stack' # <<>> /\ Top'.phase = "eval"
    BY <2>1, <2>3, BeforeRun DEF ExecInv
  <2>4. CASE stack' = <<>> /\ negotiated' = negotiated
    BY <1>1, <2>2, <2>4, NoCall, ReturnRun DEF ExecInv
  <2> QED BY <2>2, <2>3, <2>4
<1> QED BY <1>2, <1>3 DEF Negotiate

LEMMA RootsVisitMarks ==
  ASSUME TypeOK, TypeOK', OneCall, NegotiationInv, RootsFound, RootsVisit
  PROVE  /\ \A n \in Node : n \notin Reached => marking'[n] = marking[n]
         /\ \A n \in Reached : marking'[n] \in {"none", "find_roots"}
<1> DEFINE v == Top.todo[1]
<1>1. stack # <<>> /\ Top.phase = "roots" /\ Top.todo # <<>>
  BY RootsVisitTop
<1>2. PICK w \in v.links :
        LET m == Peer(v.node, w)[1]
        IN marking' = marking \/ marking' = [marking EXCEPT ![m] = "find_roots"]
  BY RootsVisitTop
<1> DEFINE m == Peer(v.node, w)[1]
<1>3. Top \in Frame /\ WorkOK(Top)
  BY <1>1, StackFromType, TopType
<1>4. 1 \in DOMAIN Top.todo
  BY <1>1, <1>3 DEF Frame
<1>5. v.node \in Reached /\ IsLink(v.node, w)
  BY <1>1, <1>3, <1>4 DEF RootsFound, WorkOK
<1>6. m \in Reached
  <2> DEFINE n == v.node
  <2>1. n \in Reached /\ w[2] \in PortIdx(TypeOf[n]) /\ w[3] \in DOMAIN conns[<<n, w[2]>>]
    BY <1>5 DEF IsLink
  <2> HIDE DEF n
  <2>2. conns[<<n, w[2]>>][w[3]][1] \in Reached
    BY <1>1, <2>1, ReachedClosed
  <2> QED BY <2>2 DEF Peer, n
<1>7. marking' = marking \/ marking' = [marking EXCEPT ![m] = "find_roots"]
  BY <1>2
<1>8. Reached \subseteq Node /\ \A n \in Reached : marking[n] \in {"none", "find_roots"}
  BY <1>1 DEF NegotiationInv, MarkingsReset, Reached, Component
<1> HIDE DEF m
<1> QED BY <1>6, <1>7, <1>8 DEF TypeOK


LEMMA FindRootsExec ==
  ASSUME TypeOK, TypeOK', CallInv, ExecInv, FindRoots \/ FindReady
  PROVE  ExecInv'
<1>1. NegotiationInv /\ RootsFound /\ InputsSeen /\ OneCall /\ PendingListed /\ CausesFollowed
  BY DEF ExecInv, RunInv, CallInv
<1>2. stack # <<>> /\ UNCHANGED <<conns, maskVars>>
  BY FindRootsOnward DEF Onward
<1>3. CASE RootsStart \/ RootsVisit \/ RootsBack
  <2>1. /\ SameCall /\ Top'.phase = "roots" /\ Top.phase \in {"converge", "roots"}
        /\ UNCHANGED <<deps, generation, written>>
    BY <1>1, <1>3, RootsStartTop, RootsVisitTop, RootsBackTop DEF Visits
  <2>2. /\ \A n \in Node : n \notin Reached => marking'[n] = marking[n]
        /\ \A n \in Reached : marking'[n] \in {"none", "find_roots"}
    <3>1. CASE RootsStart
      <4>1. /\ Top.call = "component"
            /\ marking' = [n \in Node |-> IF n = Top.node THEN "find_roots"
                                          ELSE IF n \in Component(Top.node) THEN "none"
                                          ELSE marking[n]]
        BY <1>1, <3>1, RootsStartTop
      <4>2. Reached = Component(Top.node) /\ Reached \subseteq Node /\ Top.node \in Reached
        BY <1>1, <1>2, <4>1 DEF Reached, Component, NegotiationInv, MarkingsReset
      <4> QED BY <4>1, <4>2
    <3>2. CASE RootsVisit
      BY <1>1, <3>2, RootsVisitMarks
    <3>3. CASE RootsBack
      BY <1>1, <3>3, RootsBackTop DEF NegotiationInv, MarkingsReset
    <3> QED BY <1>3, <3>1, <3>2, <3>3
  <2>3. NegotiationInv'
    BY <1>1, <1>2, <2>1, <2>2, OnwardNegotiation
  <2>4. RootsFound'
    BY <1>1, <1>3, RootsStartFound, RootsVisitFound, RootsBackFound
  <2>5. stack' # <<>> /\ ~ In("notify")' /\ UNCHANGED <<conns, negotiated, generation, written>>
    BY <1>2, <2>1 DEF SameCall, In, Top, maskVars
  <2>6. \A n \in Reached : marking'[n] # "done"
    BY <2>2
  <2>7. InputsSeen'
    BY <1>1, <1>2, <2>2, <2>5, <2>6, MarkedSeen
  <2> QED BY <2>1, <2>3, <2>4, <2>5, <2>7, BeforeRun DEF ExecInv
<1>4. CASE RootsEnd /\ stack' = <<>>
  <2>1. UNCHANGED <<conns, negotiated, marking, generation, written>>
    BY <1>1, <1>4, RootsEndTop DEF maskVars
  <2> QED BY <1>1, <1>4, <2>1, NoCall, ReturnRun DEF ExecInv
<1>5. CASE FindReady \/ (RootsEnd /\ stack' # <<>>)
  <2>1. SameCall /\ Top'.phase = "run"
    BY <1>1, <1>5, FindReadyTop, RootsEndTop
  <2>2. NegotiationInv'
    BY <1>1, <1>2, <2>1, OnwardNegotiation
  <2>3. RunInv'
    BY <1>1, <1>5, FindReadyRun, RootsEndRun
  <2>4. RootsFound'
    BY <2>1 DEF RootsFound
  <2> QED BY <2>2, <2>3, <2>4 DEF ExecInv
<1> QED BY <1>3, <1>4, <1>5 DEF FindRoots

LEMMA ExecuteExec ==
  ASSUME TypeOK, TypeOK', CallInv, ExecInv, Execute
  PROVE  ExecInv'
<1>1. NegotiationInv /\ RunInv /\ OneCall /\ PendingListed
  BY DEF ExecInv, CallInv
<1>2. RunInv'
  BY <1>1, ExecuteRun
<1>3. /\ stack # <<>> /\ UNCHANGED <<conns, maskVars>>
      /\ \/ stack' = <<>>
         \/ SameCall /\ Top'.phase \in {"run", "call", "skip", "notify"}
  BY <1>1, ExecuteTop
<1>4. CASE stack' = <<>>
  BY <1>2, <1>4, NoCall DEF ExecInv
<1>5. CASE SameCall /\ Top'.phase \in {"run", "call", "skip", "notify"}
  <2>1. NegotiationInv'
    BY <1>1, <1>3, <1>5, OnwardNegotiation
  <2>2. RootsFound'
    BY <1>5 DEF RootsFound
  <2> QED BY <1>2, <2>1, <2>2 DEF ExecInv
<1> QED BY <1>3, <1>4, <1>5

LEMMA StutterExec ==
  ASSUME ExecInv, UNCHANGED vars
  PROVE  ExecInv'
<1>1. UNCHANGED <<conns, required, negotiated, propagated, deps, marking, generation, written, stack>>
  BY DEF vars, maskVars
<1>2. \A n : Component(n)' = Component(n)
  BY <1>1 DEF Component, Neighbours
<1>3. Top' = Top /\ Reached' = Reached
  BY <1>1, <1>2 DEF Top, Reached
<1>4. \A k : InUse(k)' = InUse(k) /\ InUseForSure(k)' = InUseForSure(k) /\ (Used(k)' <=> Used(k))
  BY <1>1 DEF InUse, InUseForSure, Used, Activated, InActivated, OutActivated
<1>5. NegotiationInv'
  <2>1. WordsDirected' /\ NewsAnnounced'
    BY <1>1, <1>3 DEF ExecInv, NegotiationInv, WordsDirected, NewsAnnounced
  <2>2. CountersBetween' /\ MarkingsReset'
    BY <1>1, <1>3, <1>4 DEF ExecInv, NegotiationInv, CountersBetween, MarkingsReset
  <2> QED BY <2>1, <2>2 DEF NegotiationInv
<1>6. RootsFound'
  <2>1. /\ \A k : IsRoot(k)' <=> IsRoot(k)
        /\ \A k : Links(1, k, UsedMask(negotiated[k]))' = Links(1, k, UsedMask(negotiated[k]))
        /\ \A k, x : Peer(k, x)' = Peer(k, x)
    BY <1>1, RootsSame DEF maskVars
  <2> QED BY <1>1, <1>3, <2>1 DEF ExecInv, RootsFound
<1>7. RunInv'
  <2>1. /\ (In("notify")' <=> In("notify")) /\ (Executing' <=> Executing) /\ (Running' <=> Running)
        /\ \A k : Over(k)' <=> Over(k)
    BY <1>1, <1>3 DEF In, Executing, Running, Over
  <2>2. Listed'
    <3>1. Links(1, Top.cur, Top.outs)' = Links(1, Top.cur, Top.outs)
      BY <1>1, <1>3 DEF Links
    <3>2. \A i : Activated(<<Top.cur, i>>, negotiated, generation)'
                   <=> Activated(<<Top.cur, i>>, negotiated, generation)
      BY <1>1, <1>3 DEF Activated, InActivated, OutActivated
    <3> QED BY <1>1, <1>3, <1>4, <2>1, <3>1, <3>2 DEF ExecInv, RunInv, Listed
  <2>3. CountersExact'
    <3>1. \A k : Outstanding(k)' = Outstanding(k)
      BY <1>1, <1>3 DEF Outstanding, Activated, InActivated, OutActivated, Peer, In
    <3> QED BY <1>1, <1>3, <2>1, <3>1 DEF ExecInv, RunInv, CountersExact
  <2>4. \A p \in InPort : Activated(p, negotiated, generation)' <=> Activated(p, negotiated, generation)
    BY <1>1 DEF Activated, InActivated, OutActivated
  <2>5. OutputsWritten'
    BY <1>1, <1>3, <2>1, <2>4 DEF ExecInv, RunInv, OutputsWritten, Over
  <2>6. InputsSeen'
    BY <1>1, <1>3, <2>1, <2>4 DEF ExecInv, RunInv, InputsSeen, Over
  <2> QED BY <2>2, <2>3, <2>5, <2>6 DEF RunInv
<1> QED BY <1>5, <1>6, <1>7 DEF ExecInv


LEMMA ExecInit == Init => CallInv /\ ExecInv
<1> SUFFICES ASSUME Init PROVE CallInv /\ ExecInv
  OBVIOUS
<1>1. stack = <<>> /\ marking = [n \in Node |-> "none"]
  BY DEF Init
<1>2. CallInv
  BY <1>1 DEF CallInv, OneCall, PendingListed, CausesFollowed
<1>3. NegotiationInv /\ RootsFound
  BY <1>1 DEF NegotiationInv, WordsDirected, NewsAnnounced, CountersBetween, MarkingsReset,
     RootsFound
<1>4. Listed /\ CountersExact /\ OutputsWritten
  BY <1>1 DEF Executing, Listed, CountersExact, OutputsWritten
<1>5. InputsSeen
  BY <1>1, PortsByDirection DEF InputsSeen, Over, In
<1> QED BY <1>2, <1>3, <1>4, <1>5 DEF ExecInv, RunInv

LEMMA ExecStep ==
  ASSUME TypeOK, TypeOK', Responsive, CallInv, ExecInv, [Next]_vars
  PROVE  CallInv' /\ ExecInv'
<1>1. CallInv'
  BY CausesStep DEF CallInv
<1>2. CASE UNCHANGED vars
  BY <1>1, <1>2, StutterExec
<1>3. CASE Start
  BY <1>1, <1>3, StartExec
<1>4. CASE Negotiate
  BY <1>1, <1>4, NegotiateExec
<1>5. CASE FindRoots \/ FindReady
  BY <1>1, <1>5, FindRootsExec
<1>6. CASE Execute
  BY <1>1, <1>6, ExecuteExec
<1> QED BY <1>2, <1>3, <1>4, <1>5, <1>6 DEF Next, Step, Start

LEMMA ExecInvariant == Responsive => (Spec => [](TypeOK /\ CallInv /\ ExecInv))
<1> SUFFICES ASSUME Responsive PROVE Spec => [](TypeOK /\ CallInv /\ ExecInv)
  OBVIOUS
<1>1. Init => CallInv /\ ExecInv
  BY ExecInit
<1>2. TypeOK /\ TypeOK' /\ CallInv /\ ExecInv /\ [Next]_vars => CallInv' /\ ExecInv'
  BY ExecStep
<1> QED BY <1>1, <1>2, TypeCorrect, PTL DEF Spec

-----------------------------------------------------------------------------
(* The theorems                                                            *)

LEMMA RightWhenRunning ==
  ASSUME TypeOK, CallInv, ExecInv
  PROVE  ExecutionRight /\ LeftOut
<1>1. PendingListed /\ NegotiationInv /\ RunInv
  BY DEF CallInv, ExecInv
<1>2. InputsReady
  <2> SUFFICES ASSUME In("call"), NEW i \in InMask(negotiated[Top.cur]),
                      Activated(<<Top.cur, i>>, negotiated, generation)
               PROVE  conns[<<Top.cur, i>>][1] \in written
    BY DEF InputsReady
  <2> DEFINE n == Top.cur
             p == <<n, i>>
             q == conns[p][1]
  <2>1. Executing /\ Running /\ ~ In("notify")
    BY DEF In, Executing, Running, Top
  <2>2. Directions /\ Listed /\ OutputsWritten
    BY <1>1, <2>1, RunFacts
  <2>3. n \in Reached /\ deps[n] = 0
    BY <2>1, <2>2 DEF Listed
  <2>4. p \in InPort /\ p[1] = n
    BY <2>2, <2>3 DEF Directions
  <2>5. InActivated(p, negotiated)
    BY <2>4 DEF Activated
  <2>6. Outstanding(n) = {}
    BY <1>1, <2>1, <2>3, NothingOutstanding
  <2>7. ~ Waits(p)
    BY <2>2, <2>3, <2>5, <2>6, OutstandingMember
  <2>8. marking[q[1]] = "done" /\ q[2] \in OutMask(negotiated[q[1]])
    BY <2>1, <2>7 DEF Waits, Notified
  <2> QED BY <2>1, <2>2, <2>3, <2>4, <2>8 DEF OutputsWritten, Over
<1>3. CountersExact
  BY <1>1 DEF RunInv
<1>4. Once
  <2> SUFFICES ASSUME In("run")
               PROVE  /\ \A k \in DOMAIN Top.list : /\ deps[Top.list[k]] = 0
                                                    /\ marking[Top.list[k]] # "done"
                      /\ \A k, l \in DOMAIN Top.list : k # l => Top.list[k] # Top.list[l]
    BY DEF Once
  <2>1. Executing
    BY DEF In, Executing, Top
  <2>2. /\ Distinct(Top.list)
        /\ \A n \in Range(Top.list) : deps[n] = 0 /\ marking[n] # "done"
    BY <1>1, <2>1, RunFacts DEF Listed
  <2> QED BY <2>2 DEF Distinct, Range
<1>5. LeftOut
  <2> SUFFICES ASSUME In("run"), Top.list = <<>>, NEW n \in Reached, Used(n), marking[n] # "done"
               PROVE  \E i \in InMask(negotiated[n]) :
                        /\ Activated(<<n, i>>, negotiated, generation)
                        /\ LET q == conns[<<n, i>>][1] IN
                             \/ q[2] \notin OutMask(negotiated[q[1]])
                             \/ Used(q[1]) /\ marking[q[1]] # "done"
    BY DEF LeftOut
  <2>1. Executing /\ ~ Running
    BY DEF In, Executing, Running, Top
  <2>2. /\ Directions /\ Listed /\ Reached \subseteq Node
        /\ deps[n] = Cardinality(Outstanding(n))
    BY <1>1, <2>1, RunFacts
  <2>3. Range(Top.list) = {}
    BY DEF Range
  <2>4. deps[n] # 0
    BY <2>1, <2>2, <2>3 DEF Listed
  <2>5. PICK i : i \in Outstanding(n)
    BY <2>2, <2>4, FS_EmptySet
  <2> DEFINE p == <<n, i>>
             q == conns[p][1]
  <2>6. i \in InMask(negotiated[n]) /\ InActivated(p, negotiated) /\ Waits(p)
    BY <2>2, <2>5, OutstandingMember
  <2>7. p \in InPort /\ Activated(p, negotiated, generation)
    BY <2>2, <2>5, <2>6 DEF Directions, Outstanding
  <2>8. CASE q[2] \notin OutMask(negotiated[q[1]])
    BY <2>6, <2>7, <2>8
  <2>9. CASE q[2] \in OutMask(negotiated[q[1]])
    <3>1. marking[q[1]] # "done"
      BY <2>6, <2>9 DEF Waits
    <3>2. Activated(q, negotiated, generation) /\ q = <<q[1], q[2]>>
      BY <2>6, <2>7, <2>9, ProducerActivated, ProducerOf DEF InActivated
    <3>3. q[2] \in UsedMask(negotiated[q[1]])
      BY <2>9 DEF UsedMask
    <3>4. Used(q[1])
      <4> HIDE DEF q
      <4> QED BY <3>2, <3>3 DEF Used
    <3> QED BY <2>6, <2>7, <3>1, <3>4
  <2> QED BY <2>8, <2>9
<1> QED BY <1>2, <1>3, <1>4, <1>5 DEF ExecutionRight

(* Nodes run once and after their producers, and the counters say how many *)
(* inputs are outstanding, for all topologies, requests and node types     *)
(* that keep to the contract on announcements                              *)
(* (am_dfg_schedule_nodes, am_dfg_schedule_process_node).                  *)
THEOREM ExecutionCorrect == Responsive => (Spec => []ExecutionRight)
<1>1. TypeOK /\ CallInv /\ ExecInv => ExecutionRight
  BY RightWhenRunning
<1> QED BY <1>1, ExecInvariant, PTL

(* A call that runs out of nodes has left out none that could have run,    *)
(* under the same contract (am_dfg_schedule_component).                    *)
THEOREM LeftOutCorrect == Responsive => (Spec => []LeftOut)
<1>1. TypeOK /\ CallInv /\ ExecInv => LeftOut
  BY RightWhenRunning
<1> QED BY <1>1, ExecInvariant, PTL


-----------------------------------------------------------------------------
(* Generations                                                             *)

LEMMA GenerationsStep ==
  ASSUME TypeOK, TypeOK', CallInv, ExecInv, NeverZero, [Next]_vars
  PROVE  NeverZero'
<1>1. PendingListed /\ NegotiationInv /\ RunInv /\ OneCall
  BY DEF CallInv, ExecInv
<1>2. CASE UNCHANGED generation
  BY <1>2 DEF NeverZero
<1>3. CASE ProcessStart
  <2>1. PICK n \in Node : Starts(n) \/ UNCHANGED generation
    BY <1>1, <1>3, ProcessStartTop
  <2>2. CASE Starts(n)
    <3>1. \A p \in OutPort : /\ p \in Port /\ generation[p] \in 0..GenMax
                             /\ generation'[p] \in {generation[p], NextGeneration(generation[p])}
      BY <2>2, PortsByDirection DEF Starts, TypeOK
    <3>2. \A p \in OutPort : NextGeneration(generation[p]) # 0
      BY <3>1, BoundsAssumption DEF NextGeneration
    <3> QED BY <3>1, <3>2 DEF NeverZero
  <2> QED BY <1>2, <2>1, <2>2
<1>4. CASE ProcessSkip \/ ProcessOk
  <2>1. /\ stack # <<>> /\ Top.phase = (IF ProcessSkip THEN "skip" ELSE "call")
        /\ generation' = [p \in Port |->
                            IF p[1] = Top.cur /\ p[2] \in Top.ins /\ conns[p] # <<>>
                              THEN generation[conns[p][1]] ELSE generation[p]]
    BY <1>1, <1>4, AfterProcessTop
  <2>2. Executing /\ Running
    BY <2>1 DEF Executing, Running
  <2>3. Directions /\ Top.cur \in Reached /\ Top.ins = InMask(negotiated[Top.cur])
    BY <1>1, <2>2, RunFacts DEF Listed
  <2>4. \A q \in OutPort : q \in Port /\ (q[1] = Top.cur => q[2] \notin Top.ins)
    BY <2>3, PortsByDirection DEF Directions
  <2> QED BY <2>1, <2>4 DEF NeverZero
<1> QED BY <1>2, <1>3, <1>4 DEF Next, Step, ScheduleComponent, ScheduleGraph, Negotiate,
           EvalStart, Propagate, EvalEnd, FindRoots, RootsStart, RootsVisit, RootsBack, RootsEnd,
           FindReady, Execute, ProcessFail, Notify, NotifyEnd, RunEnd, vars, maskVars

(* Generation 0 stays with inputs that have seen no data, also when        *)
(* generations wrap around, and after a successful call the inputs that    *)
(* were used are at the generations of data that their producers wrote     *)
(* during that call (am_dfg_output_port_inc_generation,                    *)
(* am_dfg_schedule_process_node), under the same contract.                 *)
THEOREM GenerationsCorrect == Responsive => (Spec => []GenerationsRight)
<1>1. Init => NeverZero
  <2> SUFFICES ASSUME Init PROVE NeverZero
    OBVIOUS
  <2>1. generation = [p \in Port |-> IF p \in OutPort THEN 1 ELSE 0]
    BY DEF Init
  <2> QED BY <2>1, PortsByDirection DEF NeverZero
<1>2. TypeOK /\ TypeOK' /\ CallInv /\ ExecInv /\ NeverZero /\ [Next]_vars => NeverZero'
  BY GenerationsStep
<1>3. ExecInv => SeenNew
  BY DEF ExecInv, RunInv, InputsSeen, SeenNew, Over
<1>4. NeverZero /\ SeenNew => GenerationsRight
  BY DEF GenerationsRight
<1> QED BY <1>1, <1>2, <1>3, <1>4, ExecInvariant, PTL DEF Spec

-----------------------------------------------------------------------------
(* Failures                                                                *)

MasksDirected == \A n \in Node : IsDirected(TypeOf[n], negotiated[n])

LEMMA DirectedStep ==
  ASSUME TypeOK, TypeOK', OneCall, Directed, MasksDirected, [Next]_vars
  PROVE  MasksDirected'
<1>1. CASE UNCHANGED negotiated
  BY <1>1 DEF MasksDirected
<1>2. CASE \E q \in Requests : ScheduleComponent(q.node, q.mask)
  <2>1. PICK q \in Requests : ScheduleComponent(q.node, q.mask)
    BY <1>2
  <2>2. \A n \in Node : \/ negotiated'[n] = negotiated[n]
                        \/ negotiated'[n] = NoMask
                        \/ n = q.node /\ negotiated'[n] = q.mask
    BY <2>1 DEF ScheduleComponent, Reset
  <2>3. \A n \in Node : IsDirected(TypeOf[n], NoMask)
    BY DEF IsDirected, NoMask, Reaction
  <2> QED BY <2>2, <2>3 DEF Directed, MasksDirected
<1>3. CASE ScheduleGraph
  <2>1. \A n \in Node : negotiated'[n] = PullAll(n)
    BY <1>3 DEF ScheduleGraph, Reset
  <2>2. \A n \in Node : IsDirected(TypeOf[n], PullAll(n))
    BY DEF IsDirected, PullAll, Reaction
  <2> QED BY <2>1, <2>2 DEF MasksDirected
<1>4. CASE Propagate
  <2>1. stack # <<>> /\ Top.phase = "eval" /\ (negotiated' = negotiated \/ \E w \in Top.work : Follows(w))
    BY <1>4, PropagateTop
  <2>2. ASSUME NEW w \in Top.work, Follows(w) PROVE MasksDirected'
    <3> DEFINE q == Peer(Top.cur, w)
               event == IF w[1] \in {1, 3} THEN "new" ELSE "old"
               mask == PortMasks[TypeOf[q[1]]][q[2]][event]
    <3>1. Top \in Frame /\ WorkOK(Top)
      BY <2>1, StackFromType, TopType
    <3>2. q \in Port
      BY <2>1, <2>2, <3>1, ConnsType DEF Follows, WorkOK, IsLink, Peer, Frame
    <3>3. \A k \in Node, r \in Reaction :
            negotiated'[k][r] = negotiated[k][r] \cup (IF k = q[1] THEN mask[r] ELSE {})
      BY <2>2 DEF Follows
    <3>4. event \in Trigger
      BY DEF Trigger
    <3> HIDE DEF q, event
    <3>5. IsDirected(TypeOf[q[1]], mask)
      BY <3>2, <3>4, PortIsPair, PortIdxType DEF Directed
    <3> HIDE DEF mask
    <3>6. /\ "pull_new" \in Reaction /\ "pull_old" \in Reaction
          /\ "push_new" \in Reaction /\ "push_old" \in Reaction
      BY DEF Reaction
    <3> SUFFICES ASSUME NEW k \in Node PROVE IsDirected(TypeOf[k], negotiated'[k])
      BY DEF MasksDirected
    <3> QED BY <3>3, <3>5, <3>6 DEF IsDirected, MasksDirected
  <2> QED BY <1>1, <2>1, <2>2
<1> QED BY <1>1, <1>2, <1>3, <1>4 DEF Next, Step, Negotiate, EvalStart, EvalEnd, FindRoots,
           RootsStart, RootsVisit, RootsBack, RootsEnd, FindReady, Execute, ProcessStart,
           ProcessSkip, ProcessOk, ProcessFail, Notify, NotifyEnd, RunEnd, vars, maskVars

LEMMA FailureStep ==
  ASSUME TypeOK, TypeOK', CallInv, ExecInv, MasksDirected, Next,
         stack # <<>>, stack' = <<>>, ret' = "error"
  PROVE  Top.phase \in {"call", "roots"}
<1>1. PendingListed /\ NegotiationInv /\ RunInv /\ OneCall /\ CausesFollowed
  BY DEF CallInv, ExecInv
<1>2. CASE EvalStart \/ EvalEnd
  BY <1>1, <1>2, EvalStartTop, EvalEndTop DEF SameCall
<1>3. CASE Propagate
  <2>1. Top.phase = "eval" /\ \E w \in Top.work : w[3] = 0
    BY <1>1, <1>3, PropagateTop DEF Follows, SameCall
  <2>2. PICK w \in Top.work : w[3] = 0
    BY <2>1
  <2>3. ~ RightDir(Top.cur, w[1], w[2]) /\ w[2] \in negotiated[Top.cur][Word[w[1]]]
    BY <1>1, <2>1, <2>2 DEF NegotiationInv, WordsDirected
  <2>4. Top.cur \in Node /\ w[1] \in {1, 2, 3, 4}
    <3>1. Top \in Frame
      BY StackFromType, TopType
    <3>2. Top.cur \in Node /\ w[1] \in 1..4
      BY <3>1 DEF Frame, Work
    <3> QED BY <3>2
  <2>5. IsDirected(TypeOf[Top.cur], negotiated[Top.cur])
    BY <2>4 DEF MasksDirected
  <2> QED BY <2>3, <2>4, <2>5, WordsFour DEF IsDirected
<1>4. CASE RootsStart \/ RootsVisit \/ RootsBack \/ FindReady
  BY <1>1, <1>4, RootsStartTop, RootsVisitTop, RootsBackTop, FindReadyTop DEF SameCall
<1>5. CASE RootsEnd
  BY <1>1, <1>5, RootsEndTop
<1>6. CASE Execute
  BY <1>1, <1>6, ExecuteRun
<1>7. ~ (\E q \in Requests : ScheduleComponent(q.node, q.mask)) /\ ~ ScheduleGraph
  BY DEF ScheduleComponent, ScheduleGraph, Idle
<1> QED BY <1>2, <1>3, <1>4, <1>5, <1>6, <1>7 DEF Next, Step, Negotiate, FindRoots

(* The checks of am_dfg_schedule_process_node for nodes that are not ready *)
(* and counters that are 0 already, and those of am_dfg_port_propagate_*   *)
(* for the direction of a port, never strike, for all topologies and for   *)
(* node types and requests that keep to both contracts.                    *)
THEOREM OnlyProcessFailsCorrect == Responsive /\ Directed => (Spec => OnlyProcessFails)
<1> SUFFICES ASSUME Responsive, Directed PROVE Spec => OnlyProcessFails
  OBVIOUS
<1>1. Init => MasksDirected
  <2> SUFFICES ASSUME Init PROVE MasksDirected
    OBVIOUS
  <2>1. negotiated = [n \in Node |-> NoMask]
    BY DEF Init
  <2>2. \A n \in Node : IsDirected(TypeOf[n], NoMask)
    BY DEF IsDirected, NoMask, Reaction
  <2> QED BY <2>1, <2>2 DEF MasksDirected
<1>2. TypeOK /\ TypeOK' /\ CallInv /\ MasksDirected /\ [Next]_vars => MasksDirected'
  BY DirectedStep DEF CallInv
<1>3. TypeOK /\ TypeOK' /\ CallInv /\ ExecInv /\ MasksDirected /\ [Next]_vars
        => [stack # <<>> /\ stack' = Tail(stack) /\ ret' = "error"
              => Top.phase \in {"call", "roots"}]_vars
  <2> SUFFICES ASSUME TypeOK, TypeOK', CallInv, ExecInv, MasksDirected, Next,
                      stack # <<>>, stack' = Tail(stack), ret' = "error"
               PROVE  Top.phase \in {"call", "roots"}
    OBVIOUS
  <2>1. Tail(stack) = <<>>
    <3>1. stack \in Seq(Frame) /\ DOMAIN stack \subseteq {1}
      BY DEF TypeOK, CallInv, OneCall
    <3>2. Len(stack) \in Nat /\ DOMAIN stack = 1..Len(stack)
      BY <3>1
    <3>3. Len(stack) <= 1
      <4>1. 2 \notin DOMAIN stack
        BY <3>1
      <4> QED BY <3>2, <4>1
    <3>4. \A s \in Seq(Frame) : Len(s) <= 1 /\ s # <<>> => Tail(s) = <<>>
      OBVIOUS
    <3> QED BY <3>1, <3>3, <3>4
  <2> QED BY <2>1, FailureStep
<1>4. Spec => [](TypeOK /\ CallInv /\ ExecInv)
  BY ExecInvariant
<1> QED BY <1>1, <1>2, <1>3, <1>4, PTL DEF Spec, OnlyProcessFails
=============================================================================
