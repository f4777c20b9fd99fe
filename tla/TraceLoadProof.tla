--------------------------- MODULE TraceLoadProof ---------------------------
(***************************************************************************)
(* A trace file is loaded if and only if it makes sense, what is in memory *)
(* is what the file says, and references lead to what it names, for all    *)
(* files, sizes of the table of types and of the array of collections.     *)
(* Then, for all executions of the program that was traced: the periods of *)
(* the loops and of the tasks that processTrace() finds in the events.     *)
(***************************************************************************)
EXTENDS TraceLoad, IterationPeriods, TaskPeriods, NaturalFacts

-----------------------------------------------------------------------------
(* The frames of a file                                                    *)

LEMMA FrameTold ==
  ASSUME NEW f \in FileFrame
  PROVE  /\ f.type \in {"type_id", "collection", "hierarchy", "node", "mapping",
                        "description", "event"}
         /\ f.type = "type_id" => f.num \in Nat
         /\ f.type = "collection" => f.id \in Nat /\ f = Collection(f.id)
         /\ f.type = "hierarchy" => f.id \in Nat /\ f = Hierarchy(f.id)
         /\ f.type = "node" => f.hierarchy \in Nat /\ f.id \in Nat /\ f.parent \in Nat
         /\ f.type = "mapping" =>
              /\ f.id \in Nat /\ f.hierarchy \in Nat /\ f.node \in Nat
              /\ f.start \in Time /\ f.end \in Time
         /\ f.type = "description" => f.state \in Nat /\ f = Description(f.state)
         /\ f.type = "event" =>
              f.id \in Nat /\ f.state \in Nat /\ f.start \in Time /\ f.end \in Time
<1>1. CASE f \in [type : {"type_id"}, of : TypeNames \cup {"unknown"}, num : Nat]
  BY <1>1
<1>2. CASE f \in [type : {"collection", "hierarchy"}, id : Nat]
  BY <1>2 DEF Collection, Hierarchy
<1>3. CASE f \in [type : {"node"}, hierarchy : Nat, id : Nat, parent : Nat]
  BY <1>3
<1>4. CASE f \in [type : {"mapping"}, id : Nat, hierarchy : Nat, node : Nat,
                  start : Time, end : Time]
  BY <1>4
<1>5. CASE f \in [type : {"description"}, state : Nat]
  BY <1>5 DEF Description
<1>6. CASE f \in [type : {"event"}, id : Nat, state : Nat, start : Time, end : Time]
  BY <1>6
<1> QED BY <1>1, <1>2, <1>3, <1>4, <1>5, <1>6 DEF FileFrame

(* Which of the entries one is, when another one is added to them          *)
LEMMA NthMore ==
  ASSUME NEW n \in Nat, NEW P \in SUBSET (1 .. n)
  PROVE  /\ IsFiniteSet(P) /\ Cardinality(P) \in Nat
         /\ Cardinality(P \cup {n + 1}) = Cardinality(P) + 1
         /\ Nth(P \cup {n + 1}, n + 1) = Cardinality(P) + 1
         /\ \A p \in P : /\ Nth(P, p) \in 1 .. Cardinality(P)
                         /\ Nth(P \cup {n + 1}, p) = Nth(P, p)
<1>1. IsFiniteSet(P) /\ Cardinality(P) \in Nat
  <2>1. IsFiniteSet(1 .. n)
    BY FS_Interval
  <2>2. IsFiniteSet(P)
    BY <2>1, FS_Subset
  <2> QED BY <2>2, FS_CardinalityType
<1>2. n + 1 \notin P
  OBVIOUS
<1>3. Cardinality(P \cup {n + 1}) = Cardinality(P) + 1
  BY <1>1, <1>2, FS_AddElement
<1>4. Nth(P \cup {n + 1}, n + 1) = Cardinality(P) + 1
  <2> DEFINE Q == P \cup {n + 1}
  <2>1. \A q \in Q : q <= n + 1
    OBVIOUS
  <2> HIDE DEF Q
  <2>2. {q \in Q : q <= n + 1} = Q
    BY <2>1
  <2> QED BY <1>3, <2>2 DEF Nth, Q
<1>5. ASSUME NEW p \in P
      PROVE  Nth(P, p) \in 1 .. Cardinality(P) /\ Nth(P \cup {n + 1}, p) = Nth(P, p)
  <2> DEFINE Q == {q \in P : q <= p}
  <2>1. Q \subseteq P /\ p \in Q
    OBVIOUS
  <2>2. IsFiniteSet(Q) /\ Cardinality(Q) <= Cardinality(P)
    BY <1>1, <2>1, FS_Subset
  <2>3. Cardinality(Q) \in Nat /\ Cardinality(Q) # 0
    BY <2>1, <2>2, FS_CardinalityType, FS_EmptySet
  <2>4. {q \in P \cup {n + 1} : q <= p} = Q
    OBVIOUS
  <2> QED BY <1>1, <2>2, <2>3, <2>4 DEF Nth
<1> QED BY <1>1, <1>3, <1>4, <1>5

(* An entry is read.                                                       *)
LEMMA ReadMore ==
  ASSUME read \in Seq(FileEntry), NEW e \in FileEntry, read' = Append(read, e)
  PROVE  /\ Len(read) \in Nat /\ DOMAIN read = 1 .. Len(read)
         /\ read' \in Seq(FileEntry) /\ DOMAIN read' = 1 .. Len(read) + 1
         /\ \A p \in 1 .. Len(read) :
              read'[p] = read[p] /\ Frames'[p] = Frames[p] /\ Frames[p] \in FileFrame
         /\ read'[Len(read) + 1] = e /\ Frames'[Len(read) + 1] = e.frame
         /\ e.frame \in FileFrame /\ e.num \in Nat
         /\ \A t : /\ EntriesOf(t) \subseteq 1 .. Len(read)
                   /\ e.frame.type = t => EntriesOf(t)' = EntriesOf(t) \cup {Len(read) + 1}
                   /\ e.frame.type # t => EntriesOf(t)' = EntriesOf(t)
<1> DEFINE n == Len(read)
<1>1. n \in Nat /\ DOMAIN read = 1 .. n /\ \A p \in 1 .. n : read[p] \in FileEntry
  BY LenProperties, ElementOfSeq
<1>2. /\ read' \in Seq(FileEntry) /\ Len(read') = n + 1
      /\ \A p \in 1 .. n : read'[p] = read[p]
      /\ read'[n + 1] = e
  BY AppendProperties
<1>3. DOMAIN read' = 1 .. n + 1
  BY <1>1, <1>2, LenProperties
<1>4. e.frame \in FileFrame /\ e.num \in Nat
  BY DEF FileEntry
<1>5. \A p \in 1 .. n : Frames'[p] = Frames[p] /\ Frames[p] \in FileFrame
  <2>1. \A p \in 1 .. n : p \in 1 .. n + 1 /\ read[p].frame \in FileFrame
    BY <1>1 DEF FileEntry
  <2> QED BY <1>1, <1>2, <1>3, <2>1 DEF Frames
<1>6. Frames'[n + 1] = e.frame
  <2>1. n + 1 \in 1 .. n + 1
    BY <1>1
  <2> QED BY <1>2, <1>3, <2>1 DEF Frames
<1> HIDE DEF n
<1>7. ASSUME NEW t
      PROVE  /\ EntriesOf(t) \subseteq 1 .. n
             /\ e.frame.type = t => EntriesOf(t)' = EntriesOf(t) \cup {n + 1}
             /\ e.frame.type # t => EntriesOf(t)' = EntriesOf(t)
  <2>1. EntriesOf(t) = {p \in 1 .. n : Frames[p].type = t}
    BY <1>1 DEF EntriesOf
  <2>2. EntriesOf(t)' = {p \in 1 .. n + 1 : Frames'[p].type = t}
    BY <1>3 DEF EntriesOf
  <2>3. 1 .. n + 1 = (1 .. n) \cup {n + 1}
    BY <1>1
  <2> QED BY <1>5, <1>6, <2>1, <2>2, <2>3
<1> QED BY <1>1, <1>2, <1>3, <1>4, <1>5, <1>6, <1>7 DEF n

NodesBefore(g, i) == {j \in EarlierOf(g, i, "node") : g[j].hierarchy = g[i].hierarchy}
NodeFits(f, there, named) ==
  IF there = {} THEN f.parent = 0 ELSE f.parent # 0 /\ f.parent \in named /\ f.id \notin named

LEMMA SensibleNodeTold ==
  ASSUME NEW g, NEW i
  PROVE  SensibleNode(g, i) <=>
           /\ Earlier(g, i, Hierarchy(g[i].hierarchy))
           /\ NodeFits(g[i], NodesBefore(g, i), {g[j].id : j \in NodesBefore(g, i)})
BY DEF SensibleNode, NodesBefore, NodeFits

(* Whether a frame makes sense depends on those before it only.            *)
LEMMA SensibleSame ==
  ASSUME NEW g, NEW h, NEW i \in Nat \ {0}, \A j \in 1 .. i : g[j] = h[j]
  PROVE  Sensible(g, i) <=> Sensible(h, i)
<1>1. g[i] = h[i] /\ \A j \in 1 .. i - 1 : g[j] = h[j]
  OBVIOUS
<1>2. \A f : Earlier(g, i, f) <=> Earlier(h, i, f)
  BY <1>1 DEF Earlier
<1>3. \A t : EarlierOf(g, i, t) = EarlierOf(h, i, t) /\ EarlierOf(g, i, t) \subseteq 1 .. i - 1
  BY <1>1 DEF EarlierOf
<1>4. SensibleTypeId(g, i) <=> SensibleTypeId(h, i)
  BY <1>1, <1>3 DEF SensibleTypeId
<1>5. SensibleNode(g, i) <=> SensibleNode(h, i)
  <2>1. NodesBefore(g, i) = NodesBefore(h, i) /\ NodesBefore(g, i) \subseteq 1 .. i - 1
    BY <1>1, <1>3 DEF NodesBefore
  <2>2. {g[j].id : j \in NodesBefore(g, i)} = {h[j].id : j \in NodesBefore(h, i)}
    BY <1>1, <2>1
  <2> QED BY <1>1, <1>2, <2>1, <2>2, SensibleNodeTold
<1>6. SensibleMapping(g, i) <=> SensibleMapping(h, i)
  BY <1>1, <1>2, <1>3 DEF SensibleMapping
<1> QED BY <1>1, <1>2, <1>4, <1>5, <1>6 DEF Sensible

-----------------------------------------------------------------------------
(* The inductive invariant                                                 *)

MappingRecord == [start : Time, end : Time, wanted : Nat, block : Nat, slot : Nat]
NodeRecord == [parent : Nat, descendants : Nat, mappings : Seq(MappingRecord)]
CollectionRecord == [id : Nat, events : Seq(FileFrame), states : Seq(Nat)]

ReadingOK ==
  /\ phase \in {"header", "frames", "post", "loaded", "failed", "undefined"}
  /\ scenario \in Scenarios /\ ahead \in Seq(FileEntry) /\ read \in Seq(FileEntry)

(* What is in memory, whatever has been read                               *)
TablesOK ==
  /\ types \in [0 .. MaxTypes - 1 -> TypeNames \cup {TypeIdName, None}]
  /\ types[0] = TypeIdName
  /\ block \in Nat /\ free \in 0 .. 2 * Prealloc - 2
  /\ descs \in Seq(Nat) /\ bounds \in [start : Time, end : Time]

CollectionsOK ==
  /\ colls \in Seq(CollectionRecord)
  /\ \A i, j \in DOMAIN colls : i < j => colls[i].id < colls[j].id
  /\ \A i \in DOMAIN colls : Len(colls[i].states) = Len(colls[i].events)

NodesOK ==
  /\ DOMAIN nodes \subseteq Nat \X Nat /\ IsFiniteSet(DOMAIN nodes)
  /\ nodes \in [DOMAIN nodes -> NodeRecord]
  /\ \A k \in DOMAIN nodes : \A i, j \in DOMAIN nodes[k].mappings :
       i < j => nodes[k].mappings[i].start <= nodes[k].mappings[j].start
  /\ HierarchyTree

MemoryOK == TablesOK /\ CollectionsOK /\ NodesOK

(* As long as the trace has not been destroyed, memory tells what was read *)
Intact == phase \in {"header", "frames", "post", "loaded"}

TypesTold ==
  \A n \in 1 .. MaxTypes - 1 :
    types[n] # None <=> \E p \in EntriesOf("type_id") : Frames[p].num = n

SensibleSoFar == \A i \in DOMAIN read : SensibleEntry(i)

SpaceCounted == \E q \in Nat : Len(colls) + free = q * Prealloc

CollectionIdsTold == {colls[i].id : i \in DOMAIN colls} = {Frames[p].id : p \in EntriesOf("collection")}
HierarchiesTold == hierarchies = {Frames[p].id : p \in EntriesOf("hierarchy")}

BoundsMet ==
  IF EntriesOf("event") = {} THEN bounds = [start |-> MaxTime, end |-> 0]
  ELSE /\ bounds.start \in Times /\ bounds.end \in Times
       /\ \A t \in Times : bounds.start <= t /\ t <= bounds.end

MemoryTold ==
  /\ SpaceCounted /\ TypesTold /\ CollectionIdsTold /\ HierarchiesTold
  /\ EventsTold /\ DescriptionsTold /\ NodesTold /\ MappingsTold /\ BoundsMet

Told == SensibleSoFar /\ MemoryTold

(* How reading came to an end                                              *)
EndRight ==
  /\ phase \in {"header", "frames"} => cut = "no"
  /\ phase \in {"post", "loaded"} => cut \in {"no", "id"}
  /\ phase = "loaded" => Described /\ Joined
  /\ phase = "failed" =>
       \/ (\E i \in DOMAIN read : ~SensibleEntry(i)) \/ cut \in {"header", "frame"} \/ ~Described
       \/ starved

LoadInv ==
  /\ ReadingOK /\ MemoryOK /\ MappedOrdered /\ EndRight
  /\ Intact => Told

-----------------------------------------------------------------------------
(* What is accepted is what makes sense                                    *)

LEMMA EarlierIs ==
  ASSUME NEW g, NEW n \in Nat, NEW f
  PROVE  Earlier(g, n + 1, f) <=> \E p \in 1 .. n : g[p] = f
<1>1. 1 .. n + 1 - 1 = 1 .. n
  OBVIOUS
<1> QED BY <1>1 DEF Earlier

LEMMA EarlierTold ==
  ASSUME read \in Seq(FileEntry), NEW e \in FileEntry, read' = Append(read, e)
  PROVE  /\ \A t : EarlierOf(Frames', Len(read) + 1, t) = EntriesOf(t)
         /\ \A t : \A p \in EntriesOf(t) :
              Frames'[p] = Frames[p] /\ Frames[p] \in FileFrame /\ Frames[p].type = t
         /\ \A x : Earlier(Frames', Len(read) + 1, Collection(x))
                     <=> \E p \in EntriesOf("collection") : Frames[p].id = x
         /\ \A x : Earlier(Frames', Len(read) + 1, Hierarchy(x))
                     <=> \E p \in EntriesOf("hierarchy") : Frames[p].id = x
<1> DEFINE n == Len(read)
           g == Frames'
<1>1. /\ n \in Nat /\ DOMAIN read = 1 .. n
      /\ \A p \in 1 .. n : g[p] = Frames[p] /\ Frames[p] \in FileFrame
      /\ \A t : EntriesOf(t) \subseteq 1 .. n
  BY ReadMore
<1>2. \A t : EntriesOf(t) = {p \in 1 .. n : Frames[p].type = t}
  BY <1>1 DEF EntriesOf
<1> HIDE DEF n, g
<1>3. 1 .. n + 1 - 1 = 1 .. n
  BY <1>1
<1>4. \A t : EarlierOf(g, n + 1, t) = EntriesOf(t)
  BY <1>1, <1>2, <1>3 DEF EarlierOf
<1>5. \A p \in 1 .. n : /\ \A x : g[p] = Collection(x) <=> p \in EntriesOf("collection") /\ Frames[p].id = x
                        /\ \A x : g[p] = Hierarchy(x) <=> p \in EntriesOf("hierarchy") /\ Frames[p].id = x
  <2> SUFFICES ASSUME NEW p \in 1 .. n
               PROVE  /\ \A x : g[p] = Collection(x) <=> p \in EntriesOf("collection") /\ Frames[p].id = x
                      /\ \A x : g[p] = Hierarchy(x) <=> p \in EntriesOf("hierarchy") /\ Frames[p].id = x
    OBVIOUS
  <2>1. g[p] = Frames[p] /\ g[p] \in FileFrame
    BY <1>1
  <2>2. /\ g[p].type = "collection" => g[p] = Collection(g[p].id)
        /\ g[p].type = "hierarchy" => g[p] = Hierarchy(g[p].id)
    BY <2>1, FrameTold
  <2>3. \A x : /\ Collection(x).type = "collection" /\ Collection(x).id = x
               /\ Hierarchy(x).type = "hierarchy" /\ Hierarchy(x).id = x
    BY DEF Collection, Hierarchy
  <2>4. /\ p \in EntriesOf("collection") <=> g[p].type = "collection"
        /\ p \in EntriesOf("hierarchy") <=> g[p].type = "hierarchy"
    BY <1>2, <2>1
  <2> QED BY <2>1, <2>2, <2>3, <2>4
<1>6. \A f : Earlier(g, n + 1, f) <=> \E p \in 1 .. n : g[p] = f
  BY <1>1, EarlierIs
<1>7. \A t : \A p \in EntriesOf(t) : p \in 1 .. n /\ Frames[p].type = t
  BY <1>2
<1> QED BY <1>1, <1>4, <1>5, <1>6, <1>7 DEF n, g

LEMMA SensibleRead ==
  ASSUME read \in Seq(FileEntry), NEW e \in FileEntry, read' = Append(read, e),
         NEW f, f = e.frame
  PROVE  LET sensible == Sensible(Frames', Len(read) + 1)
             There == {p \in EntriesOf("node") : Frames[p].hierarchy = f.hierarchy}
         IN  /\ f.type = "type_id" =>
                  (sensible <=> /\ f.of \in TypeNames /\ f.num # 0
                                /\ \A p \in EntriesOf("type_id") : Frames[p].num # f.num)
             /\ f.type = "collection" =>
                  (sensible <=> \A p \in EntriesOf("collection") : Frames[p].id # f.id)
             /\ f.type = "hierarchy" =>
                  (sensible <=> \A p \in EntriesOf("hierarchy") : Frames[p].id # f.id)
             /\ f.type = "node" =>
                  (sensible <=>
                     /\ \E p \in EntriesOf("hierarchy") : Frames[p].id = f.hierarchy
                     /\ IF There = {} THEN f.parent = 0
                        ELSE /\ f.parent # 0
                             /\ \E p \in There : Frames[p].id = f.parent
                             /\ \A p \in There : Frames[p].id # f.id)
             /\ f.type = "mapping" =>
                  (sensible <=>
                     /\ f.start <= f.end
                     /\ \E p \in EntriesOf("collection") : Frames[p].id = f.id
                     /\ \E p \in EntriesOf("node") :
                          Frames[p].hierarchy = f.hierarchy /\ Frames[p].id = f.node
                     /\ \A p \in EntriesOf("mapping") :
                          Frames[p].hierarchy = f.hierarchy /\ Frames[p].node = f.node
                            => Frames[p].start <= f.start)
             /\ f.type = "description" => sensible
             /\ f.type = "event" =>
                  (sensible <=> /\ f.start <= f.end
                                /\ \E p \in EntriesOf("collection") : Frames[p].id = f.id)
<1> DEFINE m == Len(read) + 1
           g == Frames'
           There == {p \in EntriesOf("node") : Frames[p].hierarchy = f.hierarchy}
<1>1. g[m] = f /\ f \in FileFrame
  BY ReadMore
<1>2. /\ \A t : EarlierOf(g, m, t) = EntriesOf(t)
      /\ \A t : \A p \in EntriesOf(t) : g[p] = Frames[p] /\ Frames[p].type = t
      /\ \A x : Earlier(g, m, Collection(x))
                  <=> \E p \in EntriesOf("collection") : Frames[p].id = x
      /\ \A x : Earlier(g, m, Hierarchy(x))
                  <=> \E p \in EntriesOf("hierarchy") : Frames[p].id = x
  BY EarlierTold
<1> HIDE DEF m, g
<1>3. CASE f.type = "type_id"
  <2>1. Sensible(g, m) <=> SensibleTypeId(g, m)
    BY <1>1, <1>3 DEF Sensible
  <2> QED BY <1>1, <1>2, <1>3, <2>1 DEF SensibleTypeId, m, g
<1>4. CASE f.type = "collection"
  <2>1. Sensible(g, m) <=> ~Earlier(g, m, f)
    BY <1>1, <1>4 DEF Sensible
  <2>2. f = Collection(f.id)
    BY <1>1, <1>4, FrameTold
  <2> QED BY <1>2, <1>4, <2>1, <2>2 DEF m, g
<1>5. CASE f.type = "hierarchy"
  <2>1. Sensible(g, m) <=> ~Earlier(g, m, f)
    BY <1>1, <1>5 DEF Sensible
  <2>2. f = Hierarchy(f.id)
    BY <1>1, <1>5, FrameTold
  <2> QED BY <1>2, <1>5, <2>1, <2>2 DEF m, g
<1>6. CASE f.type = "node"
  <2>1. Sensible(g, m) <=> SensibleNode(g, m)
    BY <1>1, <1>6 DEF Sensible
  <2>2. NodesBefore(g, m) = There
    BY <1>1, <1>2 DEF NodesBefore
  <2>3. \A p \in There : g[p] = Frames[p]
    BY <1>2
  <2> HIDE DEF There
  <2>4. {g[j].id : j \in There} = {Frames[j].id : j \in There}
    BY <2>3
  <2>5. Sensible(g, m) <=> /\ Earlier(g, m, Hierarchy(f.hierarchy))
                           /\ NodeFits(f, There, {Frames[j].id : j \in There})
    BY <1>1, <2>1, <2>2, <2>4, SensibleNodeTold
  <2>6. NodeFits(f, There, {Frames[j].id : j \in There}) <=>
          IF There = {} THEN f.parent = 0
          ELSE /\ f.parent # 0
               /\ \E p \in There : Frames[p].id = f.parent
               /\ \A p \in There : Frames[p].id # f.id
    BY DEF NodeFits
  <2> QED BY <1>2, <1>6, <2>5, <2>6 DEF m, g, There
<1>7. CASE f.type = "mapping"
  <2>1. Sensible(g, m) <=> SensibleMapping(g, m)
    BY <1>1, <1>7 DEF Sensible
  <2>2. SensibleMapping(g, m) <=>
          /\ f.start <= f.end
          /\ Earlier(g, m, Collection(f.id))
          /\ \E p \in EntriesOf("node") :
               Frames[p].hierarchy = f.hierarchy /\ Frames[p].id = f.node
          /\ \A p \in EntriesOf("mapping") :
               Frames[p].hierarchy = f.hierarchy /\ Frames[p].node = f.node
                 => Frames[p].start <= f.start
    BY <1>1, <1>2 DEF SensibleMapping
  <2> QED BY <1>2, <1>7, <2>1, <2>2 DEF m, g
<1>8. CASE f.type = "description"
  BY <1>1, <1>8 DEF Sensible, m, g
<1>9. CASE f.type = "event"
  <2>1. Sensible(g, m) <=> f.start <= f.end /\ Earlier(g, m, Collection(f.id))
    BY <1>1, <1>9 DEF Sensible
  <2> QED BY <1>2, <1>9, <2>1 DEF m, g
<1>10. f.type \in {"type_id", "collection", "hierarchy", "node", "mapping", "description", "event"}
  BY <1>1, FrameTold
<1> QED BY <1>3, <1>4, <1>5, <1>6, <1>7, <1>8, <1>9, <1>10

-----------------------------------------------------------------------------
(* Numbers, and positions in a sequence                                    *)

(* Which of the entries: each number occurs.                               *)
LEMMA NthOnto ==
  ASSUME NEW n \in Nat, NEW P \in SUBSET (1 .. n), NEW d \in 1 .. Cardinality(P)
  PROVE  \E p \in P : Nth(P, p) = d
<1> DEFINE N == Cardinality(P)
           f == [p \in P |-> Nth(P, p)]
<1>1. IsFiniteSet(P) /\ N \in Nat /\ \A p \in P : Nth(P, p) \in 1 .. N
  BY NthMore
<1>2. IsFiniteSet(1 .. N) /\ Cardinality(1 .. N) = N
  BY <1>1, FS_Interval
<1>3. ASSUME NEW p \in P, NEW q \in P, p < q
      PROVE  Nth(P, p) # Nth(P, q)
  <2> DEFINE A == {r \in P : r <= p}
             B == {r \in P : r <= q}
  <2>0. p \in Nat /\ q \in Nat /\ P \subseteq Nat
    OBVIOUS
  <2>1. A \subseteq B /\ B \subseteq P /\ q \in B /\ q \notin A
    <3>1. \A r \in P : r <= p => r <= q
      BY <1>3, <2>0
    <3>2. q <= q /\ ~(q <= p)
      BY <1>3, <2>0
    <3> QED BY <3>1, <3>2
  <2>2. IsFiniteSet(B)
    BY <1>1, <2>1, FS_Subset
  <2> HIDE DEF A, B
  <2>3. Cardinality(A) # Cardinality(B)
    BY <2>1, <2>2, FS_Subset
  <2> QED BY <2>3 DEF Nth, A, B
<1>4. f \in Injection(P, 1 .. N)
  <2>1. f \in [P -> 1 .. N]
    BY <1>1
  <2>2. ASSUME NEW p \in P, NEW q \in P, f[p] = f[q]
        PROVE  p = q
    <3>1. p \in Nat /\ q \in Nat /\ (p < q \/ q < p \/ p = q)
      OBVIOUS
    <3>2. f[p] = Nth(P, p) /\ f[q] = Nth(P, q)
      OBVIOUS
    <3> HIDE DEF f
    <3> QED BY <1>3, <2>2, <3>1, <3>2
  <2> HIDE DEF f
  <2> QED BY <2>1, <2>2 DEF Injection, IsInjective
<1>5. f \in Surjection(P, 1 .. N)
  <2> HIDE DEF f
  <2>1. Cardinality(P) = Cardinality(1 .. N)
    BY <1>2
  <2> QED BY <1>2, <1>4, <2>1, FS_Injection
<1>6. PICK p \in P : f[p] = d
  BY <1>5 DEF Surjection
<1> QED BY <1>6

(* A set of positions that all preceding ones belong to, too               *)
LEMMA FirstOnes ==
  ASSUME NEW n \in Nat, NEW W \in SUBSET (1 .. n),
         \A i \in W : \A j \in 1 .. i : j \in W
  PROVE  Cardinality(W) \in 0 .. n /\ W = 1 .. Cardinality(W)
<1>1. CASE W = {}
  <2>1. Cardinality(W) = 0
    BY <1>1, FS_EmptySet
  <2> QED BY <1>1, <2>1
<1>2. CASE W # {}
  <2>1. PICK g \in W : \A k \in W : k <= g
    <3>1. W \in SUBSET Nat /\ \A k \in W : k <= n
      OBVIOUS
    <3> QED BY <1>2, <3>1, GreatestNumber
  <2>3. g \in 1 .. n
    OBVIOUS
  <2>2. W = 1 .. g
    <3>1. W \subseteq 1 .. n /\ 1 .. g \subseteq W
      OBVIOUS
    <3>2. W \subseteq 1 .. g
      BY <2>1, <2>3, <3>1
    <3> QED BY <3>1, <3>2
  <2>4. Cardinality(1 .. g) = g
    BY <2>3, FS_Interval
  <2> QED BY ONLY <2>2, <2>3, <2>4
<1> QED BY <1>1, <1>2

LEMMA LeastIs ==
  ASSUME NEW S \in SUBSET Nat, NEW x \in S, \A y \in S : x <= y
  PROVE  Min(S) = x
<1>1. Min(S) \in S /\ \A y \in S : Min(S) <= y
  BY DEF Min
<1>2. Min(S) \in Nat /\ Min(S) <= x /\ x <= Min(S) /\ x \in Nat
  BY <1>1
<1> QED BY <1>2

LEMMA GreatestIs ==
  ASSUME NEW S \in SUBSET Nat, NEW x \in S, \A y \in S : y <= x
  PROVE  Max(S) = x
<1>1. Max(S) \in S /\ \A y \in S : Max(S) >= y
  <2>1. \A y \in S : x >= y
    OBVIOUS
  <2> QED BY <2>1 DEF Max
<1>2. Max(S) \in Nat /\ Max(S) <= x /\ x <= Max(S) /\ x \in Nat
  BY <1>1
<1> QED BY <1>2

(* Multiples of a number leave no remainder.                               *)
LEMMA MultipleRemainder ==
  ASSUME NEW m \in Nat \ {0}, NEW q \in Nat
  PROVE  (q * m) % m = 0
<1>1. q * m \in Nat
  OBVIOUS
<1> DEFINE a == q * m
           r == a % m
           d == a \div m
<1>2. r \in 0 .. m - 1 /\ d \in Int /\ a = m * d + r
  BY <1>1
<1>3. r = m * (q - d)
  BY <1>2
<1> HIDE DEF r, d, a
<1>4. CASE q - d >= 1
  <2>1. m * (q - d) >= m
    BY <1>2, <1>4
  <2> QED BY <1>2, <1>3, <2>1
<1>5. CASE q - d <= -1
  <2>1. m * (q - d) <= -m
    BY <1>2, <1>5
  <2> QED BY <1>2, <1>3, <2>1
<1>6. CASE q - d = 0
  BY <1>2, <1>3, <1>6 DEF r, a
<1>7. q - d \in Int
  BY <1>2
<1> QED BY <1>4, <1>5, <1>6, <1>7

-----------------------------------------------------------------------------
(* The nodes of a hierarchy: what is above a node that is added, and what  *)
(* its ancestors count                                                     *)

ParentsIn(N, S) == \A k \in S : N[k].parent # 0 => <<k[1], N[k].parent>> \in S
Above(N, key) ==
  {k \in DOMAIN N : \A S \in SUBSET DOMAIN N : key \in S /\ ParentsIn(N, S) => k \in S}
Tree(N, H) ==
  \A k \in DOMAIN N :
    /\ k[1] \in H
    /\ N[k].parent # 0 => <<k[1], N[k].parent>> \in DOMAIN N
    /\ Cardinality({r \in DOMAIN N : r[1] = k[1] /\ N[r].parent = 0}) = 1
    /\ N[k].descendants = Cardinality({d \in DOMAIN N : k \in Above(N, d)}) - 1

LEMMA TreeTold ==
  /\ \A key : NodesAbove(key) = Above(nodes, key)
  /\ HierarchyTree <=> Tree(nodes, hierarchies)
  /\ HierarchyTree' <=> Tree(nodes', hierarchies')
<1>1. \A key : NodesAbove(key) = Above(nodes, key) /\ NodesAbove(key)' = Above(nodes', key)
  BY DEF NodesAbove, Above, HoldsParents, ParentsIn
<1>2. HierarchyTree <=> Tree(nodes, hierarchies)
  BY <1>1 DEF HierarchyTree, Tree
<1>3. HierarchyTree' <=> Tree(nodes', hierarchies')
  BY <1>1 DEF HierarchyTree, Tree
<1> QED BY <1>1, <1>2, <1>3

LEMMA AboveHolds ==
  ASSUME NEW N, ParentsIn(N, DOMAIN N), NEW key \in DOMAIN N
  PROVE  key \in Above(N, key) /\ Above(N, key) \subseteq DOMAIN N /\ ParentsIn(N, Above(N, key))
<1>1. key \in Above(N, key) /\ Above(N, key) \subseteq DOMAIN N
  BY DEF Above
<1>2. ASSUME NEW k \in Above(N, key), N[k].parent # 0
      PROVE  <<k[1], N[k].parent>> \in Above(N, key)
  <2>1. k \in DOMAIN N /\ <<k[1], N[k].parent>> \in DOMAIN N
    BY <1>2 DEF Above, ParentsIn
  <2>2. ASSUME NEW S \in SUBSET DOMAIN N, key \in S, ParentsIn(N, S)
        PROVE  <<k[1], N[k].parent>> \in S
    <3>1. k \in S
      BY <2>2 DEF Above
    <3> QED BY <1>2, <2>2, <3>1 DEF ParentsIn
  <2> QED BY <2>1, <2>2 DEF Above
<1> QED BY <1>1, <1>2 DEF ParentsIn

(* A node is added: M are the nodes with it.                               *)
Added(N, M, z) ==
  /\ z \notin DOMAIN N /\ DOMAIN M = DOMAIN N \cup {z}
  /\ \A k \in DOMAIN N : M[k].parent = N[k].parent
  /\ ParentsIn(N, DOMAIN N)

LEMMA AboveOld ==
  ASSUME NEW N, NEW M, NEW z, Added(N, M, z), NEW d \in DOMAIN N
  PROVE  Above(M, d) = Above(N, d)
<1>1. ASSUME NEW S \in SUBSET DOMAIN N
      PROVE  ParentsIn(M, S) <=> ParentsIn(N, S)
  BY DEF ParentsIn, Added
<1>2. ASSUME NEW k \in Above(M, d)
      PROVE  k \in Above(N, d)
  <2>1. \A S \in SUBSET DOMAIN N : d \in S /\ ParentsIn(N, S) => k \in S
    <3> SUFFICES ASSUME NEW S \in SUBSET DOMAIN N, d \in S, ParentsIn(N, S)
                 PROVE  k \in S
      OBVIOUS
    <3>1. S \in SUBSET DOMAIN M /\ ParentsIn(M, S)
      BY <1>1 DEF Added
    <3> QED BY <1>2, <3>1 DEF Above
  <2>2. k \in DOMAIN N
    BY <2>1 DEF Added
  <2> QED BY <2>1, <2>2 DEF Above
<1>3. ASSUME NEW k \in Above(N, d)
      PROVE  k \in Above(M, d)
  <2>1. k \in DOMAIN M
    BY <1>3 DEF Above, Added
  <2>2. ASSUME NEW S \in SUBSET DOMAIN M, d \in S, ParentsIn(M, S)
        PROVE  k \in S
    <3> DEFINE T == S \cap DOMAIN N
    <3>1. T \in SUBSET DOMAIN N /\ d \in T
      BY <2>2
    <3>2. ParentsIn(N, T)
      BY <2>2 DEF ParentsIn, Added
    <3>3. k \in T
      <4> HIDE DEF T
      <4> QED BY <1>3, <3>1, <3>2 DEF Above
    <3> QED BY <3>3
  <2> QED BY <2>1, <2>2 DEF Above
<1> QED BY <1>2, <1>3

Over(N, M, z) == IF M[z].parent = 0 THEN {} ELSE Above(N, <<z[1], M[z].parent>>)

LEMMA AboveNew ==
  ASSUME NEW N, NEW M, NEW z, Added(N, M, z),
         M[z].parent # 0 => <<z[1], M[z].parent>> \in DOMAIN N
  PROVE  Above(M, z) = Over(N, M, z) \cup {z} /\ Over(N, M, z) \subseteq DOMAIN N
<1> DEFINE p == <<z[1], M[z].parent>>
           A == Over(N, M, z)
<1>0. A = IF M[z].parent = 0 THEN {} ELSE Above(N, p)
  BY DEF Over
<1> HIDE DEF A
<1>1. A \subseteq DOMAIN N /\ ParentsIn(N, A) /\ (M[z].parent # 0 => p \in A)
  <2>1. CASE M[z].parent = 0
    BY <1>0, <2>1 DEF ParentsIn
  <2>2. CASE M[z].parent # 0
    <3>1. A = Above(N, p) /\ p \in DOMAIN N
      BY <1>0, <2>2
    <3> HIDE DEF p
    <3> QED BY <3>1, AboveHolds DEF Added
  <2> QED BY <2>1, <2>2
<1>2. A \cup {z} \subseteq DOMAIN M /\ ParentsIn(M, A \cup {z})
  <2>1. \A k \in A : M[k].parent # 0 => <<k[1], M[k].parent>> \in A
    BY <1>1 DEF ParentsIn, Added
  <2>2. M[z].parent # 0 => p \in A
    BY <1>1
  <2>3. A \cup {z} \subseteq DOMAIN M
    BY <1>1 DEF Added
  <2> QED BY <2>1, <2>2, <2>3 DEF ParentsIn
<1>3. ASSUME NEW k \in Above(M, z)
      PROVE  k \in A \cup {z}
  BY <1>2, <1>3 DEF Above
<1>4. ASSUME NEW S \in SUBSET DOMAIN M, z \in S, ParentsIn(M, S)
      PROVE  A \cup {z} \subseteq S
  <2>1. CASE M[z].parent = 0
    BY <1>0, <1>4, <2>1
  <2>2. CASE M[z].parent # 0
    <3> DEFINE T == S \cap DOMAIN N
    <3>1. p \in T
      BY <1>4, <2>2 DEF ParentsIn
    <3>2. T \in SUBSET DOMAIN N /\ ParentsIn(N, T)
      BY <1>4 DEF ParentsIn, Added
    <3>3. A = Above(N, p)
      BY <1>0, <2>2
    <3> HIDE DEF T, p
    <3>4. A \subseteq T
      BY <3>1, <3>2, <3>3 DEF Above
    <3> QED BY <1>4, <3>4 DEF T
  <2> QED BY <2>1, <2>2
<1>5. z \in DOMAIN M /\ A \subseteq DOMAIN M
  BY <1>1 DEF Added
<1>6. \A k \in A \cup {z} : k \in Above(M, z)
  BY <1>4, <1>5 DEF Above
<1> QED BY <1>1, <1>3, <1>6 DEF A

LEMMA TreeGrows ==
  ASSUME NEW N, NEW M, NEW z, NEW H, NEW A, IsFiniteSet(DOMAIN N), Tree(N, H),
         Added(N, M, z), z[1] \in H,
         A = Over(N, M, z),
         M[z].parent # 0 => <<z[1], M[z].parent>> \in DOMAIN N,
         M[z].parent = 0 <=> \A k \in DOMAIN N : k[1] # z[1],
         M[z].descendants = 0,
         \A k \in DOMAIN N : /\ N[k].descendants \in Nat
                             /\ M[k].descendants = IF k \in A THEN N[k].descendants + 1
                                                   ELSE N[k].descendants
  PROVE  Tree(M, H)
<1> DEFINE Below(L, k) == {d \in DOMAIN L : k \in Above(L, d)}
           Roots(L, h) == {r \in DOMAIN L : r[1] = h /\ L[r].parent = 0}
<1>1. /\ \A d \in DOMAIN N : Above(M, d) = Above(N, d) /\ Above(M, d) \subseteq DOMAIN N
      /\ Above(M, z) = A \cup {z} /\ A \subseteq DOMAIN N
  <2>1. \A d \in DOMAIN N : Above(M, d) = Above(N, d)
    BY AboveOld
  <2>2. \A d \in DOMAIN N : Above(N, d) \subseteq DOMAIN N
    BY DEF Above
  <2>3. Above(M, z) = A \cup {z} /\ A \subseteq DOMAIN N
    BY AboveNew
  <2> QED BY ONLY <2>1, <2>2, <2>3
<1>2. z \notin DOMAIN N /\ DOMAIN M = DOMAIN N \cup {z}
  BY DEF Added
<1>3. Below(M, z) = {z}
  BY <1>1, <1>2
<1>4. ASSUME NEW k \in DOMAIN N
      PROVE  M[k].descendants = Cardinality(Below(M, k)) - 1
  <2>1. Below(M, k) = IF k \in A THEN Below(N, k) \cup {z} ELSE Below(N, k)
    BY <1>1, <1>2
  <2>2. z \notin Below(N, k)
    BY <1>2
  <2>3. IsFiniteSet(Below(N, k))
    BY FS_Subset
  <2>4. N[k].descendants = Cardinality(Below(N, k)) - 1
    BY DEF Tree
  <2> HIDE DEF Below
  <2>5. Cardinality(Below(N, k)) \in Nat
        /\ Cardinality(Below(N, k) \cup {z}) = Cardinality(Below(N, k)) + 1
    BY <2>2, <2>3, FS_CardinalityType, FS_AddElement
  <2> QED BY <2>1, <2>4, <2>5
<1>5. ASSUME NEW k \in DOMAIN M
      PROVE  Cardinality(Roots(M, k[1])) = 1
  <2>1. CASE k[1] = z[1] /\ M[z].parent = 0
    <3>1. Roots(M, k[1]) = {z}
      BY <1>2, <2>1
    <3> HIDE DEF Roots
    <3> QED BY <3>1, FS_Singleton
  <2>2. CASE ~(k[1] = z[1] /\ M[z].parent = 0)
    <3>1. Roots(M, k[1]) = Roots(N, k[1])
      BY <1>2, <2>2 DEF Added
    <3>2. PICK j \in DOMAIN N : j[1] = k[1]
      BY <1>2, <2>2
    <3>3. Cardinality(Roots(N, j[1])) = 1
      BY DEF Tree
    <3> HIDE DEF Roots
    <3> QED BY <3>1, <3>2, <3>3
  <2> QED BY <2>1, <2>2
<1>6. ASSUME NEW k \in DOMAIN M
      PROVE  k[1] \in H /\ (M[k].parent # 0 => <<k[1], M[k].parent>> \in DOMAIN M)
  <2>1. CASE k = z
    BY <1>2, <2>1
  <2>2. CASE k \in DOMAIN N
    <3>1. M[k].parent = N[k].parent /\ k[1] \in H
          /\ (N[k].parent # 0 => <<k[1], N[k].parent>> \in DOMAIN N)
      BY <2>2 DEF Tree, Added
    <3> QED BY <1>2, <3>1
  <2> QED BY <1>2, <2>1, <2>2
<1>7. M[z].descendants = Cardinality(Below(M, z)) - 1
  <2> HIDE DEF Below
  <2>1. Cardinality({z}) = 1
    BY FS_Singleton
  <2> QED BY <1>3, <2>1
<1>8. \A k \in DOMAIN M : M[k].descendants = Cardinality(Below(M, k)) - 1
  <2> HIDE DEF Below
  <2> QED BY <1>2, <1>4, <1>7
<1> QED BY <1>5, <1>6, <1>8 DEF Tree

-----------------------------------------------------------------------------
(* The verdict about one entry                                             *)

LEMMA KnownTold ==
  ASSUME CollectionIdsTold, HierarchiesTold
  PROVE  /\ \A x : Known(x) <=> \E p \in EntriesOf("collection") : Frames[p].id = x
         /\ \A x : x \in hierarchies <=> \E p \in EntriesOf("hierarchy") : Frames[p].id = x
<1>1. \A x : Known(x) <=> x \in {colls[i].id : i \in DOMAIN colls}
  BY DEF Known
<1> QED BY <1>1 DEF CollectionIdsTold, HierarchiesTold

LEMMA NodeKnown ==
  ASSUME NodesTold
  PROVE  \A h, x : <<h, x>> \in DOMAIN nodes <=>
                     \E p \in EntriesOf("node") : Frames[p].hierarchy = h /\ Frames[p].id = x
<1> SUFFICES ASSUME NEW h, NEW x
             PROVE  <<h, x>> \in DOMAIN nodes <=>
                      \E p \in EntriesOf("node") : Frames[p].hierarchy = h /\ Frames[p].id = x
  OBVIOUS
<1>1. DOMAIN nodes = {<<Frames[p].hierarchy, Frames[p].id>> : p \in EntriesOf("node")}
  BY DEF NodesTold
<1> QED BY <1>1

LEMMA RootKnown ==
  ASSUME NodesOK, NodesTold, NEW h
  PROVE  /\ HasRoot(h) <=> \E p \in EntriesOf("node") : Frames[p].hierarchy = h
         /\ HasRoot(h) <=> \E k \in DOMAIN nodes : k[1] = h
<1>1. ASSUME NEW k \in DOMAIN nodes, k[1] = h
      PROVE  HasRoot(h)
  <2> DEFINE R == {r \in DOMAIN nodes : r[1] = k[1] /\ nodes[r].parent = 0}
  <2>1. Cardinality(R) = 1
    BY <1>1 DEF NodesOK, HierarchyTree
  <2>2. R # {}
    <3> HIDE DEF R
    <3> QED BY <2>1, FS_EmptySet
  <2> QED BY <1>1, <2>2 DEF HasRoot
<1>2. ASSUME HasRoot(h)
      PROVE  \E p \in EntriesOf("node") : Frames[p].hierarchy = h
  <2>1. PICK k \in DOMAIN nodes : k[1] = h
    BY <1>2 DEF HasRoot
  <2>2. DOMAIN nodes = {<<Frames[p].hierarchy, Frames[p].id>> : p \in EntriesOf("node")}
    BY DEF NodesTold
  <2> QED BY <2>1, <2>2
<1>3. ASSUME NEW p \in EntriesOf("node"), Frames[p].hierarchy = h
      PROVE  \E k \in DOMAIN nodes : k[1] = h
  <2>1. <<h, Frames[p].id>> \in DOMAIN nodes
    BY <1>3, NodeKnown
  <2>2. <<h, Frames[p].id>>[1] = h
    OBVIOUS
  <2> QED BY <2>1, <2>2
<1>4. HasRoot(h) => \E k \in DOMAIN nodes : k[1] = h
  BY DEF HasRoot
<1> QED BY <1>1, <1>2, <1>3, <1>4

(* The last mapping of a node starts last.                                 *)
MappingsHere(h, x) ==
  {p \in EntriesOf("mapping") : Frames[p].hierarchy = h /\ Frames[p].node = x}

MappingsOf(k, P, F) == {p \in P : F[p].hierarchy = k[1] /\ F[p].node = k[2]}
MappingsAre(m, P, F) ==
  /\ Len(m) = Cardinality(P)
  /\ \A p \in P : m[Nth(P, p)].wanted = F[p].id /\ Interval(m[Nth(P, p)]) = Interval(F[p])
TellsMappings(m, k, P, F) == MappingsAre(m, MappingsOf(k, P, F), F)

LEMMA MappingsToldIs ==
  MappingsTold <=>
    \A k \in DOMAIN nodes : TellsMappings(nodes[k].mappings, k, EntriesOf("mapping"), Frames)
BY DEF MappingsTold, TellsMappings, MappingsAre, MappingsOf

LEMMA MappingLast ==
  ASSUME read \in Seq(FileEntry), NodesOK, MappingsTold,
         NEW h, NEW x, <<h, x>> \in DOMAIN nodes, NEW start \in Time
  PROVE  LET mappings == nodes[<<h, x>>].mappings
         IN  (mappings = <<>> \/ Last(mappings).start <= start)
               <=> \A p \in MappingsHere(h, x) : Frames[p].start <= start
<1> DEFINE k == <<h, x>>
           m == nodes[k].mappings
           P == MappingsHere(h, x)
           n == Len(read)
<1>1. n \in Nat /\ DOMAIN read = 1 .. n /\ P \in SUBSET (1 .. n)
  <2>1. n \in Nat /\ DOMAIN read = 1 .. n
    BY LenProperties
  <2> QED BY <2>1 DEF MappingsHere, EntriesOf
<1>2. k \in DOMAIN nodes /\ k[1] = h /\ k[2] = x
  OBVIOUS
<1> HIDE DEF k
<1>3. /\ Len(m) = Cardinality(P)
      /\ \A p \in P : Interval(m[Nth(P, p)]) = Interval(Frames[p])
  <2>1. MappingsAre(nodes[k].mappings, MappingsOf(k, EntriesOf("mapping"), Frames), Frames)
    BY <1>2, MappingsToldIs DEF TellsMappings
  <2>2. P = MappingsOf(k, EntriesOf("mapping"), Frames)
    BY <1>2 DEF MappingsHere, MappingsOf
  <2> QED BY ONLY <1>2, <2>1, <2>2 DEF MappingsAre
<1>4. \A p \in P : m[Nth(P, p)].start = Frames[p].start
  BY <1>3 DEF Interval
<1>5. /\ m \in Seq(MappingRecord)
      /\ \A i, j \in DOMAIN m : i < j => m[i].start <= m[j].start
  BY <1>2 DEF NodesOK, NodeRecord
<1> HIDE DEF n, P, m
<1>6. /\ Len(m) \in Nat /\ DOMAIN m = 1 .. Len(m)
      /\ \A i \in 1 .. Len(m) : m[i] \in MappingRecord
  BY <1>5, LenProperties, ElementOfSeq
<1>7. \A i \in 1 .. Len(m) : m[i].start \in Nat
  BY <1>6, LoadAssumption DEF MappingRecord, Time
<1>8. start \in Nat
  BY LoadAssumption DEF Time
<1>9. CASE m = <<>>
  <2>1. Cardinality(P) = 0
    BY <1>3, <1>9
  <2>2. P = {}
    BY <1>1, <2>1, NthMore, FS_EmptySet
  <2> QED BY <1>9, <2>2 DEF P, m, k
<1>10. CASE m # <<>>
  <2> DEFINE d == Len(m)
  <2>1. d \in 1 .. d
    BY <1>5, <1>10, EmptySeq
  <2>2. Last(m) = m[d]
    BY DEF Last
  <2>3. PICK q \in P : Nth(P, q) = d
    <3>1. d \in 1 .. Cardinality(P)
      BY <1>3, <2>1
    <3> HIDE DEF d
    <3> QED BY <1>1, <3>1, NthOnto
  <2>4. Frames[q].start = m[d].start
    BY <1>4, <2>3
  <2>5. \A p \in P : Nth(P, p) \in 1 .. d
    BY <1>1, <1>3, NthMore
  <2> HIDE DEF d
  <2>6. \A p \in P : Frames[p].start <= m[d].start
    <3> SUFFICES ASSUME NEW p \in P PROVE Frames[p].start <= m[d].start
      OBVIOUS
    <3>1. Nth(P, p) \in 1 .. d /\ d \in 1 .. d /\ d = Len(m)
      BY <2>1, <2>5 DEF d
    <3>2. Nth(P, p) = d \/ Nth(P, p) < d
      BY <3>1
    <3>3. m[Nth(P, p)].start <= m[d].start
      BY <1>5, <1>6, <1>7, <3>1, <3>2
    <3> QED BY <1>4, <3>3
  <2>7. \A p \in P : Frames[p].start \in Nat /\ m[d].start \in Nat
    <3>1. \A p \in P : Nth(P, p) \in 1 .. Len(m)
      BY <2>5 DEF d
    <3> QED BY <1>4, <1>7, <2>1, <3>1 DEF d
  <2>8. (m[d].start <= start) <=> \A p \in P : Frames[p].start <= start
    BY <1>8, <2>3, <2>4, <2>6, <2>7
  <2> QED BY <1>10, <2>2, <2>8 DEF P, m, k
<1> QED BY <1>9, <1>10

LEMMA TypeKnown ==
  ASSUME ReadingOK, TablesOK, TypesTold, NEW num \in Nat
  PROVE  TypesOf(num) # {None} <=>
           (num # 0 => num < MaxTypes /\ \E p \in EntriesOf("type_id") : Frames[p].num = num)
<1>1. MaxTypes \in Nat \ {0} /\ TypeIdName # None
  BY LoadAssumption DEF TypeIdName, None
<1>2. types[0] = TypeIdName
  BY DEF TablesOK
<1>3. CASE num = 0
  BY <1>1, <1>2, <1>3 DEF TypesOf
<1>4. CASE num # 0 /\ num < MaxTypes
  <2>1. num \in 1 .. MaxTypes - 1
    BY <1>1, <1>4
  <2> QED BY <1>4, <2>1 DEF TypesOf, TypesTold
<1>5. CASE ~(num < MaxTypes)
  BY <1>1, <1>5 DEF TypesOf
<1> QED BY <1>3, <1>4, <1>5

LEMMA SensibleEntryNew ==
  ASSUME read \in Seq(FileEntry), NEW e \in FileEntry, read' = Append(read, e),
         NEW m, m = Len(read) + 1
  PROVE  SensibleEntry(m)' <=>
           /\ Sensible(Frames', m)
           /\ e.frame.type = "type_id" => e.frame.num < MaxTypes
           /\ e.num # 0 =>
                /\ e.num < MaxTypes
                /\ \E p \in EntriesOf("type_id") : Frames[p].num = e.num
<1>1. Frames'[m] = e.frame /\ read'[m] = e
  BY ReadMore
<1>2. /\ EarlierOf(Frames', m, "type_id") = EntriesOf("type_id")
      /\ \A p \in EntriesOf("type_id") : Frames'[p] = Frames[p]
  BY EarlierTold
<1>3. SensibleEntry(m)' <=>
        /\ Sensible(Frames', m)
        /\ Frames'[m].type = "type_id" => Frames'[m].num < MaxTypes
        /\ read'[m].num # 0 =>
             /\ read'[m].num < MaxTypes
             /\ \E j \in EarlierOf(Frames', m, "type_id") : Frames'[j].num = read'[m].num
  BY DEF SensibleEntry
<1> QED BY <1>1, <1>2, <1>3

LEMMA Verdict ==
  ASSUME ReadingOK, MemoryOK, Told,
         NEW e \in FileEntry, read' = Append(read, e),
         NEW m, m = Len(read) + 1
  PROVE  (TypesOf(e.num) # {None} /\ Accepts(e.frame)) <=> SensibleEntry(m)'
<1> DEFINE f == e.frame
           sensible == Sensible(Frames', m)
<1>1. read \in Seq(FileEntry) /\ e.num \in Nat /\ f \in FileFrame
  BY DEF ReadingOK, FileEntry
<1>2. SensibleEntry(m)' <=>
        /\ sensible
        /\ f.type = "type_id" => f.num < MaxTypes
        /\ e.num # 0 =>
             /\ e.num < MaxTypes
             /\ \E p \in EntriesOf("type_id") : Frames[p].num = e.num
  BY <1>1, SensibleEntryNew
<1>3. TypesOf(e.num) # {None} <=>
        (e.num # 0 => e.num < MaxTypes /\ \E p \in EntriesOf("type_id") : Frames[p].num = e.num)
  BY <1>1, TypeKnown DEF MemoryOK, Told, MemoryTold
<1>4. Accepts(f) <=> sensible /\ (f.type = "type_id" => f.num < MaxTypes)
  <2>1. /\ f.type = "type_id" =>
             (sensible <=> /\ f.of \in TypeNames /\ f.num # 0
                           /\ \A p \in EntriesOf("type_id") : Frames[p].num # f.num)
        /\ f.type = "collection" =>
             (sensible <=> \A p \in EntriesOf("collection") : Frames[p].id # f.id)
        /\ f.type = "hierarchy" =>
             (sensible <=> \A p \in EntriesOf("hierarchy") : Frames[p].id # f.id)
        /\ f.type = "node" =>
             (sensible <=>
                /\ \E p \in EntriesOf("hierarchy") : Frames[p].id = f.hierarchy
                /\ IF {p \in EntriesOf("node") : Frames[p].hierarchy = f.hierarchy} = {}
                     THEN f.parent = 0
                     ELSE /\ f.parent # 0
                          /\ \E p \in {p \in EntriesOf("node") : Frames[p].hierarchy = f.hierarchy} :
                               Frames[p].id = f.parent
                          /\ \A p \in {p \in EntriesOf("node") : Frames[p].hierarchy = f.hierarchy} :
                               Frames[p].id # f.id)
        /\ f.type = "mapping" =>
             (sensible <=>
                /\ f.start <= f.end
                /\ \E p \in EntriesOf("collection") : Frames[p].id = f.id
                /\ \E p \in EntriesOf("node") :
                     Frames[p].hierarchy = f.hierarchy /\ Frames[p].id = f.node
                /\ \A p \in EntriesOf("mapping") :
                     Frames[p].hierarchy = f.hierarchy /\ Frames[p].node = f.node
                       => Frames[p].start <= f.start)
        /\ f.type = "description" => sensible
        /\ f.type = "event" =>
             (sensible <=> /\ f.start <= f.end
                           /\ \E p \in EntriesOf("collection") : Frames[p].id = f.id)
    BY <1>1, SensibleRead
  <2>2. f.type \in {"type_id", "collection", "hierarchy", "node", "mapping", "description", "event"}
    BY <1>1, FrameTold
  <2>3. /\ CollectionIdsTold /\ HierarchiesTold /\ NodesTold /\ MappingsTold /\ TypesTold
        /\ NodesOK
    BY DEF Told, MemoryTold, MemoryOK
  <2>4. /\ \A x : Known(x) <=> \E p \in EntriesOf("collection") : Frames[p].id = x
        /\ \A x : x \in hierarchies <=> \E p \in EntriesOf("hierarchy") : Frames[p].id = x
    BY <2>3, KnownTold
  <2>5. \A h, x : <<h, x>> \in DOMAIN nodes <=>
                    \E p \in EntriesOf("node") : Frames[p].hierarchy = h /\ Frames[p].id = x
    BY <2>3, NodeKnown
  <2> HIDE DEF f, sensible
  <2>6. CASE f.type = "type_id"
    <3>1. f.num \in Nat
      BY <1>1, <2>6, FrameTold
    <3>2. f.num # 0 /\ f.num < MaxTypes =>
            (types[f.num] = None <=> \A p \in EntriesOf("type_id") : Frames[p].num # f.num)
      <4> SUFFICES ASSUME f.num # 0, f.num < MaxTypes
                   PROVE  types[f.num] = None <=> \A p \in EntriesOf("type_id") : Frames[p].num # f.num
        OBVIOUS
      <4>1. f.num \in 1 .. MaxTypes - 1
        BY <3>1, LoadAssumption
      <4> QED BY <2>3, <4>1 DEF TypesTold
    <3>3. Accepts(f) <=> AcceptsTypeId(f)
      BY <2>6 DEF Accepts
    <3> QED BY <2>1, <2>6, <3>2, <3>3 DEF AcceptsTypeId
  <2>7. CASE f.type = "collection"
    <3>1. Accepts(f) <=> AcceptsCollection(f)
      BY <2>7 DEF Accepts
    <3> QED BY <2>1, <2>4, <2>7, <3>1 DEF AcceptsCollection
  <2>8. CASE f.type = "hierarchy"
    <3>1. Accepts(f) <=> AcceptsHierarchy(f)
      BY <2>8 DEF Accepts
    <3> QED BY <2>1, <2>4, <2>8, <3>1 DEF AcceptsHierarchy
  <2>9. CASE f.type = "node"
    <3> DEFINE There == {p \in EntriesOf("node") : Frames[p].hierarchy = f.hierarchy}
    <3>1. Accepts(f) <=> AcceptsNode(f)
      BY <2>9 DEF Accepts
    <3>2. HasRoot(f.hierarchy) <=> There # {}
      BY <2>3, RootKnown
    <3>3. \A x : <<f.hierarchy, x>> \in DOMAIN nodes <=> \E p \in There : Frames[p].id = x
      BY <2>5
    <3>4. sensible <=>
            /\ f.hierarchy \in hierarchies
            /\ IF There = {} THEN f.parent = 0
               ELSE /\ f.parent # 0
                    /\ \E p \in There : Frames[p].id = f.parent
                    /\ \A p \in There : Frames[p].id # f.id
      BY <2>1, <2>4, <2>9
    <3> HIDE DEF There
    <3> QED BY <2>9, <3>1, <3>2, <3>3, <3>4 DEF AcceptsNode
  <2>10. CASE f.type = "mapping"
    <3>1. Accepts(f) <=> AcceptsMapping(f)
      BY <2>10 DEF Accepts
    <3>2. f.start \in Time
      BY <1>1, <2>10, FrameTold
    <3>3. <<f.hierarchy, f.node>> \in DOMAIN nodes =>
            ((nodes[<<f.hierarchy, f.node>>].mappings = <<>>
                \/ Last(nodes[<<f.hierarchy, f.node>>].mappings).start <= f.start)
              <=> \A p \in MappingsHere(f.hierarchy, f.node) : Frames[p].start <= f.start)
      BY <1>1, <2>3, <3>2, MappingLast
    <3>4. sensible <=>
            /\ Valid(f) /\ Known(f.id) /\ <<f.hierarchy, f.node>> \in DOMAIN nodes
            /\ \A p \in MappingsHere(f.hierarchy, f.node) : Frames[p].start <= f.start
      BY <2>1, <2>4, <2>5, <2>10 DEF Valid, MappingsHere
    <3> QED BY <2>10, <3>1, <3>3, <3>4 DEF AcceptsMapping
  <2>11. CASE f.type = "description"
    BY <2>1, <2>11 DEF Accepts
  <2>12. CASE f.type = "event"
    <3>1. Accepts(f) <=> AcceptsEvent(f)
      BY <2>12 DEF Accepts
    <3> QED BY <2>1, <2>4, <2>12, <3>1 DEF AcceptsEvent, Valid
  <2> QED BY <2>2, <2>6, <2>7, <2>8, <2>9, <2>10, <2>11, <2>12
<1> HIDE DEF f, sensible
<1> QED BY <1>2, <1>3, <1>4 DEF f

(* Whether an earlier entry makes sense does not change.                   *)
LEMMA SensibleStays ==
  ASSUME read \in Seq(FileEntry), NEW e \in FileEntry, read' = Append(read, e)
  PROVE  /\ DOMAIN read' = DOMAIN read \cup {Len(read) + 1}
         /\ Len(read) + 1 \notin DOMAIN read
         /\ \A i \in DOMAIN read : SensibleEntry(i)' <=> SensibleEntry(i)
<1> DEFINE n == Len(read)
<1>1. /\ n \in Nat /\ DOMAIN read = 1 .. n /\ DOMAIN read' = 1 .. n + 1
      /\ \A p \in 1 .. n : read'[p] = read[p] /\ Frames'[p] = Frames[p]
  BY ReadMore
<1> HIDE DEF n
<1>2. DOMAIN read' = DOMAIN read \cup {n + 1} /\ n + 1 \notin DOMAIN read
  BY <1>1
<1>3. ASSUME NEW i \in DOMAIN read
      PROVE  SensibleEntry(i)' <=> SensibleEntry(i)
  <2>1. i \in Nat \ {0} /\ \A j \in 1 .. i : Frames'[j] = Frames[j]
    BY <1>1
  <2>2. Sensible(Frames', i) <=> Sensible(Frames, i)
    BY <2>1, SensibleSame
  <2>3. \A j \in 1 .. i - 1 : j \in 1 .. i
    BY <2>1
  <2>4. /\ EarlierOf(Frames', i, "type_id") = EarlierOf(Frames, i, "type_id")
        /\ \A j \in EarlierOf(Frames, i, "type_id") : Frames'[j] = Frames[j]
    BY <2>1, <2>3 DEF EarlierOf
  <2>5. Frames'[i] = Frames[i] /\ read'[i] = read[i]
    BY <1>1
  <2>6. SensibleEntry(i)' <=>
          /\ Sensible(Frames', i)
          /\ Frames'[i].type = "type_id" => Frames'[i].num < MaxTypes
          /\ read'[i].num # 0 =>
               /\ read'[i].num < MaxTypes
               /\ \E j \in EarlierOf(Frames', i, "type_id") : Frames'[j].num = read'[i].num
    BY DEF SensibleEntry
  <2> QED BY <2>2, <2>4, <2>5, <2>6 DEF SensibleEntry
<1> QED BY <1>2, <1>3 DEF n

-----------------------------------------------------------------------------
(* An entry leaves what it is not about as it is.                          *)

EventsOf(x, P, F) == {p \in P : F[p].id = x}
EventsAre(s, P, F) == Len(s) = Cardinality(P) /\ \A p \in P : s[Nth(P, p)] = F[p]
TellsEvents(s, x, P, F) == EventsAre(s, EventsOf(x, P, F), F)

LEMMA EventsToldIs ==
  EventsTold <=> \A i \in DOMAIN colls :
                   TellsEvents(colls[i].events, colls[i].id, EntriesOf("event"), Frames)
BY DEF EventsTold, TellsEvents, EventsAre, EventsOf

StatesAre(s, P, F) == Len(s) = Cardinality(P) /\ \A p \in P : s[Nth(P, p)] = F[p].state

LEMMA DescriptionsToldIs ==
  DescriptionsTold <=> StatesAre(descs, EntriesOf("description"), Frames)
BY DEF DescriptionsTold, StatesAre

KeysOf(P, F) == {<<F[p].hierarchy, F[p].id>> : p \in P}
ParentsAre(N, P, F) == \A p \in P : N[<<F[p].hierarchy, F[p].id>>].parent = F[p].parent

LEMMA NodesToldIs ==
  NodesTold <=> /\ DOMAIN nodes = KeysOf(EntriesOf("node"), Frames)
                /\ ParentsAre(nodes, EntriesOf("node"), Frames)
BY DEF NodesTold, KeysOf, ParentsAre

IdsOf(P, F) == {F[p].id : p \in P}
MomentsOf(P, F) == {F[p].start : p \in P} \cup {F[p].end : p \in P}

LEMMA SameEntries ==
  ASSUME NEW P, NEW F, NEW G, \A p \in P : F[p] = G[p]
  PROVE  /\ IdsOf(P, F) = IdsOf(P, G)
         /\ MomentsOf(P, F) = MomentsOf(P, G)
         /\ KeysOf(P, F) = KeysOf(P, G)
         /\ \A N : ParentsAre(N, P, F) <=> ParentsAre(N, P, G)
         /\ \A s : StatesAre(s, P, F) <=> StatesAre(s, P, G)
         /\ \A s, x : TellsEvents(s, x, P, F) <=> TellsEvents(s, x, P, G)
         /\ \A s, x : TellsMappings(s, x, P, F) <=> TellsMappings(s, x, P, G)
<1>1. IdsOf(P, F) = IdsOf(P, G) /\ KeysOf(P, F) = KeysOf(P, G)
  BY DEF IdsOf, KeysOf
<1>2. MomentsOf(P, F) = MomentsOf(P, G)
  BY DEF MomentsOf
<1>3. \A N : ParentsAre(N, P, F) <=> ParentsAre(N, P, G)
  BY DEF ParentsAre
<1>4. \A s : StatesAre(s, P, F) <=> StatesAre(s, P, G)
  BY DEF StatesAre
<1>5. ASSUME NEW s, NEW x
      PROVE  TellsEvents(s, x, P, F) <=> TellsEvents(s, x, P, G)
  <2> DEFINE Q == EventsOf(x, P, F)
  <2>1. Q = EventsOf(x, P, G) /\ \A p \in Q : F[p] = G[p]
    BY DEF EventsOf
  <2> HIDE DEF Q
  <2>2. EventsAre(s, Q, F) <=> EventsAre(s, Q, G)
    BY <2>1 DEF EventsAre
  <2> QED BY <2>1, <2>2 DEF TellsEvents, Q
<1>6. ASSUME NEW s, NEW x
      PROVE  TellsMappings(s, x, P, F) <=> TellsMappings(s, x, P, G)
  <2> DEFINE Q == MappingsOf(x, P, F)
  <2>1. Q = MappingsOf(x, P, G) /\ \A p \in Q : F[p] = G[p]
    BY DEF MappingsOf
  <2> HIDE DEF Q
  <2>2. MappingsAre(s, Q, F) <=> MappingsAre(s, Q, G)
    BY <2>1 DEF MappingsAre
  <2> QED BY <2>1, <2>2 DEF TellsMappings, Q
<1> QED BY <1>1, <1>2, <1>3, <1>4, <1>5, <1>6

(* An entry is read: the old ones stay what they are.                      *)
LEMMA EntriesStay ==
  ASSUME read \in Seq(FileEntry), NEW e \in FileEntry, read' = Append(read, e)
  PROVE  /\ \A t : \A p \in EntriesOf(t) : Frames'[p] = Frames[p]
         /\ \A t : e.frame.type # t => EntriesOf(t)' = EntriesOf(t)
<1>1. \A t : \A p \in EntriesOf(t) : Frames'[p] = Frames[p]
  BY EarlierTold
<1>2. \A t : e.frame.type # t => EntriesOf(t)' = EntriesOf(t)
  BY ReadMore
<1> QED BY <1>1, <1>2

LEMMA TypesKept ==
  ASSUME read \in Seq(FileEntry), NEW e \in FileEntry, read' = Append(read, e),
         e.frame.type # "type_id", types' = types, TypesTold
  PROVE  TypesTold'
BY EntriesStay DEF TypesTold

LEMMA IdsKept ==
  ASSUME read \in Seq(FileEntry), NEW e \in FileEntry, read' = Append(read, e)
  PROVE  /\ e.frame.type # "collection" /\ CollectionIdsTold
            /\ {colls[i].id : i \in DOMAIN colls}' = {colls[i].id : i \in DOMAIN colls}
              => CollectionIdsTold'
         /\ e.frame.type # "hierarchy" /\ HierarchiesTold /\ hierarchies' = hierarchies
              => HierarchiesTold'
<1>1. \A t : e.frame.type # t =>
        IdsOf(EntriesOf(t), Frames)' = IdsOf(EntriesOf(t), Frames)
  <2> SUFFICES ASSUME NEW t, e.frame.type # t
               PROVE  IdsOf(EntriesOf(t)', Frames') = IdsOf(EntriesOf(t), Frames)
    OBVIOUS
  <2>1. EntriesOf(t)' = EntriesOf(t) /\ \A p \in EntriesOf(t) : Frames'[p] = Frames[p]
    BY EntriesStay
  <2> QED BY <2>1, SameEntries
<1>2. CollectionIdsTold <=> {colls[i].id : i \in DOMAIN colls} = IdsOf(EntriesOf("collection"), Frames)
  BY DEF CollectionIdsTold, IdsOf
<1>3. CollectionIdsTold' <=>
        {colls[i].id : i \in DOMAIN colls}' = IdsOf(EntriesOf("collection"), Frames)'
  BY DEF CollectionIdsTold, IdsOf
<1>4. HierarchiesTold <=> hierarchies = IdsOf(EntriesOf("hierarchy"), Frames)
  BY DEF HierarchiesTold, IdsOf
<1>5. HierarchiesTold' <=> hierarchies' = IdsOf(EntriesOf("hierarchy"), Frames)'
  BY DEF HierarchiesTold, IdsOf
<1> QED BY ONLY <1>1, <1>2, <1>3, <1>4, <1>5

LEMMA EventsKept ==
  ASSUME read \in Seq(FileEntry), NEW e \in FileEntry, read' = Append(read, e),
         e.frame.type # "event", EventsTold, colls' = colls
  PROVE  EventsTold'
<1>1. EntriesOf("event")' = EntriesOf("event") /\ \A p \in EntriesOf("event") : Frames'[p] = Frames[p]
  BY EntriesStay
<1>2. \A i \in DOMAIN colls : TellsEvents(colls[i].events, colls[i].id, EntriesOf("event"), Frames)
  BY EventsToldIs
<1>3. \A i \in DOMAIN colls : TellsEvents(colls[i].events, colls[i].id, EntriesOf("event"), Frames')
  BY ONLY <1>1, <1>2, SameEntries
<1>4. EventsTold' <=> \A i \in DOMAIN colls' :
        TellsEvents(colls'[i].events, colls'[i].id, EntriesOf("event")', Frames')
  BY DEF EventsTold, TellsEvents, EventsAre, EventsOf
<1> QED BY <1>1, <1>3, <1>4

LEMMA DescriptionsKept ==
  ASSUME read \in Seq(FileEntry), NEW e \in FileEntry, read' = Append(read, e),
         e.frame.type # "description", DescriptionsTold, descs' = descs
  PROVE  DescriptionsTold'
<1> DEFINE P == EntriesOf("description")
<1>1. P' = P /\ \A p \in P : Frames'[p] = Frames[p]
  BY EntriesStay
<1>2. StatesAre(descs, P, Frames)
  BY DescriptionsToldIs
<1>3. DescriptionsTold' <=> StatesAre(descs', P', Frames')
  BY DEF DescriptionsTold, StatesAre
<1> HIDE DEF P
<1> QED BY ONLY <1>1, <1>2, <1>3, descs' = descs, SameEntries

LEMMA NodesKept ==
  ASSUME read \in Seq(FileEntry), NEW e \in FileEntry, read' = Append(read, e),
         e.frame.type # "node", NodesTold, DOMAIN nodes' = DOMAIN nodes,
         \A k \in DOMAIN nodes : nodes'[k].parent = nodes[k].parent
  PROVE  NodesTold'
<1> DEFINE P == EntriesOf("node")
<1>1. P' = P /\ \A p \in P : Frames'[p] = Frames[p]
  BY EntriesStay
<1>2. DOMAIN nodes = KeysOf(P, Frames) /\ ParentsAre(nodes, P, Frames)
  BY NodesToldIs
<1>3. NodesTold' <=> DOMAIN nodes' = KeysOf(P', Frames') /\ ParentsAre(nodes', P', Frames')
  BY DEF NodesTold, KeysOf, ParentsAre
<1> HIDE DEF P
<1>4. KeysOf(P, Frames') = KeysOf(P, Frames) /\ ParentsAre(nodes, P, Frames')
  BY ONLY <1>1, <1>2, SameEntries
<1>5. ParentsAre(nodes', P, Frames')
  <2>1. \A p \in P : <<Frames'[p].hierarchy, Frames'[p].id>> \in DOMAIN nodes
    BY <1>2, <1>4 DEF KeysOf
  <2> QED BY <1>4, <2>1 DEF ParentsAre
<1> QED BY <1>1, <1>2, <1>3, <1>4, <1>5

LEMMA MappingsKept ==
  ASSUME read \in Seq(FileEntry), NEW e \in FileEntry, read' = Append(read, e),
         e.frame.type # "mapping", MappingsTold
  PROVE  /\ \A k \in DOMAIN nodes :
              TellsMappings(nodes[k].mappings, k, EntriesOf("mapping")', Frames')
         /\ nodes' = nodes => MappingsTold'
<1>1. EntriesOf("mapping")' = EntriesOf("mapping")
      /\ \A p \in EntriesOf("mapping") : Frames'[p] = Frames[p]
  BY EntriesStay
<1>2. \A k \in DOMAIN nodes : TellsMappings(nodes[k].mappings, k, EntriesOf("mapping"), Frames)
  BY MappingsToldIs
<1>3. \A k \in DOMAIN nodes : TellsMappings(nodes[k].mappings, k, EntriesOf("mapping"), Frames')
  BY ONLY <1>1, <1>2, SameEntries
<1>4. MappingsTold' <=> \A k \in DOMAIN nodes' :
        TellsMappings(nodes'[k].mappings, k, EntriesOf("mapping")', Frames')
  BY DEF MappingsTold, TellsMappings, MappingsAre, MappingsOf
<1> QED BY <1>1, <1>3, <1>4

LEMMA BoundsKept ==
  ASSUME read \in Seq(FileEntry), NEW e \in FileEntry, read' = Append(read, e),
         e.frame.type # "event", BoundsMet, bounds' = bounds
  PROVE  BoundsMet'
<1> DEFINE P == EntriesOf("event")
<1>1. P' = P /\ \A p \in P : Frames'[p] = Frames[p]
  BY EntriesStay
<1>2. Times = MomentsOf(P, Frames) /\ Times' = MomentsOf(P', Frames')
  BY DEF Times, MomentsOf
<1> HIDE DEF P
<1>3. Times' = Times
  BY ONLY <1>1, <1>2, SameEntries
<1>4. P' = {} <=> P = {}
  BY <1>1
<1> QED BY <1>3, <1>4 DEF BoundsMet, P

-----------------------------------------------------------------------------
(* A collection finds its place.                                           *)
LEMMA InsertedTold ==
  ASSUME CollectionsOK, NEW c \in CollectionRecord, ~Known(c.id), NEW s, s = Inserted(c)
  PROVE  /\ s \in Seq(CollectionRecord) /\ Len(s) = Len(colls) + 1
         /\ \A i, j \in DOMAIN s : i < j => s[i].id < s[j].id
         /\ \A i \in DOMAIN s : s[i] = c \/ \E j \in DOMAIN colls : s[i] = colls[j]
         /\ \E i \in DOMAIN s : s[i] = c
         /\ \A j \in DOMAIN colls : \E i \in DOMAIN s : s[i] = colls[j]
<1> DEFINE n == Len(colls)
           W == {i \in DOMAIN colls : colls[i].id < c.id}
           b == Cardinality(W)
           left == SubSeq(colls, 1, b)
           right == SubSeq(colls, b + 1, n)
<1>1. /\ n \in Nat /\ DOMAIN colls = 1 .. n
      /\ \A i \in 1 .. n : colls[i] \in CollectionRecord
  BY LenProperties, ElementOfSeq DEF CollectionsOK
<1>2. c.id \in Nat /\ \A i \in 1 .. n : colls[i].id \in Nat /\ colls[i].id # c.id
  BY <1>1 DEF CollectionRecord, Known
<1>3. \A i, j \in 1 .. n : i < j => colls[i].id < colls[j].id
  BY <1>1 DEF CollectionsOK
<1>4. s = (left \o <<c>>) \o right
  BY DEF Inserted
<1> HIDE DEF n
<1>5. b \in 0 .. n /\ W = 1 .. b
  <2>1. W \in SUBSET (1 .. n)
    BY <1>1
  <2>2. \A i \in W : \A j \in 1 .. i : j \in W
    <3> SUFFICES ASSUME NEW i \in W, NEW j \in 1 .. i PROVE j \in W
      OBVIOUS
    <3>0. i \in 1 .. n
      BY <2>1
    <3>1. i \in 1 .. n /\ j \in 1 .. n /\ (j < i \/ j = i)
      BY <1>1, <3>0
    <3>2. colls[i].id < c.id /\ (j = i \/ colls[j].id < colls[i].id)
      BY <1>3, <3>1
    <3>3. colls[j].id < c.id
      BY <1>2, <3>1, <3>2
    <3> QED BY <1>1, <3>1, <3>3
  <2> HIDE DEF W
  <2> QED BY <1>1, <2>1, <2>2, FirstOnes
<1>6. /\ \A i \in 1 .. b : colls[i].id < c.id
      /\ \A i \in b + 1 .. n : c.id < colls[i].id
  <2>1. \A i \in 1 .. n : i \in 1 .. b <=> colls[i].id < c.id
    BY <1>1, <1>5
  <2> HIDE DEF b, W
  <2>2. \A i \in 1 .. b : i \in 1 .. n
    BY <1>1, <1>5
  <2>3. \A i \in b + 1 .. n : i \in 1 .. n /\ i \notin 1 .. b
    BY <1>1, <1>5
  <2> QED BY <1>2, <2>1, <2>2, <2>3
<1> HIDE DEF b, W
<1>7. /\ left \in Seq(CollectionRecord) /\ Len(left) = b
      /\ \A i \in 1 .. b : left[i] = colls[i]
  <2>1. \A i \in 1 .. b : colls[i] \in CollectionRecord
    BY <1>1, <1>5
  <2>2. /\ left \in Seq(CollectionRecord)
        /\ Len(left) = IF 1 <= b THEN b - 1 + 1 ELSE 0
        /\ \A i \in 1 .. b - 1 + 1 : left[i] = colls[1 + i - 1]
    BY <1>5, <2>1, SubSeqProperties
  <2> QED BY <1>5, <2>2
<1>8. /\ right \in Seq(CollectionRecord) /\ Len(right) = n - b
      /\ \A i \in 1 .. n - b : right[i] = colls[b + i]
  <2>1. \A i \in b + 1 .. n : colls[i] \in CollectionRecord
    BY <1>1, <1>5
  <2>2. /\ right \in Seq(CollectionRecord)
        /\ Len(right) = IF b + 1 <= n THEN n - (b + 1) + 1 ELSE 0
        /\ \A i \in 1 .. n - (b + 1) + 1 : right[i] = colls[(b + 1) + i - 1]
    BY <1>1, <1>5, <2>1, SubSeqProperties
  <2> QED BY <1>1, <1>5, <2>2
<1> HIDE DEF left, right
<1> DEFINE l == left \o <<c>>
<1>9. /\ <<c>> \in Seq(CollectionRecord) /\ Len(<<c>>) = 1 /\ <<c>>[1] = c
  OBVIOUS
<1>10. /\ l \in Seq(CollectionRecord) /\ Len(l) = b + 1
       /\ \A i \in 1 .. b : l[i] = colls[i]
       /\ l[b + 1] = c
  <2>1. /\ l \in Seq(CollectionRecord) /\ Len(l) = b + 1
        /\ \A i \in 1 .. b + 1 : l[i] = IF i <= b THEN left[i] ELSE <<c>>[i - b]
    BY <1>7, <1>9, ConcatProperties
  <2> HIDE DEF l
  <2>2. l[b + 1] = <<c>>[(b + 1) - b] /\ (b + 1) - b = 1
    BY <1>5, <2>1
  <2>3. \A i \in 1 .. b : l[i] = left[i]
    BY <1>5, <2>1
  <2> QED BY <1>7, <1>9, <2>1, <2>2, <2>3
<1> HIDE DEF l
<1>11. /\ s \in Seq(CollectionRecord) /\ Len(s) = n + 1
       /\ \A i \in 1 .. b : s[i] = colls[i]
       /\ s[b + 1] = c
       /\ \A i \in b + 2 .. n + 1 : s[i] = colls[i - 1]
  <2>1. /\ s \in Seq(CollectionRecord) /\ Len(s) = (b + 1) + (n - b)
        /\ \A i \in 1 .. (b + 1) + (n - b) : s[i] = IF i <= b + 1 THEN l[i] ELSE right[i - (b + 1)]
    <3>1. s = l \o right
      BY <1>4 DEF l
    <3>2. l \in Seq(CollectionRecord) /\ right \in Seq(CollectionRecord)
      BY <1>8, <1>10
    <3>3. /\ s \in Seq(CollectionRecord) /\ Len(s) = Len(l) + Len(right)
          /\ \A i \in 1 .. Len(l) + Len(right) : s[i] = IF i <= Len(l) THEN l[i] ELSE right[i - Len(l)]
      BY ONLY <3>1, <3>2, ConcatProperties
    <3>4. Len(l) = b + 1 /\ Len(right) = n - b
      BY <1>8, <1>10
    <3> QED BY <3>3, <3>4
  <2>2. (b + 1) + (n - b) = n + 1
    BY <1>1, <1>5
  <2>3. \A i \in 1 .. b + 1 : s[i] = l[i]
    BY <1>1, <1>5, <2>1, <2>2
  <2>4. \A i \in b + 2 .. n + 1 : s[i] = right[i - (b + 1)]
    BY <1>1, <1>5, <2>1, <2>2
  <2>5. \A i \in b + 2 .. n + 1 : i - (b + 1) \in 1 .. n - b /\ b + (i - (b + 1)) = i - 1
    BY <1>1, <1>5
  <2>6. \A i \in b + 2 .. n + 1 : s[i] = colls[i - 1]
    BY <1>8, <2>4, <2>5
  <2>7. b + 1 \in 1 .. b + 1 /\ \A i \in 1 .. b : i \in 1 .. b + 1
    BY <1>5
  <2> QED BY <1>10, <2>1, <2>2, <2>3, <2>6, <2>7
<1>12. DOMAIN s = 1 .. n + 1
  BY <1>11, LenProperties
<1>13. ASSUME NEW i \in 1 .. n + 1, NEW j \in 1 .. n + 1, i < j
       PROVE  s[i].id < s[j].id
  <2>1. CASE j \in 1 .. b
    <3>1. i \in 1 .. b /\ i \in 1 .. n /\ j \in 1 .. n
      BY <1>1, <1>5, <1>13, <2>1
    <3> QED BY <1>3, <1>11, <1>13, <2>1, <3>1
  <2>2. CASE j = b + 1
    <3>1. i \in 1 .. b
      BY <1>5, <1>13, <2>2
    <3> QED BY <1>6, <1>11, <2>2, <3>1
  <2>3. CASE j \in b + 2 .. n + 1
    <3>0. j - 1 \in b + 1 .. n /\ j - 1 \in 1 .. n /\ s[j] = colls[j - 1]
      BY <1>1, <1>5, <1>11, <2>3
    <3>1. CASE i \in 1 .. b
      <4>1. i \in 1 .. n /\ i < j - 1
        BY <1>1, <1>5, <2>3, <3>1
      <4> QED BY <1>3, <1>11, <3>0, <3>1, <4>1
    <3>2. CASE i = b + 1
      BY <1>6, <1>11, <3>0, <3>2
    <3>3. CASE i \in b + 2 .. n + 1
      <4>1. i - 1 \in 1 .. n /\ i - 1 < j - 1 /\ s[i] = colls[i - 1]
        BY <1>1, <1>5, <1>11, <1>13, <2>3, <3>3
      <4> QED BY <1>3, <3>0, <4>1
    <3>4. i \in 1 .. b \/ i = b + 1 \/ i \in b + 2 .. n + 1
      BY <1>1, <1>5
    <3> QED BY <3>1, <3>2, <3>3, <3>4
  <2>4. j \in 1 .. b \/ j = b + 1 \/ j \in b + 2 .. n + 1
    BY <1>1, <1>5
  <2> QED BY <2>1, <2>2, <2>3, <2>4
<1>14. ASSUME NEW i \in 1 .. n + 1
       PROVE  s[i] = c \/ \E j \in 1 .. n : s[i] = colls[j]
  <2>1. \/ i \in 1 .. b /\ i \in 1 .. n
        \/ i = b + 1
        \/ i \in b + 2 .. n + 1 /\ i - 1 \in 1 .. n
    BY <1>1, <1>5
  <2> QED BY <1>11, <2>1
<1>15. b + 1 \in 1 .. n + 1 /\ s[b + 1] = c
  BY <1>1, <1>5, <1>11
<1>16. ASSUME NEW j \in 1 .. n
       PROVE  \E i \in 1 .. n + 1 : s[i] = colls[j]
  <2>1. CASE j \in 1 .. b
    <3>1. j \in 1 .. n + 1
      BY <1>1
    <3> QED BY <1>11, <2>1, <3>1
  <2>2. CASE j \notin 1 .. b
    <3>1. j + 1 \in b + 2 .. n + 1 /\ j + 1 \in 1 .. n + 1 /\ (j + 1) - 1 = j
      BY <1>1, <1>5, <2>2
    <3>2. s[j + 1] = colls[j]
      BY <1>11, <3>1
    <3> QED BY <3>1, <3>2
  <2> QED BY <2>1, <2>2
<1>17. DOMAIN s = 1 .. n + 1 /\ DOMAIN colls = 1 .. n
  BY <1>1, <1>11, LenProperties
<1>18. Len(s) = Len(colls) + 1
  BY <1>11 DEF n
<1>19. \E i \in DOMAIN s : s[i] = c
  BY <1>15, <1>17
<1>20. \A i, j \in DOMAIN s : i < j => s[i].id < s[j].id
  BY <1>13, <1>17
<1>21. \A i \in DOMAIN s : s[i] = c \/ \E j \in DOMAIN colls : s[i] = colls[j]
  BY <1>14, <1>17
<1>22. \A j \in DOMAIN colls : \E i \in DOMAIN s : s[i] = colls[j]
  BY <1>16, <1>17
<1> QED BY <1>11, <1>18, <1>19, <1>20, <1>21, <1>22

LEMMA ToldKept ==
  ASSUME read \in Seq(FileEntry), NEW e \in FileEntry, read' = Append(read, e), MemoryTold
  PROVE  LET type == e.frame.type
         IN  /\ colls' = colls /\ free' = free => SpaceCounted'
             /\ type # "type_id" /\ types' = types => TypesTold'
             /\ type # "collection" /\ colls' = colls => CollectionIdsTold'
             /\ type # "hierarchy" /\ hierarchies' = hierarchies => HierarchiesTold'
             /\ type # "event" /\ colls' = colls => EventsTold'
             /\ type # "event" /\ bounds' = bounds => BoundsMet'
             /\ type # "description" /\ descs' = descs => DescriptionsTold'
             /\ type # "node" /\ nodes' = nodes => NodesTold'
             /\ type # "mapping" /\ nodes' = nodes => MappingsTold'
<1>1. colls' = colls /\ free' = free => SpaceCounted'
  BY DEF SpaceCounted, MemoryTold
<1>2. e.frame.type # "type_id" /\ types' = types => TypesTold'
  BY TypesKept DEF MemoryTold
<1>3. e.frame.type # "collection" /\ colls' = colls => CollectionIdsTold'
  BY IdsKept DEF MemoryTold
<1>4. e.frame.type # "hierarchy" /\ hierarchies' = hierarchies => HierarchiesTold'
  BY IdsKept DEF MemoryTold
<1>5. e.frame.type # "event" /\ colls' = colls => EventsTold'
  BY EventsKept DEF MemoryTold
<1>6. e.frame.type # "event" /\ bounds' = bounds => BoundsMet'
  BY BoundsKept DEF MemoryTold
<1>7. e.frame.type # "description" /\ descs' = descs => DescriptionsTold'
  BY DescriptionsKept DEF MemoryTold
<1>8. e.frame.type # "node" /\ nodes' = nodes => NodesTold'
  BY NodesKept DEF MemoryTold
<1>9. e.frame.type # "mapping" /\ nodes' = nodes => MappingsTold'
  BY MappingsKept DEF MemoryTold
<1> QED BY <1>1, <1>2, <1>3, <1>4, <1>5, <1>6, <1>7, <1>8, <1>9

NodesFine(N, H) ==
  /\ DOMAIN N \subseteq Nat \X Nat /\ IsFiniteSet(DOMAIN N)
  /\ N \in [DOMAIN N -> NodeRecord]
  /\ \A k \in DOMAIN N : \A i, j \in DOMAIN N[k].mappings :
       i < j => N[k].mappings[i].start <= N[k].mappings[j].start
  /\ Tree(N, H)

LEMMA NodesFineIs ==
  (NodesOK <=> NodesFine(nodes, hierarchies)) /\ (NodesOK' <=> NodesFine(nodes', hierarchies'))
BY TreeTold DEF NodesOK, NodesFine

CollectionsFine(s) ==
  /\ s \in Seq(CollectionRecord)
  /\ \A i, j \in DOMAIN s : i < j => s[i].id < s[j].id
  /\ \A i \in DOMAIN s : Len(s[i].states) = Len(s[i].events)

LEMMA CollectionsFineIs ==
  (CollectionsOK <=> CollectionsFine(colls)) /\ (CollectionsOK' <=> CollectionsFine(colls'))
BY DEF CollectionsOK, CollectionsFine

LEMMA MemoryKept ==
  ASSUME MemoryOK
  PROVE  /\ UNCHANGED <<types, block, free, descs, bounds>> => TablesOK'
         /\ colls' = colls => CollectionsOK'
         /\ nodes' = nodes /\ hierarchies \subseteq hierarchies' => NodesOK'
<1>1. UNCHANGED <<types, block, free, descs, bounds>> => TablesOK'
  BY DEF MemoryOK, TablesOK
<1>2. colls' = colls => CollectionsOK'
  BY CollectionsFineIs DEF MemoryOK
<1>3. nodes' = nodes /\ hierarchies \subseteq hierarchies' => NodesOK'
  <2>1. \A N, H, I : NodesFine(N, H) /\ H \subseteq I => NodesFine(N, I)
    BY ZenonT(30) DEF NodesFine, Tree
  <2> QED BY <2>1, NodesFineIs DEF MemoryOK
<1> QED BY <1>1, <1>2, <1>3

-----------------------------------------------------------------------------
(* References from mappings to collections                                 *)

CollectionsFirst ==
  \A i, j \in DOMAIN read : Frames[i].type = "mapping" /\ Frames[j].type = "collection" => j < i

LEMMA FirstStays ==
  ASSUME read \in Seq(FileEntry), NEW e \in FileEntry, read' = Append(read, e),
         CollectionsFirst'
  PROVE  /\ CollectionsFirst
         /\ e.frame.type = "collection" => EntriesOf("mapping") = {}
<1> DEFINE n == Len(read)
<1>1. /\ n \in Nat /\ DOMAIN read = 1 .. n /\ DOMAIN read' = 1 .. n + 1
      /\ \A p \in 1 .. n : Frames'[p] = Frames[p]
      /\ Frames'[n + 1] = e.frame
  BY ReadMore
<1> HIDE DEF n
<1>2. \A i, j \in 1 .. n + 1 :
        Frames'[i].type = "mapping" /\ Frames'[j].type = "collection" => j < i
  BY <1>1 DEF CollectionsFirst
<1>3. n + 1 \in 1 .. n + 1 /\ \A p \in 1 .. n : p \in 1 .. n + 1 /\ ~(n + 1 < p)
  BY <1>1
<1>4. \A i, j \in 1 .. n :
        Frames[i].type = "mapping" /\ Frames[j].type = "collection" => j < i
  BY <1>1, <1>2, <1>3
<1>5. e.frame.type = "collection" => \A i \in 1 .. n : Frames[i].type # "mapping"
  BY <1>1, <1>2, <1>3
<1> QED BY <1>1, <1>4, <1>5 DEF CollectionsFirst, EntriesOf

LEMMA MappedKept ==
  ASSUME read \in Seq(FileEntry), NEW e \in FileEntry, read' = Append(read, e), MappedOrdered,
         \A k \in DOMAIN nodes' :
           \/ nodes'[k].mappings = <<>>
           \/ k \in DOMAIN nodes /\ nodes'[k].mappings = nodes[k].mappings,
         block' = block, DOMAIN colls' = DOMAIN colls,
         \A i \in DOMAIN colls : colls'[i].id = colls[i].id
  PROVE  MappedOrdered'
<1> SUFFICES ASSUME CollectionsFirst' PROVE MappedRight'
  BY DEF MappedOrdered, CollectionsFirst
<1>1. MappedRight
  BY FirstStays DEF MappedOrdered, CollectionsFirst
<1>2. \A m : Refers(m) => Refers(m)'
  BY DEF Refers
<1>3. ASSUME NEW k \in DOMAIN nodes', NEW i \in DOMAIN nodes'[k].mappings
      PROVE  nodes'[k].mappings[i].block = block'
             /\ nodes'[k].mappings[i].slot \in DOMAIN colls'
             /\ colls'[nodes'[k].mappings[i].slot].id = nodes'[k].mappings[i].wanted
  <2>1. k \in DOMAIN nodes /\ nodes'[k].mappings = nodes[k].mappings
    BY <1>3
  <2>2. Refers(nodes[k].mappings[i])
    BY <1>1, <1>3, <2>1 DEF MappedRight
  <2> QED BY <2>1, <2>2 DEF Refers
<1> QED BY <1>3 DEF MappedRight, Refers

-----------------------------------------------------------------------------
(* What each type of frame does to what is in memory                       *)

LEMMA StepTypeId ==
  ASSUME ReadingOK, MemoryOK, MappedOrdered, MemoryTold,
         NEW e \in FileEntry, read' = Append(read, e),
         e.frame.type = "type_id", AcceptsTypeId(e.frame), ProcessTypeId(e.frame)
  PROVE  MemoryOK' /\ MappedOrdered' /\ MemoryTold'
<1> DEFINE f == e.frame
           n == Len(read)
<1>1. read \in Seq(FileEntry) /\ f \in FileFrame
  BY DEF ReadingOK, FileEntry
<1>2. UNCHANGED <<colls, block, free, hierarchies, nodes, descs, bounds>>
  BY DEF ProcessTypeId
<1>3. /\ types' = [types EXCEPT ![f.num] = f.of]
      /\ f.of \in TypeNames /\ f.num \in 1 .. MaxTypes - 1
  <2>1. f.num \in Nat
    BY <1>1, FrameTold
  <2> QED BY <2>1, LoadAssumption DEF ProcessTypeId, AcceptsTypeId
<1>4. /\ EntriesOf("type_id")' = EntriesOf("type_id") \cup {n + 1}
      /\ Frames'[n + 1] = f
      /\ \A p \in EntriesOf("type_id") : Frames'[p] = Frames[p]
  BY <1>1, ReadMore, EntriesStay
<1> HIDE DEF f, n
<1>5. TablesOK /\ types \in [0 .. MaxTypes - 1 -> TypeNames \cup {TypeIdName, None}]
  BY DEF MemoryOK, TablesOK
<1>6. \A k \in 1 .. MaxTypes - 1 : k \in 0 .. MaxTypes - 1 /\ k # 0
  BY LoadAssumption
<1>7. /\ types' \in [0 .. MaxTypes - 1 -> TypeNames \cup {TypeIdName, None}]
      /\ types'[f.num] = f.of
      /\ \A k \in 0 .. MaxTypes - 1 : k # f.num => types'[k] = types[k]
  BY <1>3, <1>5, <1>6
<1>8. TablesOK'
  <2>1. 0 \in 0 .. MaxTypes - 1 /\ 0 # f.num
    BY <1>3, LoadAssumption
  <2> QED BY <1>2, <1>5, <1>7, <2>1 DEF TablesOK
<1>9. TypesTold'
  <2>1. None \notin TypeNames
    BY DEF None, TypeNames
  <2> SUFFICES ASSUME NEW k \in 1 .. MaxTypes - 1
               PROVE  types'[k] # None <=> \E p \in EntriesOf("type_id")' : Frames'[p].num = k
    BY DEF TypesTold
  <2>2. CASE k = f.num
    BY <1>3, <1>4, <1>7, <2>1, <2>2
  <2>3. CASE k # f.num
    <3>1. types'[k] = types[k]
      BY <1>6, <1>7, <2>3
    <3>2. types[k] # None <=> \E p \in EntriesOf("type_id") : Frames[p].num = k
      BY DEF MemoryTold, TypesTold
    <3> QED BY <1>4, <2>3, <3>1, <3>2
  <2> QED BY <2>2, <2>3
<1>10. e.frame.type = "type_id"
  OBVIOUS
<1>11. /\ SpaceCounted' /\ CollectionIdsTold' /\ HierarchiesTold' /\ EventsTold'
       /\ DescriptionsTold' /\ NodesTold' /\ MappingsTold' /\ BoundsMet'
  BY <1>1, <1>2, <1>10, ToldKept
<1>12. CollectionsOK' /\ NodesOK'
  BY <1>2, MemoryKept
<1>13. MappedOrdered'
  BY <1>1, <1>2, MappedKept
<1> QED BY <1>8, <1>9, <1>11, <1>12, <1>13 DEF MemoryOK, MemoryTold

LEMMA StepHierarchy ==
  ASSUME ReadingOK, MemoryOK, MappedOrdered, MemoryTold,
         NEW e \in FileEntry, read' = Append(read, e),
         e.frame.type = "hierarchy", ProcessHierarchy(e.frame)
  PROVE  MemoryOK' /\ MappedOrdered' /\ MemoryTold'
<1>1. read \in Seq(FileEntry)
  BY DEF ReadingOK
<1>2. /\ UNCHANGED <<types, colls, block, free, nodes, descs, bounds>>
      /\ hierarchies' = hierarchies \cup {e.frame.id}
  BY DEF ProcessHierarchy
<1>3. HierarchiesTold'
  <2>1. /\ EntriesOf("hierarchy")' = EntriesOf("hierarchy") \cup {Len(read) + 1}
        /\ Frames'[Len(read) + 1] = e.frame
        /\ \A p \in EntriesOf("hierarchy") : Frames'[p] = Frames[p]
    BY <1>1, ReadMore, EntriesStay
  <2>2. hierarchies = {Frames[p].id : p \in EntriesOf("hierarchy")}
    BY DEF MemoryTold, HierarchiesTold
  <2>3. {Frames'[p].id : p \in EntriesOf("hierarchy")'}
          = {Frames[p].id : p \in EntriesOf("hierarchy")} \cup {e.frame.id}
    BY <2>1
  <2> QED BY <1>2, <2>2, <2>3 DEF HierarchiesTold
<1>4. /\ SpaceCounted' /\ TypesTold' /\ CollectionIdsTold' /\ EventsTold'
      /\ DescriptionsTold' /\ NodesTold' /\ MappingsTold' /\ BoundsMet'
  BY <1>1, <1>2, ToldKept
<1>5. MemoryOK'
  BY <1>2, MemoryKept DEF MemoryOK
<1>6. MappedOrdered'
  BY <1>1, <1>2, MappedKept
<1> QED BY <1>3, <1>4, <1>5, <1>6 DEF MemoryTold

LEMMA StepDescription ==
  ASSUME ReadingOK, MemoryOK, MappedOrdered, MemoryTold,
         NEW e \in FileEntry, read' = Append(read, e),
         e.frame.type = "description", ProcessDescription(e.frame)
  PROVE  MemoryOK' /\ MappedOrdered' /\ MemoryTold'
<1> DEFINE n == Len(read)
           P == EntriesOf("description")
           f == e.frame
<1>1. read \in Seq(FileEntry) /\ f \in FileFrame
  BY DEF ReadingOK, FileEntry
<1>2. /\ UNCHANGED <<types, colls, block, free, hierarchies, nodes, bounds>>
      /\ descs' = Append(descs, f.state)
  BY DEF ProcessDescription
<1>3. /\ n \in Nat /\ P \in SUBSET (1 .. n) /\ P' = P \cup {n + 1}
      /\ Frames'[n + 1] = f /\ \A p \in P : Frames'[p] = Frames[p]
  BY <1>1, ReadMore, EntriesStay
<1>4. f.state \in Nat
  BY <1>1, FrameTold
<1>5. descs \in Seq(Nat) /\ StatesAre(descs, P, Frames)
  BY DescriptionsToldIs DEF MemoryOK, TablesOK, MemoryTold
<1> HIDE DEF n, P, f
<1>6. /\ descs' \in Seq(Nat) /\ Len(descs') = Len(descs) + 1
      /\ descs'[Len(descs) + 1] = f.state
      /\ \A i \in 1 .. Len(descs) : descs'[i] = descs[i]
  BY <1>2, <1>4, <1>5, AppendProperties
<1>7. StatesAre(descs', P \cup {n + 1}, Frames')
  <2>1. /\ Cardinality(P \cup {n + 1}) = Cardinality(P) + 1
        /\ Nth(P \cup {n + 1}, n + 1) = Cardinality(P) + 1
        /\ \A p \in P : Nth(P, p) \in 1 .. Cardinality(P) /\ Nth(P \cup {n + 1}, p) = Nth(P, p)
    BY <1>3, NthMore
  <2>2. Len(descs) = Cardinality(P) /\ \A p \in P : descs[Nth(P, p)] = Frames[p].state
    BY <1>5 DEF StatesAre
  <2>3. Len(descs') = Cardinality(P \cup {n + 1})
    BY <1>6, <2>1, <2>2
  <2>4. descs'[Nth(P \cup {n + 1}, n + 1)] = Frames'[n + 1].state
    BY <1>3, <1>6, <2>1, <2>2
  <2>5. \A p \in P : descs'[Nth(P \cup {n + 1}, p)] = Frames'[p].state
    BY <1>3, <1>6, <2>1, <2>2
  <2> QED BY <2>3, <2>4, <2>5 DEF StatesAre
<1>8. DescriptionsTold'
  <2>1. DescriptionsTold' <=> StatesAre(descs', EntriesOf("description")', Frames')
    BY DEF DescriptionsTold, StatesAre
  <2> QED BY <1>3, <1>7, <2>1 DEF P
<1>9. /\ SpaceCounted' /\ TypesTold' /\ CollectionIdsTold' /\ HierarchiesTold' /\ EventsTold'
      /\ NodesTold' /\ MappingsTold' /\ BoundsMet'
  BY <1>1, <1>2, ToldKept
<1>10. CollectionsOK' /\ NodesOK'
  BY <1>2, MemoryKept
<1>11. TablesOK'
  BY <1>2, <1>6 DEF MemoryOK, TablesOK
<1>12. MappedOrdered'
  BY <1>1, <1>2, MappedKept
<1> QED BY <1>8, <1>9, <1>10, <1>11, <1>12 DEF MemoryOK, MemoryTold

(* What an event or a mapping refers to has been read before it.           *)
LEMMA ReferredTo ==
  ASSUME read \in Seq(FileEntry), SensibleSoFar
  PROVE  /\ \A p \in EntriesOf("event") :
              \E q \in EntriesOf("collection") : Frames[q].id = Frames[p].id
         /\ \A p \in EntriesOf("mapping") :
              \E q \in EntriesOf("node") :
                Frames[q].hierarchy = Frames[p].hierarchy /\ Frames[q].id = Frames[p].node
<1> DEFINE n == Len(read)
<1>1. n \in Nat /\ DOMAIN read = 1 .. n
  BY LenProperties
<1>2. \A t : EntriesOf(t) = {p \in 1 .. n : Frames[p].type = t}
  BY <1>1 DEF EntriesOf
<1> HIDE DEF n
<1>3. \A p \in 1 .. n : Sensible(Frames, p)
  BY <1>1 DEF SensibleSoFar, SensibleEntry
<1>4. \A p \in 1 .. n : \A q \in 1 .. p - 1 : q \in 1 .. n
  BY <1>1
<1>5. ASSUME NEW p \in EntriesOf("event")
      PROVE  \E q \in EntriesOf("collection") : Frames[q].id = Frames[p].id
  <2>1. p \in 1 .. n /\ Frames[p].type = "event"
    BY <1>2
  <2>2. Earlier(Frames, p, Collection(Frames[p].id))
    BY <1>3, <2>1 DEF Sensible
  <2>3. PICK q \in 1 .. p - 1 : Frames[q] = Collection(Frames[p].id)
    BY <2>2 DEF Earlier
  <2>4. q \in 1 .. n /\ Frames[q].type = "collection" /\ Frames[q].id = Frames[p].id
    BY <1>4, <2>1, <2>3 DEF Collection
  <2> QED BY <1>2, <2>4
<1>6. ASSUME NEW p \in EntriesOf("mapping")
      PROVE  \E q \in EntriesOf("node") :
               Frames[q].hierarchy = Frames[p].hierarchy /\ Frames[q].id = Frames[p].node
  <2>1. p \in 1 .. n /\ Frames[p].type = "mapping"
    BY <1>2
  <2>2. SensibleMapping(Frames, p)
    BY <1>3, <2>1 DEF Sensible
  <2>3. PICK q \in EarlierOf(Frames, p, "node") :
          Frames[q].hierarchy = Frames[p].hierarchy /\ Frames[q].id = Frames[p].node
    BY <2>2 DEF SensibleMapping
  <2>4. q \in 1 .. n /\ Frames[q].type = "node"
    BY <1>4, <2>1, <2>3 DEF EarlierOf
  <2> QED BY <1>2, <2>3, <2>4
<1> QED BY <1>5, <1>6

LEMMA StepCollection ==
  ASSUME ReadingOK, MemoryOK, MappedOrdered, Told,
         NEW e \in FileEntry, read' = Append(read, e),
         e.frame.type = "collection", AcceptsCollection(e.frame), ProcessCollection(e.frame)
  PROVE  MemoryOK' /\ MappedOrdered' /\ MemoryTold'
<1> DEFINE f == e.frame
           n == Len(read)
           c == [id |-> f.id, events |-> <<>>, states |-> <<>>]
<1>1. read \in Seq(FileEntry) /\ f \in FileFrame /\ MemoryTold /\ SensibleSoFar
  BY DEF ReadingOK, FileEntry, Told
<1>2. /\ UNCHANGED <<types, hierarchies, nodes, descs, bounds>>
      /\ colls' = Inserted(c)
  BY DEF ProcessCollection
<1>3. f.id \in Nat /\ ~Known(f.id)
  BY <1>1, FrameTold DEF AcceptsCollection
<1>4. c \in CollectionRecord /\ c.id = f.id /\ c.events = <<>> /\ c.states = <<>>
  BY <1>3 DEF CollectionRecord
<1> HIDE DEF c
<1>5. CollectionsFine(colls)
  BY CollectionsFineIs DEF MemoryOK
<1>6. /\ colls' \in Seq(CollectionRecord) /\ Len(colls') = Len(colls) + 1
      /\ \A i, j \in DOMAIN colls' : i < j => colls'[i].id < colls'[j].id
      /\ \A i \in DOMAIN colls' : colls'[i] = c \/ \E j \in DOMAIN colls : colls'[i] = colls[j]
      /\ \E i \in DOMAIN colls' : colls'[i] = c
      /\ \A j \in DOMAIN colls : \E i \in DOMAIN colls' : colls'[i] = colls[j]
  <2>1. CollectionsOK /\ ~Known(c.id)
    BY <1>3, <1>4 DEF MemoryOK
  <2> QED BY <1>2, <1>4, <2>1, InsertedTold
<1>7. CollectionsOK'
  <2>1. \A i \in DOMAIN colls' : Len(colls'[i].states) = Len(colls'[i].events)
    <3>1. Len(c.states) = Len(c.events)
      BY <1>4
    <3> QED BY <1>5, <1>6, <3>1 DEF CollectionsFine
  <2> QED BY <1>6, <2>1 DEF CollectionsOK
<1>8. free \in 0 .. 2 * Prealloc - 2 /\ block \in Nat /\ Prealloc \in Nat \ {0} /\ Len(colls) \in Nat
  BY <1>5, LoadAssumption, LenProperties DEF MemoryOK, TablesOK, CollectionsFine
<1>9. /\ free' \in 0 .. 2 * Prealloc - 2 /\ block' \in Nat
      /\ free' = IF free < Prealloc THEN free + Prealloc - 1 ELSE free - 1
  BY <1>8 DEF ProcessCollection
<1>10. TablesOK'
  BY <1>2, <1>9 DEF MemoryOK, TablesOK
<1>11. SpaceCounted'
  <2>1. PICK q \in Nat : Len(colls) + free = q * Prealloc
    BY <1>1 DEF MemoryTold, SpaceCounted
  <2>2. CASE free < Prealloc
    <3>1. Len(colls') + free' = Len(colls) + free + Prealloc
      BY <1>6, <1>8, <1>9, <2>2
    <3>2. (q + 1) * Prealloc = q * Prealloc + Prealloc
      BY <1>8
    <3>3. Len(colls') + free' = (q + 1) * Prealloc /\ q + 1 \in Nat
      BY <2>1, <3>1, <3>2
    <3> QED BY <3>3 DEF SpaceCounted
  <2>3. CASE ~(free < Prealloc)
    <3>1. Len(colls') + free' = Len(colls) + free
      BY <1>6, <1>8, <1>9, <2>3
    <3> QED BY <2>1, <3>1 DEF SpaceCounted
  <2> QED BY <2>2, <2>3
<1>12. /\ EntriesOf("collection")' = EntriesOf("collection") \cup {n + 1}
       /\ Frames'[n + 1] = f
       /\ \A p \in EntriesOf("collection") : Frames'[p] = Frames[p]
       /\ EntriesOf("event")' = EntriesOf("event")
       /\ \A p \in EntriesOf("event") : Frames'[p] = Frames[p]
  BY <1>1, ReadMore, EntriesStay
<1> HIDE DEF f, n
<1>13. CollectionIdsTold'
  <2>1. {colls[i].id : i \in DOMAIN colls} = {Frames[p].id : p \in EntriesOf("collection")}
    BY <1>1 DEF MemoryTold, CollectionIdsTold
  <2>2. {Frames'[p].id : p \in EntriesOf("collection")'}
          = {Frames[p].id : p \in EntriesOf("collection")} \cup {f.id}
    BY <1>12
  <2>3. {colls'[i].id : i \in DOMAIN colls'} = {colls[i].id : i \in DOMAIN colls} \cup {f.id}
    BY <1>4, <1>6
  <2> QED BY <2>1, <2>2, <2>3 DEF CollectionIdsTold
<1>14. EventsTold'
  <2> DEFINE P == EntriesOf("event")
  <2>1. EventsOf(f.id, P, Frames) = {}
    <3>1. \A p \in P : Known(Frames[p].id)
      BY <1>1, ReferredTo, KnownTold DEF MemoryTold
    <3> QED BY <1>3, <3>1 DEF EventsOf
  <2>2. TellsEvents(<<>>, f.id, P, Frames)
    BY <2>1, FS_EmptySet DEF TellsEvents, EventsAre
  <2>3. \A i \in DOMAIN colls : TellsEvents(colls[i].events, colls[i].id, P, Frames)
    BY <1>1, EventsToldIs DEF MemoryTold
  <2>4. P' = P /\ \A p \in P : Frames'[p] = Frames[p]
    BY <1>12
  <2> HIDE DEF P
  <2>5. \A i \in DOMAIN colls' : TellsEvents(colls'[i].events, colls'[i].id, P, Frames)
    BY <1>4, <1>6, <2>2, <2>3
  <2>6. \A i \in DOMAIN colls' : TellsEvents(colls'[i].events, colls'[i].id, P, Frames')
    BY ONLY <2>4, <2>5, SameEntries
  <2>7. EventsTold' <=> \A i \in DOMAIN colls' :
                          TellsEvents(colls'[i].events, colls'[i].id, P', Frames')
    BY DEF EventsTold, TellsEvents, EventsAre, EventsOf, P
  <2> QED BY <2>4, <2>6, <2>7
<1>15. /\ TypesTold' /\ HierarchiesTold' /\ DescriptionsTold' /\ NodesTold' /\ MappingsTold' /\ BoundsMet'
  BY <1>1, <1>2, ToldKept
<1>16. NodesOK'
  BY <1>2, MemoryKept
<1>17. MappedOrdered'
  <2> SUFFICES ASSUME CollectionsFirst' PROVE MappedRight'
    BY DEF MappedOrdered, CollectionsFirst
  <2>1. EntriesOf("mapping") = {}
    BY <1>1, FirstStays
  <2>2. \A k \in DOMAIN nodes : Len(nodes[k].mappings) = 0
    <3>1. \A k : MappingsOf(k, {}, Frames) = {}
      BY DEF MappingsOf
    <3>2. MappingsTold
      BY <1>1 DEF MemoryTold
    <3> QED BY <2>1, <3>1, <3>2, MappingsToldIs, FS_EmptySet DEF TellsMappings, MappingsAre
  <2>3. \A k \in DOMAIN nodes : DOMAIN nodes[k].mappings = {}
    <3> SUFFICES ASSUME NEW k \in DOMAIN nodes PROVE DOMAIN nodes[k].mappings = {}
      OBVIOUS
    <3>1. nodes[k].mappings \in Seq(MappingRecord)
      BY DEF MemoryOK, NodesOK, NodeRecord
    <3>2. DOMAIN nodes[k].mappings = 1 .. 0
      BY <2>2, <3>1, LenProperties
    <3> QED BY <3>2
  <2> QED BY <1>2, <2>3 DEF MappedRight
<1> QED BY <1>7, <1>10, <1>11, <1>13, <1>14, <1>15, <1>16, <1>17 DEF MemoryOK, MemoryTold

LEMMA PositionTold ==
  ASSUME CollectionsOK, NEW x, Known(x)
  PROVE  /\ Position(x) \in DOMAIN colls /\ colls[Position(x)].id = x
         /\ \A i \in DOMAIN colls : colls[i].id = x => i = Position(x)
<1>1. Position(x) \in DOMAIN colls /\ colls[Position(x)].id = x
  BY DEF Known, Position
<1>2. ASSUME NEW i \in DOMAIN colls, colls[i].id = x
      PROVE  i = Position(x)
  <2> DEFINE p == Position(x)
  <2>1. /\ DOMAIN colls = 1 .. Len(colls) /\ Len(colls) \in Nat
        /\ \A j \in 1 .. Len(colls) : colls[j] \in CollectionRecord
    BY LenProperties, ElementOfSeq DEF CollectionsOK
  <2>2. colls[p].id = x /\ p \in DOMAIN colls
    BY <1>1
  <2> HIDE DEF p
  <2>3. i \in Nat /\ p \in Nat /\ x \in Nat
    BY <2>1, <2>2 DEF CollectionRecord
  <2>4. ~(i < p) /\ ~(p < i)
    BY <1>2, <2>2, <2>3 DEF CollectionsOK
  <2>5. i = p
    BY <2>3, <2>4
  <2> QED BY <2>5 DEF p
<1> QED BY <1>1, <1>2

(* The bounds of a trace follow an event.                                  *)
LEMMA WidenedTold ==
  ASSUME read \in Seq(FileEntry), TablesOK, BoundsMet,
         NEW e \in FileEntry, read' = Append(read, e),
         e.frame.type = "event", Valid(e.frame), bounds' = Widened(e.frame)
  PROVE  BoundsMet' /\ bounds' \in [start : Time, end : Time]
<1> DEFINE f == e.frame
           P == EntriesOf("event")
           n == Len(read)
<1>1. f \in FileFrame /\ f.start \in Time /\ f.end \in Time /\ f.start <= f.end
  <2>1. f \in FileFrame
    BY DEF FileEntry
  <2> QED BY <2>1, FrameTold DEF Valid
<1>2. /\ P' = P \cup {n + 1} /\ Frames'[n + 1] = f
      /\ \A p \in P : Frames'[p] = Frames[p] /\ Frames[p] \in FileFrame /\ Frames[p].type = "event"
  BY ReadMore, EntriesStay, EarlierTold
<1>3. Times \subseteq Time /\ (P = {} <=> Times = {})
  <2>1. \A p \in P : Frames[p].start \in Time /\ Frames[p].end \in Time
    BY <1>2, FrameTold
  <2> QED BY <2>1 DEF Times
<1>4. Times' = Times \cup {f.start, f.end}
  <2>1. Times' = MomentsOf(P', Frames') /\ Times = MomentsOf(P, Frames)
    BY DEF Times, MomentsOf
  <2>2. MomentsOf(P', Frames') = MomentsOf(P, Frames') \cup {f.start, f.end}
    BY <1>2 DEF MomentsOf
  <2>3. MomentsOf(P, Frames') = MomentsOf(P, Frames)
    <3> HIDE DEF P
    <3> QED BY <1>2, SameEntries
  <2> QED BY <2>1, <2>2, <2>3
<1>5. P' # {}
  BY <1>2
<1> HIDE DEF P, f, n
<1>6. /\ bounds' = Widened(f) /\ bounds.start \in Time /\ bounds.end \in Time
  BY DEF f, TablesOK
<1>7. /\ bounds'.start = IF f.start < bounds.start THEN f.start ELSE bounds.start
      /\ bounds'.end = IF f.end > bounds.end THEN f.end ELSE bounds.end
      /\ bounds' \in [start : Time, end : Time]
  BY <1>1, <1>6 DEF Widened
<1>8. \A t \in Time : t \in Nat /\ t <= MaxTime /\ 0 <= t
  BY LoadAssumption DEF Time
<1>9. CASE P = {}
  <2>1. bounds.start = MaxTime /\ bounds.end = 0
    BY <1>9 DEF BoundsMet, P
  <2>2. bounds'.start = f.start /\ bounds'.end = f.end
    BY <1>1, <1>7, <1>8, <2>1, LoadAssumption
  <2>3. Times' = {f.start, f.end}
    BY <1>3, <1>4, <1>9
  <2>4. /\ bounds'.start \in Times' /\ bounds'.end \in Times'
        /\ \A t \in Times' : bounds'.start <= t /\ t <= bounds'.end
    BY <1>1, <1>8, <2>2, <2>3
  <2> QED BY <1>5, <1>7, <2>4 DEF BoundsMet, P
<1>10. CASE P # {}
  <2>1. /\ bounds.start \in Times /\ bounds.end \in Times
        /\ \A t \in Times : bounds.start <= t /\ t <= bounds.end
    BY <1>10 DEF BoundsMet, P
  <2>2. bounds'.start \in Times' /\ bounds'.end \in Times'
    BY <1>4, <1>7, <2>1
  <2>3. bounds'.start <= bounds.start /\ bounds'.start <= f.start
        /\ bounds.end <= bounds'.end /\ f.end <= bounds'.end
    BY <1>1, <1>6, <1>7, <1>8
  <2>4. \A t \in Times' : bounds'.start <= t /\ t <= bounds'.end
    <3> SUFFICES ASSUME NEW t \in Times' PROVE bounds'.start <= t /\ t <= bounds'.end
      OBVIOUS
    <3>1. bounds'.start \in Nat /\ bounds'.end \in Nat
      BY <1>7, <1>8
    <3>2. bounds.start \in Nat /\ bounds.end \in Nat /\ f.start \in Nat /\ f.end \in Nat
      BY <1>1, <1>6, <1>8
    <3>3. CASE t \in Times
      <4>1. t \in Nat /\ bounds.start <= t /\ t <= bounds.end
        BY <1>3, <1>8, <2>1, <3>3
      <4> QED BY <2>3, <3>1, <3>2, <4>1
    <3>4. CASE t \in {f.start, f.end}
      BY <1>1, <2>3, <3>1, <3>2, <3>4
    <3> QED BY <1>4, <3>3, <3>4
  <2> QED BY <1>5, <1>7, <2>2, <2>4 DEF BoundsMet, P
<1> QED BY <1>9, <1>10

LEMMA CollectionExcept ==
  ASSUME NEW c \in CollectionRecord, NEW x, NEW y
  PROVE  [c EXCEPT !.events = x, !.states = y] = [id |-> c.id, events |-> x, states |-> y]
<1> DEFINE a == c.id
           g == c.events
           h == c.states
<1>1. c = [id |-> a, events |-> g, states |-> h]
  BY DEF CollectionRecord
<1> HIDE DEF a, g, h
<1> DEFINE b == [c EXCEPT !.events = x]
<1>2. b = [id |-> a, events |-> x, states |-> h]
  BY <1>1
<1> HIDE DEF b
<1>3. [b EXCEPT !.states = y] = [id |-> a, events |-> x, states |-> y]
  BY ONLY <1>2
<1>4. [c EXCEPT !.events = x, !.states = y] = [b EXCEPT !.states = y]
  BY DEF b
<1> QED BY <1>3, <1>4 DEF a

LEMMA StepEvent ==
  ASSUME ReadingOK, MemoryOK, MappedOrdered, MemoryTold,
         NEW e \in FileEntry, read' = Append(read, e),
         e.frame.type = "event", AcceptsEvent(e.frame), ProcessEvent(e.frame)
  PROVE  MemoryOK' /\ MappedOrdered' /\ MemoryTold'
<1> DEFINE f == e.frame
           n == Len(read)
           pos == Position(f.id)
           P == EntriesOf("event")
<1>1. read \in Seq(FileEntry) /\ f \in FileFrame
  BY DEF ReadingOK, FileEntry
<1>2. /\ UNCHANGED <<types, block, free, hierarchies, nodes, descs>>
      /\ bounds' = Widened(f)
      /\ colls' = [colls EXCEPT ![pos].events = Append(@, f), ![pos].states = Append(@, 0)]
  BY DEF ProcessEvent
<1>3. /\ pos \in DOMAIN colls /\ colls[pos].id = f.id
      /\ \A i \in DOMAIN colls : colls[i].id = f.id => i = pos
  BY PositionTold DEF AcceptsEvent, MemoryOK
<1>4. /\ n \in Nat /\ P \in SUBSET (1 .. n) /\ P' = P \cup {n + 1}
      /\ Frames'[n + 1] = f /\ \A p \in P : Frames'[p] = Frames[p]
  BY <1>1, ReadMore, EntriesStay
<1>5. CollectionsFine(colls) /\ colls \in Seq(CollectionRecord)
  BY CollectionsFineIs DEF MemoryOK, CollectionsFine
<1> HIDE DEF f, n, pos, P
<1>6. /\ DOMAIN colls = 1 .. Len(colls) /\ Len(colls) \in Nat
      /\ \A i \in DOMAIN colls : colls[i] \in CollectionRecord
  BY <1>5, LenProperties, ElementOfSeq
<1> DEFINE c == colls[pos]
           d == [c EXCEPT !.events = Append(c.events, f), !.states = Append(c.states, 0)]
<1>7. c \in CollectionRecord
  BY <1>3, <1>6
<1>8. colls' = [colls EXCEPT ![pos] = d]
  BY <1>2, <1>3, <1>6 DEF CollectionRecord
<1> HIDE DEF c
<1>9. d.id = f.id /\ d.events = Append(c.events, f) /\ d.states = Append(c.states, 0)
      /\ d = [id |-> c.id, events |-> Append(c.events, f), states |-> Append(c.states, 0)]
  <2>1. d = [id |-> c.id, events |-> Append(c.events, f), states |-> Append(c.states, 0)]
    BY <1>7, CollectionExcept
  <2>2. c.id = f.id
    BY <1>3 DEF c
  <2> HIDE DEF d
  <2> QED BY <2>1, <2>2
<1>10. c.events \in Seq(FileFrame) /\ c.states \in Seq(Nat) /\ c.id \in Nat
       /\ Len(c.states) = Len(c.events)
  BY <1>3, <1>5, <1>7 DEF CollectionRecord, CollectionsFine, c
<1>11. /\ Append(c.events, f) \in Seq(FileFrame) /\ Len(Append(c.events, f)) = Len(c.events) + 1
       /\ Append(c.states, 0) \in Seq(Nat) /\ Len(Append(c.states, 0)) = Len(c.states) + 1
       /\ \A i \in 1 .. Len(c.events) : Append(c.events, f)[i] = c.events[i]
       /\ Append(c.events, f)[Len(c.events) + 1] = f
  BY <1>1, <1>10, AppendProperties DEF f
<1>12. d \in CollectionRecord /\ Len(d.states) = Len(d.events)
  BY <1>9, <1>10, <1>11 DEF CollectionRecord
<1> HIDE DEF d
<1>13. /\ colls' \in Seq(CollectionRecord) /\ DOMAIN colls' = DOMAIN colls /\ Len(colls') = Len(colls)
       /\ colls'[pos] = d /\ \A i \in DOMAIN colls : i # pos => colls'[i] = colls[i]
  <2>1. /\ colls' \in Seq(CollectionRecord) /\ Len(colls') = Len(colls)
        /\ \A i \in 1 .. Len(colls) : colls'[i] = IF i = pos THEN d ELSE colls[i]
    BY <1>3, <1>5, <1>6, <1>8, <1>12, ExceptSeq
  <2>2. DOMAIN colls' = 1 .. Len(colls)
    BY <2>1, LenProperties
  <2> QED BY <1>3, <1>6, <2>1, <2>2
<1>14. \A i \in DOMAIN colls : colls'[i].id = colls[i].id
  BY <1>3, <1>9, <1>13
<1>15. CollectionsOK'
  <2>1. \A i, j \in DOMAIN colls' : i < j => colls'[i].id < colls'[j].id
    BY <1>5, <1>13, <1>14 DEF CollectionsFine
  <2>2. \A i \in DOMAIN colls' : Len(colls'[i].states) = Len(colls'[i].events)
    BY <1>5, <1>12, <1>13 DEF CollectionsFine
  <2> QED BY <1>13, <2>1, <2>2 DEF CollectionsOK
<1>16. BoundsMet' /\ bounds' \in [start : Time, end : Time]
  BY <1>1, <1>2, WidenedTold DEF AcceptsEvent, MemoryOK, MemoryTold, f
<1>17. TablesOK'
  BY <1>2, <1>16 DEF MemoryOK, TablesOK
<1>18. SpaceCounted'
  BY <1>2, <1>13 DEF MemoryTold, SpaceCounted
<1>19. CollectionIdsTold'
  <2>1. {colls'[i].id : i \in DOMAIN colls'} = {colls[i].id : i \in DOMAIN colls}
    BY <1>13, <1>14
  <2> QED BY <1>1, <2>1, IdsKept DEF MemoryTold
<1>20. EventsTold'
  <2>1. \A i \in DOMAIN colls : TellsEvents(colls[i].events, colls[i].id, P, Frames)
    BY EventsToldIs DEF MemoryTold, P
  <2>2. \A i \in DOMAIN colls : TellsEvents(colls[i].events, colls[i].id, P, Frames')
    BY ONLY <1>4, <2>1, SameEntries
  <2> SUFFICES ASSUME NEW i \in DOMAIN colls
               PROVE  TellsEvents(colls'[i].events, colls'[i].id, P \cup {n + 1}, Frames')
    <3>1. EventsTold' <=> \A i \in DOMAIN colls' :
                            TellsEvents(colls'[i].events, colls'[i].id, P', Frames')
      BY DEF EventsTold, TellsEvents, EventsAre, EventsOf, P
    <3> QED BY <1>4, <1>13, <3>1
  <2>3. CASE i # pos
    <3>1. EventsOf(colls[i].id, P \cup {n + 1}, Frames') = EventsOf(colls[i].id, P, Frames')
      BY <1>3, <1>4, <2>3 DEF EventsOf
    <3> QED BY <1>13, <2>2, <2>3, <3>1 DEF TellsEvents
  <2>4. CASE i = pos
    <3> DEFINE Q == EventsOf(f.id, P, Frames')
    <3>1. Q \in SUBSET (1 .. n) /\ EventsOf(f.id, P \cup {n + 1}, Frames') = Q \cup {n + 1}
      BY <1>4 DEF EventsOf
    <3>2. Len(c.events) = Cardinality(Q) /\ \A p \in Q : c.events[Nth(Q, p)] = Frames'[p]
      BY <1>3, <2>2 DEF TellsEvents, EventsAre, c
    <3> HIDE DEF Q
    <3>3. /\ Cardinality(Q \cup {n + 1}) = Cardinality(Q) + 1
          /\ Nth(Q \cup {n + 1}, n + 1) = Cardinality(Q) + 1
          /\ \A p \in Q : Nth(Q, p) \in 1 .. Cardinality(Q) /\ Nth(Q \cup {n + 1}, p) = Nth(Q, p)
      BY <1>4, <3>1, NthMore
    <3>4. \A p \in Q : d.events[Nth(Q \cup {n + 1}, p)] = Frames'[p]
      BY <1>9, <1>11, <3>2, <3>3
    <3>5. d.events[Nth(Q \cup {n + 1}, n + 1)] = Frames'[n + 1]
      BY <1>4, <1>9, <1>11, <3>2, <3>3
    <3>6. Len(d.events) = Cardinality(Q \cup {n + 1})
      BY <1>9, <1>11, <3>2, <3>3
    <3>7. EventsAre(d.events, Q \cup {n + 1}, Frames')
      BY <3>4, <3>5, <3>6 DEF EventsAre
    <3> QED BY <1>9, <1>13, <2>4, <3>1, <3>7 DEF TellsEvents
  <2> QED BY <2>3, <2>4
<1>21. /\ TypesTold' /\ HierarchiesTold' /\ DescriptionsTold' /\ NodesTold' /\ MappingsTold'
  BY <1>1, <1>2, ToldKept
<1>22. NodesOK'
  BY <1>2, MemoryKept
<1>23. MappedOrdered'
  BY <1>1, <1>2, <1>13, <1>14, MappedKept
<1> QED BY <1>15, <1>16, <1>17, <1>18, <1>19, <1>20, <1>21, <1>22, <1>23 DEF MemoryOK, MemoryTold

(* Trees that differ in something else than parents and descendants        *)
LEMMA TreeSame ==
  ASSUME NEW N, NEW M, NEW H, Tree(N, H), DOMAIN M = DOMAIN N,
         \A k \in DOMAIN N : M[k].parent = N[k].parent /\ M[k].descendants = N[k].descendants
  PROVE  Tree(M, H)
<1>1. \A S \in SUBSET DOMAIN N : ParentsIn(M, S) <=> ParentsIn(N, S)
  BY DEF ParentsIn
<1>2. \A d : Above(M, d) = Above(N, d)
  BY <1>1 DEF Above
<1>3. \A h : {r \in DOMAIN M : r[1] = h /\ M[r].parent = 0} = {r \in DOMAIN N : r[1] = h /\ N[r].parent = 0}
  OBVIOUS
<1>4. \A k : {d \in DOMAIN M : k \in Above(M, d)} = {d \in DOMAIN N : k \in Above(N, d)}
  BY <1>2
<1> SUFFICES ASSUME NEW k \in DOMAIN N
             PROVE  /\ k[1] \in H
                    /\ M[k].parent # 0 => <<k[1], M[k].parent>> \in DOMAIN M
                    /\ Cardinality({r \in DOMAIN M : r[1] = k[1] /\ M[r].parent = 0}) = 1
                    /\ M[k].descendants = Cardinality({d \in DOMAIN M : k \in Above(M, d)}) - 1
  BY DEF Tree
<1>5. /\ k[1] \in H
      /\ N[k].parent # 0 => <<k[1], N[k].parent>> \in DOMAIN N
      /\ Cardinality({r \in DOMAIN N : r[1] = k[1] /\ N[r].parent = 0}) = 1
      /\ N[k].descendants = Cardinality({d \in DOMAIN N : k \in Above(N, d)}) - 1
  BY DEF Tree
<1> QED BY <1>3, <1>4, <1>5

LEMMA NodeExcept ==
  ASSUME NEW r \in NodeRecord, NEW x
  PROVE  [r EXCEPT !.mappings = x] = [parent |-> r.parent, descendants |-> r.descendants, mappings |-> x]
BY DEF NodeRecord

LEMMA StepMapping ==
  ASSUME ReadingOK, MemoryOK, MappedOrdered, MemoryTold,
         NEW e \in FileEntry, read' = Append(read, e),
         e.frame.type = "mapping", AcceptsMapping(e.frame), ProcessMapping(e.frame)
  PROVE  MemoryOK' /\ MappedOrdered' /\ MemoryTold'
<1> DEFINE f == e.frame
           n == Len(read)
           k == <<f.hierarchy, f.node>>
           P == EntriesOf("mapping")
           r == nodes[k]
           m == [start |-> f.start, end |-> f.end, wanted |-> f.id,
                 block |-> block, slot |-> Position(f.id)]
           s == Append(r.mappings, m)
           r2 == [r EXCEPT !.mappings = s]
<1>1. /\ read \in Seq(FileEntry) /\ f \in FileFrame
      /\ f.id \in Nat /\ f.start \in Time /\ f.end \in Time
  <2>1. read \in Seq(FileEntry) /\ f \in FileFrame
    BY DEF ReadingOK, FileEntry
  <2> QED BY <2>1, FrameTold
<1>2. /\ UNCHANGED <<types, colls, block, free, hierarchies, descs, bounds>>
      /\ nodes' = [nodes EXCEPT ![k] = r2]
  BY DEF ProcessMapping
<1>3. /\ k \in DOMAIN nodes /\ Known(f.id)
      /\ r.mappings = <<>> \/ Last(r.mappings).start <= f.start
  BY DEF AcceptsMapping
<1>4. /\ n \in Nat /\ P \in SUBSET (1 .. n) /\ P' = P \cup {n + 1}
      /\ Frames'[n + 1] = f /\ \A p \in P : Frames'[p] = Frames[p]
  BY <1>1, ReadMore, EntriesStay
<1>5. NodesFine(nodes, hierarchies) /\ NodesOK /\ CollectionsOK /\ TablesOK
  BY NodesFineIs DEF MemoryOK
<1>6. Position(f.id) \in DOMAIN colls /\ colls[Position(f.id)].id = f.id
  BY <1>3, <1>5, PositionTold
<1>7. m \in MappingRecord
  <2>1. Position(f.id) \in Nat
    BY <1>5, <1>6, LenProperties DEF CollectionsOK
  <2> QED BY <1>1, <1>5, <2>1 DEF MappingRecord, TablesOK
<1>8. /\ m.start = f.start /\ m.end = f.end /\ m.wanted = f.id
      /\ m.block = block /\ m.slot = Position(f.id)
  OBVIOUS
<1> HIDE DEF n, k, P, m
<1>9. r \in NodeRecord /\ r.mappings \in Seq(MappingRecord)
  BY <1>3, <1>5 DEF NodesFine, NodeRecord
<1> DEFINE len == Len(r.mappings)
<1>10. /\ len \in Nat /\ DOMAIN r.mappings = 1 .. len
       /\ \A i \in 1 .. len : r.mappings[i] \in MappingRecord
  BY <1>9, LenProperties, ElementOfSeq
<1>11. /\ s \in Seq(MappingRecord) /\ Len(s) = len + 1
       /\ \A i \in 1 .. len : s[i] = r.mappings[i]
       /\ s[len + 1] = m
  BY <1>7, <1>9, AppendProperties
<1>12. DOMAIN s = 1 .. len + 1
  BY <1>11, LenProperties
<1> HIDE DEF s
<1>13. r2 = [parent |-> r.parent, descendants |-> r.descendants, mappings |-> s]
  <2> HIDE DEF r
  <2> QED BY <1>9, NodeExcept
<1> HIDE DEF r2
<1>14. /\ r2 \in NodeRecord /\ r2.parent = r.parent /\ r2.descendants = r.descendants /\ r2.mappings = s
  <2> HIDE DEF r
  <2> QED BY <1>9, <1>11, <1>13 DEF NodeRecord
<1>15. /\ DOMAIN nodes' = DOMAIN nodes /\ nodes'[k] = r2
       /\ \A l \in DOMAIN nodes : l # k => nodes'[l] = nodes[l]
  BY <1>2, <1>3, <1>5 DEF NodesFine
<1>16. \A i, j \in DOMAIN s : i < j => s[i].start <= s[j].start
  <2> SUFFICES ASSUME NEW i \in 1 .. len + 1, NEW j \in 1 .. len + 1, i < j
               PROVE  s[i].start <= s[j].start
    BY <1>12
  <2>0. len \in Nat
    BY <1>10
  <2>1. i \in 1 .. len
    <3> HIDE DEF len
    <3> QED BY <2>0
  <2>2. \A a, b \in 1 .. len : a < b => r.mappings[a].start <= r.mappings[b].start
    BY <1>3, <1>5, <1>10 DEF NodesFine
  <2>3. CASE j \in 1 .. len
    BY <1>11, <2>1, <2>2, <2>3
  <2>4. CASE j = len + 1
    <3>1. r.mappings # <<>>
      BY <1>10, <2>1
    <3>2. Last(r.mappings) = r.mappings[len]
      BY DEF Last
    <3>3. r.mappings[len].start <= f.start
      BY <1>3, <3>1, <3>2
    <3>4. len \in 1 .. len /\ (i = len \/ i < len)
      BY <1>10, <2>1
    <3>5. \A a \in 1 .. len : r.mappings[a].start \in Nat
      BY <1>10, LoadAssumption DEF MappingRecord, Time
    <3>6. f.start \in Nat
      BY <1>1, LoadAssumption DEF Time
    <3> HIDE DEF len, f, r
    <3>7. r.mappings[i].start <= r.mappings[len].start
      BY <2>1, <2>2, <3>4, <3>5
    <3>8. r.mappings[i].start <= f.start
      BY <2>1, <3>3, <3>4, <3>5, <3>6, <3>7
    <3> QED BY <1>8, <1>11, <2>1, <2>4, <3>8
  <2>5. j \in 1 .. len \/ j = len + 1
    <3> HIDE DEF len
    <3> QED BY <2>0
  <2> QED BY <2>3, <2>4, <2>5
<1>17. NodesOK'
  <2>1. \A l \in DOMAIN nodes : nodes'[l] \in NodeRecord
    BY <1>5, <1>14, <1>15 DEF NodesFine
  <2>2. Tree(nodes', hierarchies)
    <3>1. \A l \in DOMAIN nodes : /\ nodes'[l].parent = nodes[l].parent
                                  /\ nodes'[l].descendants = nodes[l].descendants
      BY <1>14, <1>15
    <3> QED BY <1>5, <1>15, <3>1, TreeSame DEF NodesFine
  <2>3. nodes' \in [DOMAIN nodes' -> NodeRecord]
    BY <1>2, <1>15, <2>1
  <2>4. \A l \in DOMAIN nodes' : \A i, j \in DOMAIN nodes'[l].mappings :
          i < j => nodes'[l].mappings[i].start <= nodes'[l].mappings[j].start
    <3> SUFFICES ASSUME NEW l \in DOMAIN nodes
                 PROVE  \A i, j \in DOMAIN nodes'[l].mappings :
                          i < j => nodes'[l].mappings[i].start <= nodes'[l].mappings[j].start
      BY <1>15
    <3>1. CASE l = k
      BY <1>14, <1>15, <1>16, <3>1
    <3>2. CASE l # k
      BY <1>5, <1>15, <3>2 DEF NodesFine
    <3> QED BY <3>1, <3>2
  <2> QED BY <1>2, <1>5, <1>15, <2>2, <2>3, <2>4, NodesFineIs DEF NodesFine
<1>18. NodesTold'
  <2>1. \A l \in DOMAIN nodes : nodes'[l].parent = nodes[l].parent
    BY <1>14, <1>15
  <2> QED BY <1>1, <1>15, <2>1, NodesKept DEF MemoryTold
<1>19. MappingsTold'
  <2>1. \A l \in DOMAIN nodes : TellsMappings(nodes[l].mappings, l, P, Frames)
    BY MappingsToldIs DEF MemoryTold, P
  <2>2. \A l \in DOMAIN nodes : TellsMappings(nodes[l].mappings, l, P, Frames')
    BY ONLY <1>4, <2>1, SameEntries
  <2> SUFFICES ASSUME NEW l \in DOMAIN nodes
               PROVE  TellsMappings(nodes'[l].mappings, l, P \cup {n + 1}, Frames')
    <3>1. MappingsTold' <=> \A l \in DOMAIN nodes' : TellsMappings(nodes'[l].mappings, l, P', Frames')
      BY DEF MappingsTold, TellsMappings, MappingsAre, MappingsOf, P
    <3> QED BY <1>4, <1>15, <3>1
  <2>3. CASE l # k
    <3>1. ~(f.hierarchy = l[1] /\ f.node = l[2])
      <4>1. l \in Nat \X Nat
        BY <1>5 DEF NodesFine
      <4>2. l = <<l[1], l[2]>>
        BY <4>1
      <4> QED BY <2>3, <4>2 DEF k
    <3>2. MappingsOf(l, P \cup {n + 1}, Frames') = MappingsOf(l, P, Frames')
      BY <1>4, <3>1 DEF MappingsOf
    <3> QED BY <1>15, <2>2, <2>3, <3>2 DEF TellsMappings
  <2>4. CASE l = k
    <3> DEFINE Q == MappingsOf(k, P, Frames')
    <3>0. k[1] = f.hierarchy /\ k[2] = f.node
      BY DEF k
    <3>1. Q \in SUBSET (1 .. n) /\ MappingsOf(k, P \cup {n + 1}, Frames') = Q \cup {n + 1}
      BY <1>4, <3>0 DEF MappingsOf
    <3>2. /\ len = Cardinality(Q)
          /\ \A p \in Q : /\ r.mappings[Nth(Q, p)].wanted = Frames'[p].id
                          /\ Interval(r.mappings[Nth(Q, p)]) = Interval(Frames'[p])
      BY <1>3, <2>2 DEF TellsMappings, MappingsAre
    <3> HIDE DEF Q
    <3>3. /\ Cardinality(Q \cup {n + 1}) = Cardinality(Q) + 1
          /\ Nth(Q \cup {n + 1}, n + 1) = Cardinality(Q) + 1
          /\ \A p \in Q : Nth(Q, p) \in 1 .. Cardinality(Q) /\ Nth(Q \cup {n + 1}, p) = Nth(Q, p)
      BY <1>4, <3>1, NthMore
    <3> HIDE DEF len, r, f
    <3>4. \A p \in Q : s[Nth(Q \cup {n + 1}, p)] = r.mappings[Nth(Q, p)]
      BY <1>11, <3>2, <3>3
    <3>5. s[Nth(Q \cup {n + 1}, n + 1)] = m
      BY <1>11, <3>2, <3>3
    <3>6. m.wanted = Frames'[n + 1].id /\ Interval(m) = Interval(Frames'[n + 1])
      BY <1>4, <1>8 DEF Interval
    <3>7. \A p \in Q \cup {n + 1} :
            /\ s[Nth(Q \cup {n + 1}, p)].wanted = Frames'[p].id
            /\ Interval(s[Nth(Q \cup {n + 1}, p)]) = Interval(Frames'[p])
      BY <3>2, <3>4, <3>5, <3>6
    <3>8. Len(s) = Cardinality(Q \cup {n + 1})
      BY <1>11, <3>2, <3>3
    <3>9. MappingsAre(s, Q \cup {n + 1}, Frames')
      BY ONLY <3>7, <3>8 DEF MappingsAre
    <3> QED BY <1>14, <1>15, <2>4, <3>1, <3>9 DEF TellsMappings
  <2> QED BY <2>3, <2>4
<1>20. /\ SpaceCounted' /\ TypesTold' /\ CollectionIdsTold' /\ HierarchiesTold' /\ EventsTold'
       /\ DescriptionsTold' /\ BoundsMet'
  BY <1>1, <1>2, ToldKept
<1>21. TablesOK' /\ CollectionsOK'
  BY <1>2, MemoryKept
<1>22. MappedOrdered'
  <2> SUFFICES ASSUME CollectionsFirst' PROVE MappedRight'
    BY DEF MappedOrdered, CollectionsFirst
  <2>1. MappedRight
    BY <1>1, FirstStays DEF MappedOrdered, CollectionsFirst
  <2>2. \A x : Refers(x) <=> Refers(x)'
    BY <1>2 DEF Refers
  <2>3. Refers(m)
    BY <1>6, <1>8 DEF Refers
  <2>4. ASSUME NEW l \in DOMAIN nodes, NEW i \in DOMAIN nodes'[l].mappings
        PROVE  Refers(nodes'[l].mappings[i])
    <3>1. CASE l # k
      BY <1>15, <2>1, <2>4, <3>1 DEF MappedRight
    <3>2. CASE l = k
      <4>1. i \in 1 .. len + 1 /\ nodes'[l].mappings[i] = s[i]
        BY <1>12, <1>14, <1>15, <2>4, <3>2
      <4>2. CASE i = len + 1
        BY <1>11, <2>3, <4>1, <4>2
      <4>3. CASE i \in 1 .. len
        BY <1>3, <1>10, <1>11, <2>1, <4>1, <4>3 DEF MappedRight
      <4>4. i = len + 1 \/ i \in 1 .. len
        BY <1>10, <4>1
      <4> QED BY <4>2, <4>3, <4>4
    <3> QED BY <3>1, <3>2
  <2> QED BY <1>2, <1>15, <2>4 DEF MappedRight, Refers
<1> QED BY <1>17, <1>18, <1>19, <1>20, <1>21, <1>22 DEF MemoryOK, MemoryTold

LEMMA StepNode ==
  ASSUME ReadingOK, MemoryOK, MappedOrdered, Told,
         NEW e \in FileEntry, read' = Append(read, e),
         e.frame.type = "node", AcceptsNode(e.frame), ProcessNode(e.frame)
  PROVE  MemoryOK' /\ MappedOrdered' /\ MemoryTold'
<1> DEFINE f == e.frame
           n == Len(read)
           z == <<f.hierarchy, f.id>>
           P == EntriesOf("node")
           A == Ancestors(f)
           new == [parent |-> f.parent, descendants |-> 0, mappings |-> <<>>]
<1>1. /\ read \in Seq(FileEntry) /\ f \in FileFrame /\ MemoryTold /\ SensibleSoFar
      /\ f.hierarchy \in Nat /\ f.id \in Nat /\ f.parent \in Nat
  <2>1. read \in Seq(FileEntry) /\ f \in FileFrame
    BY DEF ReadingOK, FileEntry
  <2> QED BY <2>1, FrameTold DEF Told
<1>2. /\ UNCHANGED <<types, colls, block, free, hierarchies, descs, bounds>>
      /\ nodes' = [k \in DOMAIN nodes \cup {z} |->
                     IF k = z THEN new
                     ELSE [nodes[k] EXCEPT !.descendants = IF k \in A THEN @ + 1 ELSE @]]
  BY DEF ProcessNode
<1>3. /\ n \in Nat /\ P' = P \cup {n + 1}
      /\ Frames'[n + 1] = f /\ \A p \in P : Frames'[p] = Frames[p]
  BY <1>1, ReadMore, EntriesStay
<1>4. NodesFine(nodes, hierarchies) /\ NodesOK
  BY NodesFineIs DEF MemoryOK
<1>5. /\ f.hierarchy \in hierarchies
      /\ z \notin DOMAIN nodes
      /\ f.parent = 0 <=> \A k \in DOMAIN nodes : k[1] # f.hierarchy
      /\ f.parent # 0 => <<f.hierarchy, f.parent>> \in DOMAIN nodes
  <2>1. HasRoot(f.hierarchy) <=> \E k \in DOMAIN nodes : k[1] = f.hierarchy
    BY <1>1, <1>4, RootKnown DEF MemoryTold
  <2>2. z[1] = f.hierarchy /\ <<f.hierarchy, f.parent>>[1] = f.hierarchy
    OBVIOUS
  <2> HIDE DEF z
  <2> QED BY <2>1, <2>2 DEF AcceptsNode, z
<1>6. A = IF f.parent = 0 THEN {} ELSE Above(nodes, <<f.hierarchy, f.parent>>)
  BY TreeTold DEF Ancestors
<1>7. z \in Nat \X Nat /\ z[1] = f.hierarchy
  BY <1>1
<1> HIDE DEF z, A, P, n
<1>8. new.parent = f.parent /\ new.descendants = 0 /\ new.mappings = <<>> /\ new \in NodeRecord
  BY <1>1 DEF NodeRecord
<1> HIDE DEF new
<1>9. DOMAIN nodes' = DOMAIN nodes \cup {z} /\ nodes'[z] = new
  BY <1>2
<1>10. ASSUME NEW k \in DOMAIN nodes
       PROVE  /\ nodes'[k].parent = nodes[k].parent
              /\ nodes'[k].mappings = nodes[k].mappings
              /\ nodes'[k].descendants = IF k \in A THEN nodes[k].descendants + 1
                                         ELSE nodes[k].descendants
              /\ nodes'[k] \in NodeRecord
              /\ nodes[k].descendants \in Nat
  <2> DEFINE r == nodes[k]
             d == IF k \in A THEN r.descendants + 1 ELSE r.descendants
  <2>1. nodes'[k] = [r EXCEPT !.descendants = d]
    <3>1. k # z
      BY <1>5
    <3> QED BY <1>2, <3>1
  <2>2. r \in NodeRecord
    BY <1>4 DEF NodesFine
  <2> HIDE DEF r
  <2>3. r.descendants \in Nat /\ d \in Nat
    BY <2>2 DEF NodeRecord
  <2> HIDE DEF d
  <2>4. [r EXCEPT !.descendants = d] = [parent |-> r.parent, descendants |-> d, mappings |-> r.mappings]
    BY <2>2 DEF NodeRecord
  <2>5. [parent |-> r.parent, descendants |-> d, mappings |-> r.mappings] \in NodeRecord
    BY <2>2, <2>3 DEF NodeRecord
  <2> QED BY <2>1, <2>3, <2>4, <2>5 DEF r, d
<1>11. Tree(nodes', hierarchies)
  <2>1. Tree(nodes, hierarchies) /\ IsFiniteSet(DOMAIN nodes)
    BY <1>4 DEF NodesFine
  <2>2. ParentsIn(nodes, DOMAIN nodes)
    BY <2>1 DEF Tree, ParentsIn
  <2>3. Added(nodes, nodes', z)
    BY <1>5, <1>9, <1>10, <2>2 DEF Added
  <2>4. nodes'[z].parent = f.parent /\ nodes'[z].descendants = 0
    BY <1>8, <1>9
  <2>5. A = Over(nodes, nodes', z)
    BY <1>6, <1>7, <2>4 DEF Over
  <2>6. /\ nodes'[z].parent # 0 => <<z[1], nodes'[z].parent>> \in DOMAIN nodes
        /\ nodes'[z].parent = 0 <=> \A k \in DOMAIN nodes : k[1] # z[1]
        /\ z[1] \in hierarchies
    BY <1>5, <1>7, <2>4
  <2>7. \A k \in DOMAIN nodes : /\ nodes[k].descendants \in Nat
                                /\ nodes'[k].descendants = IF k \in A THEN nodes[k].descendants + 1
                                                           ELSE nodes[k].descendants
    BY <1>10
  <2> QED BY ONLY <2>1, <2>3, <2>4, <2>5, <2>6, <2>7, TreeGrows
<1>12. NodesOK'
  <2>1. DOMAIN nodes' \subseteq Nat \X Nat /\ IsFiniteSet(DOMAIN nodes')
    BY <1>4, <1>7, <1>9, FS_AddElement DEF NodesFine
  <2>2. \A k \in DOMAIN nodes' : nodes'[k] \in NodeRecord
    BY <1>8, <1>9, <1>10
  <2>3. nodes' \in [DOMAIN nodes' -> NodeRecord]
    BY <1>2, <1>9, <2>2
  <2>4. \A k \in DOMAIN nodes' : \A i, j \in DOMAIN nodes'[k].mappings :
          i < j => nodes'[k].mappings[i].start <= nodes'[k].mappings[j].start
    <3>1. \A i, j \in DOMAIN new.mappings : i < j => new.mappings[i].start <= new.mappings[j].start
      BY <1>8
    <3>2. \A k \in DOMAIN nodes : \A i, j \in DOMAIN nodes[k].mappings :
            i < j => nodes[k].mappings[i].start <= nodes[k].mappings[j].start
      BY <1>4 DEF NodesFine
    <3>3. \A k \in DOMAIN nodes : nodes'[k].mappings = nodes[k].mappings
      BY <1>10
    <3> QED BY <1>9, <3>1, <3>2, <3>3
  <2> QED BY <1>2, <1>11, <2>1, <2>3, <2>4, NodesFineIs DEF NodesFine
<1>13. NodesTold'
  <2>1. DOMAIN nodes = KeysOf(P, Frames) /\ ParentsAre(nodes, P, Frames)
    BY <1>1, NodesToldIs DEF MemoryTold, P
  <2>2. NodesTold' <=> DOMAIN nodes' = KeysOf(P', Frames') /\ ParentsAre(nodes', P', Frames')
    BY DEF NodesTold, KeysOf, ParentsAre, P
  <2>3. KeysOf(P, Frames') = DOMAIN nodes /\ ParentsAre(nodes, P, Frames')
    BY ONLY <1>3, <2>1, SameEntries
  <2>4. KeysOf(P \cup {n + 1}, Frames') = KeysOf(P, Frames') \cup {z}
    BY <1>3 DEF KeysOf, z
  <2>5. \A p \in P : <<Frames'[p].hierarchy, Frames'[p].id>> \in DOMAIN nodes
    BY <2>3 DEF KeysOf
  <2>6. \A p \in P : nodes'[<<Frames'[p].hierarchy, Frames'[p].id>>].parent = Frames'[p].parent
    BY <1>10, <2>3, <2>5 DEF ParentsAre
  <2>7. nodes'[<<Frames'[n + 1].hierarchy, Frames'[n + 1].id>>].parent = Frames'[n + 1].parent
    BY <1>3, <1>8, <1>9 DEF z
  <2>8. ParentsAre(nodes', P \cup {n + 1}, Frames')
    BY <2>6, <2>7 DEF ParentsAre
  <2> QED BY <1>3, <1>9, <2>2, <2>3, <2>4, <2>8
<1>14. MappingsTold'
  <2> DEFINE Q == EntriesOf("mapping")
  <2>1. \A k \in DOMAIN nodes : TellsMappings(nodes[k].mappings, k, Q', Frames')
    BY <1>1, MappingsKept DEF MemoryTold
  <2>2. \A k \in DOMAIN nodes : TellsMappings(nodes'[k].mappings, k, Q', Frames')
    BY <1>10, <2>1
  <2>3. Q' = Q /\ \A p \in Q : Frames'[p] = Frames[p]
    BY <1>1, EntriesStay
  <2>4. MappingsOf(z, Q', Frames') = {}
    <3>1. \A p \in Q : <<Frames[p].hierarchy, Frames[p].node>> \in DOMAIN nodes
      BY <1>1, ReferredTo, NodeKnown DEF MemoryTold
    <3>2. \A p \in Q : <<Frames[p].hierarchy, Frames[p].node>> # z
      BY <1>5, <3>1
    <3>3. \A p \in Q : ~(Frames[p].hierarchy = z[1] /\ Frames[p].node = z[2])
      <4>1. z = <<z[1], z[2]>>
        BY <1>7
      <4> QED BY <3>2, <4>1
    <3> HIDE DEF Q
    <3> QED BY <2>3, <3>3 DEF MappingsOf
  <2>5. TellsMappings(nodes'[z].mappings, z, Q', Frames')
    <3>1. nodes'[z].mappings = <<>> /\ Len(<<>>) = 0 /\ Cardinality({}) = 0
      BY <1>8, <1>9, FS_EmptySet
    <3> HIDE DEF Q
    <3> QED BY <2>4, <3>1 DEF TellsMappings, MappingsAre
  <2>6. MappingsTold' <=> \A k \in DOMAIN nodes' : TellsMappings(nodes'[k].mappings, k, Q', Frames')
    BY DEF MappingsTold, TellsMappings, MappingsAre, MappingsOf
  <2> HIDE DEF Q
  <2> QED BY <1>9, <2>2, <2>5, <2>6
<1>15. e.frame.type = "node"
  OBVIOUS
<1>16. /\ SpaceCounted' /\ TypesTold' /\ CollectionIdsTold' /\ HierarchiesTold' /\ EventsTold'
       /\ DescriptionsTold' /\ BoundsMet'
  BY <1>1, <1>2, <1>15, ToldKept
<1>17. TablesOK' /\ CollectionsOK'
  BY <1>2, MemoryKept
<1>18. MappedOrdered'
  <2>1. \A k \in DOMAIN nodes' :
          \/ nodes'[k].mappings = <<>>
          \/ k \in DOMAIN nodes /\ nodes'[k].mappings = nodes[k].mappings
    BY <1>8, <1>9, <1>10
  <2> QED BY <1>1, <1>2, <2>1, MappedKept
<1> QED BY <1>12, <1>13, <1>14, <1>16, <1>17, <1>18 DEF MemoryOK, MemoryTold

-----------------------------------------------------------------------------
(* The end of the file                                                     *)

LEMMA DescriptionKnown ==
  ASSUME read \in Seq(FileEntry), DescriptionsTold, NEW s
  PROVE  /\ Matches(s) # {} <=> \E p \in EntriesOf("description") : Frames[p].state = s
         /\ Matches(s) # {} <=> \E p \in DOMAIN read : Frames[p] = Description(s)
<1> DEFINE n == Len(read)
           P == EntriesOf("description")
<1>1. /\ n \in Nat /\ DOMAIN read = 1 .. n /\ P \in SUBSET (1 .. n)
      /\ \A p \in P : p \in DOMAIN read /\ Frames[p].type = "description"
      /\ \A p \in DOMAIN read : Frames[p].type = "description" => p \in P
  BY LenProperties DEF EntriesOf
<1>2. \A p \in DOMAIN read : Frames[p] \in FileFrame
  <2>1. \A p \in 1 .. n : read[p] \in FileEntry
    BY ElementOfSeq
  <2> QED BY <1>1, <2>1 DEF Frames, FileEntry
<1>3. \A p \in P : Frames[p] = Description(Frames[p].state)
  BY <1>1, <1>2, FrameTold
<1>4. \A p \in DOMAIN read : Frames[p] = Description(s) => p \in P /\ Frames[p].state = s
  BY <1>1 DEF Description
<1>5. Len(descs) = Cardinality(P) /\ \A p \in P : descs[Nth(P, p)] = Frames[p].state
  BY DEF DescriptionsTold
<1> HIDE DEF n, P
<1>6. \A p \in P : Nth(P, p) \in 1 .. Cardinality(P)
  BY <1>1, NthMore
<1>7. DOMAIN descs = 1 .. Len(descs)
  OBVIOUS
<1>8. \A p \in P : Frames[p].state = s => Nth(P, p) \in Matches(s)
  BY <1>5, <1>6, <1>7 DEF Matches
<1>9. ASSUME NEW d \in Matches(s)
      PROVE  \E p \in P : Frames[p].state = s
  <2>1. d \in 1 .. Cardinality(P) /\ descs[d] = s
    BY <1>5, <1>7 DEF Matches
  <2>2. PICK p \in P : Nth(P, p) = d
    BY <1>1, <2>1, NthOnto
  <2> QED BY <1>5, <2>1, <2>2
<1>10. Matches(s) # {} <=> \E p \in P : Frames[p].state = s
  BY <1>8, <1>9
<1>11. (\E p \in P : Frames[p].state = s) <=> \E p \in DOMAIN read : Frames[p] = Description(s)
  BY <1>1, <1>3, <1>4
<1> QED BY <1>10, <1>11 DEF P

LEMMA OccurringTold ==
  ASSUME read \in Seq(FileEntry), CollectionsOK, SensibleSoFar, CollectionIdsTold,
         HierarchiesTold, EventsTold
  PROVE  /\ \A p \in EntriesOf("event") : Frames[p].state \in Occurring
         /\ \A s \in Occurring : \E p \in EntriesOf("event") : Frames[p].state = s
<1> DEFINE n == Len(read)
           P == EntriesOf("event")
<1>1. n \in Nat /\ P \in SUBSET (1 .. n)
  BY LenProperties DEF EntriesOf
<1>2. \A i \in DOMAIN colls : TellsEvents(colls[i].events, colls[i].id, P, Frames)
  BY EventsToldIs
<1>3. \A p \in P : Known(Frames[p].id)
  BY ReferredTo, KnownTold
<1> HIDE DEF n, P
<1>4. \A i \in DOMAIN colls : DOMAIN colls[i].events = 1 .. Len(colls[i].events)
  <2> SUFFICES ASSUME NEW i \in DOMAIN colls
               PROVE  DOMAIN colls[i].events = 1 .. Len(colls[i].events)
    OBVIOUS
  <2>1. colls[i] \in CollectionRecord
    BY LenProperties, ElementOfSeq DEF CollectionsOK
  <2>2. colls[i].events \in Seq(FileFrame)
    BY <2>1 DEF CollectionRecord
  <2> QED BY <2>2, LenProperties
<1>5. ASSUME NEW p \in P
      PROVE  Frames[p].state \in Occurring
  <2>1. PICK i \in DOMAIN colls : colls[i].id = Frames[p].id
    BY <1>3 DEF Known
  <2> DEFINE Q == EventsOf(colls[i].id, P, Frames)
  <2>2. p \in Q /\ Q \in SUBSET (1 .. n)
    BY <1>1, <2>1 DEF EventsOf
  <2>3. Len(colls[i].events) = Cardinality(Q) /\ colls[i].events[Nth(Q, p)] = Frames[p]
    BY <1>2, <2>2 DEF TellsEvents, EventsAre
  <2> HIDE DEF Q
  <2>4. Nth(Q, p) \in 1 .. Cardinality(Q)
    BY <1>1, <2>2, NthMore
  <2>5. Frames[p] \in Range(colls[i].events)
    BY <1>4, <2>3, <2>4 DEF Range
  <2> QED BY <2>5 DEF Occurring
<1>6. ASSUME NEW s \in Occurring
      PROVE  \E p \in P : Frames[p].state = s
  <2>1. PICK i \in DOMAIN colls : \E f \in Range(colls[i].events) : f.state = s
    BY DEF Occurring
  <2>2. PICK j \in 1 .. Len(colls[i].events) : colls[i].events[j].state = s
    BY <1>4, <2>1 DEF Range
  <2> DEFINE Q == EventsOf(colls[i].id, P, Frames)
  <2>3. Q \in SUBSET (1 .. n) /\ Q \subseteq P
    BY <1>1 DEF EventsOf
  <2>4. Len(colls[i].events) = Cardinality(Q) /\ \A p \in Q : colls[i].events[Nth(Q, p)] = Frames[p]
    BY <1>2 DEF TellsEvents, EventsAre
  <2> HIDE DEF Q
  <2>5. PICK p \in Q : Nth(Q, p) = j
    BY <1>1, <2>2, <2>3, <2>4, NthOnto
  <2> QED BY <2>2, <2>3, <2>4, <2>5
<1> QED BY <1>5, <1>6 DEF P

LEMMA MatchedDescribed ==
  ASSUME ReadingOK, MemoryOK, Told
  PROVE  Matched <=> Described
<1>1. /\ \A p \in EntriesOf("event") : Frames[p].state \in Occurring
      /\ \A s \in Occurring : \E p \in EntriesOf("event") : Frames[p].state = s
  BY OccurringTold DEF ReadingOK, MemoryOK, Told, MemoryTold
<1>2. \A s : Matches(s) # {} <=> \E p \in DOMAIN read : Frames[p] = Description(s)
  BY DescriptionKnown DEF ReadingOK, Told, MemoryTold
<1>3. Described <=>
        \A p \in EntriesOf("event") :
          \E q \in DOMAIN read : Frames[q] = Description(Frames[p].state)
  BY DEF Described, EntriesOf
<1>4. Described <=> \A p \in EntriesOf("event") : Matches(Frames[p].state) # {}
  BY ONLY <1>2, <1>3
<1> QED BY <1>1, <1>4 DEF Matched

(* Nothing more is read.                                                   *)
LEMMA ToldUnread ==
  ASSUME MemoryOK, MappedOrdered, Told, read' = read,
         UNCHANGED <<types, colls, block, free, hierarchies, nodes, descs, bounds>>
  PROVE  MemoryOK' /\ MappedOrdered' /\ Told'
<1>1. Frames' = Frames /\ \A t : EntriesOf(t)' = EntriesOf(t)
  BY DEF Frames, EntriesOf
<1>2. SensibleSoFar'
  <2>1. \A i : SensibleEntry(i)' <=> SensibleEntry(i)
    BY <1>1 DEF SensibleEntry
  <2> QED BY <2>1 DEF SensibleSoFar, Told
<1>3. SpaceCounted' /\ TypesTold' /\ CollectionIdsTold' /\ HierarchiesTold'
  <2>1. SpaceCounted' /\ TypesTold'
    BY <1>1 DEF Told, MemoryTold, SpaceCounted, TypesTold
  <2>2. CollectionIdsTold'
    BY <1>1 DEF Told, MemoryTold, CollectionIdsTold
  <2>3. HierarchiesTold'
    BY <1>1 DEF Told, MemoryTold, HierarchiesTold
  <2> QED BY <2>1, <2>2, <2>3
<1>4. EventsTold' /\ DescriptionsTold'
  <2>1. EventsTold'
    BY <1>1 DEF Told, MemoryTold, EventsTold
  <2>2. DescriptionsTold'
    BY <1>1 DEF Told, MemoryTold, DescriptionsTold
  <2> QED BY <2>1, <2>2
<1>5. NodesTold' /\ MappingsTold'
  <2>1. NodesTold'
    BY <1>1 DEF Told, MemoryTold, NodesTold
  <2>2. MappingsTold'
    <3>1. MappingsTold' <=> \A k \in DOMAIN nodes' :
            TellsMappings(nodes'[k].mappings, k, EntriesOf("mapping")', Frames')
      BY DEF MappingsTold, TellsMappings, MappingsAre, MappingsOf
    <3>2. MappingsTold
      BY DEF Told, MemoryTold
    <3> QED BY <1>1, <3>1, <3>2, MappingsToldIs
  <2> QED BY <2>1, <2>2
<1>6. BoundsMet'
  BY <1>1 DEF Told, MemoryTold, BoundsMet, Times
<1>7. MemoryOK'
  BY MemoryKept DEF MemoryOK
<1>8. MappedOrdered'
  BY <1>1 DEF MappedOrdered, MappedRight, Refers
<1> QED BY <1>2, <1>3, <1>4, <1>5, <1>6, <1>7, <1>8 DEF Told, MemoryTold

(* The trace is destroyed.                                                 *)
LEMMA NothingFine ==
  NodesFine(<<>>, {}) /\ CollectionsFine(<<>>)
<1>1. Tree(<<>>, {})
  BY DEF Tree
<1>2. IsFiniteSet(DOMAIN <<>>)
  BY FS_EmptySet
<1>3. <<>> \in [DOMAIN <<>> -> NodeRecord]
  OBVIOUS
<1>4. <<>> \in Seq(CollectionRecord) /\ DOMAIN <<>> = {}
  OBVIOUS
<1> QED BY <1>1, <1>2, <1>3, <1>4 DEF NodesFine, CollectionsFine

LEMMA Rejected ==
  ASSUME MemoryOK, Reject
  PROVE  MemoryOK' /\ MappedOrdered' /\ phase' = "failed" /\ ~Intact'
<1>1. /\ phase' = "failed" /\ colls' = <<>> /\ nodes' = <<>> /\ hierarchies' = {} /\ descs' = <<>>
      /\ UNCHANGED <<types, block, free, bounds>>
  BY DEF Reject
<1>2. TablesOK'
  BY <1>1 DEF MemoryOK, TablesOK
<1>3. CollectionsOK' /\ NodesOK'
  BY <1>1, NothingFine, CollectionsFineIs, NodesFineIs
<1>4. MappedOrdered'
  BY <1>1 DEF MappedOrdered, MappedRight
<1> QED BY <1>1, <1>2, <1>3, <1>4 DEF MemoryOK, Intact

LEMMA CollectionStates ==
  ASSUME NEW c \in CollectionRecord, NEW x \in Seq(Nat)
  PROVE  /\ [c EXCEPT !.states = x] \in CollectionRecord
         /\ [c EXCEPT !.states = x].id = c.id
         /\ [c EXCEPT !.states = x].events = c.events
         /\ [c EXCEPT !.states = x].states = x
BY DEF CollectionRecord

(* States are joined with descriptions.                                    *)
LEMMA StepJoin ==
  ASSUME ReadingOK, MemoryOK, MappedOrdered, Told, read' = read,
         UNCHANGED <<types, block, free, hierarchies, nodes, descs, bounds>>,
         NEW found \in [Occurring -> DOMAIN descs],
         \A s \in Occurring : found[s] \in Matches(s),
         colls' = [i \in DOMAIN colls |->
                     [colls[i] EXCEPT !.states = [j \in DOMAIN @ |-> found[colls[i].events[j].state]]]]
  PROVE  MemoryOK' /\ MappedOrdered' /\ Told' /\ Joined'
<1> DEFINE n == Len(colls)
           States(i) == [j \in DOMAIN colls[i].states |-> found[colls[i].events[j].state]]
<1>1. /\ n \in Nat /\ DOMAIN colls = 1 .. n /\ colls \in Seq(CollectionRecord)
      /\ \A i \in DOMAIN colls : colls[i] \in CollectionRecord
  BY LenProperties, ElementOfSeq DEF MemoryOK, CollectionsOK
<1>2. /\ colls' = [i \in DOMAIN colls |-> [colls[i] EXCEPT !.states = States(i)]]
  OBVIOUS
<1>3. descs \in Seq(Nat) /\ \A d \in DOMAIN descs : descs[d] \in Nat /\ d \in Nat
  <2>1. descs \in Seq(Nat)
    BY DEF MemoryOK, TablesOK
  <2> QED BY <2>1, LenProperties, ElementOfSeq
<1>4. ASSUME NEW i \in DOMAIN colls
      PROVE  /\ States(i) \in Seq(Nat) /\ Len(States(i)) = Len(colls[i].states)
             /\ DOMAIN States(i) = DOMAIN colls[i].events
             /\ Len(colls[i].states) = Len(colls[i].events)
             /\ \A j \in DOMAIN colls[i].events :
                  /\ States(i)[j] \in DOMAIN descs
                  /\ descs[States(i)[j]] = colls[i].events[j].state
  <2> DEFINE ev == colls[i].events
             st == colls[i].states
  <2>1. ev \in Seq(FileFrame) /\ st \in Seq(Nat) /\ Len(st) = Len(ev)
    BY <1>1 DEF CollectionRecord, MemoryOK, CollectionsOK
  <2>2. Len(ev) \in Nat /\ DOMAIN ev = 1 .. Len(ev) /\ DOMAIN st = 1 .. Len(ev)
    BY <2>1, LenProperties
  <2>3. \A j \in DOMAIN ev : ev[j].state \in Occurring
    BY DEF Occurring, Range
  <2> HIDE DEF ev, st
  <2>4. \A j \in DOMAIN ev : /\ found[ev[j].state] \in DOMAIN descs
                             /\ descs[found[ev[j].state]] = ev[j].state
    BY <2>3 DEF Matches
  <2>5. States(i) = [j \in 1 .. Len(ev) |-> found[ev[j].state]]
    BY <2>2 DEF ev, st
  <2> HIDE DEF States
  <2>6. States(i) \in [1 .. Len(ev) -> Nat]
    BY <1>3, <2>2, <2>4, <2>5
  <2>7. States(i) \in Seq(Nat) /\ DOMAIN States(i) = 1 .. Len(ev)
    BY <2>2, <2>6, SeqDef
  <2>8. Len(States(i)) = Len(ev)
    BY <2>2, <2>7
  <2>9. \A j \in DOMAIN ev : States(i)[j] = found[ev[j].state]
    BY <2>2, <2>5
  <2> QED BY <2>1, <2>2, <2>4, <2>7, <2>8, <2>9 DEF ev, st
<1> HIDE DEF States
<1>5. /\ DOMAIN colls' = DOMAIN colls
      /\ \A i \in DOMAIN colls : /\ colls'[i] \in CollectionRecord
                                 /\ colls'[i].id = colls[i].id
                                 /\ colls'[i].events = colls[i].events
                                 /\ colls'[i].states = States(i)
  <2>1. DOMAIN colls' = DOMAIN colls
    BY <1>2
  <2>2. ASSUME NEW i \in DOMAIN colls
        PROVE  /\ colls'[i] \in CollectionRecord
               /\ colls'[i].id = colls[i].id
               /\ colls'[i].events = colls[i].events
               /\ colls'[i].states = States(i)
    <3>1. colls'[i] = [colls[i] EXCEPT !.states = States(i)]
      BY <1>2
    <3>2. colls[i] \in CollectionRecord /\ States(i) \in Seq(Nat)
      BY <1>1, <1>4
    <3> QED BY ONLY <3>1, <3>2, CollectionStates
  <2> QED BY <2>1, <2>2
<1>6. colls' \in Seq(CollectionRecord) /\ Len(colls') = n
  <2>1. colls' \in [1 .. n -> CollectionRecord]
    BY <1>1, <1>2, <1>5
  <2>2. colls' \in Seq(CollectionRecord)
    BY <1>1, <2>1, SeqDef
  <2> HIDE DEF n
  <2> QED BY <1>1, <2>1, <2>2
<1>7. CollectionsOK'
  <2>1. \A i, j \in DOMAIN colls' : i < j => colls'[i].id < colls'[j].id
    BY <1>5, ZenonT(30) DEF MemoryOK, CollectionsOK
  <2>2. ASSUME NEW i \in DOMAIN colls'
        PROVE  Len(colls'[i].states) = Len(colls'[i].events)
    <3>1. i \in DOMAIN colls
      BY <1>5
    <3>2. Len(States(i)) = Len(colls[i].events)
      BY <1>4, <3>1
    <3>3. colls'[i].states = States(i) /\ colls'[i].events = colls[i].events
      BY <1>5, <3>1
    <3> QED BY ONLY <3>2, <3>3
  <2> QED BY <1>6, <2>1, <2>2 DEF CollectionsOK
<1>8. MemoryOK'
  BY <1>7, MemoryKept DEF MemoryOK
<1>9. Joined'
  <2> SUFFICES ASSUME NEW i \in DOMAIN colls', NEW j \in DOMAIN colls'[i].events
               PROVE  /\ colls'[i].states[j] \in DOMAIN descs'
                      /\ descs'[colls'[i].states[j]] = colls'[i].events[j].state
    BY DEF Joined
  <2>1. i \in DOMAIN colls
    BY <1>5
  <2>2. colls'[i].states = States(i) /\ colls'[i].events = colls[i].events
    BY <1>5, <2>1
  <2>3. j \in DOMAIN colls[i].events
    BY ONLY <2>2, j \in DOMAIN colls'[i].events
  <2>4. States(i)[j] \in DOMAIN descs /\ descs[States(i)[j]] = colls[i].events[j].state
    BY <1>4, <2>1, <2>3
  <2> QED BY ONLY <2>2, <2>4, descs' = descs
<1>10. Frames' = Frames /\ \A t : EntriesOf(t)' = EntriesOf(t)
  BY DEF Frames, EntriesOf
<1>11. MappedOrdered'
  <2>1. \A m : Refers(m) => Refers(m)'
    BY <1>5 DEF Refers
  <2> QED BY <1>10, <2>1 DEF MappedOrdered, MappedRight, Refers
<1>12. SensibleSoFar'
  <2>1. \A i : SensibleEntry(i)' <=> SensibleEntry(i)
    BY <1>10 DEF SensibleEntry
  <2> QED BY <2>1 DEF SensibleSoFar, Told
<1>13. SpaceCounted' /\ TypesTold'
  BY <1>6, <1>10 DEF Told, MemoryTold, SpaceCounted, TypesTold
<1>14. HierarchiesTold'
  BY <1>10 DEF Told, MemoryTold, HierarchiesTold
<1>15. CollectionIdsTold'
  <2>1. {colls'[i].id : i \in DOMAIN colls'} = {colls[i].id : i \in DOMAIN colls}
    BY <1>5
  <2> QED BY <1>10, <2>1 DEF Told, MemoryTold, CollectionIdsTold
<1>16. EventsTold'
  <2>1. EventsTold' <=> \A i \in DOMAIN colls' :
          TellsEvents(colls'[i].events, colls'[i].id, EntriesOf("event")', Frames')
    BY DEF EventsTold, TellsEvents, EventsAre, EventsOf
  <2>2. EventsTold
    BY DEF Told, MemoryTold
  <2> QED BY <1>5, <1>10, <2>1, <2>2, EventsToldIs
<1>17. DescriptionsTold' /\ NodesTold'
  BY <1>10 DEF Told, MemoryTold, DescriptionsTold, NodesTold
<1>18. MappingsTold'
  <2>1. MappingsTold' <=> \A k \in DOMAIN nodes' :
          TellsMappings(nodes'[k].mappings, k, EntriesOf("mapping")', Frames')
    BY DEF MappingsTold, TellsMappings, MappingsAre, MappingsOf
  <2>2. MappingsTold
    BY DEF Told, MemoryTold
  <2> QED BY <1>10, <2>1, <2>2, MappingsToldIs
<1>19. BoundsMet'
  BY <1>10 DEF Told, MemoryTold, BoundsMet, Times
<1> QED BY <1>8, <1>9, <1>11, <1>12, <1>13, <1>14, <1>15, <1>16, <1>17, <1>18, <1>19
        DEF Told, MemoryTold

-----------------------------------------------------------------------------
(* Initially nothing has been read, and there is nothing in memory.        *)
LEMMA LoadStarts == LoadInit => LoadInv
<1> SUFFICES ASSUME LoadInit PROVE LoadInv
  OBVIOUS
<1>1. /\ phase = "header" /\ scenario \in Scenarios /\ ahead = scenario.prefix
      /\ types = [n \in 0 .. MaxTypes - 1 |-> IF n = 0 THEN TypeIdName ELSE None]
      /\ colls = <<>> /\ block = 0 /\ free = 0
      /\ hierarchies = {} /\ nodes = <<>> /\ descs = <<>>
      /\ bounds = [start |-> MaxTime, end |-> 0]
      /\ cut = "no" /\ starved = FALSE /\ read = <<>>
  BY DEF LoadInit
<1>2. ReadingOK
  BY <1>1, LoadAssumption DEF ReadingOK
<1>3. MemoryOK
  <2>1. TablesOK
    <3>1. MaxTypes \in Nat \ {0} /\ Prealloc \in Nat \ {0} /\ MaxTime \in Nat
      BY LoadAssumption
    <3>2. types \in [0 .. MaxTypes - 1 -> TypeNames \cup {TypeIdName, None}]
      BY <1>1
    <3>3. types[0] = TypeIdName
      BY <1>1, <3>1
    <3>4. bounds \in [start : Time, end : Time]
      BY <1>1, <3>1 DEF Time
    <3> QED BY <1>1, <3>1, <3>2, <3>3, <3>4 DEF TablesOK
  <2>2. CollectionsOK /\ NodesOK
    BY <1>1, NothingFine, NodesFineIs, CollectionsFineIs
  <2> QED BY <2>1, <2>2 DEF MemoryOK
<1>4. MappedOrdered
  BY <1>1 DEF MappedOrdered, MappedRight
<1>5. EndRight
  BY <1>1 DEF EndRight
<1>6. SensibleSoFar
  BY <1>1 DEF SensibleSoFar
<1>7. \A t : EntriesOf(t) = {}
  BY <1>1 DEF EntriesOf
<1>8. Cardinality({}) = 0 /\ \A S : S \subseteq {} => S = {}
  BY FS_EmptySet
<1>9. SpaceCounted
  <2>1. Prealloc \in Nat
    BY LoadAssumption
  <2>2. Len(colls) + free = 0 * Prealloc
    BY <1>1, <2>1
  <2> QED BY <2>2 DEF SpaceCounted
<1>10. TypesTold
  <2>1. \A n \in 1 .. MaxTypes - 1 : n \in 0 .. MaxTypes - 1 /\ n # 0
    BY LoadAssumption
  <2> QED BY <1>1, <1>7, <2>1 DEF TypesTold
<1>11. CollectionIdsTold /\ HierarchiesTold
  BY <1>1, <1>7 DEF CollectionIdsTold, HierarchiesTold
<1>12. EventsTold /\ MappingsTold
  BY <1>1 DEF EventsTold, MappingsTold
<1>13. DescriptionsTold
  BY <1>1, <1>7, <1>8 DEF DescriptionsTold
<1>14. NodesTold
  BY <1>1, <1>7 DEF NodesTold
<1>15. BoundsMet
  BY <1>1, <1>7 DEF BoundsMet
<1> QED BY <1>2, <1>3, <1>4, <1>5, <1>6, <1>9, <1>10, <1>11, <1>12, <1>13, <1>14, <1>15
        DEF LoadInv, Told, MemoryTold

(* What comes next is an entry.                                            *)
LEMMA UpcomingEntries ==
  ASSUME ReadingOK
  PROVE  /\ Upcoming \subseteq FileEntry
         /\ ahead # <<>> => Tail(ahead) \in Seq(FileEntry)
<1>1. scenario.frames \subseteq FileEntry /\ ahead \in Seq(FileEntry)
  BY LoadAssumption DEF ReadingOK
<1>2. ahead # <<>> => Head(ahead) \in FileEntry /\ Tail(ahead) \in Seq(FileEntry)
  BY <1>1, HeadTailProperties
<1> QED BY <1>1, <1>2 DEF Upcoming

(* A frame that is accepted is told by what is in memory then.             *)
LEMMA FrameProcessed ==
  ASSUME ReadingOK, MemoryOK, MappedOrdered, Told,
         NEW e \in FileEntry, read' = Append(read, e),
         Accepts(e.frame), Process(e.frame)
  PROVE  MemoryOK' /\ MappedOrdered' /\ MemoryTold'
<1>1. e.frame \in FileFrame /\ MemoryTold
  BY DEF FileEntry, Told
<1>2. CASE e.frame.type = "type_id"
  <2>1. AcceptsTypeId(e.frame) /\ ProcessTypeId(e.frame)
    BY <1>2 DEF Accepts, Process
  <2> QED BY <1>1, <1>2, <2>1, StepTypeId
<1>3. CASE e.frame.type = "collection"
  <2>1. AcceptsCollection(e.frame) /\ ProcessCollection(e.frame)
    BY <1>3 DEF Accepts, Process
  <2> QED BY <1>3, <2>1, StepCollection
<1>4. CASE e.frame.type = "hierarchy"
  <2>1. ProcessHierarchy(e.frame)
    BY <1>4 DEF Process
  <2> QED BY <1>1, <1>4, <2>1, StepHierarchy
<1>5. CASE e.frame.type = "node"
  <2>1. AcceptsNode(e.frame) /\ ProcessNode(e.frame)
    BY <1>5 DEF Accepts, Process
  <2> QED BY <1>5, <2>1, StepNode
<1>6. CASE e.frame.type = "mapping"
  <2>1. AcceptsMapping(e.frame) /\ ProcessMapping(e.frame)
    BY <1>6 DEF Accepts, Process
  <2> QED BY <1>1, <1>6, <2>1, StepMapping
<1>7. CASE e.frame.type = "description"
  <2>1. ProcessDescription(e.frame)
    BY <1>7 DEF Process
  <2> QED BY <1>1, <1>7, <2>1, StepDescription
<1>8. CASE e.frame.type = "event"
  <2>1. AcceptsEvent(e.frame) /\ ProcessEvent(e.frame)
    BY <1>8 DEF Accepts, Process
  <2> QED BY <1>1, <1>8, <2>1, StepEvent
<1> QED BY <1>1, <1>2, <1>3, <1>4, <1>5, <1>6, <1>7, <1>8, FrameTold

(* The next frame is read.  It is processed if and only if it makes sense. *)
LEMMA LoadFrameKeeps ==
  ASSUME LoadInv, LoadFrame
  PROVE  LoadInv'
<1>1. /\ ReadingOK /\ MemoryOK /\ MappedOrdered /\ EndRight
      /\ phase = "frames" /\ Intact /\ Told
  BY DEF LoadInv, LoadFrame, Intact
<1>2. PICK e \in Upcoming :
        /\ read' = Append(read, e)
        /\ IF TypesOf(e.num) # {None} /\ Accepts(e.frame)
             THEN Process(e.frame) /\ phase' = phase
             ELSE Reject
  BY DEF LoadFrame
<1>3. e \in FileEntry /\ read \in Seq(FileEntry)
  BY <1>1, UpcomingEntries DEF ReadingOK
<1>4. /\ scenario' = scenario /\ cut' = cut /\ starved' = starved
      /\ ahead' = IF ahead = <<>> THEN ahead ELSE Tail(ahead)
  BY DEF LoadFrame
<1>5. scenario' \in Scenarios /\ ahead' \in Seq(FileEntry) /\ read' \in Seq(FileEntry)
  <2>1. read' \in Seq(FileEntry)
    BY <1>2, <1>3, ReadMore
  <2> QED BY <1>1, <1>4, <2>1, UpcomingEntries DEF ReadingOK
<1>0. PICK m : m = Len(read) + 1
  OBVIOUS
<1>6. /\ DOMAIN read' = DOMAIN read \cup {m}
      /\ \A i \in DOMAIN read : SensibleEntry(i)' <=> SensibleEntry(i)
  BY <1>0, <1>2, <1>3, SensibleStays
<1>7. (TypesOf(e.num) # {None} /\ Accepts(e.frame)) <=> SensibleEntry(m)'
  BY <1>0, <1>1, <1>2, <1>3, Verdict
<1>8. CASE TypesOf(e.num) # {None} /\ Accepts(e.frame)
  <2>1. Process(e.frame) /\ phase' = "frames"
    BY <1>1, <1>2, <1>8
  <2>2. MemoryOK' /\ MappedOrdered' /\ MemoryTold'
    BY <1>1, <1>2, <1>3, <1>8, <2>1, FrameProcessed
  <2>3. SensibleSoFar'
    <3>1. \A i \in DOMAIN read : SensibleEntry(i)'
      BY <1>1, <1>6 DEF Told, SensibleSoFar
    <3>2. SensibleEntry(m)'
      BY <1>7, <1>8
    <3> QED BY <1>6, <3>1, <3>2 DEF SensibleSoFar
  <2>4. EndRight'
    BY <1>1, <1>4, <2>1 DEF EndRight
  <2>5. ReadingOK'
    BY <1>5, <2>1 DEF ReadingOK
  <2> QED BY <2>2, <2>3, <2>4, <2>5 DEF LoadInv, Told
<1>9. CASE ~(TypesOf(e.num) # {None} /\ Accepts(e.frame))
  <2>1. MemoryOK' /\ MappedOrdered' /\ phase' = "failed" /\ ~Intact'
    BY <1>1, <1>2, <1>9, Rejected
  <2>2. \E i \in DOMAIN read' : ~SensibleEntry(i)'
    BY <1>6, <1>7, <1>9
  <2>3. EndRight'
    BY <2>1, <2>2 DEF EndRight
  <2>4. ReadingOK'
    BY <1>5, <2>1 DEF ReadingOK
  <2> QED BY <2>1, <2>3, <2>4 DEF LoadInv
<1> QED BY <1>8, <1>9

(* A type is looked up behind the table.                                   *)
LEMMA LoadBehindTableKeeps ==
  ASSUME LoadInv, LoadBehindTable
  PROVE  LoadInv'
<1>1. /\ ReadingOK /\ MemoryOK /\ MappedOrdered /\ EndRight /\ phase = "frames"
  BY DEF LoadInv, LoadBehindTable
<1>2. PICK e \in Upcoming : e.num = MaxTypes /\ read' = Append(read, e)
  BY DEF LoadBehindTable, BehindTable
<1>3. e \in FileEntry /\ read \in Seq(FileEntry)
  BY <1>1, UpcomingEntries DEF ReadingOK
<1>4. scenario' = scenario /\ cut' = cut /\ starved' = starved /\ ahead' = ahead
  BY DEF LoadBehindTable
<1>5. scenario' \in Scenarios /\ ahead' \in Seq(FileEntry) /\ read' \in Seq(FileEntry)
  <2>1. read' \in Seq(FileEntry)
    BY <1>2, <1>3, ReadMore
  <2> QED BY <1>1, <1>4, <2>1 DEF ReadingOK
<1>0. PICK m : m = Len(read) + 1
  OBVIOUS
<1>6. DOMAIN read' = DOMAIN read \cup {m}
  BY <1>0, <1>2, <1>3, SensibleStays
<1>7. ~SensibleEntry(m)'
  <2>1. MaxTypes \in Nat \ {0} /\ ~(MaxTypes < MaxTypes) /\ MaxTypes # 0
    BY LoadAssumption
  <2> QED BY <1>0, <1>2, <1>3, <2>1, SensibleEntryNew
<1>8. \E i \in DOMAIN read' : ~SensibleEntry(i)'
  BY <1>6, <1>7
<1>9. CASE Reject
  <2>1. MemoryOK' /\ MappedOrdered' /\ phase' = "failed" /\ ~Intact'
    BY <1>1, <1>9, Rejected
  <2>2. EndRight'
    BY <1>8, <2>1 DEF EndRight
  <2>3. ReadingOK'
    BY <1>5, <2>1 DEF ReadingOK
  <2> QED BY <2>1, <2>2, <2>3 DEF LoadInv
<1>10. CASE /\ phase' = "undefined"
            /\ UNCHANGED <<types, colls, block, free, hierarchies, nodes, descs, bounds>>
  <2>1. MemoryOK'
    BY <1>1, <1>10, MemoryKept DEF MemoryOK
  <2>2. MappedOrdered'
    BY <1>1, <1>2, <1>3, <1>10, MappedKept
  <2>3. EndRight'
    BY <1>10 DEF EndRight
  <2>4. ReadingOK'
    BY <1>5, <1>10 DEF ReadingOK
  <2>5. ~Intact'
    BY <1>10 DEF Intact
  <2> QED BY <2>1, <2>2, <2>3, <2>4, <2>5 DEF LoadInv
<1> QED BY <1>9, <1>10 DEF LoadBehindTable

(* The trace is destroyed, for a reason that is remembered.                *)
LEMMA RejectKeeps ==
  ASSUME LoadInv, Reject, read' = read, scenario' = scenario, ahead' = ahead,
         starved' \/ cut' \in {"header", "frame"} \/ ~Described
  PROVE  LoadInv'
<1>1. ReadingOK /\ MemoryOK
  BY DEF LoadInv
<1>2. MemoryOK' /\ MappedOrdered' /\ phase' = "failed" /\ ~Intact'
  BY <1>1, Rejected
<1>3. ReadingOK'
  BY <1>1, <1>2 DEF ReadingOK
<1>4. Described' <=> Described
  BY DEF Described, Frames
<1>5. EndRight'
  BY <1>2, <1>4 DEF EndRight
<1> QED BY <1>2, <1>3, <1>5 DEF LoadInv

(* Nothing but the phase changes, and where the file ends.                 *)
LEMMA LoadGoesOn ==
  ASSUME LoadInv, Intact, read' = read, scenario' = scenario, ahead' = ahead,
         UNCHANGED <<types, colls, block, free, hierarchies, nodes, descs, bounds>>,
         phase' \in {"frames", "post"},
         phase' = "frames" => cut' = "no",
         phase' = "post" => cut' \in {"no", "id"}
  PROVE  LoadInv'
<1>1. ReadingOK /\ MemoryOK /\ MappedOrdered /\ Told
  BY DEF LoadInv
<1>2. MemoryOK' /\ MappedOrdered' /\ Told'
  BY <1>1, ToldUnread
<1>3. ReadingOK'
  BY <1>1 DEF ReadingOK
<1>4. EndRight'
  BY DEF EndRight
<1> QED BY <1>2, <1>3, <1>4 DEF LoadInv

(* Events are joined with the descriptions of their states.                *)
LEMMA JoinStatesKeeps ==
  ASSUME LoadInv, JoinStates
  PROVE  LoadInv'
<1>1. /\ ReadingOK /\ MemoryOK /\ MappedOrdered /\ EndRight
      /\ phase = "post" /\ Told /\ cut \in {"no", "id"}
  BY DEF LoadInv, JoinStates, Intact, EndRight
<1>2. UNCHANGED <<ahead, scenario, cut, starved, read>>
  BY DEF JoinStates
<1>3. Matched <=> Described
  BY <1>1, MatchedDescribed
<1>4. CASE Matched
  <2>1. PICK found \in [Occurring -> DOMAIN descs] :
          /\ \A s \in Occurring : found[s] \in Matches(s)
          /\ colls' = [i \in DOMAIN colls |->
                        [colls[i] EXCEPT !.states = [j \in DOMAIN @ |-> found[colls[i].events[j].state]]]]
          /\ phase' = "loaded"
          /\ UNCHANGED <<types, block, free, hierarchies, nodes, descs, bounds>>
    BY <1>4 DEF JoinStates
  <2>2. MemoryOK' /\ MappedOrdered' /\ Told' /\ Joined'
    BY <1>1, <1>2, <2>1, StepJoin
  <2>3. Described'
    BY <1>2, <1>3, <1>4 DEF Described, Frames
  <2>4. EndRight'
    BY <1>1, <1>2, <2>1, <2>2, <2>3 DEF EndRight
  <2>5. ReadingOK'
    BY <1>1, <1>2, <2>1 DEF ReadingOK
  <2> QED BY <2>2, <2>4, <2>5 DEF LoadInv
<1>5. CASE ~Matched
  <2>1. Reject /\ ~Described
    BY <1>3, <1>5 DEF JoinStates
  <2> QED BY <1>2, <2>1, RejectKeeps
<1> QED BY <1>4, <1>5

LEMMA LoadStepKeeps == LoadInv /\ [LoadNext]_loadVars => LoadInv'
<1> SUFFICES ASSUME LoadInv, [LoadNext]_loadVars PROVE LoadInv'
  OBVIOUS
<1>1. CASE ReadHeader
  <2>1. phase = "header" /\ Intact /\ cut = "no"
        /\ UNCHANGED <<ahead, scenario, starved, read>>
    BY <1>1 DEF ReadHeader, Intact, LoadInv, EndRight
  <2>2. CASE /\ phase' = "frames"
             /\ UNCHANGED <<types, colls, block, free, hierarchies, nodes, descs, bounds, cut>>
    BY <2>1, <2>2, LoadGoesOn
  <2>3. CASE Reject /\ cut' = "header"
    BY <2>1, <2>3, RejectKeeps
  <2> QED BY <1>1, <2>2, <2>3 DEF ReadHeader
<1>2. CASE LoadFrame
  BY <1>2, LoadFrameKeeps
<1>3. CASE LoadBehindTable
  BY <1>3, LoadBehindTableKeeps
<1>4. CASE LoadEnd
  <2>1. /\ phase = "frames" /\ Intact /\ cut' \in {"no", "id", "frame"}
        /\ UNCHANGED <<ahead, scenario, starved, read>>
    BY <1>4 DEF LoadEnd, Intact
  <2>2. CASE cut' = "frame"
    <3>1. Reject
      BY <1>4, <2>2 DEF LoadEnd
    <3> QED BY <2>1, <2>2, <3>1, RejectKeeps
  <2>3. CASE cut' # "frame"
    <3>1. /\ phase' = "post"
          /\ UNCHANGED <<types, colls, block, free, hierarchies, nodes, descs, bounds>>
      BY <1>4, <2>3 DEF LoadEnd
    <3> QED BY <2>1, <2>3, <3>1, LoadGoesOn
  <2> QED BY <2>2, <2>3
<1>5. CASE OutOfMemory
  BY <1>5, RejectKeeps DEF OutOfMemory
<1>6. CASE JoinStates
  BY <1>6, JoinStatesKeeps
<1>7. CASE UNCHANGED loadVars
  <2>1. UNCHANGED <<phase, ahead, scenario, types, colls, block, free, hierarchies, nodes,
                    descs, bounds, cut, starved, read>>
    BY <1>7 DEF loadVars
  <2>2. ReadingOK' /\ MemoryOK' /\ MappedOrdered'
    <3>1. ReadingOK'
      BY <2>1 DEF LoadInv, ReadingOK
    <3>2. MemoryOK'
      BY <2>1, MemoryKept DEF LoadInv, MemoryOK
    <3>3. Frames' = Frames /\ \A m : Refers(m)' <=> Refers(m)
      BY <2>1 DEF Frames, Refers
    <3>4. MappedOrdered'
      BY <2>1, <3>3 DEF LoadInv, MappedOrdered, MappedRight
    <3> QED BY <3>1, <3>2, <3>4
  <2>3. EndRight'
    <3>1. Frames' = Frames
      BY <2>1 DEF Frames
    <3>2. \A i : SensibleEntry(i)' <=> SensibleEntry(i)
      BY <2>1, <3>1 DEF SensibleEntry
    <3>3. (Described' <=> Described) /\ (Joined' <=> Joined)
      BY <2>1, <3>1 DEF Described, Joined
    <3> QED BY <2>1, <3>2, <3>3 DEF LoadInv, EndRight
  <2>4. Intact' => Told'
    BY <2>1, ToldUnread DEF LoadInv, Intact
  <2> QED BY <2>2, <2>3, <2>4 DEF LoadInv
<1> QED BY <1>1, <1>2, <1>3, <1>4, <1>5, <1>6, <1>7 DEF LoadNext

-----------------------------------------------------------------------------
(* What the invariant says                                                 *)

LEMMA TypeFromInv ==
  ASSUME LoadInv
  PROVE  LoadTypeOK
<1>1. /\ \A i, j \in DOMAIN colls : i < j => colls[i].id < colls[j].id
      /\ free \in 0 .. 2 * Prealloc - 2
  BY DEF LoadInv, MemoryOK, CollectionsOK, TablesOK
<1>2. ASSUME phase = "frames"
      PROVE  (Len(colls) + free) % Prealloc = 0
  <2>1. SpaceCounted
    BY <1>2 DEF LoadInv, Intact, Told, MemoryTold
  <2>2. PICK q \in Nat : Len(colls) + free = q * Prealloc
    BY <2>1 DEF SpaceCounted
  <2>3. (q * Prealloc) % Prealloc = 0
    BY LoadAssumption, MultipleRemainder
  <2> QED BY ONLY <2>2, <2>3
<1> QED BY <1>1, <1>2 DEF LoadTypeOK

LEMMA BoundsFromInv ==
  ASSUME ReadingOK, BoundsMet, TablesOK
  PROVE  BoundsTold
<1>1. \A p \in EntriesOf("event") : Frames[p].start \in Time /\ Frames[p].end \in Time
  <2>1. read \in Seq(FileEntry)
    BY DEF ReadingOK
  <2>2. ASSUME NEW p \in DOMAIN read
        PROVE  Frames[p] \in FileFrame
    <3>1. read[p] \in FileEntry
      BY <2>1, ElementOfSeq, LenProperties
    <3> QED BY <3>1 DEF FileEntry, Frames
  <2>3. \A p \in EntriesOf("event") : Frames[p] \in FileFrame /\ Frames[p].type = "event"
    BY <2>2 DEF EntriesOf
  <2> QED BY <2>3, FrameTold
<1>2. Times \subseteq Nat
  <2>1. Time \subseteq Nat
    BY LoadAssumption DEF Time
  <2> QED BY <1>1, <2>1 DEF Times
<1>3. CASE EntriesOf("event") = {}
  <2>1. Times = {}
    BY <1>3 DEF Times
  <2> QED BY <1>3, <2>1 DEF BoundsMet, BoundsTold
<1>4. CASE EntriesOf("event") # {}
  <2>1. /\ bounds.start \in Times /\ bounds.end \in Times
        /\ \A t \in Times : bounds.start <= t /\ t <= bounds.end
    BY <1>4 DEF BoundsMet
  <2>2. Min(Times) = bounds.start
    BY <1>2, <2>1, LeastIs
  <2>3. Max(Times) = bounds.end
    BY <1>2, <2>1, GreatestIs
  <2>4. bounds = [start |-> bounds.start, end |-> bounds.end]
    BY DEF TablesOK
  <2>5. Times # {}
    BY <2>1
  <2> QED BY <2>2, <2>3, <2>4, <2>5 DEF BoundsTold
<1> QED BY <1>3, <1>4

LEMMA InvAlways == LoadSpec => []LoadInv
<1>1. LoadInit => LoadInv
  BY LoadStarts
<1>2. LoadInv /\ [LoadNext]_loadVars => LoadInv'
  BY LoadStepKeeps
<1> QED BY <1>1, <1>2, PTL DEF LoadSpec

-----------------------------------------------------------------------------
(* A trace file is loaded if and only if each frame makes sense after those*)
(* before it and its type has been given the number it comes with, no frame*)
(* is cut, and every state that occurs has a description - whatever frames *)
(* of whatever types follow each other, wherever the file ends, however    *)
(* large the table of types is.  Loading fails otherwise, or when memory   *)
(* is short (am_dsk_load_trace, am_dsk_read_frames, am_dsk_*_process).     *)
THEOREM LoadVerdictCorrect == LoadSpec => []LoadVerdict
<1>1. LoadInv => LoadVerdict
  <2> SUFFICES ASSUME LoadInv PROVE LoadVerdict
    OBVIOUS
  <2>1. EndRight
    BY DEF LoadInv
  <2>2. phase = "loaded" => \A i \in DOMAIN read : SensibleEntry(i)
    BY DEF LoadInv, Intact, Told, SensibleSoFar
  <2> QED BY <2>1, <2>2 DEF LoadVerdict, EndRight
<1> QED BY <1>1, InvAlways, PTL

(* What is in memory is what the file says: collections and hierarchies,   *)
(* the events of each collection and the mappings of each node in their    *)
(* order, the nodes as trees that count their descendants, the bounds of   *)
(* the trace - however often the array of collections grows and moves its  *)
(* elements (am_event_collection_array, am_hierarchy_node_add_child,       *)
(* am_dsk_state_event_process).                                            *)
THEOREM LoadedRightCorrect == LoadSpec => []LoadedRight
<1>1. LoadInv => LoadedRight
  <2> SUFFICES ASSUME LoadInv PROVE LoadedRight
    OBVIOUS
  <2>1. LoadTypeOK
    BY TypeFromInv
  <2>2. LoadedExact
    <3>1. ASSUME phase \in {"frames", "post", "loaded"}
          PROVE  /\ CollectionIdsTold /\ HierarchiesTold
                 /\ EventsTold /\ DescriptionsTold /\ NodesTold /\ MappingsTold
      BY <3>1 DEF LoadInv, Intact, Told, MemoryTold
    <3> QED BY <3>1 DEF LoadedExact, CollectionsTold, CollectionIdsTold, HierarchiesTold
  <2>3. BoundsExact
    <3>1. ASSUME phase \in {"frames", "post", "loaded"}
          PROVE  BoundsTold
      <4>1. ReadingOK /\ BoundsMet /\ TablesOK
        BY <3>1 DEF LoadInv, Intact, Told, MemoryTold, MemoryOK
      <4> QED BY <4>1, BoundsFromInv
    <3> QED BY <3>1 DEF BoundsExact
  <2>4. HierarchyTree
    BY DEF LoadInv, MemoryOK, NodesOK
  <2> QED BY <2>1, <2>2, <2>3, <2>4 DEF LoadedRight
<1> QED BY <1>1, InvAlways, PTL

(* A mapping leads to the collection the file names, although the array of *)
(* collections moves, as long as all collections precede the mappings; an  *)
(* event of a loaded trace leads to a description of its state             *)
(* (am_dsk_event_mapping_process, am_dsk_load_trace).                      *)
THEOREM ReferencesCorrect == LoadSpec => []ReferencesRight
<1>1. LoadInv => ReferencesRight
  BY DEF LoadInv, EndRight, ReferencesRight, Joined
<1> QED BY <1>1, InvAlways, PTL

-----------------------------------------------------------------------------
(* Sequences                                                               *)

LEMMA FrontLast ==
  ASSUME NEW S, NEW s \in Seq(S), s # <<>>
  PROVE  /\ Len(s) \in Nat \ {0} /\ DOMAIN s = 1 .. Len(s)
         /\ Last(s) = s[Len(s)] /\ Last(s) \in S
         /\ Front(s) \in Seq(S) /\ DOMAIN Front(s) = 1 .. Len(s) - 1
         /\ Len(Front(s)) = Len(s) - 1
         /\ \A i \in 1 .. Len(s) - 1 : Front(s)[i] = s[i]
<1>1. Len(s) \in Nat \ {0} /\ DOMAIN s = 1 .. Len(s) /\ \A i \in 1 .. Len(s) : s[i] \in S
  BY EmptySeq, LenProperties, ElementOfSeq
<1>2. Last(s) = s[Len(s)] /\ Last(s) \in S
  BY <1>1 DEF Last
<1>3. \A i \in 1 .. Len(s) - 1 : s[i] \in S
  BY <1>1
<1>4. /\ Front(s) \in Seq(S) /\ Len(Front(s)) = Len(s) - 1
      /\ \A i \in 1 .. Len(s) - 1 : Front(s)[i] = s[i]
  <2>1. /\ SubSeq(s, 1, Len(s) - 1) \in Seq(S)
        /\ Len(SubSeq(s, 1, Len(s) - 1)) = IF 1 <= Len(s) - 1 THEN (Len(s) - 1) - 1 + 1 ELSE 0
        /\ \A i \in 1 .. (Len(s) - 1) - 1 + 1 : SubSeq(s, 1, Len(s) - 1)[i] = s[1 + i - 1]
    BY <1>1, <1>3, SubSeqProperties
  <2> QED BY <1>1, <2>1 DEF Front
<1> QED BY <1>1, <1>2, <1>4, LenProperties

LEMMA Appended ==
  ASSUME NEW S, NEW s \in Seq(S), NEW x \in S
  PROVE  /\ Len(s) \in Nat /\ DOMAIN s = 1 .. Len(s)
         /\ Append(s, x) \in Seq(S) /\ Append(s, x) # <<>>
         /\ Len(Append(s, x)) = Len(s) + 1 /\ DOMAIN Append(s, x) = 1 .. Len(s) + 1
         /\ \A i \in 1 .. Len(s) : Append(s, x)[i] = s[i]
         /\ Append(s, x)[Len(s) + 1] = x /\ Last(Append(s, x)) = x
<1>1. Len(s) \in Nat /\ DOMAIN s = 1 .. Len(s)
  BY LenProperties
<1>2. /\ Append(s, x) \in Seq(S) /\ Append(s, x) # <<>>
      /\ Len(Append(s, x)) = Len(s) + 1
      /\ \A i \in 1 .. Len(s) : Append(s, x)[i] = s[i]
      /\ Append(s, x)[Len(s) + 1] = x
  BY AppendProperties
<1>3. DOMAIN Append(s, x) = 1 .. Len(s) + 1
  BY <1>1, <1>2, LenProperties
<1> QED BY <1>1, <1>2, <1>3 DEF Last

-----------------------------------------------------------------------------
(* The execution of a CPU                                                  *)

Chunk == [id : LoopIds, lb : Int, ub : Int, last : {FALSE}]
ChunkEvent == [id : LoopIds, lb : Int, ub : Int, last : BOOLEAN]
LoopPeriod == [id : LoopIds, lb : Int, ub : Int, start : Nat, end : Nat]

(* An event takes the loops that a CPU is in from s to t.                  *)
Continues(s, e) == s # <<>> /\ Last(s).id = e.id
GoesOn(s, e, t) ==
  IF e.last THEN Continues(s, e) /\ t = Front(s)
  ELSE IF Continues(s, e) THEN t = Append(Front(s), e)
  ELSE t = Append(s, e)

DifferentLoops(s) == \A i, j \in DOMAIN s : i # j => s[i].id # s[j].id

(* The loops that a CPU was in after each of its events E                  *)
StacksRight(E, H) ==
  /\ H \in [0 .. Len(E) -> Seq(Chunk)] /\ H[0] = <<>>
  /\ \A k \in 1 .. Len(E) : GoesOn(H[k - 1], E[k], H[k])
  /\ \A k \in 0 .. Len(E) :
       /\ DifferentLoops(H[k])
       /\ \A i \in DOMAIN H[k] : \E f \in 1 .. k : E[f].id = H[k][i].id
  /\ \A k \in 1 .. Len(E) :
       ~E[k].last /\ ~Continues(H[k - 1], E[k]) => \A f \in 1 .. k - 1 : E[f].id # E[k].id

(* The periods W in which it was in any                                    *)
PeriodOf(H, k) == Period(Last(H[k - 1]), k - 1, k)
WorkRight(E, H, W) ==
  /\ W \in Seq(LoopPeriod)
  /\ \A i \in DOMAIN W : /\ W[i].end \in 1 .. Len(E) /\ H[W[i].end - 1] # <<>>
                         /\ W[i] = PeriodOf(H, W[i].end)
  /\ \A k \in 1 .. Len(E) : H[k - 1] # <<>> => \E i \in DOMAIN W : W[i].end = k
  /\ \A i, j \in DOMAIN W : i < j => W[i].end < W[j].end

History(E, A, W, H) ==
  E \in Seq(ChunkEvent) /\ StacksRight(E, H) /\ H[Len(E)] = A /\ WorkRight(E, H, W)

LEMMA HistoryStarts ==
  History(<<>>, <<>>, <<>>, [k \in 0 .. 0 |-> <<>>])
<1> DEFINE H == [k \in 0 .. 0 |-> <<>>]
<1>1. <<>> \in Seq(ChunkEvent) /\ <<>> \in Seq(LoopPeriod) /\ <<>> \in Seq(Chunk) /\ Len(<<>>) = 0
  BY EmptySeq
<1>2. 0 .. 0 = {0} /\ 1 .. 0 = {} /\ H[0] = <<>> /\ H \in [0 .. 0 -> Seq(Chunk)]
  BY <1>1
<1>3. DOMAIN <<>> = {}
  OBVIOUS
<1> HIDE DEF H
<1>4. StacksRight(<<>>, H)
  BY <1>1, <1>2, <1>3 DEF StacksRight, DifferentLoops
<1>5. WorkRight(<<>>, H, <<>>)
  BY <1>1, <1>2, <1>3 DEF WorkRight
<1> QED BY <1>1, <1>2, <1>4, <1>5 DEF History, H

(* Another event                                                           *)
LEMMA HistoryGoesOn ==
  ASSUME NEW E, NEW A, NEW W, NEW H, History(E, A, W, H),
         NEW e \in ChunkEvent, NEW B \in Seq(Chunk), GoesOn(A, e, B), DifferentLoops(B),
         \A i \in DOMAIN B : B[i].id = e.id \/ \E j \in DOMAIN A : B[i].id = A[j].id,
         ~e.last /\ ~Continues(A, e) => \A f \in DOMAIN E : E[f].id # e.id,
         NEW V, V = IF A = <<>> THEN W ELSE Append(W, Period(Last(A), Len(E), Len(E) + 1))
  PROVE  \E G : History(Append(E, e), B, V, G)
<1> DEFINE n == Len(E)
           F == Append(E, e)
           G == [k \in 0 .. n + 1 |-> IF k = n + 1 THEN B ELSE H[k]]
<1>1. /\ n \in Nat /\ DOMAIN E = 1 .. n /\ F \in Seq(ChunkEvent) /\ Len(F) = n + 1
      /\ \A k \in 1 .. n : F[k] = E[k]
      /\ F[n + 1] = e
  BY Appended DEF History
<1>2. /\ H \in [0 .. n -> Seq(Chunk)] /\ H[0] = <<>> /\ H[n] = A
  BY DEF History, StacksRight
<1>3. /\ G \in [0 .. n + 1 -> Seq(Chunk)] /\ G[0] = <<>> /\ G[n + 1] = B
      /\ \A k \in 0 .. n : G[k] = H[k]
  BY <1>1, <1>2
<1> HIDE DEF n, F, G
<1>4. /\ 1 .. n + 1 = (1 .. n) \cup {n + 1} /\ 0 .. n + 1 = (0 .. n) \cup {n + 1}
      /\ \A k \in 1 .. n + 1 : k - 1 \in 0 .. n
      /\ \A k \in 1 .. n : k \in 0 .. n
  BY <1>1
<1>5. \A k \in 1 .. n + 1 : GoesOn(G[k - 1], F[k], G[k])
  <2>1. \A k \in 1 .. n : GoesOn(H[k - 1], E[k], H[k])
    BY DEF History, StacksRight, n
  <2>2. GoesOn(G[n + 1 - 1], F[n + 1], G[n + 1])
    <3>1. n + 1 - 1 = n /\ n \in 0 .. n
      BY <1>1
    <3> QED BY <1>1, <1>2, <1>3, <3>1
  <2>3. ASSUME NEW k \in 1 .. n PROVE GoesOn(G[k - 1], F[k], G[k])
    <3>1. G[k - 1] = H[k - 1] /\ F[k] = E[k] /\ G[k] = H[k]
      BY <1>1, <1>3, <1>4
    <3> QED BY <2>1, <3>1
  <2> QED BY <1>1, <1>4, <2>2, <2>3
<1>6. \A k \in 0 .. n + 1 : DifferentLoops(G[k]) /\ \A i \in DOMAIN G[k] : \E f \in 1 .. k : F[f].id = G[k][i].id
  <2>1. ASSUME NEW k \in 0 .. n
        PROVE  DifferentLoops(G[k]) /\ \A i \in DOMAIN G[k] : \E f \in 1 .. k : F[f].id = G[k][i].id
    <3>1. DifferentLoops(H[k]) /\ \A i \in DOMAIN H[k] : \E f \in 1 .. k : E[f].id = H[k][i].id
      BY DEF History, StacksRight, n
    <3>2. \A f \in 1 .. k : f \in 1 .. n
      BY <1>1
    <3> QED BY <1>1, <1>3, <3>1, <3>2, ZenonT(30)
  <2>2. ASSUME NEW i \in DOMAIN B
        PROVE  \E f \in 1 .. n + 1 : F[f].id = B[i].id
    <3>1. CASE B[i].id = e.id
      BY <1>1, <1>4, <3>1
    <3>2. CASE \E j \in DOMAIN A : B[i].id = A[j].id
      <4>1. PICK j \in DOMAIN H[n] : B[i].id = H[n][j].id
        BY <1>2, <3>2
      <4>2. n \in 0 .. n
        BY <1>1
      <4>3. \E f \in 1 .. n : E[f].id = H[n][j].id
        BY <4>1, <4>2 DEF History, StacksRight, n
      <4> QED BY <1>1, <1>4, <4>1, <4>3
    <3> QED BY <3>1, <3>2
  <2>3. DifferentLoops(G[n + 1]) /\ \A i \in DOMAIN G[n + 1] : \E f \in 1 .. n + 1 : F[f].id = G[n + 1][i].id
    BY <1>3, <2>2
  <2> QED BY <1>4, <2>1, <2>3
<1>7. \A k \in 1 .. n + 1 :
        ~F[k].last /\ ~Continues(G[k - 1], F[k]) => \A f \in 1 .. k - 1 : F[f].id # F[k].id
  <2> SUFFICES ASSUME NEW k \in 1 .. n + 1, ~F[k].last, ~Continues(G[k - 1], F[k]),
                      NEW f \in 1 .. k - 1
               PROVE  F[f].id # F[k].id
    OBVIOUS
  <2>1. CASE k \in 1 .. n
    <3>1. \A j \in 1 .. n :
            ~E[j].last /\ ~Continues(H[j - 1], E[j]) => \A g \in 1 .. j - 1 : E[g].id # E[j].id
      BY DEF History, StacksRight, n
    <3>2. k - 1 \in 0 .. n /\ f \in 1 .. n /\ k \in 1 .. n
      BY <1>1, <2>1
    <3>3. G[k - 1] = H[k - 1] /\ F[k] = E[k] /\ F[f] = E[f]
      BY <1>1, <1>3, <3>2
    <3> QED BY <3>1, <3>2, <3>3
  <2>2. CASE k = n + 1
    <3>1. k - 1 = n /\ n \in 0 .. n
      BY <1>1, <2>2
    <3>2. f \in 1 .. n /\ G[k - 1] = A /\ F[k] = e /\ F[f] = E[f]
      BY <1>1, <1>2, <1>3, <2>2, <3>1
    <3> QED BY <1>1, <3>2
  <2> QED BY <1>4, <2>1, <2>2
<1>8. StacksRight(F, G)
  BY <1>1, <1>3, <1>5, <1>6, <1>7 DEF StacksRight
<1>9. WorkRight(F, G, V)
  <2>1. WorkRight(E, H, W)
    BY DEF History
  <2>2. /\ W \in Seq(LoopPeriod)
        /\ \A i \in DOMAIN W : /\ W[i].end \in 1 .. n /\ G[W[i].end - 1] # <<>>
                               /\ W[i] = PeriodOf(G, W[i].end)
        /\ \A k \in 1 .. n : G[k - 1] # <<>> => \E i \in DOMAIN W : W[i].end = k
        /\ \A i, j \in DOMAIN W : i < j => W[i].end < W[j].end
    <3>1. \A k \in 1 .. n : k - 1 \in 0 .. n /\ G[k - 1] = H[k - 1]
      BY <1>1, <1>3
    <3>2. \A k \in 1 .. n : PeriodOf(G, k) = PeriodOf(H, k)
      BY <3>1 DEF PeriodOf
    <3> QED BY <2>1, <3>1, <3>2 DEF WorkRight, n
  <2>3. G[n + 1 - 1] = A
    <3>1. n + 1 - 1 = n /\ n \in 0 .. n
      BY <1>1
    <3> QED BY <1>2, <1>3, <3>1
  <2>4. CASE A = <<>>
    <3>1. V = W
      BY <2>4
    <3>2. \A k \in 1 .. n + 1 : G[k - 1] # <<>> => k \in 1 .. n
      BY <1>1, <1>4, <2>3, <2>4
    <3> QED BY <1>1, <1>4, <2>2, <3>1, <3>2 DEF WorkRight
  <2>5. CASE A # <<>>
    <3> DEFINE p == Period(Last(A), n, n + 1)
    <3>1. p \in LoopPeriod /\ p.end = n + 1
      <4>1. A \in Seq(Chunk)
        BY <1>1, <1>2
      <4>2. Last(A) \in Chunk
        BY <2>5, <4>1, FrontLast
      <4> QED BY <1>1, <4>2 DEF Period, LoopPeriod, Chunk
    <3>2. p = PeriodOf(G, n + 1)
      <4>1. n + 1 - 1 = n
        BY <1>1
      <4>2. PeriodOf(G, n + 1) = Period(Last(A), n, n + 1)
        BY <1>1, <2>3, <4>1 DEF PeriodOf
      <4> QED BY <4>2
    <3>3. V = Append(W, p)
      BY <2>5 DEF n
    <3> HIDE DEF p
    <3> DEFINE w == Len(W)
    <3>4. /\ w \in Nat /\ DOMAIN W = 1 .. w /\ V \in Seq(LoopPeriod) /\ DOMAIN V = 1 .. w + 1
          /\ \A i \in 1 .. w : V[i] = W[i]
          /\ V[w + 1] = p
      BY <2>2, <3>1, <3>3, Appended
    <3> HIDE DEF w
    <3>5. 1 .. w + 1 = (1 .. w) \cup {w + 1}
      BY <3>4
    <3>6. \A i \in DOMAIN V : /\ V[i].end \in 1 .. n + 1 /\ G[V[i].end - 1] # <<>>
                              /\ V[i] = PeriodOf(G, V[i].end)
      <4>1. ASSUME NEW i \in 1 .. w
            PROVE  /\ V[i].end \in 1 .. n + 1 /\ G[V[i].end - 1] # <<>>
                   /\ V[i] = PeriodOf(G, V[i].end)
        BY <1>4, <2>2, <3>4
      <4>2. /\ V[w + 1].end \in 1 .. n + 1 /\ G[V[w + 1].end - 1] # <<>>
            /\ V[w + 1] = PeriodOf(G, V[w + 1].end)
        BY <1>1, <1>4, <2>3, <2>5, <3>1, <3>2, <3>4
      <4> QED BY <3>4, <3>5, <4>1, <4>2
    <3>7. \A k \in 1 .. n + 1 : G[k - 1] # <<>> => \E i \in DOMAIN V : V[i].end = k
      BY <1>4, <2>2, <3>1, <3>4, <3>5, ZenonT(30)
    <3>8. \A i, j \in DOMAIN V : i < j => V[i].end < V[j].end
      <4>1. ASSUME NEW i \in DOMAIN V, NEW j \in DOMAIN V, i < j
            PROVE  V[i].end < V[j].end
        <5>1. i \in 1 .. w
          BY <3>4, <4>1
        <5>2. CASE j = w + 1
          <6>1. V[i].end \in 1 .. n /\ V[j].end = n + 1
            BY <2>2, <3>1, <3>4, <5>1, <5>2
          <6> QED BY <1>1, <6>1
        <5>3. CASE j \in 1 .. w
          BY <2>2, <3>4, <4>1, <5>1, <5>3
        <5> QED BY <3>4, <3>5, <5>2, <5>3
      <4> QED BY <4>1
    <3> QED BY <1>1, <3>4, <3>6, <3>7, <3>8 DEF WorkRight
  <2> QED BY <2>4, <2>5
<1> QED BY <1>1, <1>3, <1>8, <1>9 DEF History, F

-----------------------------------------------------------------------------
(* The stack of processTrace() and the loops that a CPU was in             *)

(* Up to event m - 1, the stack B holds for each loop the chunk with which *)
(* it was entered.                                                         *)
EnteredWith(x, E, H, m) ==
  \E f \in 1 .. m - 1 : /\ x = E[f] /\ H[f] # <<>> /\ Last(H[f]) = E[f]
                        /\ \A g \in 1 .. f - 1 : E[g].id # E[f].id
FitsStack(B, cur, E, H, m) ==
  /\ m \in 1 .. Len(E) + 1 /\ B \in Seq(Chunk) /\ Len(B) = Len(H[m - 1])
  /\ \A i \in DOMAIN B : B[i].id = H[m - 1][i].id /\ EnteredWith(B[i], E, H, m)
  /\ cur = IF m = 1 THEN NoChunk ELSE E[m - 1]

OnChunk(B, cur) == IF cur.last THEN Last(B) ELSE cur

LEMMA HistoryAt ==
  ASSUME NEW E, NEW A, NEW W, NEW H, History(E, A, W, H), NEW k \in 1 .. Len(E)
  PROVE  /\ Len(E) \in Nat /\ DOMAIN E = 1 .. Len(E) /\ k \in Nat /\ k - 1 \in 0 .. Len(E)
         /\ E[k] \in ChunkEvent /\ H[k] \in Seq(Chunk) /\ H[k - 1] \in Seq(Chunk)
         /\ GoesOn(H[k - 1], E[k], H[k])
         /\ ~E[k].last => E[k] \in Chunk /\ H[k] # <<>> /\ Last(H[k]) = E[k]
<1>1. Len(E) \in Nat /\ DOMAIN E = 1 .. Len(E) /\ E[k] \in ChunkEvent
  BY LenProperties, ElementOfSeq DEF History
<1>2. k \in Nat /\ k - 1 \in 0 .. Len(E) /\ k \in 0 .. Len(E)
  BY <1>1
<1>3. H[k] \in Seq(Chunk) /\ H[k - 1] \in Seq(Chunk) /\ GoesOn(H[k - 1], E[k], H[k])
  BY <1>2 DEF History, StacksRight
<1>4. ASSUME ~E[k].last
      PROVE  E[k] \in Chunk /\ H[k] # <<>> /\ Last(H[k]) = E[k]
  <2>1. E[k] \in Chunk
    BY <1>1, <1>4 DEF ChunkEvent, Chunk
  <2>2. CASE Continues(H[k - 1], E[k])
    <3>1. Front(H[k - 1]) \in Seq(Chunk)
      BY <1>3, <2>2, FrontLast DEF Continues
    <3>2. H[k] = Append(Front(H[k - 1]), E[k])
      BY <1>3, <1>4, <2>2 DEF GoesOn
    <3>3. Append(Front(H[k - 1]), E[k]) # <<>> /\ Last(Append(Front(H[k - 1]), E[k])) = E[k]
      BY <2>1, <3>1, Appended
    <3> QED BY <2>1, <3>2, <3>3
  <2>3. CASE ~Continues(H[k - 1], E[k])
    <3>1. H[k] = Append(H[k - 1], E[k])
      BY <1>3, <1>4, <2>3 DEF GoesOn
    <3>2. Append(H[k - 1], E[k]) # <<>> /\ Last(Append(H[k - 1], E[k])) = E[k]
      BY <1>3, <2>1, Appended
    <3> QED BY <2>1, <3>1, <3>2
  <2> QED BY <2>1, <2>2, <2>3
<1> QED BY <1>1, <1>2, <1>3, <1>4

(* What the CPU worked on belongs to the loop it was in.                   *)
LEMMA OnLoop ==
  ASSUME NEW E, NEW A, NEW W, NEW H, History(E, A, W, H),
         NEW B, NEW cur, NEW m, FitsStack(B, cur, E, H, m), B # <<>>
  PROVE  /\ m > 1 /\ H[m - 1] # <<>> /\ H[m - 1] \in Seq(Chunk) /\ Last(H[m - 1]) \in Chunk
         /\ cur = E[m - 1] /\ m - 1 \in 1 .. Len(E)
         /\ OnChunk(B, cur) \in Chunk /\ OnChunk(B, cur).id = Last(H[m - 1]).id
         /\ ~cur.last => OnChunk(B, cur) = Last(H[m - 1])
         /\ cur.last => OnChunk(B, cur) = B[Len(B)] /\ Len(B) \in DOMAIN B
<1> DEFINE S == H[m - 1]
<1>1. Len(E) \in Nat /\ m \in 1 .. Len(E) + 1 /\ m - 1 \in 0 .. Len(E)
  BY LenProperties DEF History, FitsStack
<1>2. S \in Seq(Chunk) /\ H[0] = <<>>
  BY <1>1 DEF History, StacksRight
<1>3. B \in Seq(Chunk) /\ Len(B) = Len(S) /\ Len(B) \in Nat \ {0} /\ Len(B) \in DOMAIN B /\ Last(B) = B[Len(B)]
      /\ Last(B) \in Chunk
  <2>1. B \in Seq(Chunk) /\ Len(B) = Len(S)
    BY DEF FitsStack
  <2>2. Len(B) \in Nat \ {0} /\ DOMAIN B = 1 .. Len(B) /\ Last(B) = B[Len(B)] /\ Last(B) \in Chunk
    BY <2>1, FrontLast
  <2> QED BY <2>1, <2>2
<1>4. S # <<>>
  BY <1>3, EmptySeq
<1>5. m > 1 /\ m - 1 \in 1 .. Len(E)
  <2>1. m # 1
    BY <1>2, <1>4
  <2> QED BY <1>1, <2>1
<1>6. cur = E[m - 1]
  BY <1>1, <1>5 DEF FitsStack
<1>7. Last(S) \in Chunk /\ Last(S) = S[Len(S)]
  BY <1>2, <1>4, FrontLast
<1>8. CASE ~cur.last
  <2>1. E[m - 1] \in Chunk /\ Last(S) = E[m - 1]
    BY <1>5, <1>6, <1>8, HistoryAt
  <2> QED BY <1>2, <1>4, <1>5, <1>6, <1>7, <1>8, <2>1 DEF OnChunk
<1>9. CASE cur.last
  <2>1. B[Len(B)].id = S[Len(B)].id
    BY <1>3 DEF FitsStack
  <2> QED BY <1>2, <1>3, <1>4, <1>5, <1>6, <1>7, <1>9, <2>1 DEF OnChunk
<1> QED BY <1>8, <1>9

-----------------------------------------------------------------------------
(* Coming back to a loop                                                   *)

Nested(W) ==
  \A i, j \in DOMAIN W :
    /\ i < j
    /\ W[i].id = W[j].id
    /\ W[j - 1].id # W[j].id
    /\ \A k \in 1 .. i - 1 : W[k].id # W[i].id
    => Key(W[i]) = Key(W[j])

LEMMA NestedIs == \A c : NestedInFirst(c) <=> Nested(worked[c])
BY DEF NestedInFirst, Nested

(* The period up to an event, and its place                                *)
LEMMA PeriodAt ==
  ASSUME NEW E, NEW A, NEW W, NEW H, History(E, A, W, H),
         NEW k \in 1 .. Len(E), H[k - 1] # <<>>
  PROVE  /\ \E i \in DOMAIN W : W[i].end = k
         /\ \A i \in DOMAIN W : W[i].end = k =>
              /\ W[i].id = Last(H[k - 1]).id /\ W[i].lb = Last(H[k - 1]).lb
              /\ W[i].ub = Last(H[k - 1]).ub /\ W[i].start = k - 1
<1>1. \E i \in DOMAIN W : W[i].end = k
  BY DEF History, WorkRight
<1>2. ASSUME NEW i \in DOMAIN W, W[i].end = k
      PROVE  W[i] = Period(Last(H[k - 1]), k - 1, k)
  BY <1>2 DEF History, WorkRight, PeriodOf
<1> QED BY <1>1, <1>2 DEF Period

(* The place of a period among others                                      *)
LEMMA PeriodsPlaced ==
  ASSUME NEW E, NEW A, NEW W, NEW H, History(E, A, W, H)
  PROVE  /\ Len(W) \in Nat /\ DOMAIN W = 1 .. Len(W)
         /\ \A i \in DOMAIN W : W[i].end \in 1 .. Len(E) /\ W[i].end \in Nat /\ W[i] \in LoopPeriod
         /\ \A i, j \in DOMAIN W : W[i].end < W[j].end => i < j
         /\ \A i, j \in DOMAIN W : W[i].end + 1 = W[j].end => i = j - 1
         /\ \A i, j \in DOMAIN W : W[i].end = W[j].end => i = j
<1> DEFINE n == Len(W)
<1>1. n \in Nat /\ DOMAIN W = 1 .. n /\ \A i \in DOMAIN W : W[i] \in LoopPeriod
  BY LenProperties, ElementOfSeq DEF History, WorkRight
<1>2. /\ \A i \in DOMAIN W : W[i].end \in 1 .. Len(E)
      /\ \A i, j \in DOMAIN W : i < j => W[i].end < W[j].end
  BY DEF History, WorkRight
<1>3. \A i \in DOMAIN W : W[i].end \in Nat
  BY <1>1 DEF LoopPeriod
<1> HIDE DEF n
<1>4. \A i, j \in DOMAIN W : W[i].end < W[j].end => i < j
  BY <1>1, <1>2, <1>3
<1>5. ASSUME NEW i \in DOMAIN W, NEW j \in DOMAIN W, W[i].end + 1 = W[j].end
      PROVE  i = j - 1
  <2>1. i < j
    BY <1>3, <1>4, <1>5
  <2>2. i + 1 \in DOMAIN W /\ i < i + 1
    BY <1>1, <2>1
  <2>3. W[i].end < W[i + 1].end
    BY <1>2, <2>2
  <2>4. i + 1 < j => W[i + 1].end < W[j].end
    BY <1>2, <2>2
  <2> QED BY <1>1, <1>3, <1>5, <2>1, <2>2, <2>3, <2>4
<1> QED BY <1>1, <1>2, <1>3, <1>4, <1>5 DEF n

(* If the CPU always went on with the first chunk, the stack has the chunk *)
(* it worked on.                                                           *)
LEMMA NestedOn ==
  ASSUME NEW E, NEW A, NEW W, NEW H, History(E, A, W, H), Nested(W),
         NEW B, NEW cur, NEW m, FitsStack(B, cur, E, H, m), B # <<>>, m \in 1 .. Len(E)
  PROVE  Key(OnChunk(B, cur)) = Key(Last(H[m - 1]))
<1> DEFINE S == H[m - 1]
           x == OnChunk(B, cur)
<1>1. /\ m > 1 /\ S # <<>> /\ S \in Seq(Chunk) /\ Last(S) \in Chunk
      /\ cur = E[m - 1] /\ m - 1 \in 1 .. Len(E)
      /\ x \in Chunk /\ x.id = Last(S).id
      /\ ~cur.last => x = Last(S)
      /\ cur.last => x = B[Len(B)] /\ Len(B) \in DOMAIN B
  BY OnLoop
<1>2. Len(E) \in Nat /\ m \in Nat
  BY <1>1, HistoryAt
<1> HIDE DEF S, x
<1>3. CASE ~cur.last
  BY <1>1, <1>3 DEF x, S
<1>4. CASE cur.last
  <2>1. EnteredWith(x, E, H, m)
    BY <1>1, <1>4 DEF FitsStack
  <2>2. PICK f \in 1 .. m - 1 : /\ x = E[f] /\ H[f] # <<>> /\ Last(H[f]) = E[f]
                                /\ \A g \in 1 .. f - 1 : E[g].id # E[f].id
    BY <2>1 DEF EnteredWith
  <2>3. x.last = FALSE
    BY <1>1 DEF Chunk
  <2>4. f # m - 1
    BY <1>1, <1>4, <2>2, <2>3
  <2>5. f \in 1 .. m - 2 /\ f + 1 \in 1 .. Len(E) /\ f + 1 - 1 = f /\ f + 1 < m
    BY <1>2, <2>2, <2>4
  <2>6. PICK i \in DOMAIN W : W[i].end = f + 1
    BY <2>2, <2>5, PeriodAt
  <2>7. W[i].id = x.id /\ W[i].lb = x.lb /\ W[i].ub = x.ub
    BY <2>2, <2>5, <2>6, PeriodAt
  <2>8. PICK j \in DOMAIN W : W[j].end = m
    BY <1>1, PeriodAt DEF S
  <2>9. W[j].id = Last(S).id /\ W[j].lb = Last(S).lb /\ W[j].ub = Last(S).ub
    BY <1>1, <2>8, PeriodAt DEF S
  <2>10. i < j
    BY <2>5, <2>6, <2>8, PeriodsPlaced
  <2>11. W[j - 1].id # W[j].id
    <3> DEFINE R == H[m - 1 - 1]
    <3>1. R \in Seq(Chunk) /\ GoesOn(R, E[m - 1], S)
      BY <1>1, HistoryAt DEF S
    <3>2. R # <<>> /\ S = Front(R)
      BY <1>1, <1>4, <3>1 DEF GoesOn, Continues
    <3>3. m - 1 - 1 \in 0 .. Len(E)
      BY <1>1, <1>2
    <3>4. DifferentLoops(R)
      BY <3>3 DEF History, StacksRight
    <3>5. PICK a \in DOMAIN W : W[a].end = m - 1
      BY <1>1, <3>2, PeriodAt
    <3>6. W[a].id = Last(R).id
      BY <1>1, <3>2, <3>5, PeriodAt
    <3> HIDE DEF R
    <3>7. Last(S).id # Last(R).id
      <4>1. /\ Len(R) \in Nat \ {0} /\ DOMAIN R = 1 .. Len(R) /\ Last(R) = R[Len(R)]
            /\ Len(S) = Len(R) - 1 /\ \A k \in 1 .. Len(R) - 1 : S[k] = R[k]
        BY <3>1, <3>2, FrontLast
      <4>2. Len(S) \in Nat \ {0} /\ Last(S) = S[Len(S)]
        BY <1>1, FrontLast
      <4>3. PICK r : r = Len(R)
        OBVIOUS
      <4>4. PICK q : q = Len(S)
        OBVIOUS
      <4>5. r \in Nat \ {0} /\ q \in Nat \ {0} /\ q = r - 1
        BY <4>1, <4>2, <4>3, <4>4
      <4>6. q \in 1 .. r /\ r \in 1 .. r /\ q # r /\ q \in 1 .. r - 1
        BY <4>5
      <4>7. q \in DOMAIN R /\ r \in DOMAIN R /\ S[q] = R[q]
        BY <4>1, <4>3, <4>6
      <4>8. R[q].id # R[r].id
        BY <3>4, <4>6, <4>7 DEF DifferentLoops
      <4> QED BY <4>1, <4>2, <4>3, <4>4, <4>7, <4>8
    <3>8. a = j - 1
      <4>1. W[a].end + 1 = W[j].end
        BY <1>2, <2>8, <3>5
      <4> QED BY <4>1, PeriodsPlaced
    <3> QED BY <2>9, <3>6, <3>7, <3>8
  <2>12. ASSUME NEW k \in 1 .. i - 1
         PROVE  W[k].id # W[i].id
    <3>1. k \in DOMAIN W /\ k < i
      BY PeriodsPlaced
    <3> DEFINE g == W[k].end - 1
    <3>2. W[k].end < f + 1 /\ W[k].end \in 1 .. Len(E) /\ H[W[k].end - 1] # <<>>
      BY <2>6, <3>1 DEF History, WorkRight
    <3>3. W[k].id = Last(H[g]).id
      BY <3>1, <3>2, PeriodAt
    <3>4. g \in 0 .. Len(E) /\ g \in 0 .. f - 1 /\ H[g] # <<>>
      BY <1>2, <2>5, <3>2
    <3> HIDE DEF g
    <3>5. H[g] \in Seq(Chunk)
      BY <3>4 DEF History, StacksRight
    <3>6. /\ Len(H[g]) \in Nat \ {0} /\ DOMAIN H[g] = 1 .. Len(H[g])
          /\ Last(H[g]) = H[g][Len(H[g])]
      BY <3>4, <3>5, FrontLast
    <3>7. PICK h \in 1 .. g : E[h].id = Last(H[g]).id
      <4>1. PICK z : z = Len(H[g])
        OBVIOUS
      <4>2. z \in DOMAIN H[g] /\ Last(H[g]) = H[g][z]
        BY <3>6, <4>1
      <4>3. \A y \in DOMAIN H[g] : \E h \in 1 .. g : E[h].id = H[g][y].id
        BY <3>4 DEF History, StacksRight
      <4> QED BY <4>2, <4>3
    <3>8. h \in 1 .. f - 1
      BY <2>5, <3>4
    <3> QED BY <2>2, <2>7, <3>3, <3>7, <3>8
  <2>13. W[i].id = W[j].id
    BY <1>1, <2>7, <2>9
  <2>14. Key(W[i]) = Key(W[j])
    BY <2>10, <2>11, <2>12, <2>13 DEF Nested
  <2> QED BY <2>7, <2>9, <2>14 DEF Key, x, S
<1> QED BY <1>3, <1>4

-----------------------------------------------------------------------------
(* An event keeps the loops that a CPU is in apart.                        *)

LEMMA AppendDifferent ==
  ASSUME NEW s \in Seq(Chunk), DifferentLoops(s), NEW e \in Chunk,
         \A i \in DOMAIN s : s[i].id # e.id
  PROVE  /\ DifferentLoops(Append(s, e))
         /\ \A i \in DOMAIN Append(s, e) :
              Append(s, e)[i] = e \/ \E j \in DOMAIN s : Append(s, e)[i] = s[j]
<1> DEFINE n == Len(s)
           t == Append(s, e)
<1>1. /\ n \in Nat /\ DOMAIN s = 1 .. n /\ DOMAIN t = 1 .. n + 1
      /\ \A i \in 1 .. n : t[i] = s[i]
      /\ t[n + 1] = e
  BY Appended
<1> HIDE DEF n, t
<1>2. DOMAIN t = DOMAIN s \cup {n + 1}
  BY <1>1
<1>3. \A i, j \in DOMAIN t : i # j => t[i].id # t[j].id
  BY <1>1, <1>2 DEF DifferentLoops
<1>4. \A i \in DOMAIN t : t[i] = e \/ \E j \in DOMAIN s : t[i] = s[j]
  BY <1>1, <1>2
<1> QED BY <1>3, <1>4 DEF DifferentLoops, t

LEMMA FrontDifferent ==
  ASSUME NEW s \in Seq(Chunk), s # <<>>, DifferentLoops(s)
  PROVE  /\ Front(s) \in Seq(Chunk) /\ DifferentLoops(Front(s))
         /\ \A i \in DOMAIN Front(s) : /\ i \in DOMAIN s /\ Front(s)[i] = s[i]
                                       /\ Front(s)[i].id # Last(s).id
<1> DEFINE n == Len(s)
           t == Front(s)
<1>1. /\ n \in Nat \ {0} /\ DOMAIN s = 1 .. n /\ Last(s) = s[n]
      /\ t \in Seq(Chunk) /\ DOMAIN t = 1 .. n - 1
      /\ \A i \in 1 .. n - 1 : t[i] = s[i]
  BY FrontLast
<1> HIDE DEF n, t
<1>2. \A i \in DOMAIN t : i \in DOMAIN s /\ n \in DOMAIN s /\ i # n /\ t[i] = s[i]
  BY <1>1
<1>3. \A i \in DOMAIN t : t[i].id # Last(s).id
  BY <1>1, <1>2 DEF DifferentLoops
<1>4. \A i, j \in DOMAIN t : i # j => t[i].id # t[j].id
  BY <1>2 DEF DifferentLoops
<1> QED BY <1>1, <1>2, <1>3, <1>4 DEF DifferentLoops, t

LEMMA StackGoesOn ==
  ASSUME NEW A \in Seq(Chunk), DifferentLoops(A), NEW e \in ChunkEvent, NEW B, GoesOn(A, e, B),
         ~e.last /\ ~Continues(A, e) => \A i \in DOMAIN A : A[i].id # e.id
  PROVE  /\ B \in Seq(Chunk) /\ DifferentLoops(B)
         /\ \A i \in DOMAIN B : B[i].id = e.id \/ \E j \in DOMAIN A : B[i].id = A[j].id
<1>1. CASE e.last
  <2>1. A # <<>> /\ B = Front(A)
    BY <1>1 DEF GoesOn, Continues
  <2> QED BY <2>1, FrontDifferent
<1>2. CASE ~e.last /\ Continues(A, e)
  <2>1. A # <<>> /\ Last(A).id = e.id /\ B = Append(Front(A), e) /\ e \in Chunk
    BY <1>2 DEF GoesOn, Continues, Chunk, ChunkEvent
  <2> DEFINE D == Front(A)
  <2>2. D \in Seq(Chunk) /\ DifferentLoops(D) /\ \A i \in DOMAIN D : i \in DOMAIN A /\ D[i] = A[i] /\ D[i].id # e.id
    BY <2>1, FrontDifferent
  <2>3. B = Append(D, e)
    BY <2>1
  <2> HIDE DEF D
  <2>4. B \in Seq(Chunk)
    BY <2>1, <2>2, <2>3, Appended
  <2>5. /\ DifferentLoops(B)
        /\ \A i \in DOMAIN B : B[i] = e \/ \E j \in DOMAIN D : B[i] = D[j]
    BY <2>1, <2>2, <2>3, AppendDifferent
  <2> QED BY <2>2, <2>4, <2>5
<1>3. CASE ~e.last /\ ~Continues(A, e)
  <2>1. B = Append(A, e) /\ e \in Chunk
    BY <1>3 DEF GoesOn, Chunk, ChunkEvent
  <2>2. \A i \in DOMAIN A : A[i].id # e.id
    BY <1>3
  <2>3. B \in Seq(Chunk)
    BY <2>1, Appended
  <2>4. /\ DifferentLoops(B)
        /\ \A i \in DOMAIN B : B[i] = e \/ \E j \in DOMAIN A : B[i] = A[j]
    BY <2>1, <2>2, AppendDifferent
  <2> QED BY <2>3, <2>4
<1> QED BY <1>1, <1>2, <1>3

(* The loops that a CPU is in are among those that its events name, and no *)
(* two of them are the same.                                               *)
LEMMA NowIn ==
  ASSUME NEW E, NEW A, NEW W, NEW H, History(E, A, W, H)
  PROVE  /\ A \in Seq(Chunk) /\ DifferentLoops(A) /\ E \in Seq(ChunkEvent) /\ W \in Seq(LoopPeriod)
         /\ \A i \in DOMAIN A : \E f \in DOMAIN E : E[f].id = A[i].id
<1>1. Len(E) \in Nat /\ DOMAIN E = 1 .. Len(E) /\ E \in Seq(ChunkEvent) /\ W \in Seq(LoopPeriod)
  BY LenProperties DEF History, WorkRight
<1>2. Len(E) \in 0 .. Len(E) /\ H[Len(E)] = A
  BY <1>1 DEF History
<1>3. A \in Seq(Chunk) /\ DifferentLoops(A) /\ \A i \in DOMAIN A : \E f \in 1 .. Len(E) : E[f].id = A[i].id
  <2>1. \A k \in 0 .. Len(E) :
          /\ H[k] \in Seq(Chunk) /\ DifferentLoops(H[k])
          /\ \A i \in DOMAIN H[k] : \E f \in 1 .. k : E[f].id = H[k][i].id
    BY DEF History, StacksRight
  <2> QED BY <1>2, <2>1
<1> QED BY <1>1, <1>3

(* A CPU writes an event.                                                  *)
LEMMA EventWritten ==
  ASSUME NEW E, NEW A, NEW W, NEW H, History(E, A, W, H),
         NEW e \in ChunkEvent, NEW B, GoesOn(A, e, B),
         ~e.last /\ ~Continues(A, e) => \A f \in DOMAIN E : E[f].id # e.id,
         NEW V, V = IF A = <<>> THEN W ELSE Append(W, Period(Last(A), Len(E), Len(E) + 1))
  PROVE  \E G : History(Append(E, e), B, V, G)
<1>1. A \in Seq(Chunk) /\ DifferentLoops(A) /\ \A i \in DOMAIN A : \E f \in DOMAIN E : E[f].id = A[i].id
  BY NowIn
<1>2. ~e.last /\ ~Continues(A, e) => \A i \in DOMAIN A : A[i].id # e.id
  BY <1>1
<1>3. /\ B \in Seq(Chunk) /\ DifferentLoops(B)
      /\ \A i \in DOMAIN B : B[i].id = e.id \/ \E j \in DOMAIN A : B[i].id = A[j].id
  BY <1>1, <1>2, StackGoesOn
<1> QED BY <1>3, HistoryGoesOn

-----------------------------------------------------------------------------
(* processTrace() takes an event.                                          *)

EntersLoop(B, cur, e) ==
  ~e.last /\ (IF B = <<>> THEN cur.id ELSE OnChunk(B, cur).id) # e.id
StackLeft(B, e) == IF B # <<>> /\ e.last THEN Front(B) ELSE B
StackNext(B, cur, e) ==
  IF EntersLoop(B, cur, e) THEN Append(StackLeft(B, e), e) ELSE StackLeft(B, e)

LEMMA EnteredStays ==
  ASSUME NEW x, NEW E, NEW H, NEW m \in Nat, EnteredWith(x, E, H, m)
  PROVE  EnteredWith(x, E, H, m + 1)
BY DEF EnteredWith

(* The stack and the loops that a CPU was in                               *)
LEMMA SameLength ==
  ASSUME NEW E, NEW A, NEW W, NEW H, History(E, A, W, H),
         NEW B, NEW cur, NEW m, FitsStack(B, cur, E, H, m)
  PROVE  /\ m \in Nat \ {0} /\ m - 1 \in 0 .. Len(E) /\ H[m - 1] \in Seq(Chunk) /\ B \in Seq(Chunk)
         /\ Len(B) \in Nat /\ Len(B) = Len(H[m - 1])
         /\ DOMAIN B = 1 .. Len(B) /\ DOMAIN H[m - 1] = 1 .. Len(B)
         /\ B = <<>> <=> H[m - 1] = <<>>
         /\ \A i \in 1 .. Len(B) : B[i].id = H[m - 1][i].id
<1>1. Len(E) \in Nat /\ m \in 1 .. Len(E) + 1
  BY LenProperties DEF History, FitsStack
<1>2. m \in Nat \ {0} /\ m - 1 \in 0 .. Len(E)
  BY <1>1
<1>3. H[m - 1] \in Seq(Chunk)
  BY <1>2 DEF History, StacksRight
<1>4. B \in Seq(Chunk) /\ Len(B) = Len(H[m - 1]) /\ \A i \in DOMAIN B : B[i].id = H[m - 1][i].id
  BY DEF FitsStack
<1> QED BY <1>2, <1>3, <1>4, LenProperties, EmptySeq

LEMMA FitsNext ==
  ASSUME NEW E, NEW A, NEW W, NEW H, History(E, A, W, H),
         NEW B, NEW cur, NEW m, FitsStack(B, cur, E, H, m), m \in 1 .. Len(E),
         NEW N, N = StackNext(B, cur, E[m])
  PROVE  FitsStack(N, E[m], E, H, m + 1)
<1> USE LoopsAssumption
<1> DEFINE S == H[m - 1]
           T == H[m]
           e == E[m]
           b == Len(B)
<1>1. /\ Len(E) \in Nat /\ m \in Nat /\ e \in ChunkEvent /\ S \in Seq(Chunk) /\ T \in Seq(Chunk)
      /\ GoesOn(S, e, T)
      /\ ~e.last => e \in Chunk /\ T # <<>> /\ Last(T) = e
  BY HistoryAt
<1>2. /\ B \in Seq(Chunk) /\ b \in Nat /\ b = Len(S) /\ DOMAIN B = 1 .. b /\ DOMAIN S = 1 .. b
      /\ B = <<>> <=> S = <<>>
      /\ \A i \in 1 .. b : B[i].id = S[i].id
  BY SameLength
<1>3. \A i \in DOMAIN B : EnteredWith(B[i], E, H, m + 1)
  <2>1. \A i \in DOMAIN B : EnteredWith(B[i], E, H, m)
    BY DEF FitsStack
  <2> QED BY <1>1, <2>1, EnteredStays
<1>4. m + 1 \in 1 .. Len(E) + 1 /\ m + 1 - 1 = m /\ m + 1 # 1
  BY <1>1
<1>5. SUFFICES /\ N \in Seq(Chunk) /\ Len(N) = Len(T)
               /\ \A i \in DOMAIN N : N[i].id = T[i].id /\ EnteredWith(N[i], E, H, m + 1)
  BY <1>4, <1>5 DEF FitsStack
<1>6. B # <<>> => OnChunk(B, cur).id = Last(S).id
  BY OnLoop
<1>7. ~e.last /\ ~Continues(S, e) => \A f \in 1 .. m - 1 : E[f].id # e.id
  BY DEF History, StacksRight
<1>8. S # <<>> => /\ b \in Nat \ {0} /\ Last(S) = S[b] /\ Front(S) \in Seq(Chunk)
                  /\ Len(Front(S)) = b - 1 /\ \A i \in 1 .. b - 1 : Front(S)[i] = S[i]
  <2> HIDE DEF S, b
  <2>1. ASSUME S # <<>>
        PROVE  /\ Len(S) \in Nat \ {0} /\ Last(S) = S[Len(S)] /\ Front(S) \in Seq(Chunk)
               /\ Len(Front(S)) = Len(S) - 1 /\ \A i \in 1 .. Len(S) - 1 : Front(S)[i] = S[i]
    <3>1. S \in Seq(Chunk)
      BY <1>1
    <3> QED BY ONLY <2>1, <3>1, FrontLast
  <2> QED BY <1>2, <2>1
<1> HIDE DEF b
<1>9. CASE e.last
  <2>1. S # <<>> /\ T = Front(S) /\ B # <<>>
    BY <1>1, <1>2, <1>9 DEF GoesOn, Continues
  <2>2. N = Front(B)
    BY <1>9, <2>1 DEF StackNext, StackLeft, EntersLoop
  <2>3. /\ Front(B) \in Seq(Chunk) /\ DOMAIN Front(B) = 1 .. b - 1 /\ Len(Front(B)) = b - 1
        /\ \A i \in 1 .. b - 1 : Front(B)[i] = B[i]
    <3>1. /\ Front(B) \in Seq(Chunk) /\ DOMAIN Front(B) = 1 .. Len(B) - 1
          /\ Len(Front(B)) = Len(B) - 1 /\ \A i \in 1 .. Len(B) - 1 : Front(B)[i] = B[i]
      <4>1. B \in Seq(Chunk) /\ B # <<>>
        BY <1>2, <2>1
      <4> QED BY ONLY <4>1, FrontLast
    <3> QED BY <3>1 DEF b
  <2>4. \A i \in 1 .. b - 1 : i \in 1 .. b
    BY <1>2
  <2>5. \A i \in DOMAIN N : N[i] = B[i] /\ T[i] = S[i] /\ i \in 1 .. b
    BY <1>8, <2>1, <2>2, <2>3, <2>4
  <2>6. Len(T) = b - 1
    BY <1>8, <2>1
  <2> QED BY <1>2, <1>3, <2>2, <2>3, <2>5, <2>6
<1>10. CASE ~e.last /\ Continues(S, e)
  <2>1. S # <<>> /\ Last(S).id = e.id /\ T = Append(Front(S), e) /\ B # <<>> /\ e \in Chunk
    BY <1>1, <1>2, <1>10 DEF GoesOn, Continues
  <2>2. N = B
    BY <1>6, <1>10, <2>1 DEF StackNext, StackLeft, EntersLoop
  <2>3. /\ Len(T) = b - 1 + 1 /\ \A i \in 1 .. b - 1 : T[i] = S[i]
        /\ T[b - 1 + 1] = e
    BY <1>8, <2>1, Appended
  <2>4. b - 1 + 1 = b /\ 1 .. b = (1 .. b - 1) \cup {b} /\ b \in 1 .. b
    BY <1>8, <2>1
  <2>5. \A i \in 1 .. b : B[i].id = T[i].id
    <3>1. B[b].id = T[b].id
      BY <1>2, <1>8, <2>1, <2>3, <2>4
    <3> QED BY <1>2, <2>3, <2>4, <3>1
  <2> QED BY <1>2, <1>3, <2>2, <2>3, <2>4, <2>5 DEF b
<1>11. CASE ~e.last /\ ~Continues(S, e)
  <2>1. T = Append(S, e) /\ e \in Chunk /\ e.id \in LoopIds
    BY <1>1, <1>11 DEF GoesOn, Chunk
  <2>2. EntersLoop(B, cur, e)
    <3>1. CASE B # <<>>
      BY <1>2, <1>6, <1>11, <3>1 DEF EntersLoop, Continues
    <3>2. CASE B = <<>> /\ m = 1
      <4>1. cur.id = 0 /\ e.id # 0
        BY <2>1, <3>2 DEF FitsStack, NoChunk
      <4> QED BY <1>11, <3>2, <4>1 DEF EntersLoop
    <3>3. CASE B = <<>> /\ m # 1
      <4>1. cur = E[m - 1] /\ m - 1 \in 1 .. m - 1
        BY <1>1, <3>3 DEF FitsStack
      <4> QED BY <1>7, <1>11, <3>3, <4>1 DEF EntersLoop
    <3> QED BY <3>1, <3>2, <3>3
  <2>3. N = Append(B, e)
    BY <1>11, <2>2 DEF StackNext, StackLeft
  <2>4. /\ N \in Seq(Chunk) /\ Len(N) = b + 1 /\ DOMAIN N = 1 .. b + 1
        /\ \A i \in 1 .. b : N[i] = B[i]
        /\ N[b + 1] = e
    BY <1>2, <2>1, <2>3, Appended DEF b
  <2>5. /\ Len(T) = b + 1 /\ \A i \in 1 .. b : T[i] = S[i]
        /\ T[b + 1] = e
    BY <1>1, <1>2, <2>1, Appended
  <2>6. EnteredWith(e, E, H, m + 1)
    <3>1. m + 1 - 1 = m /\ m \in 1 .. m
      BY <1>1
    <3>2. e = E[m] /\ T # <<>> /\ Last(T) = E[m] /\ \A g \in 1 .. m - 1 : E[g].id # E[m].id
      BY <1>1, <1>7, <1>11
    <3> HIDE DEF e
    <3>3. \E f \in 1 .. m : /\ e = E[f] /\ H[f] # <<>> /\ Last(H[f]) = E[f]
                            /\ \A g \in 1 .. f - 1 : E[g].id # E[f].id
      BY <3>1, <3>2
    <3> QED BY <3>1, <3>3 DEF EnteredWith
  <2>7. 1 .. b + 1 = (1 .. b) \cup {b + 1}
    <3>1. b \in Nat
      BY <1>2
    <3> QED BY ONLY <3>1
  <2>8. \A i \in DOMAIN N : N[i].id = T[i].id /\ EnteredWith(N[i], E, H, m + 1)
    BY <1>2, <1>3, <2>4, <2>5, <2>6, <2>7, SMTT(30)
  <2> QED BY <2>4, <2>5, <2>8
<1> QED BY <1>9, <1>10, <1>11

-----------------------------------------------------------------------------
(* The periods found up to an event                                        *)

SameSpan(p, q) == q.start = p.start /\ q.end = p.end /\ q.id = p.id
UsefulUpto(W, m) == {p \in ToSet(W) : p.lb <= p.ub /\ p.end < m}

(* P has the periods of W that end before event m.                         *)
FoundRight(P, W, m, nested) ==
  /\ P \in Seq(LoopPeriod) /\ OneAfterOther(P)
  /\ \A i \in DOMAIN P : /\ P[i].start < P[i].end /\ P[i].end < m
                         /\ \E j \in DOMAIN W : SameSpan(P[i], W[j])
  /\ nested => ToSet(P) = UsefulUpto(W, m)

LEMMA FoundNone ==
  ASSUME NEW E, NEW A, NEW W, NEW H, History(E, A, W, H), NEW nested
  PROVE  FoundRight(<<>>, W, 1, nested)
<1>1. <<>> \in Seq(LoopPeriod) /\ DOMAIN <<>> = {} /\ ToSet(<<>>) = {}
  BY EmptySeq DEF ToSet
<1>2. \A i \in DOMAIN W : W[i].end \in 1 .. Len(E) /\ W[i].end \in Nat
  BY PeriodsPlaced
<1>3. UsefulUpto(W, 1) = {}
  BY <1>2 DEF UsefulUpto, ToSet
<1> QED BY <1>1, <1>3 DEF FoundRight, OneAfterOther

LEMMA FoundAll ==
  ASSUME NEW E, NEW A, NEW W, NEW H, History(E, A, W, H), NEW P, NEW m,
         FoundRight(P, W, m, Nested(W)), m \in Nat, m > Len(E)
  PROVE  Nested(W) => ToSet(P) = {p \in ToSet(W) : p.lb <= p.ub}
<1>1. \A i \in DOMAIN W : W[i].end \in 1 .. Len(E) /\ W[i].end \in Nat
  BY PeriodsPlaced
<1>2. Len(E) \in Nat
  BY LenProperties DEF History
<1>3. \A p \in ToSet(W) : p.end < m
  BY <1>1, <1>2 DEF ToSet
<1> QED BY <1>3 DEF FoundRight, UsefulUpto

(* The period that the code finds when it takes an event                   *)
FoundNow(B, cur) == B # <<>> /\ OnChunk(B, cur).lb <= OnChunk(B, cur).ub
FoundNext(P, B, cur, m) ==
  IF FoundNow(B, cur) THEN Append(P, Period(OnChunk(B, cur), m - 1, m)) ELSE P

LEMMA FoundGoesOn ==
  ASSUME NEW E, NEW A, NEW W, NEW H, History(E, A, W, H),
         NEW B, NEW cur, NEW m, FitsStack(B, cur, E, H, m), m \in 1 .. Len(E),
         NEW P, FoundRight(P, W, m, Nested(W))
  PROVE  FoundRight(FoundNext(P, B, cur, m), W, m + 1, Nested(W))
<1> DEFINE S == H[m - 1]
           x == OnChunk(B, cur)
           q == Period(x, m - 1, m)
           F == FoundNext(P, B, cur, m)
           n == Len(P)
<1>1. /\ Len(E) \in Nat /\ m \in Nat \ {0}
      /\ B = <<>> <=> S = <<>>
  BY SameLength, HistoryAt
<1>2. /\ \A i \in DOMAIN W : W[i].end \in 1 .. Len(E) /\ W[i].end \in Nat /\ W[i] \in LoopPeriod
      /\ \A i, j \in DOMAIN W : W[i].end = W[j].end => i = j
  BY PeriodsPlaced
<1>3. B # <<>> =>
        /\ x \in Chunk /\ x.id = Last(S).id
        /\ \E i \in DOMAIN W : W[i].end = m
        /\ \A i \in DOMAIN W : W[i].end = m =>
             /\ W[i].id = Last(S).id /\ W[i].lb = Last(S).lb
             /\ W[i].ub = Last(S).ub /\ W[i].start = m - 1
  BY <1>1, OnLoop, PeriodAt
<1>4. \A i \in DOMAIN W : W[i].end = m => B # <<>>
  BY <1>1 DEF History, WorkRight
<1>5. /\ P \in Seq(LoopPeriod) /\ n \in Nat /\ DOMAIN P = 1 .. n /\ \A i \in 1 .. n : P[i] \in LoopPeriod
      /\ \A i \in DOMAIN P : P[i].start \in Nat /\ P[i].end \in Nat
  <2>1. P \in Seq(LoopPeriod)
    BY DEF FoundRight
  <2>2. n \in Nat /\ DOMAIN P = 1 .. n /\ \A i \in 1 .. n : P[i] \in LoopPeriod
    BY <2>1, LenProperties, ElementOfSeq
  <2> HIDE DEF n
  <2>3. \A i \in 1 .. n : P[i].start \in Nat /\ P[i].end \in Nat
    BY <2>2 DEF LoopPeriod
  <2> QED BY <2>1, <2>2, <2>3
<1>6. /\ \A i, j \in DOMAIN P : i < j => P[i].end <= P[j].start
      /\ \A i \in DOMAIN P : /\ P[i].start < P[i].end /\ P[i].end < m
                             /\ \E j \in DOMAIN W : SameSpan(P[i], W[j])
  BY DEF FoundRight, OneAfterOther
<1>7. B # <<>> => q \in LoopPeriod /\ q.start = m - 1 /\ q.end = m /\ q.id = x.id /\ q.lb = x.lb /\ q.ub = x.ub
  <2>1. m - 1 \in Nat /\ m \in Nat
    BY <1>1
  <2> QED BY <1>3, <2>1 DEF Period, LoopPeriod, Chunk
<1>8. CASE FoundNow(B, cur)
  <2>1. F = Append(P, q) /\ B # <<>> /\ x.lb <= x.ub
    BY <1>8 DEF FoundNext, FoundNow
  <2> HIDE DEF n, F, q, x, S
  <2>2. /\ F \in Seq(LoopPeriod) /\ DOMAIN F = 1 .. n + 1
        /\ \A i \in 1 .. n : F[i] = P[i]
        /\ F[n + 1] = q
    BY <1>5, <1>7, <2>1, Appended DEF n
  <2>3. DOMAIN F = DOMAIN P \cup {n + 1}
    BY <1>5, <2>2
  <2>4. OneAfterOther(F)
    <3>1. ASSUME NEW i \in DOMAIN F, NEW j \in DOMAIN F, i < j
          PROVE  F[i].end <= F[j].start
      <4>1. i \in DOMAIN P
        BY <1>5, <2>2, <3>1
      <4>2. CASE j \in DOMAIN P
        BY <1>5, <1>6, <2>2, <3>1, <4>1, <4>2
      <4>3. CASE j = n + 1
        <5>1. F[i].end = P[i].end /\ P[i].end \in Nat /\ P[i].end < m /\ F[j].start = m - 1
          BY <1>5, <1>6, <1>7, <2>1, <2>2, <4>1, <4>3
        <5> QED BY <1>1, <5>1
      <4> QED BY <2>3, <4>2, <4>3
    <3> QED BY <3>1 DEF OneAfterOther
  <2>5. PICK w \in DOMAIN W : W[w].end = m
    BY <1>3, <2>1
  <2>6. /\ W[w].id = Last(S).id /\ W[w].lb = Last(S).lb
        /\ W[w].ub = Last(S).ub /\ W[w].start = m - 1
    BY <1>3, <2>1, <2>5
  <2>7. \A i \in DOMAIN F : /\ F[i].start < F[i].end /\ F[i].end < m + 1
                            /\ \E j \in DOMAIN W : SameSpan(F[i], W[j])
    <3>1. ASSUME NEW i \in DOMAIN P
          PROVE  /\ F[i].start < F[i].end /\ F[i].end < m + 1
                 /\ \E j \in DOMAIN W : SameSpan(F[i], W[j])
      <4>1. F[i] = P[i]
        BY <1>5, <2>2
      <4>2. P[i].end < m + 1
        BY <1>1, <1>5, <1>6
      <4> QED BY <1>6, <4>1, <4>2
    <3>2. /\ q.start < q.end /\ q.end < m + 1
      BY <1>1, <1>7, <2>1
    <3>3. SameSpan(q, W[w])
      BY <1>3, <1>7, <2>1, <2>5, <2>6 DEF SameSpan
    <3> QED BY <2>2, <2>3, <3>1, <3>2, <3>3
  <2>8. ASSUME Nested(W)
        PROVE  ToSet(F) = UsefulUpto(W, m + 1)
    <3>1. Key(x) = Key(Last(S))
      BY <2>1, <2>8, NestedOn DEF x, S
    <3>2. q = W[w]
      <4>1. W[w].lb = q.lb /\ W[w].ub = q.ub /\ W[w].id = q.id /\ W[w].start = q.start /\ W[w].end = q.end
        BY <1>7, <2>1, <2>5, <2>6, <3>1 DEF Key
      <4>2. W[w] \in LoopPeriod /\ q \in LoopPeriod
        BY <1>2, <1>7, <2>1
      <4>3. \A r, s \in LoopPeriod :
              /\ r.lb = s.lb /\ r.ub = s.ub /\ r.id = s.id /\ r.start = s.start /\ r.end = s.end
              => r = s
        BY DEF LoopPeriod
      <4> QED BY <4>1, <4>2, <4>3
    <3>3. ToSet(F) = ToSet(P) \cup {q}
      <4>1. \A i \in DOMAIN P : F[i] = P[i]
        BY <1>5, <2>2
      <4>2. \A z : z \in ToSet(F) <=> \E i \in DOMAIN F : z = F[i]
        BY DEF ToSet
      <4>3. \A z : z \in ToSet(P) <=> \E i \in DOMAIN P : z = P[i]
        BY DEF ToSet
      <4>4. ASSUME NEW z \in ToSet(F)
            PROVE  z \in ToSet(P) \/ z = q
        BY <2>2, <2>3, <4>1, <4>2, <4>3
      <4>5. ASSUME NEW z, z \in ToSet(P) \/ z = q
            PROVE  z \in ToSet(F)
        <5>1. CASE z = q
          BY <2>2, <2>3, <4>2, <5>1
        <5>2. ASSUME NEW i \in DOMAIN P, z = P[i]
              PROVE  z \in ToSet(F)
          <6>1. i \in DOMAIN F
            BY <2>2, <2>3, <5>2
          <6> QED BY <4>1, <4>2, <5>2, <6>1
        <5> QED BY <4>3, <4>5, <5>1, <5>2
      <4> QED BY <4>4, <4>5
    <3>4. ToSet(P) = UsefulUpto(W, m)
      BY <2>8 DEF FoundRight
    <3>5. UsefulUpto(W, m + 1) = UsefulUpto(W, m) \cup {q}
      <4>1. ASSUME NEW i \in DOMAIN W
            PROVE  /\ W[i].end < m => W[i].end < m + 1
                   /\ W[i].end < m + 1 => W[i].end < m \/ W[i].end = m
        BY <1>1, <1>2
      <4>2. ASSUME NEW i \in DOMAIN W, W[i].end = m
            PROVE  W[i] = q
        BY <1>2, <2>5, <3>2, <4>2
      <4>3. q.lb <= q.ub /\ q.end < m + 1 /\ q \in ToSet(W)
        BY <1>1, <1>7, <2>1, <3>2 DEF ToSet
      <4> QED BY <4>1, <4>2, <4>3 DEF UsefulUpto, ToSet
    <3> QED BY <3>3, <3>4, <3>5
  <2>9. FoundRight(F, W, m + 1, Nested(W))
    BY <2>2, <2>4, <2>7, <2>8 DEF FoundRight
  <2> QED BY <2>9 DEF F
<1>9. CASE ~FoundNow(B, cur)
  <2>1. FoundNext(P, B, cur, m) = P
    BY <1>9 DEF FoundNext
  <2>2. \A i \in DOMAIN P : P[i].end < m + 1
    BY <1>1, <1>5, <1>6
  <2>3. ASSUME Nested(W)
        PROVE  UsefulUpto(W, m + 1) = UsefulUpto(W, m)
    <3>1. ASSUME NEW i \in DOMAIN W
          PROVE  /\ W[i].end < m => W[i].end < m + 1
                 /\ W[i].end < m + 1 => W[i].end < m \/ W[i].end = m
      BY <1>1, <1>2
    <3>2. ASSUME NEW i \in DOMAIN W, W[i].end = m
          PROVE  ~(W[i].lb <= W[i].ub)
      <4>1. B # <<>> /\ W[i].lb = Last(S).lb /\ W[i].ub = Last(S).ub
        BY <1>3, <1>4, <3>2
      <4>2. Key(x) = Key(Last(S))
        BY <2>3, <4>1, NestedOn
      <4>3. ~(x.lb <= x.ub)
        BY <1>9, <4>1 DEF FoundNow
      <4> HIDE DEF x, S
      <4> QED BY <4>1, <4>2, <4>3 DEF Key
    <3> QED BY <3>1, <3>2 DEF UsefulUpto, ToSet
  <2> QED BY <1>6, <2>1, <2>2, <2>3 DEF FoundRight
<1> QED BY <1>8, <1>9

-----------------------------------------------------------------------------
(* The sets of iterations that are known                                   *)

HasSet(x, I) == x.lb <= x.ub => Key(x) \in I
SetsKnown(B, cur, I) ==
  /\ \A i \in DOMAIN B : HasSet(B[i], I)
  /\ cur = NoChunk \/ cur.last \/ HasSet(cur, I)

(* A period that was found belongs to a set that is known.                 *)
LEMMA KnownNow ==
  ASSUME NEW E, NEW A, NEW W, NEW H, History(E, A, W, H),
         NEW B, NEW cur, NEW m, FitsStack(B, cur, E, H, m),
         NEW I, SetsKnown(B, cur, I), FoundNow(B, cur)
  PROVE  Key(OnChunk(B, cur)) \in I
<1>1. B # <<>> /\ OnChunk(B, cur).lb <= OnChunk(B, cur).ub
  BY DEF FoundNow
<1>2. /\ cur = E[m - 1] /\ m - 1 \in 1 .. Len(E)
      /\ cur.last => OnChunk(B, cur) = B[Len(B)] /\ Len(B) \in DOMAIN B
  BY <1>1, OnLoop
<1>3. cur # NoChunk
  <2>1. cur \in ChunkEvent
    BY <1>2, HistoryAt
  <2> QED BY <2>1, LoopsAssumption DEF ChunkEvent, NoChunk
<1>4. HasSet(OnChunk(B, cur), I)
  <2>1. CASE cur.last
    BY <1>2, <2>1 DEF SetsKnown
  <2>2. CASE ~cur.last
    BY <1>3, <2>2 DEF SetsKnown, OnChunk
  <2> QED BY <2>1, <2>2
<1> QED BY <1>1, <1>4 DEF HasSet

LEMMA KnownNext ==
  ASSUME NEW E, NEW A, NEW W, NEW H, History(E, A, W, H),
         NEW B, NEW cur, NEW m, FitsStack(B, cur, E, H, m), m \in 1 .. Len(E),
         NEW I, SetsKnown(B, cur, I), NEW J, I \subseteq J,
         ~E[m].last => HasSet(E[m], J)
  PROVE  SetsKnown(StackNext(B, cur, E[m]), E[m], J)
<1> DEFINE L == StackLeft(B, E[m])
<1>1. B \in Seq(Chunk) /\ E[m] \in ChunkEvent
  BY SameLength, HistoryAt
<1>2. \A i \in DOMAIN B : HasSet(B[i], J)
  BY DEF SetsKnown, HasSet
<1>3. L \in Seq(Chunk) /\ \A i \in DOMAIN L : HasSet(L[i], J)
  <2>1. CASE B # <<>> /\ E[m].last
    <3>1. /\ Len(B) \in Nat \ {0} /\ DOMAIN B = 1 .. Len(B) /\ Front(B) \in Seq(Chunk)
          /\ DOMAIN Front(B) = 1 .. Len(B) - 1
          /\ \A i \in 1 .. Len(B) - 1 : Front(B)[i] = B[i]
      BY <1>1, <2>1, FrontLast
    <3>2. \A i \in DOMAIN Front(B) : i \in DOMAIN B /\ Front(B)[i] = B[i]
      BY <3>1
    <3> QED BY <1>2, <2>1, <3>1, <3>2 DEF StackLeft
  <2>2. CASE ~(B # <<>> /\ E[m].last)
    BY <1>1, <1>2, <2>2 DEF StackLeft
  <2> QED BY <2>1, <2>2
<1> HIDE DEF L
<1>4. CASE EntersLoop(B, cur, E[m])
  <2>1. StackNext(B, cur, E[m]) = Append(L, E[m]) /\ ~E[m].last
    BY <1>4 DEF StackNext, L, EntersLoop
  <2>2. E[m] \in Chunk
    BY <1>1, <2>1 DEF Chunk, ChunkEvent
  <2>3. /\ Len(L) \in Nat /\ DOMAIN L = 1 .. Len(L) /\ DOMAIN Append(L, E[m]) = 1 .. Len(L) + 1
        /\ \A i \in 1 .. Len(L) : Append(L, E[m])[i] = L[i]
        /\ Append(L, E[m])[Len(L) + 1] = E[m]
    BY <1>3, <2>2, Appended
  <2>4. 1 .. Len(L) + 1 = (1 .. Len(L)) \cup {Len(L) + 1}
    BY <2>3
  <2>5. \A i \in DOMAIN Append(L, E[m]) : HasSet(Append(L, E[m])[i], J)
    BY <1>3, <2>1, <2>3, <2>4
  <2> QED BY <2>1, <2>5 DEF SetsKnown
<1>5. CASE ~EntersLoop(B, cur, E[m])
  <2>1. StackNext(B, cur, E[m]) = L
    BY <1>5 DEF StackNext, L
  <2> QED BY <1>3, <2>1 DEF SetsKnown
<1> QED BY <1>4, <1>5

-----------------------------------------------------------------------------
(* The inductive invariant                                                 *)

HistoryOf(c, H) == History(chunkEvents[c], active[c], worked[c], H)

(* What the traced program has done, and what it has left behind           *)
ProgramOK ==
  /\ chunkEvents \in [LoopCpu -> Seq(ChunkEvent)]
  /\ active \in [LoopCpu -> Seq(Chunk)]
  /\ worked \in [LoopCpu -> Seq(LoopPeriod)]
  /\ loopRecords \subseteq LoopIds
  /\ \A c \in LoopCpu : \E H : HistoryOf(c, H)

NotStarted ==
  /\ current = NoChunk /\ chunkBounds = <<>> /\ chunkAt = [cpu |-> 1, next |-> 1]
  /\ iterationPeriods = [c \in LoopCpu |-> <<>>]

(* The next event of CPU c                                                 *)
Upto(c) ==
  IF loopPhase = "done" \/ c < chunkAt.cpu THEN Len(chunkEvents[c]) + 1
  ELSE IF c = chunkAt.cpu THEN chunkAt.next ELSE 1

(* The stack fits the loops that the CPU was in.                           *)
StackFits ==
  \E H : /\ HistoryOf(chunkAt.cpu, H)
         /\ FitsStack(chunkBounds, current, ChunkEvents, H, chunkAt.next)

FoundOK ==
  \A c \in LoopCpu :
    /\ FoundRight(iterationPeriods[c], worked[c], Upto(c), Nested(worked[c]))
    /\ \A i \in DOMAIN iterationPeriods[c] : Key(iterationPeriods[c][i]) \in iterationSets

LoopInv ==
  /\ ProgramOK
  /\ loopTypes \subseteq {CodeOf[l] : l \in LoopIds}
  /\ loopPhase \in {"execution", "process", "done", "thrown"}
  /\ iterationPeriods \in [LoopCpu -> Seq(LoopPeriod)]
  /\ chunkAt \in [cpu : LoopCpu, next : Nat]
  /\ loopPhase = "execution" => NotStarted
  /\ loopPhase \in {"process", "thrown"} => StackFits
  /\ loopPhase = "process" => SetsKnown(chunkBounds, current, iterationSets)
  /\ loopPhase = "done" => chunkBounds = <<>>
  /\ FoundOK
  /\ FailsForLoop

LEMMA LoopStarts == LoopInit => LoopInv
<1> SUFFICES ASSUME LoopInit PROVE LoopInv
  OBVIOUS
<1> USE DEF LoopInit
<1>1. <<>> \in Seq(ChunkEvent) /\ <<>> \in Seq(Chunk) /\ <<>> \in Seq(LoopPeriod) /\ DOMAIN <<>> = {}
  BY EmptySeq
<1>2. \A c \in LoopCpu : chunkEvents[c] = <<>> /\ active[c] = <<>> /\ worked[c] = <<>> /\ iterationPeriods[c] = <<>>
  OBVIOUS
<1>3. \A c \in LoopCpu : \E H : HistoryOf(c, H)
  BY <1>2, HistoryStarts DEF HistoryOf
<1>4. ProgramOK
  BY <1>1, <1>3 DEF ProgramOK
<1>5. 1 \in LoopCpu
  BY LoopsAssumption DEF LoopCpu
<1>6. FoundOK
  <2>1. ASSUME NEW c \in LoopCpu
        PROVE  FoundRight(<<>>, worked[c], Upto(c), Nested(worked[c]))
    <3>1. Upto(c) = 1
      BY LoopsAssumption DEF Upto, LoopCpu
    <3>2. PICK H : History(chunkEvents[c], active[c], worked[c], H)
      BY <1>3 DEF HistoryOf
    <3> QED BY <3>1, <3>2, FoundNone
  <2> QED BY <1>1, <1>2, <2>1 DEF FoundOK
<1> QED BY <1>1, <1>4, <1>5, <1>6 DEF LoopInv, NotStarted, FailsForLoop

-----------------------------------------------------------------------------
(* The traced program                                                      *)

LEMMA EventKeepsInv ==
  ASSUME LoopInv, loopPhase = "execution", NEW c \in LoopCpu, NEW e \in ChunkEvent,
         WriteEvent(c, e), NEW B, active' = [active EXCEPT ![c] = B], GoesOn(active[c], e, B),
         ~e.last /\ ~Continues(active[c], e) => \A f \in DOMAIN chunkEvents[c] : chunkEvents[c][f].id # e.id,
         loopRecords' \subseteq LoopIds, UNCHANGED <<processVars, loopPhase>>
  PROVE  LoopInv'
<1>1. PICK H : History(chunkEvents[c], active[c], worked[c], H)
  BY DEF LoopInv, ProgramOK, HistoryOf
<1>2. ProgramOK
  BY DEF LoopInv
<1>3. /\ chunkEvents'[c] = Append(chunkEvents[c], e) /\ active'[c] = B
      /\ worked'[c] = IF active[c] = <<>> THEN worked[c]
                      ELSE Append(worked[c], Period(Last(active[c]), Len(chunkEvents[c]), Len(chunkEvents[c]) + 1))
      /\ DOMAIN chunkEvents' = LoopCpu /\ DOMAIN active' = LoopCpu /\ DOMAIN worked' = LoopCpu
      /\ chunkEvents' = [d \in LoopCpu |-> chunkEvents'[d]] /\ active' = [d \in LoopCpu |-> active'[d]]
      /\ worked' = [d \in LoopCpu |-> worked'[d]]
      /\ \A d \in LoopCpu : d # c => /\ chunkEvents'[d] = chunkEvents[d] /\ active'[d] = active[d]
                                     /\ worked'[d] = worked[d]
  BY <1>2 DEF ProgramOK, WriteEvent
<1>4. \E G : History(chunkEvents'[c], active'[c], worked'[c], G)
  <2>1. PICK V : V = IF active[c] = <<>> THEN worked[c]
                     ELSE Append(worked[c], Period(Last(active[c]), Len(chunkEvents[c]), Len(chunkEvents[c]) + 1))
    OBVIOUS
  <2>2. \E G : History(Append(chunkEvents[c], e), B, V, G)
    BY <1>1, <2>1, EventWritten
  <2> QED BY <1>3, <2>1, <2>2
<1>5. \A d \in LoopCpu : \E G : History(chunkEvents'[d], active'[d], worked'[d], G)
  BY <1>2, <1>3, <1>4 DEF ProgramOK, HistoryOf
<1>6. ProgramOK'
  <2>1. \A d \in LoopCpu : /\ chunkEvents'[d] \in Seq(ChunkEvent) /\ active'[d] \in Seq(Chunk)
                           /\ worked'[d] \in Seq(LoopPeriod)
    BY <1>5, NowIn
  <2>2. /\ chunkEvents' \in [LoopCpu -> Seq(ChunkEvent)] /\ active' \in [LoopCpu -> Seq(Chunk)]
        /\ worked' \in [LoopCpu -> Seq(LoopPeriod)]
    BY <1>3, <2>1
  <2> QED BY <1>5, <2>2 DEF ProgramOK, HistoryOf
<1>7. UNCHANGED <<loopTypes, current, chunkBounds, iterationSets, iterationPeriods, chunkAt, loopPhase>>
  BY DEF processVars
<1>8. NotStarted /\ NotStarted'
  BY <1>7 DEF LoopInv, NotStarted
<1>9. FoundOK'
  <2>1. ASSUME NEW d \in LoopCpu
        PROVE  FoundRight(<<>>, worked'[d], Upto(d)', Nested(worked'[d]))
    <3>1. Upto(d)' = 1
      BY <1>7, <1>8, LoopsAssumption DEF Upto, LoopCpu, NotStarted
    <3>2. PICK G : History(chunkEvents'[d], active'[d], worked'[d], G)
      BY <1>5
    <3> QED BY <3>1, <3>2, FoundNone
  <2>2. \A d \in LoopCpu : iterationPeriods'[d] = <<>>
    BY <1>8 DEF NotStarted
  <2>3. DOMAIN <<>> = {}
    OBVIOUS
  <2> QED BY <2>1, <2>2, <2>3 DEF FoundOK
<1> QED BY <1>6, <1>7, <1>8, <1>9 DEF LoopInv, FailsForLoop

LEMMA ExecutionKeepsInv ==
  ASSUME LoopInv, NEW c \in LoopCpu, StartChunk(c) \/ LeaveLoop(c)
  PROVE  LoopInv'
<1>1. PICK H : History(chunkEvents[c], active[c], worked[c], H)
  BY DEF LoopInv, ProgramOK, HistoryOf
<1>2. active[c] \in Seq(Chunk) /\ loopRecords \subseteq LoopIds /\ active \in [LoopCpu -> Seq(Chunk)]
  BY DEF LoopInv, ProgramOK
<1>3. CASE StartChunk(c)
  <2>1. PICK l \in LoopIds, b \in Chunks :
          LET e == [id |-> l, lb |-> b[1], ub |-> b[2], last |-> FALSE]
              same == active[c] # <<>> /\ Last(active[c]).id = l
          IN /\ ~same => ~Entered(l, c)
             /\ WriteEvent(c, e)
             /\ active' = [active EXCEPT ![c] = Append(IF same THEN Front(@) ELSE @, e)]
    BY <1>3 DEF StartChunk
  <2> DEFINE e == [id |-> l, lb |-> b[1], ub |-> b[2], last |-> FALSE]
             same == active[c] # <<>> /\ Last(active[c]).id = l
             B == Append(IF same THEN Front(active[c]) ELSE active[c], e)
  <2>2. e \in ChunkEvent /\ ~e.last /\ e.id = l
    BY LoopsAssumption DEF ChunkEvent
  <2>3. same <=> Continues(active[c], e)
    BY DEF Continues
  <2>4. GoesOn(active[c], e, B)
    BY <2>2, <2>3 DEF GoesOn
  <2>5. ~same => \A f \in DOMAIN chunkEvents[c] : chunkEvents[c][f].id # e.id
    BY <2>1 DEF Entered
  <2>6. WriteEvent(c, e) /\ active' = [active EXCEPT ![c] = B]
    BY <1>2, <2>1
  <2>7. loopPhase = "execution" /\ UNCHANGED <<processVars, loopPhase>> /\ loopRecords' \subseteq LoopIds
    BY <1>2, <1>3 DEF StartChunk
  <2> HIDE DEF e, same, B
  <2> QED BY <2>2, <2>3, <2>4, <2>5, <2>6, <2>7, EventKeepsInv
<1>4. CASE LeaveLoop(c)
  <2> DEFINE e == [id |-> Last(active[c]).id, lb |-> 0, ub |-> 0, last |-> TRUE]
  <2>1. active[c] # <<>> /\ Last(active[c]) \in Chunk
    BY <1>2, <1>4, FrontLast DEF LeaveLoop
  <2>2. e \in ChunkEvent /\ e.last /\ e.id = Last(active[c]).id /\ e.id \in LoopIds
    BY <2>1 DEF Chunk, ChunkEvent
  <2>3. GoesOn(active[c], e, Front(active[c]))
    BY <2>1, <2>2 DEF GoesOn, Continues
  <2>4. /\ WriteEvent(c, e) /\ active' = [active EXCEPT ![c] = Front(active[c])]
        /\ loopPhase = "execution" /\ UNCHANGED <<processVars, loopPhase>> /\ loopRecords' \subseteq LoopIds
    BY <1>2, <1>4, <2>2 DEF LeaveLoop
  <2> HIDE DEF e
  <2> QED BY <2>2, <2>3, <2>4, EventKeepsInv
<1> QED BY <1>3, <1>4

-----------------------------------------------------------------------------
(* processTrace() starts with a CPU.                                       *)

LEMMA FitsStart ==
  ASSUME NEW E, NEW A, NEW W, NEW H, History(E, A, W, H)
  PROVE  FitsStack(<<>>, NoChunk, E, H, 1)
<1>1. Len(E) \in Nat /\ H[0] = <<>> /\ <<>> \in Seq(Chunk) /\ DOMAIN <<>> = {}
  BY LenProperties, EmptySeq DEF History, StacksRight
<1>2. 1 \in 1 .. Len(E) + 1 /\ 1 - 1 = 0
  BY <1>1
<1> QED BY <1>1, <1>2 DEF FitsStack

LEMMA EndKeepsInv ==
  ASSUME LoopInv, EndProgram
  PROVE  LoopInv'
<1>1. /\ UNCHANGED <<chunkEvents, loopRecords, active, worked, current, chunkBounds, iterationSets,
                    iterationPeriods, chunkAt>>
      /\ loopPhase = "execution" /\ loopPhase' = "process" /\ NotStarted
      /\ loopTypes' = {CodeOf[l] : l \in loopRecords}
  BY DEF EndProgram, executionVars, LoopInv
<1>2. ProgramOK /\ ProgramOK'
  BY <1>1 DEF LoopInv, ProgramOK, HistoryOf
<1>3. loopTypes' \subseteq {CodeOf[l] : l \in LoopIds}
  BY <1>1, <1>2 DEF ProgramOK
<1>4. chunkAt.cpu \in LoopCpu
  BY DEF LoopInv
<1>5. StackFits'
  <2>1. PICK H : HistoryOf(chunkAt.cpu, H)
    BY <1>2, <1>4 DEF ProgramOK
  <2>2. FitsStack(chunkBounds, current, ChunkEvents, H, chunkAt.next)
    BY <1>1, <2>1, FitsStart DEF HistoryOf, ChunkEvents, NotStarted
  <2> QED BY <1>1, <2>1, <2>2 DEF StackFits, HistoryOf, ChunkEvents
<1>6. SetsKnown(chunkBounds, current, iterationSets)'
  <2>1. DOMAIN <<>> = {}
    OBVIOUS
  <2> QED BY <1>1, <2>1 DEF SetsKnown, NotStarted
<1>7. FoundOK'
  <2>1. \A c \in LoopCpu : Upto(c)' = Upto(c)
    BY <1>1 DEF Upto
  <2> QED BY <1>1, <2>1 DEF LoopInv, FoundOK
<1> QED BY <1>1, <1>2, <1>3, <1>5, <1>6, <1>7 DEF LoopInv, FailsForLoop

LEMMA NextKeepsInv ==
  ASSUME LoopInv, NextCpu
  PROVE  LoopInv'
<1> DEFINE d == chunkAt.cpu
           n == Len(ChunkEvents)
<1>1. /\ UNCHANGED <<chunkEvents, loopRecords, active, worked, loopTypes, iterationSets, iterationPeriods>>
      /\ loopPhase = "process" /\ current' = NoChunk /\ chunkBounds' = <<>>
      /\ chunkAt.next > n
  BY DEF NextCpu, executionVars
<1>2. ProgramOK /\ ProgramOK'
  BY <1>1 DEF LoopInv, ProgramOK, HistoryOf
<1>3. d \in LoopCpu /\ d \in Nat \ {0} /\ chunkAt \in [cpu : LoopCpu, next : Nat] /\ chunkAt.next \in Nat
  BY LoopsAssumption DEF LoopInv, LoopCpu
<1>4. n \in Nat /\ chunkAt.next = n + 1
  <2>1. PICK H : HistoryOf(d, H) /\ FitsStack(chunkBounds, current, ChunkEvents, H, chunkAt.next)
    BY <1>1 DEF LoopInv, StackFits
  <2>2. n \in Nat
    BY <2>1, LenProperties DEF HistoryOf, History, ChunkEvents
  <2>3. chunkAt.next \in 1 .. n + 1
    BY <2>1 DEF FitsStack
  <2> QED BY <1>1, <2>2, <2>3
<1>5. n = Len(chunkEvents[d])
  BY DEF ChunkEvents
<1>6. SetsKnown(chunkBounds, current, iterationSets)'
  <2>1. DOMAIN <<>> = {}
    OBVIOUS
  <2> QED BY <1>1, <2>1 DEF SetsKnown
<1> HIDE DEF d, n
<1>7. ASSUME \A c \in LoopCpu : Upto(c)' = Upto(c)
      PROVE  FoundOK'
  BY <1>1, <1>7 DEF LoopInv, FoundOK
<1>8. CASE d < LoopCpus
  <2>1. /\ loopPhase' = "process" /\ chunkAt' = [cpu |-> d + 1, next |-> 1]
        /\ chunkAt'.cpu = d + 1 /\ chunkAt'.next = 1
    BY <1>1, <1>8 DEF NextCpu, d
  <2>2. d + 1 \in LoopCpu
    BY <1>3, <1>8, LoopsAssumption DEF LoopCpu
  <2>3. chunkAt' \in [cpu : LoopCpu, next : Nat]
    BY <2>1, <2>2
  <2>4. StackFits'
    <3>1. PICK H : History(chunkEvents[d + 1], active[d + 1], worked[d + 1], H)
      BY <1>2, <2>2 DEF ProgramOK, HistoryOf
    <3>2. FitsStack(<<>>, NoChunk, chunkEvents[d + 1], H, 1)
      BY <3>1, FitsStart
    <3> QED BY <1>1, <2>1, <3>1, <3>2 DEF StackFits, HistoryOf, ChunkEvents
  <2>5. \A c \in LoopCpu : Upto(c)' = Upto(c)
    <3> SUFFICES ASSUME NEW c \in LoopCpu PROVE Upto(c)' = Upto(c)
      OBVIOUS
    <3>1. c \in Nat \ {0}
      BY LoopsAssumption DEF LoopCpu
    <3>2. Upto(c) = IF c < d THEN Len(chunkEvents[c]) + 1 ELSE IF c = d THEN n + 1 ELSE 1
      BY <1>1, <1>4 DEF Upto, d
    <3>3. Upto(c)' = IF c < d + 1 THEN Len(chunkEvents[c]) + 1 ELSE IF c = d + 1 THEN 1 ELSE 1
      BY <1>1, <2>1 DEF Upto
    <3> QED BY <1>3, <1>5, <3>1, <3>2, <3>3
  <2> QED BY <1>1, <1>2, <1>6, <1>7, <2>1, <2>3, <2>4, <2>5 DEF LoopInv, FailsForLoop
<1>9. CASE ~(d < LoopCpus)
  <2>1. loopPhase' = "done" /\ UNCHANGED chunkAt
    BY <1>1, <1>9 DEF NextCpu, d
  <2>2. \A c \in LoopCpu : Upto(c)' = Upto(c)
    <3> SUFFICES ASSUME NEW c \in LoopCpu PROVE Upto(c)' = Upto(c)
      OBVIOUS
    <3>1. c \in Nat \ {0} /\ c <= d
      BY <1>3, <1>9, LoopsAssumption DEF LoopCpu
    <3>2. Upto(c) = IF c < d THEN Len(chunkEvents[c]) + 1 ELSE IF c = d THEN n + 1 ELSE 1
      BY <1>1, <1>4 DEF Upto, d
    <3>3. Upto(c)' = Len(chunkEvents[c]) + 1
      BY <1>1, <2>1 DEF Upto
    <3> QED BY <1>3, <1>5, <3>1, <3>2, <3>3
  <2> QED BY <1>1, <1>2, <1>3, <1>7, <2>1, <2>2 DEF LoopInv, FailsForLoop
<1> QED BY <1>8, <1>9

-----------------------------------------------------------------------------
(* processTrace() takes an event of a CPU.                                 *)

LEMMA ProcessKeepsInv ==
  ASSUME LoopInv, ProcessChunk
  PROVE  LoopInv'
<1> DEFINE d == chunkAt.cpu
           m == chunkAt.next
           E == ChunkEvents
           e == ChunkEvents[chunkAt.next]
           x == OnChunk(chunkBounds, current)
           N == StackNext(chunkBounds, current, e)
           P == iterationPeriods[chunkAt.cpu]
           Q == FoundNext(P, chunkBounds, current, m)
           given == FoundNow(chunkBounds, current)
           new == ~e.last /\ e.lb <= e.ub /\ Key(e) \notin iterationSets
           known == e.id \in loopRecords
<1>1. /\ UNCHANGED <<chunkEvents, loopRecords, active, worked, loopTypes>>
      /\ loopPhase = "process" /\ m <= Len(E)
      /\ chunkAt' = [chunkAt EXCEPT !.next = @ + 1]
  BY DEF ProcessChunk, executionVars
<1>2. ProgramOK /\ ProgramOK'
  BY <1>1 DEF LoopInv, ProgramOK, HistoryOf
<1>3. d \in LoopCpu /\ d \in Nat \ {0} /\ chunkAt \in [cpu : LoopCpu, next : Nat] /\ m \in Nat
  BY LoopsAssumption DEF LoopInv, LoopCpu
<1>4. PICK H : History(E, active[d], worked[d], H) /\ FitsStack(chunkBounds, current, E, H, m)
  BY <1>1 DEF LoopInv, StackFits, HistoryOf, ChunkEvents
<1>5. m \in 1 .. Len(E) /\ e \in ChunkEvent
  <2>1. m \in 1 .. Len(E)
    BY <1>1, <1>3, <1>4 DEF FitsStack
  <2> QED BY <1>4, <2>1, HistoryAt
<1>6. SetsKnown(chunkBounds, current, iterationSets) /\ FoundOK
  BY <1>1 DEF LoopInv
<1>7. (m > 1 /\ chunkBounds # <<>>) <=> chunkBounds # <<>>
  BY <1>4, OnLoop
<1>8. WorkedOn = x
  BY DEF WorkedOn, OnChunk
<1>9. Enters(e) <=> EntersLoop(chunkBounds, current, e)
  BY <1>8 DEF Enters, EntersLoop
<1>10. /\ iterationPeriods' = IF given THEN [iterationPeriods EXCEPT ![d] = Append(@, Period(x, m - 1, m))]
                              ELSE iterationPeriods
       /\ chunkBounds' = N
       /\ current' = e
       /\ iterationSets' = IF new /\ known THEN iterationSets \cup {Key(e)} ELSE iterationSets
       /\ loopPhase' = IF (new /\ ~known) \/ (given /\ Key(x) \notin iterationSets) THEN "thrown" ELSE loopPhase
  <2> DEFINE closes == m > 1 /\ chunkBounds # <<>>
             left == IF closes /\ e.last THEN Front(chunkBounds) ELSE chunkBounds
  <2>1. /\ iterationPeriods' = IF closes /\ WorkedOn.lb <= WorkedOn.ub
             THEN [iterationPeriods EXCEPT ![d] = Append(@, Period(WorkedOn, m - 1, m))]
             ELSE iterationPeriods
        /\ chunkBounds' = IF Enters(e) THEN Append(left, e) ELSE left
        /\ current' = e
        /\ iterationSets' = IF new /\ known THEN iterationSets \cup {Key(e)} ELSE iterationSets
        /\ loopPhase' = IF \/ new /\ ~known
                           \/ (closes /\ WorkedOn.lb <= WorkedOn.ub) /\ ~(Key(WorkedOn) \in iterationSets)
                        THEN "thrown" ELSE loopPhase
    BY DEF ProcessChunk
  <2>2. closes <=> chunkBounds # <<>>
    BY <1>7
  <2>3. left = StackLeft(chunkBounds, e)
    BY <2>2 DEF StackLeft
  <2>4. (closes /\ WorkedOn.lb <= WorkedOn.ub) <=> given
    BY <1>8, <2>2 DEF FoundNow
  <2> HIDE DEF closes, left, x, given, new, known
  <2>5. chunkBounds' = N
    BY <1>9, <2>1, <2>3 DEF StackNext
  <2> QED BY <1>8, <2>1, <2>4, <2>5
<1>11. FitsStack(N, e, E, H, m + 1)
  BY <1>4, <1>5, FitsNext
<1>12. given => Key(x) \in iterationSets
  BY <1>4, <1>6, KnownNow
<1>13. FoundRight(Q, worked[d], m + 1, Nested(worked[d]))
  <2>1. FoundRight(P, worked[d], m, Nested(worked[d]))
    <3>1. Upto(d) = m
      BY <1>1, <1>3 DEF Upto
    <3> QED BY <1>3, <1>6, <3>1 DEF FoundOK
  <2> QED BY <1>4, <1>5, <2>1, FoundGoesOn
<1>14. /\ iterationPeriods' \in [LoopCpu -> Seq(LoopPeriod)] /\ iterationPeriods'[d] = Q
       /\ \A c \in LoopCpu : c # d => iterationPeriods'[c] = iterationPeriods[c]
  <2>1. iterationPeriods \in [LoopCpu -> Seq(LoopPeriod)]
    BY DEF LoopInv
  <2>2. Q \in Seq(LoopPeriod)
    BY <1>13 DEF FoundRight
  <2>3. CASE given
    <3>1. Q = Append(P, Period(x, m - 1, m))
      BY <2>3 DEF FoundNext
    <3>2. iterationPeriods' = [iterationPeriods EXCEPT ![d] = Q]
      BY <1>3, <1>10, <2>1, <2>3, <3>1
    <3> HIDE DEF Q
    <3> QED BY <1>3, <2>1, <2>2, <3>2
  <2>4. CASE ~given
    <3>1. Q = P /\ iterationPeriods' = iterationPeriods
      BY <1>10, <2>4 DEF FoundNext
    <3> QED BY <2>1, <3>1
  <2> QED BY <2>3, <2>4
<1>15. /\ chunkAt'.cpu = d /\ chunkAt'.next = m + 1 /\ chunkAt' \in [cpu : LoopCpu, next : Nat]
  BY <1>1, <1>3
<1>16. loopPhase' \in {"process", "thrown"} /\ (loopPhase' = "thrown" <=> new /\ ~known)
  BY <1>1, <1>10, <1>12
<1>17. StackFits'
  <2>1. ChunkEvents' = E
    BY <1>1, <1>15 DEF ChunkEvents
  <2>2. HistoryOf(chunkAt.cpu, H)'
    BY <1>1, <1>4, <1>15 DEF HistoryOf, ChunkEvents
  <2>3. FitsStack(chunkBounds', current', ChunkEvents', H, chunkAt'.next)
    BY <1>10, <1>11, <1>15, <2>1
  <2> QED BY <2>2, <2>3 DEF StackFits
<1>18. ASSUME loopPhase' = "process"
       PROVE  SetsKnown(chunkBounds, current, iterationSets)'
  <2>1. iterationSets \subseteq iterationSets'
    BY <1>10
  <2>2. ~e.last => HasSet(e, iterationSets')
    BY <1>10, <1>16, <1>18 DEF HasSet
  <2>3. SetsKnown(StackNext(chunkBounds, current, E[m]), E[m], iterationSets')
    BY <1>4, <1>5, <1>6, <2>1, <2>2, KnownNext
  <2> QED BY <1>10, <2>3
<1> HIDE DEF d, m, E, e, x, N, P, Q, given, new, known
<1>19. FoundOK'
  <2> SUFFICES ASSUME NEW c \in LoopCpu
               PROVE  /\ FoundRight(iterationPeriods'[c], worked'[c], Upto(c)', Nested(worked'[c]))
                      /\ \A i \in DOMAIN iterationPeriods'[c] : Key(iterationPeriods'[c][i]) \in iterationSets'
    BY DEF FoundOK
  <2>1. iterationSets \subseteq iterationSets'
    BY <1>10
  <2>2. \A i \in DOMAIN iterationPeriods[c] : Key(iterationPeriods[c][i]) \in iterationSets
    BY <1>6 DEF FoundOK
  <2>3. loopPhase' # "done" /\ loopPhase # "done"
    BY <1>1, <1>16
  <2>4. CASE c = d
    <3>1. Upto(c)' = m + 1
      BY <1>3, <1>15, <2>3, <2>4 DEF Upto
    <3>2. FoundRight(iterationPeriods'[c], worked'[c], Upto(c)', Nested(worked'[c]))
      BY <1>1, <1>13, <1>14, <2>4, <3>1
    <3>3. CASE given
      <4>1. Q = Append(P, Period(x, m - 1, m)) /\ P = iterationPeriods[c]
        BY <2>4, <3>3 DEF FoundNext, Q, P, given, x, d
      <4>2. P \in Seq(LoopPeriod) /\ Period(x, m - 1, m) \in LoopPeriod
        <5>1. P \in Seq(LoopPeriod)
          BY <2>4, <4>1 DEF LoopInv
        <5>2. x \in Chunk
          BY <1>4, <3>3, OnLoop DEF given, FoundNow, x
        <5>3. m - 1 \in Nat /\ m \in Nat
          BY <1>5, <1>3
        <5> QED BY <5>1, <5>2, <5>3 DEF Period, LoopPeriod, Chunk
      <4>3. /\ Len(P) \in Nat /\ DOMAIN P = 1 .. Len(P) /\ DOMAIN Q = 1 .. Len(P) + 1
            /\ \A i \in 1 .. Len(P) : Q[i] = P[i]
            /\ Q[Len(P) + 1] = Period(x, m - 1, m)
        BY <4>1, <4>2, Appended
      <4>4. 1 .. Len(P) + 1 = (1 .. Len(P)) \cup {Len(P) + 1}
        BY <4>3
      <4>5. Key(Period(x, m - 1, m)) = Key(x)
        BY DEF Key, Period
      <4>6. \A i \in DOMAIN Q : Key(Q[i]) \in iterationSets'
        BY <1>12, <2>1, <2>2, <3>3, <4>1, <4>3, <4>4, <4>5
      <4> QED BY <1>14, <2>4, <3>2, <4>6
    <3>4. CASE ~given
      <4>1. iterationPeriods'[c] = iterationPeriods[c]
        BY <1>10, <3>4
      <4> QED BY <2>1, <2>2, <3>2, <4>1
    <3> QED BY <3>3, <3>4
  <2>5. CASE c # d
    <3>1. Upto(c)' = Upto(c)
      BY <1>1, <1>15, <2>3, <2>5 DEF Upto, d
    <3>2. iterationPeriods'[c] = iterationPeriods[c] /\ worked'[c] = worked[c]
      BY <1>1, <1>14, <2>5
    <3> QED BY <1>6, <2>1, <2>2, <3>1, <3>2 DEF FoundOK
  <2> QED BY <2>4, <2>5
<1>20. FailsForLoop'
  <2> SUFFICES ASSUME loopPhase' = "thrown"
               PROVE  \E c \in LoopCpu : \E k \in DOMAIN chunkEvents'[c] : chunkEvents'[c][k].id \notin loopRecords'
    BY DEF FailsForLoop
  <2>1. e.id \notin loopRecords
    BY <1>16 DEF known
  <2>2. E = chunkEvents[d] /\ e = E[m] /\ m \in DOMAIN E
    BY <1>4, <1>5, HistoryAt DEF E, e, d, m, ChunkEvents
  <2> QED BY <1>1, <1>3, <2>1, <2>2
<1> QED BY <1>1, <1>2, <1>14, <1>15, <1>16, <1>17, <1>18, <1>19, <1>20 DEF LoopInv

-----------------------------------------------------------------------------
(* The theorem                                                             *)

LEMMA LoopStep == LoopInv /\ [LoopNext]_loopVars => LoopInv'
<1> SUFFICES ASSUME LoopInv, [LoopNext]_loopVars PROVE LoopInv'
  OBVIOUS
<1>1. ASSUME NEW c \in LoopCpu, StartChunk(c) \/ LeaveLoop(c) PROVE LoopInv'
  BY <1>1, ExecutionKeepsInv
<1>2. CASE UNCHANGED loopVars
  BY <1>2 DEF loopVars, LoopInv, ProgramOK, HistoryOf, NotStarted, StackFits, SetsKnown, HasSet,
             FoundOK, Upto, ChunkEvents, FailsForLoop
<1> QED BY <1>1, <1>2, EndKeepsInv, ProcessKeepsInv, NextKeepsInv DEF LoopNext

LEMMA LoopInvRight == LoopInv => LoopPeriodsFound
<1> SUFFICES ASSUME LoopInv PROVE LoopPeriodsFound
  OBVIOUS
<1>1. LoopTypeOK
  <2>1. DifferentLoops(chunkBounds) /\ \A i \in DOMAIN chunkBounds : ~chunkBounds[i].last
    <3>1. CASE chunkBounds = <<>>
      <4>1. DOMAIN <<>> = {}
        OBVIOUS
      <4> QED BY <3>1, <4>1 DEF DifferentLoops
    <3>2. CASE chunkBounds # <<>>
      <4>1. PICK H : /\ History(ChunkEvents, active[chunkAt.cpu], worked[chunkAt.cpu], H)
                     /\ FitsStack(chunkBounds, current, ChunkEvents, H, chunkAt.next)
        BY <3>2 DEF LoopInv, NotStarted, StackFits, HistoryOf, ChunkEvents
      <4> DEFINE S == H[chunkAt.next - 1]
      <4>2. /\ chunkBounds \in Seq(Chunk) /\ DOMAIN chunkBounds = DOMAIN S
            /\ DOMAIN chunkBounds = 1 .. Len(chunkBounds)
            /\ \A i \in DOMAIN chunkBounds : chunkBounds[i].id = S[i].id
            /\ chunkAt.next - 1 \in 0 .. Len(ChunkEvents)
        BY <4>1, SameLength
      <4>3. DifferentLoops(S)
        BY <4>1, <4>2 DEF History, StacksRight
      <4>4. \A i \in DOMAIN chunkBounds : chunkBounds[i] \in Chunk
        BY <4>2, ElementOfSeq
      <4> HIDE DEF S
      <4> QED BY <4>2, <4>3, <4>4 DEF DifferentLoops, Chunk
    <3> QED BY <3>1, <3>2
  <2> QED BY <2>1 DEF LoopTypeOK, DifferentLoops, LoopInv
<1>2. FoundOK /\ FailsForLoop
  BY DEF LoopInv
<1>3. IterationsRight
  <2> SUFFICES ASSUME loopPhase = "done", NEW c \in LoopCpu, NestedInFirst(c)
               PROVE  ToSet(iterationPeriods[c]) = Useful(c)
    BY DEF IterationsRight
  <2>1. PICK H : History(chunkEvents[c], active[c], worked[c], H)
    BY DEF LoopInv, ProgramOK, HistoryOf
  <2>2. Upto(c) = Len(chunkEvents[c]) + 1
    BY DEF Upto
  <2>3. Len(chunkEvents[c]) \in Nat
    BY <2>1, LenProperties DEF History
  <2>4. FoundRight(iterationPeriods[c], worked[c], Len(chunkEvents[c]) + 1, Nested(worked[c]))
    BY <1>2, <2>2 DEF FoundOK
  <2>5. PICK m : m = Len(chunkEvents[c]) + 1
    OBVIOUS
  <2>6. Nested(worked[c]) => ToSet(iterationPeriods[c]) = {p \in ToSet(worked[c]) : p.lb <= p.ub}
    <3>1. m \in Nat /\ m > Len(chunkEvents[c])
      BY <2>3, <2>5
    <3> QED BY <2>1, <2>4, <2>5, <3>1, FoundAll
  <2> QED BY <2>6, NestedIs DEF Useful
<1>4. LoopsRight
  BY <1>2 DEF LoopsRight, FoundOK, FoundRight, SameSpan
<1> QED BY <1>1, <1>2, <1>3, <1>4 DEF LoopPeriodsFound

(* Whatever loops the program entered and left on its CPUs, how deeply     *)
(* they were nested and wherever tracing ended, processTrace() finds with  *)
(* its stack the periods in which each CPU worked on each chunk.           *)
THEOREM LoopPeriodsCorrect == LoopSpec => []LoopPeriodsFound
<1>1. LoopSpec => []LoopInv
  BY LoopStarts, LoopStep, PTL DEF LoopSpec
<1> QED BY <1>1, LoopInvRight, PTL

-----------------------------------------------------------------------------
(* The execution of tasks                                                  *)

NoTask == {0} \cup TaskIds
SchedulePoint == [timestamp : Nat, prior : NoTask, next : NoTask, complete : BOOLEAN]
TaskRun == [cpu : Cpu, start : Nat, end : Nat]
TaskCreate == [codeptr : TaskCode, id : TaskIds]

Points(c) == Len(schedules[c])
Point(c, k) == schedules[c][k]
EndOf(c, k) == IF k < Len(schedules[c]) THEN Point(c, k + 1).timestamp ELSE 0
RunOn(c, from, to) == [cpu |-> c, start |-> from, end |-> to]
RunAt(c, k) == RunOn(c, Point(c, k).timestamp, EndOf(c, k))

RuntimeType ==
  /\ now \in Nat \ {0}
  /\ runs \in [Cpu -> NoTask]
  /\ ran \in [TaskIds -> Seq(TaskRun)]
  /\ completed \subseteq TaskIds
  /\ creates \in [Cpu -> Seq(TaskCreate)]
  /\ schedules \in [Cpu -> Seq(SchedulePoint)]

(* No two scheduling points are at the same time.                          *)
TimesOK ==
  /\ \A c \in Cpu : \A k \in DOMAIN schedules[c] : Point(c, k).timestamp \in 1 .. now - 1
  /\ \A c \in Cpu : \A k, l \in DOMAIN schedules[c] :
       k < l => Point(c, k).timestamp < Point(c, l).timestamp
  /\ \A c, d \in Cpu : \A k \in DOMAIN schedules[c], l \in DOMAIN schedules[d] :
       Point(c, k).timestamp = Point(d, l).timestamp => c = d /\ k = l

(* A CPU leaves the task that it went on with.                             *)
ChainOK ==
  /\ \A c \in Cpu : runs[c] = IF schedules[c] = <<>> THEN 0 ELSE Point(c, Len(schedules[c])).next
  /\ \A c \in Cpu : \A k \in DOMAIN schedules[c] :
       /\ Point(c, k).prior = IF k = 1 THEN 0 ELSE Point(c, k - 1).next
       /\ Point(c, k).next # 0 => Point(c, k).next \in Created
       /\ Point(c, k).complete => Point(c, k).prior # 0
       /\ Point(c, k).prior # Point(c, k).next
  /\ \A c, d \in Cpu : c # d /\ runs[c] # 0 => runs[c] # runs[d]

(* The periods in which a task ran, with the points where they started     *)
RanRight(t) ==
  /\ \A i \in DOMAIN ran[t] : \E c \in Cpu : \E k \in DOMAIN schedules[c] :
       Point(c, k).next = t /\ ran[t][i] = RunAt(c, k)
  /\ \A c \in Cpu : \A k \in DOMAIN schedules[c] :
       Point(c, k).next = t => \E i \in DOMAIN ran[t] : ran[t][i] = RunAt(c, k)
  /\ \A i, j \in DOMAIN ran[t] : i < j => ran[t][i].start < ran[t][j].start
  /\ \A i \in DOMAIN ran[t] : ran[t][i].end = 0 => i = Len(ran[t])

RanOK == \A t \in TaskIds : RanRight(t)

(* A task that has completed does not run any more.                        *)
IsOver(t, c, time) ==
  /\ t \in completed /\ ran[t] # <<>> /\ \A d \in Cpu : runs[d] # t
  /\ Last(ran[t]).end = time /\ Last(ran[t]).cpu = c
  /\ \A d \in Cpu : \A l \in DOMAIN schedules[d] :
       Point(d, l).next = t => Point(d, l).timestamp < time

CompleteOK ==
  /\ \A c \in Cpu : \A k \in DOMAIN schedules[c] :
       Point(c, k).complete => IsOver(Point(c, k).prior, c, Point(c, k).timestamp)
  /\ \A t \in completed : \E c \in Cpu : \E k \in DOMAIN schedules[c] :
       Point(c, k).complete /\ Point(c, k).prior = t

RuntimeOK == RuntimeType /\ TimesOK /\ ChainOK /\ RanOK /\ CompleteOK

-----------------------------------------------------------------------------
(* What processTrace() has found                                           *)

(* The next event of the CPU at hand                                       *)
FirstEvent == [cpu |-> 1, next |-> 1]
Positions == [cpu : Cpu, next : Nat \ {0}]
AtOK(a, log) ==
  a \in Positions /\ (a.next <= Len(log[a.cpu]) \/ (a.next = 1 /\ log[a.cpu] = <<>>))

Sooner(c, k, d, l) == c < d \/ (c = d /\ k < l)
Behind(a, c, k) == Sooner(c, k, a.cpu, a.next)

Processed(c, k) ==
  /\ k \in DOMAIN schedules[c]
  /\ taskPhase = "done" \/ (taskPhase = "schedule" /\ Behind(at, c, k))

InstancesOK ==
  /\ taskPhase = "create" =>
       \A c \in Cpu : \A k \in DOMAIN creates[c] :
         Behind(at, c, k) => creates[c][k].id \in DOMAIN instances
  /\ taskPhase \in {"schedule", "done"} => Created \subseteq DOMAIN instances

(* What has been found of the period that starts at a point                *)
KnownEnd(c, k) == IF Processed(c, k + 1) THEN Point(c, k + 1).timestamp ELSE 0
KnownRun(c, k) == RunOn(InEightBits(c), Point(c, k).timestamp, KnownEnd(c, k))

(* RunOn p comes before q in the order in which points are processed.     *)
Before(p, q) ==
  \A c, d \in Cpu : \A k \in DOMAIN schedules[c], l \in DOMAIN schedules[d] :
    Point(c, k).timestamp = p.start /\ Point(d, l).timestamp = q.start => Sooner(c, k, d, l)

KeptRuns == [cpu : Nat, start : Nat, end : Nat]

CollectedFor(t) == IF t \in DOMAIN collected THEN collected[t] ELSE <<>>

CollectedRight(t, s) ==
  /\ s \in Seq(KeptRuns)
  /\ \A i \in DOMAIN s : \E c \in Cpu : \E k \in DOMAIN schedules[c] :
       Processed(c, k) /\ Point(c, k).next = t /\ s[i] = KnownRun(c, k)
  /\ \A c \in Cpu : \A k \in DOMAIN schedules[c] :
       Processed(c, k) /\ Point(c, k).next = t => \E i \in DOMAIN s : s[i] = KnownRun(c, k)
  /\ \A i, j \in DOMAIN s : i < j => Before(s[i], s[j])

CollectedOK ==
  /\ DOMAIN collected \subseteq TaskIds
  /\ \A t \in DOMAIN collected : collected[t] # <<>>
  /\ \A t \in TaskIds : CollectedRight(t, CollectedFor(t))

(* Task t completed at a point that has been processed.                    *)
Finished(t, c, k) == Processed(c, k) /\ Point(c, k).complete /\ Point(c, k).prior = t

FirstOn(t, c, s) ==
  \E d \in Cpu : \E l \in DOMAIN schedules[d] :
    /\ d <= c /\ Point(d, l).next = t /\ Point(d, l).timestamp = s
    /\ \A b \in Cpu : \A m \in DOMAIN schedules[b] :
         b <= c /\ Point(b, m).next = t => Sooner(d, l, b, m) \/ (b = d /\ m = l)

RunsUpTo(t, c) == {Kept(r) : r \in {s \in ToSet(ran[t]) : s.cpu <= c}}

(* What is written of a task that completed on CPU c at a time             *)
WrittenRight(t, c, time) ==
  /\ PeriodsOf(t) = RunsUpTo(t, c)
  /\ \A p, q \in PlacesOf(t) : Precedes(p, q) => Before(TaskPeriod(p).period, TaskPeriod(q).period)
  /\ t \in DOMAIN lastEnd /\ lastEnd[t] = time
  /\ t \in DOMAIN firstStart /\ FirstOn(t, c, firstStart[t])

WrittenOK ==
  /\ taskPeriods \in [Cpu -> Seq([task : TaskIds, period : KeptRuns])]
  /\ \A p \in Places : \E k \in DOMAIN schedules[p[1]] : Finished(TaskPeriod(p).task, p[1], k)
  /\ \A c \in Cpu : \A k \in DOMAIN schedules[c] : \A t \in TaskIds :
       Finished(t, c, k) => WrittenRight(t, c, Point(c, k).timestamp)

TaskInv ==
  /\ RuntimeOK
  /\ taskPhase \in {"execution", "create", "schedule", "done"}
  /\ taskPhase = "execution" => at = FirstEvent
  /\ taskPhase = "create" => AtOK(at, creates)
  /\ taskPhase = "schedule" => AtOK(at, schedules)
  /\ InstancesOK
  /\ CollectedOK
  /\ WrittenOK

-----------------------------------------------------------------------------
(* A scheduling point                                                      *)

LEMMA PointTypes ==
  ASSUME RuntimeType
  PROVE  \A c \in Cpu : /\ schedules[c] \in Seq(SchedulePoint) /\ Len(schedules[c]) \in Nat
                        /\ DOMAIN schedules[c] = 1 .. Len(schedules[c])
                        /\ \A k \in DOMAIN schedules[c] :
                             /\ Point(c, k) \in SchedulePoint /\ k \in Nat \ {0}
                             /\ Point(c, k).timestamp \in Nat /\ Point(c, k).prior \in NoTask
                             /\ Point(c, k).next \in NoTask
<1> SUFFICES ASSUME NEW c \in Cpu
             PROVE  /\ schedules[c] \in Seq(SchedulePoint) /\ Len(schedules[c]) \in Nat
                    /\ DOMAIN schedules[c] = 1 .. Len(schedules[c])
                    /\ \A k \in DOMAIN schedules[c] :
                         /\ Point(c, k) \in SchedulePoint /\ k \in Nat \ {0}
                         /\ Point(c, k).timestamp \in Nat /\ Point(c, k).prior \in NoTask
                         /\ Point(c, k).next \in NoTask
  OBVIOUS
<1>1. schedules[c] \in Seq(SchedulePoint)
  BY DEF RuntimeType
<1>2. Len(schedules[c]) \in Nat /\ DOMAIN schedules[c] = 1 .. Len(schedules[c])
  BY <1>1, LenProperties
<1>3. \A k \in DOMAIN schedules[c] : Point(c, k) \in SchedulePoint /\ k \in Nat \ {0}
  BY <1>1, <1>2, ElementOfSeq DEF Point
<1> QED BY <1>1, <1>2, <1>3 DEF SchedulePoint

AddsPoint(c, e) == schedules' = [schedules EXCEPT ![c] = Append(@, e)]

LEMMA PointAdded ==
  ASSUME RuntimeType, NEW c \in Cpu, NEW e \in SchedulePoint,
         AddsPoint(c, e), NEW n, n = Points(c)
  PROVE  /\ n \in Nat /\ DOMAIN schedules[c] = 1 .. n /\ n + 1 \notin DOMAIN schedules[c]
         /\ schedules' \in [Cpu -> Seq(SchedulePoint)]
         /\ DOMAIN schedules'[c] = DOMAIN schedules[c] \cup {n + 1} /\ Len(schedules'[c]) = n + 1
         /\ schedules'[c] # <<>> /\ schedules'[c][n + 1] = e
         /\ \A d \in Cpu : d # c => schedules'[d] = schedules[d]
         /\ \A d \in Cpu : \A k \in DOMAIN schedules[d] :
              k \in DOMAIN schedules'[d] /\ Point(d, k)' = Point(d, k)
         /\ \A d \in Cpu : \A k \in DOMAIN schedules'[d] :
              k \in DOMAIN schedules[d] \/ (d = c /\ k = n + 1)
<1>1. schedules[c] \in Seq(SchedulePoint) /\ schedules \in [Cpu -> Seq(SchedulePoint)]
  BY DEF RuntimeType
<1>2. schedules'[c] = Append(schedules[c], e) /\ \A d \in Cpu : d # c => schedules'[d] = schedules[d]
  BY <1>1 DEF AddsPoint
<1>3. /\ n \in Nat /\ DOMAIN schedules[c] = 1 .. n
      /\ Append(schedules[c], e) \in Seq(SchedulePoint) /\ Append(schedules[c], e) # <<>>
      /\ Len(Append(schedules[c], e)) = n + 1 /\ DOMAIN Append(schedules[c], e) = 1 .. n + 1
      /\ \A k \in 1 .. n : Append(schedules[c], e)[k] = schedules[c][k]
      /\ Append(schedules[c], e)[n + 1] = e
  BY <1>1, Appended DEF Points
<1>4. 1 .. n + 1 = (1 .. n) \cup {n + 1} /\ n + 1 \notin 1 .. n
  BY <1>3
<1>5. schedules' \in [Cpu -> Seq(SchedulePoint)]
  BY <1>1, <1>2, <1>3 DEF AddsPoint
<1>6. ASSUME NEW d \in Cpu, NEW k \in DOMAIN schedules[d]
      PROVE  k \in DOMAIN schedules'[d] /\ Point(d, k)' = Point(d, k)
  BY <1>2, <1>3, <1>4 DEF Point
<1>7. ASSUME NEW d \in Cpu, NEW k \in DOMAIN schedules'[d]
      PROVE  k \in DOMAIN schedules[d] \/ (d = c /\ k = n + 1)
  BY <1>2, <1>3, <1>4
<1> QED BY <1>2, <1>3, <1>4, <1>5, <1>6, <1>7

LEMMA EndAdded ==
  ASSUME RuntimeType, NEW c \in Cpu, NEW e \in SchedulePoint,
         AddsPoint(c, e), NEW n, n = Points(c)
  PROVE  /\ EndOf(c, n + 1)' = 0
         /\ \A d \in Cpu : \A k \in DOMAIN schedules[d] :
              EndOf(d, k)' = IF d = c /\ k = n THEN e.timestamp ELSE EndOf(d, k)
         /\ \A d \in Cpu : \A k \in DOMAIN schedules[d] : (d # c \/ k # n) => RunAt(d, k)' = RunAt(d, k)
<1>1. /\ n \in Nat /\ DOMAIN schedules[c] = 1 .. n
      /\ Len(schedules'[c]) = n + 1 /\ schedules'[c][n + 1] = e
      /\ \A d \in Cpu : d # c => schedules'[d] = schedules[d]
      /\ \A d \in Cpu : \A k \in DOMAIN schedules[d] : Point(d, k)' = Point(d, k)
  BY PointAdded
<1>2. EndOf(c, n + 1)' = 0
  BY <1>1 DEF EndOf
<1>3. ASSUME NEW d \in Cpu, NEW k \in DOMAIN schedules[d]
      PROVE  EndOf(d, k)' = IF d = c /\ k = n THEN e.timestamp ELSE EndOf(d, k)
  <2>1. CASE d # c
    BY <1>1, <2>1 DEF EndOf, Point
  <2>2. CASE d = c /\ k = n
    BY <1>1, <2>2 DEF EndOf, Point
  <2>3. CASE d = c /\ k # n
    <3>1. k < n /\ k < n + 1 /\ k + 1 \in 1 .. n
      BY <1>1, <2>3
    <3>2. Point(c, k + 1)' = Point(c, k + 1)
      BY <1>1, <3>1
    <3> QED BY <1>1, <2>3, <3>1, <3>2 DEF EndOf
  <2> QED BY <2>1, <2>2, <2>3
<1> QED BY <1>1, <1>2, <1>3 DEF RunAt, RunOn

(* The parts of a scheduling point                                         *)
Goes(c, next, done) ==
  LET prior == runs[c] IN
    /\ next \in {0} \cup (Created \ completed) /\ done \in BOOLEAN
    /\ prior # next
    /\ next # 0 => \A d \in Cpu : runs[d] # next
    /\ done => prior # 0
    /\ runs' = [runs EXCEPT ![c] = next]
    /\ completed' = IF done THEN completed \cup {prior} ELSE completed
    /\ ran' = [t \in TaskIds |->
                 IF t = prior THEN [ran[t] EXCEPT ![Len(ran[t])].end = now]
                 ELSE IF t = next THEN Append(ran[t], [cpu |-> c, start |-> now, end |-> 0])
                 ELSE ran[t]]
    /\ AddsPoint(c, [timestamp |-> now, prior |-> prior, next |-> next, complete |-> done])
    /\ now' = now + 1 /\ creates' = creates

LEMMA PointGoes ==
  ASSUME NEW c \in Cpu, SchedulingPoint(c)
  PROVE  \E next, done : Goes(c, next, done)
<1>1. PICK next \in {0} \cup (Created \ completed), done \in BOOLEAN :
        LET prior == runs[c]
        IN /\ prior # next
           /\ next # 0 => \A d \in Cpu : runs[d] # next
           /\ done => prior # 0
           /\ runs' = [runs EXCEPT ![c] = next]
           /\ completed' = IF done THEN completed \cup {prior} ELSE completed
           /\ ran' = [t \in TaskIds |->
                        IF t = prior THEN [ran[t] EXCEPT ![Len(ran[t])].end = now]
                        ELSE IF t = next THEN Append(ran[t], [cpu |-> c, start |-> now, end |-> 0])
                        ELSE ran[t]]
           /\ schedules' = [schedules EXCEPT ![c] =
                              Append(@, [timestamp |-> now, prior |-> prior,
                                         next |-> next, complete |-> done])]
  BY DEF SchedulingPoint
<1>2. now' = now + 1 /\ creates' = creates
  BY DEF SchedulingPoint
<1>3. Goes(c, next, done)
  BY <1>1, <1>2 DEF Goes, AddsPoint
<1> QED BY <1>3

LEMMA CreatedTasks == RuntimeType => Created \subseteq TaskIds
<1> SUFFICES ASSUME RuntimeType, NEW c \in Cpu, NEW k \in DOMAIN creates[c]
             PROVE  creates[c][k].id \in TaskIds
  BY DEF Created
<1>1. creates[c] \in Seq(TaskCreate)
  BY DEF RuntimeType
<1>2. creates[c][k] \in TaskCreate
  BY <1>1, LenProperties, ElementOfSeq
<1> QED BY <1>2 DEF TaskCreate

(* The point that a CPU adds                                               *)
LEMMA GoesPoint ==
  ASSUME RuntimeOK, NEW c \in Cpu, NEW next, NEW done, Goes(c, next, done)
  PROVE  /\ runs[c] \in NoTask /\ next \in NoTask /\ now \in Nat \ {0}
         /\ [timestamp |-> now, prior |-> runs[c], next |-> next, complete |-> done] \in SchedulePoint
<1>1. runs[c] \in NoTask /\ now \in Nat \ {0} /\ next \in NoTask
  BY CreatedTasks DEF RuntimeOK, RuntimeType, Goes, NoTask
<1>2. done \in BOOLEAN
  BY DEF Goes
<1> QED BY <1>1, <1>2 DEF SchedulePoint

(* What a scheduling point leaves as it is                                 *)
LEMMA GoesOnly ==
  ASSUME RuntimeOK, NEW c \in Cpu, NEW next, NEW done, Goes(c, next, done),
         NEW e, e = [timestamp |-> now, prior |-> runs[c], next |-> next, complete |-> done],
         NEW n, n = Points(c)
  PROVE  /\ e \in SchedulePoint /\ AddsPoint(c, e) /\ RuntimeType
         /\ e.timestamp = now /\ e.prior = runs[c] /\ e.next = next /\ e.complete = done
         /\ \A d \in Cpu : \A k \in DOMAIN schedules[d] :
              /\ Point(d, k).timestamp \in Nat \ {0} /\ Point(d, k).timestamp < now
              /\ k \in Nat \ {0}
         /\ \A d \in Cpu : d # c => runs'[d] = runs[d]
         /\ runs'[c] = next /\ now' = now + 1 /\ Created' = Created
<1>1. e \in SchedulePoint /\ now \in Nat \ {0} /\ runs[c] \in NoTask
  BY GoesPoint
<1>2. AddsPoint(c, e)
  BY DEF Goes
<1>3. RuntimeType /\ runs \in [Cpu -> NoTask]
  BY DEF RuntimeOK, RuntimeType
<1>4. ASSUME NEW d \in Cpu, NEW k \in DOMAIN schedules[d]
      PROVE  /\ Point(d, k).timestamp \in Nat \ {0} /\ Point(d, k).timestamp < now
             /\ k \in Nat \ {0}
  <2>1. Point(d, k).timestamp \in 1 .. now - 1 /\ k \in Nat \ {0}
    BY <1>3, PointTypes DEF RuntimeOK, TimesOK
  <2> QED BY <1>1, <2>1
<1>5. /\ \A d \in Cpu : d # c => runs'[d] = runs[d]
      /\ runs'[c] = next /\ now' = now + 1 /\ Created' = Created
  BY <1>3 DEF Goes, Created
<1> QED BY <1>1, <1>2, <1>3, <1>4, <1>5

LEMMA TimesGoOn ==
  ASSUME RuntimeOK, NEW c \in Cpu, NEW next, NEW done, Goes(c, next, done)
  PROVE  TimesOK'
<1>1. PICK e : e = [timestamp |-> now, prior |-> runs[c], next |-> next, complete |-> done]
  OBVIOUS
<1>2. PICK n : n = Points(c)
  OBVIOUS
<1>3. /\ e \in SchedulePoint /\ AddsPoint(c, e) /\ RuntimeType /\ e.timestamp = now
      /\ \A d \in Cpu : \A k \in DOMAIN schedules[d] :
           /\ Point(d, k).timestamp \in Nat \ {0} /\ Point(d, k).timestamp < now
           /\ k \in Nat \ {0}
      /\ now' = now + 1
  BY <1>1, <1>2, GoesOnly
<1>4. /\ n \in Nat /\ DOMAIN schedules[c] = 1 .. n /\ n + 1 \notin DOMAIN schedules[c]
      /\ schedules'[c][n + 1] = e
      /\ \A d \in Cpu : \A k \in DOMAIN schedules[d] :
           k \in DOMAIN schedules'[d] /\ Point(d, k)' = Point(d, k)
      /\ \A d \in Cpu : \A k \in DOMAIN schedules'[d] :
           k \in DOMAIN schedules[d] \/ (d = c /\ k = n + 1)
  BY <1>2, <1>3, PointAdded
<1>5. now \in Nat \ {0}
  BY <1>3 DEF RuntimeType
<1>6. Point(c, n + 1)'.timestamp = now
  BY <1>3, <1>4 DEF Point
<1>7. ASSUME NEW d \in Cpu, NEW k \in DOMAIN schedules'[d]
      PROVE  /\ Point(d, k)'.timestamp \in 1 .. now' - 1
             /\ Point(d, k)'.timestamp = now => d = c /\ k = n + 1
  <2>1. CASE k \in DOMAIN schedules[d]
    <3>1. Point(d, k)'.timestamp \in Nat \ {0} /\ Point(d, k)'.timestamp < now
      BY <1>3, <1>4, <2>1
    <3> QED BY <1>3, <1>5, <3>1
  <2>2. CASE d = c /\ k = n + 1
    <3>1. Point(d, k)'.timestamp = now
      BY <1>6, <2>2
    <3> QED BY <1>3, <1>5, <2>2, <3>1
  <2> QED BY <1>4, <2>1, <2>2
<1>8. ASSUME NEW d \in Cpu, NEW k \in DOMAIN schedules'[d], NEW l \in DOMAIN schedules'[d], k < l
      PROVE  Point(d, k)'.timestamp < Point(d, l)'.timestamp
  <2>1. k \in DOMAIN schedules[d]
    BY <1>4, <1>8
  <2>2. CASE l \in DOMAIN schedules[d]
    BY <1>4, <1>8, <2>1, <2>2 DEF RuntimeOK, TimesOK
  <2>3. CASE d = c /\ l = n + 1
    BY <1>3, <1>4, <1>6, <2>1, <2>3
  <2> QED BY <1>4, <2>2, <2>3
<1>9. ASSUME NEW b \in Cpu, NEW d \in Cpu, NEW k \in DOMAIN schedules'[b], NEW l \in DOMAIN schedules'[d],
             Point(b, k)'.timestamp = Point(d, l)'.timestamp
      PROVE  b = d /\ k = l
  <2>1. CASE Point(b, k)'.timestamp = now
    <3>1. Point(d, l)'.timestamp = now
      BY <1>9, <2>1
    <3>2. b = c /\ k = n + 1
      BY <1>7, <2>1
    <3>3. d = c /\ l = n + 1
      BY <1>7, <3>1
    <3> QED BY <3>2, <3>3
  <2>2. CASE Point(b, k)'.timestamp # now
    <3>1. k \in DOMAIN schedules[b] /\ l \in DOMAIN schedules[d]
      BY <1>4, <1>6, <1>9, <2>2
    <3> QED BY <1>4, <1>9, <3>1 DEF RuntimeOK, TimesOK
  <2> QED BY <2>1, <2>2
<1> QED BY <1>7, <1>8, <1>9 DEF TimesOK

LEMMA ChainGoesOn ==
  ASSUME RuntimeOK, NEW c \in Cpu, NEW next, NEW done, Goes(c, next, done)
  PROVE  ChainOK'
<1>1. PICK e : e = [timestamp |-> now, prior |-> runs[c], next |-> next, complete |-> done]
  OBVIOUS
<1>2. PICK n : n = Points(c)
  OBVIOUS
<1>3. /\ e \in SchedulePoint /\ AddsPoint(c, e) /\ RuntimeType
      /\ e.prior = runs[c] /\ e.next = next /\ e.complete = done
      /\ \A d \in Cpu : \A k \in DOMAIN schedules[d] : k \in Nat \ {0}
      /\ \A d \in Cpu : d # c => runs'[d] = runs[d]
      /\ runs'[c] = next /\ Created' = Created
  BY <1>1, <1>2, GoesOnly
<1>4. /\ n \in Nat /\ DOMAIN schedules[c] = 1 .. n /\ Len(schedules'[c]) = n + 1
      /\ schedules'[c] # <<>> /\ schedules'[c][n + 1] = e
      /\ \A d \in Cpu : d # c => schedules'[d] = schedules[d]
      /\ \A d \in Cpu : \A k \in DOMAIN schedules[d] :
           k \in DOMAIN schedules'[d] /\ Point(d, k)' = Point(d, k)
      /\ \A d \in Cpu : \A k \in DOMAIN schedules'[d] :
           k \in DOMAIN schedules[d] \/ (d = c /\ k = n + 1)
  BY <1>2, <1>3, PointAdded
<1>5. /\ \A d \in Cpu : runs[d] = IF schedules[d] = <<>> THEN 0 ELSE Point(d, Len(schedules[d])).next
      /\ \A d \in Cpu : \A k \in DOMAIN schedules[d] :
           /\ Point(d, k).prior = IF k = 1 THEN 0 ELSE Point(d, k - 1).next
           /\ Point(d, k).next # 0 => Point(d, k).next \in Created
           /\ Point(d, k).complete => Point(d, k).prior # 0
           /\ Point(d, k).prior # Point(d, k).next
      /\ \A b, d \in Cpu : b # d /\ runs[b] # 0 => runs[b] # runs[d]
  BY DEF RuntimeOK, ChainOK
<1>6. Point(c, n + 1)' = e
  BY <1>4 DEF Point
<1>7. ASSUME NEW d \in Cpu
      PROVE  runs'[d] = IF schedules'[d] = <<>> THEN 0 ELSE Point(d, Len(schedules[d]))'.next
  <2>1. CASE d = c
    BY <1>3, <1>4, <2>1 DEF Point
  <2>2. CASE d # c
    BY <1>3, <1>4, <1>5, <2>2 DEF Point
  <2> QED BY <2>1, <2>2
<1>8. ASSUME NEW d \in Cpu, NEW k \in DOMAIN schedules'[d]
      PROVE  /\ Point(d, k)'.prior = IF k = 1 THEN 0 ELSE Point(d, k - 1)'.next
             /\ Point(d, k)'.next # 0 => Point(d, k)'.next \in Created'
             /\ Point(d, k)'.complete => Point(d, k)'.prior # 0
             /\ Point(d, k)'.prior # Point(d, k)'.next
  <2>1. CASE k \in DOMAIN schedules[d]
    <3>1. k # 1 => k - 1 \in DOMAIN schedules[d]
      <4>1. DOMAIN schedules[d] = 1 .. Len(schedules[d]) /\ Len(schedules[d]) \in Nat
        BY <1>3, PointTypes
      <4> QED BY <2>1, <4>1
    <3> QED BY <1>3, <1>4, <1>5, <2>1, <3>1
  <2>2. CASE d = c /\ k = n + 1
    <3>1. Point(d, k)' = e
      BY <1>6, <2>2
    <3>2. e.next # 0 => e.next \in Created
      BY <1>3 DEF Goes
    <3>3. (e.complete => e.prior # 0) /\ e.prior # e.next
      BY <1>3 DEF Goes
    <3>4. e.prior = IF k = 1 THEN 0 ELSE Point(d, k - 1)'.next
      <4>1. CASE n = 0
        <5>1. schedules[c] = <<>>
          BY <1>2, <1>3, <4>1, EmptySeq, PointTypes DEF Points
        <5> QED BY <1>3, <1>5, <2>2, <4>1, <5>1
      <4>2. CASE n # 0
        <5>1. n \in DOMAIN schedules[c] /\ k - 1 = n /\ k # 1
          BY <1>4, <2>2, <4>2
        <5>2. schedules[c] # <<>>
          BY <1>2, <4>2, EmptySeq DEF Points
        <5> QED BY <1>2, <1>3, <1>4, <1>5, <2>2, <5>1, <5>2
      <4> QED BY <4>1, <4>2
    <3> QED BY <1>3, <3>1, <3>2, <3>3, <3>4
  <2> QED BY <1>4, <2>1, <2>2
<1>9. ASSUME NEW b \in Cpu, NEW d \in Cpu, b # d, runs'[b] # 0
      PROVE  runs'[b] # runs'[d]
  <2>1. next # 0 => \A a \in Cpu : runs[a] # next
    BY DEF Goes
  <2> QED BY <1>3, <1>5, <1>9, <2>1
<1> QED BY <1>7, <1>8, <1>9 DEF ChainOK

(* The last point of a CPU names the task that it runs.                    *)
LEMMA LastPoint ==
  ASSUME RuntimeOK, NEW c \in Cpu, NEW n, n = Points(c)
  PROVE  /\ runs[c] # 0 => n \in DOMAIN schedules[c]
         /\ n \in DOMAIN schedules[c] => Point(c, n).next = runs[c]
<1>1. /\ schedules[c] \in Seq(SchedulePoint) /\ n \in Nat /\ DOMAIN schedules[c] = 1 .. n
  BY PointTypes DEF RuntimeOK, Points
<1>2. runs[c] = IF schedules[c] = <<>> THEN 0 ELSE Point(c, n).next
  BY DEF RuntimeOK, ChainOK, Points
<1>3. schedules[c] = <<>> <=> n = 0
  BY <1>1, EmptySeq
<1> QED BY <1>1, <1>2, <1>3

LEMMA RanTypes ==
  ASSUME RuntimeOK, NEW t \in TaskIds
  PROVE  /\ t \in Nat \ {0} /\ ran[t] \in Seq(TaskRun) /\ Len(ran[t]) \in Nat
         /\ DOMAIN ran[t] = 1 .. Len(ran[t])
         /\ \A i \in DOMAIN ran[t] :
              /\ ran[t][i] \in TaskRun /\ ran[t][i].cpu \in Cpu
              /\ ran[t][i].start \in Nat /\ ran[t][i].end \in Nat
<1>1. ran[t] \in Seq(TaskRun) /\ t \in Nat \ {0}
  BY TasksAssumption DEF RuntimeOK, RuntimeType
<1>2. Len(ran[t]) \in Nat /\ DOMAIN ran[t] = 1 .. Len(ran[t])
  BY <1>1, LenProperties
<1>3. \A i \in DOMAIN ran[t] : ran[t][i] \in TaskRun
  BY <1>1, <1>2, ElementOfSeq
<1> QED BY <1>1, <1>2, <1>3 DEF TaskRun

(* A period is still open only while a CPU runs the task.                  *)
LEMMA OpenPeriod ==
  ASSUME RuntimeOK, NEW c \in Cpu, NEW k \in DOMAIN schedules[c], EndOf(c, k) = 0
  PROVE  k = Len(schedules[c]) /\ runs[c] = Point(c, k).next
<1>1. DOMAIN schedules[c] = 1 .. Len(schedules[c]) /\ Len(schedules[c]) \in Nat /\ k \in Nat
  BY PointTypes DEF RuntimeOK
<1>2. k = Len(schedules[c])
  <2> SUFFICES ASSUME k < Len(schedules[c]) PROVE FALSE
    BY <1>1
  <2>1. k + 1 \in DOMAIN schedules[c]
    BY <1>1
  <2>2. Point(c, k + 1).timestamp \in 1 .. now - 1 /\ now \in Nat
    BY <2>1 DEF RuntimeOK, TimesOK, RuntimeType
  <2> QED BY <2>2 DEF EndOf
<1> QED BY <1>2, LastPoint DEF Points

(* What the new point does to periods                                      *)
LEMMA RanFacts ==
  ASSUME RuntimeOK, NEW c \in Cpu, NEW next, NEW done, Goes(c, next, done),
         NEW n, n = Points(c)
  PROVE  /\ \A d \in Cpu : \A k \in DOMAIN schedules[d] :
              /\ k \in DOMAIN schedules'[d] /\ Point(d, k)' = Point(d, k)
              /\ Point(d, k).next # runs[c] => RunAt(d, k)' = RunAt(d, k)
              /\ d # c => RunAt(d, k)' = RunAt(d, k)
              /\ k # n => RunAt(d, k)' = RunAt(d, k)
              /\ RunAt(d, k).start < now
         /\ \A d \in Cpu : \A k \in DOMAIN schedules'[d] :
              k \in DOMAIN schedules[d] \/ (d = c /\ k = n + 1)
         /\ n + 1 \in DOMAIN schedules'[c] /\ Point(c, n + 1)'.next = next
         /\ RunAt(c, n + 1)' = RunOn(c, now, 0)
         /\ n \in DOMAIN schedules[c] => RunAt(c, n)' = RunOn(c, Point(c, n).timestamp, now)
<1>1. PICK e : e = [timestamp |-> now, prior |-> runs[c], next |-> next, complete |-> done]
  OBVIOUS
<1>2. /\ e \in SchedulePoint /\ AddsPoint(c, e) /\ RuntimeType
      /\ e.timestamp = now /\ e.next = next
      /\ \A d \in Cpu : \A k \in DOMAIN schedules[d] : Point(d, k).timestamp < now
  BY <1>1, GoesOnly
<1>3. /\ DOMAIN schedules'[c] = DOMAIN schedules[c] \cup {n + 1} /\ schedules'[c][n + 1] = e
      /\ \A d \in Cpu : \A k \in DOMAIN schedules[d] :
           k \in DOMAIN schedules'[d] /\ Point(d, k)' = Point(d, k)
      /\ \A d \in Cpu : \A k \in DOMAIN schedules'[d] :
           k \in DOMAIN schedules[d] \/ (d = c /\ k = n + 1)
  BY <1>2, PointAdded
<1>4. /\ EndOf(c, n + 1)' = 0
      /\ \A d \in Cpu : \A k \in DOMAIN schedules[d] :
           EndOf(d, k)' = IF d = c /\ k = n THEN e.timestamp ELSE EndOf(d, k)
      /\ \A d \in Cpu : \A k \in DOMAIN schedules[d] : (d # c \/ k # n) => RunAt(d, k)' = RunAt(d, k)
  BY <1>2, EndAdded
<1>5. Point(c, n + 1)' = e
  BY <1>3 DEF Point
<1>6. RunAt(c, n + 1)' = RunOn(c, now, 0)
  BY <1>2, <1>4, <1>5 DEF RunAt, RunOn
<1>7. ASSUME n \in DOMAIN schedules[c]
      PROVE  RunAt(c, n)' = RunOn(c, Point(c, n).timestamp, now)
  BY <1>2, <1>3, <1>4, <1>7 DEF RunAt, RunOn
<1>8. ASSUME NEW d \in Cpu, NEW k \in DOMAIN schedules[d]
      PROVE  /\ Point(d, k).next # runs[c] => RunAt(d, k)' = RunAt(d, k)
             /\ RunAt(d, k).start < now
  <2>1. d = c /\ k = n => Point(d, k).next = runs[c]
    BY LastPoint
  <2> QED BY <1>2, <1>4, <2>1 DEF RunAt, RunOn
<1> QED BY <1>2, <1>3, <1>4, <1>5, <1>6, <1>7, <1>8

(* A task that the CPU neither leaves nor goes on with                     *)
LEMMA RanKept ==
  ASSUME RuntimeOK, NEW c \in Cpu, NEW next, NEW done, Goes(c, next, done),
         NEW t \in TaskIds, t # runs[c], t # next
  PROVE  RanRight(t)' /\ ran'[t] = ran[t]
<1>1. PICK n : n = Points(c)
  OBVIOUS
<1>2. ran'[t] = ran[t]
  BY DEF Goes
<1>3. /\ \A d \in Cpu : \A k \in DOMAIN schedules[d] :
           /\ k \in DOMAIN schedules'[d] /\ Point(d, k)' = Point(d, k)
           /\ Point(d, k).next # runs[c] => RunAt(d, k)' = RunAt(d, k)
           /\ d # c => RunAt(d, k)' = RunAt(d, k)
           /\ k # n => RunAt(d, k)' = RunAt(d, k)
           /\ RunAt(d, k).start < now
      /\ \A d \in Cpu : \A k \in DOMAIN schedules'[d] :
           k \in DOMAIN schedules[d] \/ (d = c /\ k = n + 1)
      /\ n + 1 \in DOMAIN schedules'[c] /\ Point(c, n + 1)'.next = next
  BY <1>1, RanFacts
<1>4. RanRight(t)
  BY DEF RuntimeOK, RanOK
<1>5. ASSUME NEW i \in DOMAIN ran[t]
      PROVE  \E d \in Cpu : \E k \in DOMAIN schedules'[d] :
               Point(d, k)'.next = t /\ ran[t][i] = RunAt(d, k)'
  <2>1. PICK d \in Cpu : \E k \in DOMAIN schedules[d] : Point(d, k).next = t /\ ran[t][i] = RunAt(d, k)
    BY <1>4 DEF RanRight
  <2>2. PICK k \in DOMAIN schedules[d] : Point(d, k).next = t /\ ran[t][i] = RunAt(d, k)
    BY <2>1
  <2> QED BY <1>3, <2>2
<1>6. ASSUME NEW d \in Cpu, NEW k \in DOMAIN schedules'[d], Point(d, k)'.next = t
      PROVE  \E i \in DOMAIN ran[t] : ran[t][i] = RunAt(d, k)'
  <2>1. k \in DOMAIN schedules[d] /\ Point(d, k).next = t
    BY <1>3, <1>6
  <2>2. PICK i \in DOMAIN ran[t] : ran[t][i] = RunAt(d, k)
    BY <1>4, <2>1 DEF RanRight
  <2> QED BY <1>3, <2>1, <2>2
<1> QED BY <1>2, <1>4, <1>5, <1>6 DEF RanRight

(* The last period of a task that a CPU runs is the one that is open.      *)
LEMMA RunningLast ==
  ASSUME RuntimeOK, NEW c \in Cpu, runs[c] # 0
  PROVE  /\ runs[c] \in TaskIds /\ Points(c) \in DOMAIN schedules[c]
         /\ ran[runs[c]] # <<>> /\ Len(ran[runs[c]]) \in DOMAIN ran[runs[c]]
         /\ ran[runs[c]][Len(ran[runs[c]])] = RunAt(c, Points(c))
         /\ Point(c, Points(c)).next = runs[c]
         /\ EndOf(c, Points(c)) = 0
<1>1. runs[c] \in TaskIds
  BY DEF RuntimeOK, RuntimeType, NoTask
<1>2. Points(c) \in DOMAIN schedules[c] /\ Point(c, Points(c)).next = runs[c]
  BY LastPoint
<1>3. EndOf(c, Points(c)) = 0
  <2>1. Points(c) \in Nat
    BY PointTypes DEF RuntimeOK, Points
  <2> QED BY <2>1 DEF EndOf, Points
<1>4. PICK i \in DOMAIN ran[runs[c]] : ran[runs[c]][i] = RunAt(c, Points(c))
  BY <1>1, <1>2 DEF RuntimeOK, RanOK, RanRight
<1>5. ran[runs[c]][i].end = 0
  BY <1>3, <1>4 DEF RunAt, RunOn
<1>6. i = Len(ran[runs[c]])
  BY <1>1, <1>5 DEF RuntimeOK, RanOK, RanRight
<1>7. ran[runs[c]] \in Seq(TaskRun) /\ DOMAIN ran[runs[c]] = 1 .. Len(ran[runs[c]])
  BY <1>1, RanTypes
<1>8. ran[runs[c]] # <<>>
  BY <1>4, <1>7, EmptySeq
<1> QED BY <1>1, <1>2, <1>3, <1>4, <1>6, <1>8

(* The task that the CPU leaves                                            *)
LEMMA RanLeft ==
  ASSUME RuntimeOK, NEW c \in Cpu, NEW next, NEW done, Goes(c, next, done),
         NEW t, t = runs[c], t # 0
  PROVE  /\ t \in TaskIds /\ RanRight(t)' /\ ran'[t] \in Seq(TaskRun)
         /\ ran'[t] # <<>> /\ Last(ran'[t]).end = now /\ Last(ran'[t]).cpu = c
<1>1. PICK n : n = Points(c)
  OBVIOUS
<1>2. t = runs[c]
  OBVIOUS
<1>3. PICK m : m = Len(ran[t])
  OBVIOUS
<1>4. /\ t \in TaskIds /\ n \in DOMAIN schedules[c] /\ m \in DOMAIN ran[t]
      /\ ran[t] # <<>> /\ ran[t][m] = RunAt(c, n) /\ Point(c, n).next = t
  BY <1>1, <1>2, <1>3, RunningLast
<1>5. PICK r : r = RunOn(c, Point(c, n).timestamp, now)
  OBVIOUS
<1>6. /\ r.cpu = c /\ r.end = now /\ r.start = ran[t][m].start /\ r = RunAt(c, n)'
  <2>1. r = RunAt(c, n)'
    BY <1>1, <1>4, <1>5, RanFacts
  <2> QED BY <1>4, <1>5, <2>1 DEF RunAt, RunOn
<1>7. /\ ran[t] \in Seq(TaskRun) /\ m \in Nat /\ DOMAIN ran[t] = 1 .. m
      /\ \A i \in DOMAIN ran[t] : ran[t][i] \in TaskRun /\ ran[t][i].start \in Nat
  BY <1>3, <1>4, RanTypes
<1>8. ran'[t] = [ran[t] EXCEPT ![m] = r]
  <2>1. ran'[t] = [ran[t] EXCEPT ![m].end = now]
    BY <1>2, <1>3, <1>4 DEF Goes
  <2>2. [ran[t][m] EXCEPT !.end = now] = r
    BY <1>4, <1>5 DEF RunAt, RunOn
  <2> QED BY <1>7, <2>1, <2>2
<1>9. r \in TaskRun
  <2>1. ran[t][m].start \in Nat /\ now \in Nat
    BY <1>4, <1>7 DEF RuntimeOK, RuntimeType
  <2> QED BY <1>4, <1>5, <1>6, <2>1 DEF TaskRun, RunOn
<1>10. /\ ran'[t] \in Seq(TaskRun) /\ Len(ran'[t]) = m /\ DOMAIN ran'[t] = DOMAIN ran[t]
       /\ ran'[t][m] = r
       /\ \A i \in DOMAIN ran[t] : i # m => ran'[t][i] = ran[t][i]
       /\ \A i \in DOMAIN ran[t] : ran'[t][i].start = ran[t][i].start
  <2>1. /\ DOMAIN ran'[t] = DOMAIN ran[t] /\ ran'[t][m] = r
        /\ \A i \in DOMAIN ran[t] : i # m => ran'[t][i] = ran[t][i]
    BY <1>4, <1>7, <1>8
  <2>2. ran'[t] \in [1 .. m -> TaskRun]
    BY <1>4, <1>7, <1>8, <1>9
  <2>3. ran'[t] \in Seq(TaskRun) /\ Len(ran'[t]) = m
    BY <1>7, <2>2, SeqDef, LenProperties
  <2> QED BY <1>6, <2>1, <2>3
<1>11. /\ \A d \in Cpu : \A k \in DOMAIN schedules[d] :
            /\ k \in DOMAIN schedules'[d] /\ Point(d, k)' = Point(d, k)
            /\ d # c => RunAt(d, k)' = RunAt(d, k)
            /\ k # n => RunAt(d, k)' = RunAt(d, k)
       /\ \A d \in Cpu : \A k \in DOMAIN schedules'[d] :
            k \in DOMAIN schedules[d] \/ (d = c /\ k = n + 1)
       /\ Point(c, n + 1)'.next = next
  BY <1>1, RanFacts
<1>12. RanRight(t) /\ next # t
  BY <1>2, <1>4 DEF RuntimeOK, RanOK, Goes
<1>13. ASSUME NEW d \in Cpu, NEW k \in DOMAIN schedules[d], NEW i \in DOMAIN ran[t], ran[t][i] = RunAt(d, k)
       PROVE  (i = m /\ d = c /\ k = n) \/ (i # m /\ (d # c \/ k # n))
  <2>1. CASE d = c /\ k = n
    <3>1. ran[t][i].start = ran[t][m].start
      BY <1>4, <1>13, <2>1
    <3>2. \A j \in DOMAIN ran[t] : j < m => ran[t][j].start < ran[t][m].start
      BY <1>4, <1>12 DEF RanRight
    <3>3. i \in Nat /\ i <= m
      BY <1>7
    <3> QED BY <1>4, <1>7, <2>1, <3>1, <3>2, <3>3
  <2>2. CASE i = m
    <3>1. RunAt(d, k) = RunAt(c, n)
      BY <1>4, <1>13, <2>2
    <3>2. Point(d, k).timestamp = Point(c, n).timestamp
      BY <3>1 DEF RunAt, RunOn
    <3> QED BY <1>4, <2>2, <3>2 DEF RuntimeOK, TimesOK
  <2> QED BY <2>1, <2>2
<1>14. ASSUME NEW i \in DOMAIN ran[t]
       PROVE  \E d \in Cpu : \E k \in DOMAIN schedules'[d] :
                Point(d, k)'.next = t /\ ran'[t][i] = RunAt(d, k)'
  <2>1. PICK d \in Cpu : \E k \in DOMAIN schedules[d] : Point(d, k).next = t /\ ran[t][i] = RunAt(d, k)
    BY <1>12 DEF RanRight
  <2>2. PICK k \in DOMAIN schedules[d] : Point(d, k).next = t /\ ran[t][i] = RunAt(d, k)
    BY <2>1
  <2>3. k \in DOMAIN schedules'[d] /\ Point(d, k)'.next = t
    BY <1>11, <2>2
  <2>4. CASE i = m /\ d = c /\ k = n
    <3>1. ran'[t][i] = r
      BY <1>10, <2>4
    <3>2. ran'[t][i] = RunAt(d, k)'
      BY <1>6, <2>4, <3>1
    <3> QED BY <2>3, <3>2
  <2>5. CASE i # m /\ (d # c \/ k # n)
    <3>1. ran'[t][i] = RunAt(d, k)'
      BY <1>10, <1>11, <2>2, <2>5
    <3> QED BY <2>3, <3>1
  <2> QED BY <1>13, <2>2, <2>4, <2>5
<1>15. ASSUME NEW d \in Cpu, NEW k \in DOMAIN schedules'[d], Point(d, k)'.next = t
       PROVE  \E i \in DOMAIN ran[t] : ran'[t][i] = RunAt(d, k)'
  <2>1. k \in DOMAIN schedules[d] /\ Point(d, k).next = t
    BY <1>11, <1>12, <1>15
  <2>2. PICK i \in DOMAIN ran[t] : ran[t][i] = RunAt(d, k)
    BY <1>12, <2>1 DEF RanRight
  <2>3. CASE i = m /\ d = c /\ k = n
    BY <1>6, <1>10, <2>3
  <2>4. CASE i # m /\ (d # c \/ k # n)
    BY <1>10, <1>11, <2>1, <2>2, <2>4
  <2> QED BY <1>13, <2>1, <2>2, <2>3, <2>4
<1>16. \A i, j \in DOMAIN ran[t] : i < j => ran'[t][i].start < ran'[t][j].start
  BY <1>10, <1>12 DEF RanRight
<1>17. \A i \in DOMAIN ran[t] : ran'[t][i].end = 0 => i = m
  BY <1>3, <1>10, <1>12 DEF RanRight
<1>18. RanRight(t)'
  BY <1>10, <1>14, <1>15, <1>16, <1>17 DEF RanRight
<1>19. ran'[t] # <<>>
  BY <1>4, <1>7, <1>10, EmptySeq
<1>20. Last(ran'[t]) = r
  BY <1>10 DEF Last
<1> QED BY <1>4, <1>6, <1>10, <1>18, <1>19, <1>20

(* The task that the CPU goes on with                                      *)
LEMMA RanEntered ==
  ASSUME RuntimeOK, NEW c \in Cpu, NEW next, NEW done, Goes(c, next, done), next # 0
  PROVE  next \in TaskIds /\ RanRight(next)' /\ ran'[next] \in Seq(TaskRun)
<1>1. PICK n : n = Points(c)
  OBVIOUS
<1>2. next \in TaskIds /\ next # runs[c] /\ \A d \in Cpu : runs[d] # next
  BY GoesPoint DEF Goes, NoTask
<1>3. PICK m : m = Len(ran[next])
  OBVIOUS
<1>4. PICK r : r = RunOn(c, now, 0)
  OBVIOUS
<1>5. r.cpu = c /\ r.end = 0 /\ r.start = now /\ r = RunAt(c, n + 1)' /\ r \in TaskRun
  <2>1. r = RunAt(c, n + 1)'
    BY <1>1, <1>4, RanFacts
  <2>2. now \in Nat
    BY DEF RuntimeOK, RuntimeType
  <2> QED BY <1>4, <2>1, <2>2 DEF RunOn, TaskRun
<1>6. ran'[next] = Append(ran[next], r)
  BY <1>2, <1>4 DEF Goes, RunOn
<1>7. /\ ran[next] \in Seq(TaskRun) /\ m \in Nat /\ DOMAIN ran[next] = 1 .. m
  BY <1>2, <1>3, RanTypes
<1>8. /\ ran'[next] \in Seq(TaskRun) /\ Len(ran'[next]) = m + 1
      /\ DOMAIN ran'[next] = 1 .. m + 1
      /\ \A i \in 1 .. m : ran'[next][i] = ran[next][i]
      /\ ran'[next][m + 1] = r
  BY <1>3, <1>5, <1>6, <1>7, Appended
<1>9. 1 .. m + 1 = (1 .. m) \cup {m + 1} /\ m + 1 \notin 1 .. m
  BY <1>7
<1>10. /\ \A d \in Cpu : \A k \in DOMAIN schedules[d] :
            /\ k \in DOMAIN schedules'[d] /\ Point(d, k)' = Point(d, k)
            /\ Point(d, k).next # runs[c] => RunAt(d, k)' = RunAt(d, k)
            /\ RunAt(d, k).start < now
       /\ \A d \in Cpu : \A k \in DOMAIN schedules'[d] :
            k \in DOMAIN schedules[d] \/ (d = c /\ k = n + 1)
       /\ n + 1 \in DOMAIN schedules'[c] /\ Point(c, n + 1)'.next = next
  BY <1>1, RanFacts
<1>11. RanRight(next)
  BY <1>2 DEF RuntimeOK, RanOK
<1>12. ASSUME NEW i \in 1 .. m
       PROVE  /\ \E d \in Cpu : \E k \in DOMAIN schedules'[d] :
                   Point(d, k)'.next = next /\ ran'[next][i] = RunAt(d, k)'
              /\ ran'[next][i].start < now /\ ran'[next][i].end # 0
  <2>1. PICK d \in Cpu : \E k \in DOMAIN schedules[d] : Point(d, k).next = next /\ ran[next][i] = RunAt(d, k)
    BY <1>7, <1>11 DEF RanRight
  <2>2. PICK k \in DOMAIN schedules[d] : Point(d, k).next = next /\ ran[next][i] = RunAt(d, k)
    BY <2>1
  <2>3. ran'[next][i] = RunAt(d, k)' /\ k \in DOMAIN schedules'[d] /\ Point(d, k)'.next = next
    BY <1>2, <1>8, <1>10, <2>2
  <2>4. ran'[next][i].start < now
    BY <1>8, <1>10, <2>2
  <2>5. EndOf(d, k) # 0
    BY <1>2, <2>2, OpenPeriod
  <2>6. ran'[next][i].end # 0
    BY <1>8, <2>2, <2>5 DEF RunAt, RunOn
  <2> QED BY <2>3, <2>4, <2>6
<1>13. ASSUME NEW i \in 1 .. m + 1
       PROVE  \E d \in Cpu : \E k \in DOMAIN schedules'[d] :
                Point(d, k)'.next = next /\ ran'[next][i] = RunAt(d, k)'
  <2>1. CASE i = m + 1
    BY <1>5, <1>8, <1>10, <2>1
  <2> QED BY <1>9, <1>12, <2>1
<1>14. ASSUME NEW d \in Cpu, NEW k \in DOMAIN schedules'[d], Point(d, k)'.next = next
       PROVE  \E i \in 1 .. m + 1 : ran'[next][i] = RunAt(d, k)'
  <2>1. CASE k \in DOMAIN schedules[d]
    <3>1. Point(d, k).next = next
      BY <1>10, <1>14, <2>1
    <3>2. PICK i \in 1 .. m : ran[next][i] = RunAt(d, k)
      BY <1>7, <1>11, <2>1, <3>1 DEF RanRight
    <3> QED BY <1>2, <1>8, <1>9, <1>10, <2>1, <3>1, <3>2
  <2>2. CASE d = c /\ k = n + 1
    BY <1>5, <1>8, <1>9, <2>2
  <2> QED BY <1>10, <2>1, <2>2
<1>15. ASSUME NEW i \in 1 .. m + 1, NEW j \in 1 .. m + 1, i < j
       PROVE  ran'[next][i].start < ran'[next][j].start
  <2>1. i \in 1 .. m
    BY <1>7, <1>15
  <2>2. CASE j \in 1 .. m
    BY <1>7, <1>8, <1>11, <1>15, <2>1, <2>2 DEF RanRight
  <2>3. CASE j = m + 1
    BY <1>5, <1>8, <1>12, <2>1, <2>3
  <2> QED BY <1>9, <2>2, <2>3
<1>16. \A i \in 1 .. m + 1 : ran'[next][i].end = 0 => i = m + 1
  BY <1>9, <1>12
<1>17. RanRight(next)'
  BY <1>8, <1>13, <1>14, <1>15, <1>16 DEF RanRight
<1> QED BY <1>2, <1>8, <1>17

LEMMA RanGoesOn ==
  ASSUME RuntimeOK, NEW c \in Cpu, NEW next, NEW done, Goes(c, next, done)
  PROVE  RanOK' /\ ran' \in [TaskIds -> Seq(TaskRun)]
<1>1. ASSUME NEW t \in TaskIds
      PROVE  RanRight(t)' /\ ran'[t] \in Seq(TaskRun)
  <2>1. t # 0
    BY RanTypes
  <2>2. CASE t = runs[c]
    BY <2>1, <2>2, RanLeft
  <2>3. CASE t = next
    BY <2>1, <2>3, RanEntered
  <2>4. CASE t # runs[c] /\ t # next
    BY <2>4, RanKept, RanTypes
  <2> QED BY <2>2, <2>3, <2>4
<1>2. DOMAIN ran' = TaskIds /\ ran' = [t \in TaskIds |-> ran'[t]]
  BY DEF Goes
<1> QED BY <1>1, <1>2 DEF RanOK

LEMMA CompleteGoesOn ==
  ASSUME RuntimeOK, NEW c \in Cpu, NEW next, NEW done, Goes(c, next, done)
  PROVE  CompleteOK' /\ completed' \subseteq TaskIds
<1>1. PICK e : e = [timestamp |-> now, prior |-> runs[c], next |-> next, complete |-> done]
  OBVIOUS
<1>2. PICK n : n = Points(c)
  OBVIOUS
<1>3. /\ e \in SchedulePoint /\ AddsPoint(c, e) /\ RuntimeType
      /\ e.timestamp = now /\ e.prior = runs[c] /\ e.next = next /\ e.complete = done
      /\ \A d \in Cpu : \A k \in DOMAIN schedules[d] :
           /\ Point(d, k).timestamp \in Nat \ {0} /\ Point(d, k).timestamp < now
           /\ k \in Nat \ {0}
      /\ \A d \in Cpu : d # c => runs'[d] = runs[d]
      /\ runs'[c] = next
  BY <1>1, <1>2, GoesOnly
<1>4. /\ n + 1 \in DOMAIN schedules'[c] /\ schedules'[c][n + 1] = e
      /\ \A d \in Cpu : \A k \in DOMAIN schedules[d] :
           k \in DOMAIN schedules'[d] /\ Point(d, k)' = Point(d, k)
      /\ \A d \in Cpu : \A k \in DOMAIN schedules'[d] :
           k \in DOMAIN schedules[d] \/ (d = c /\ k = n + 1)
  BY <1>2, <1>3, PointAdded
<1>5. Point(c, n + 1)' = e
  BY <1>4 DEF Point
<1>6. /\ runs[c] # next /\ next \in {0} \cup (Created \ completed) /\ done \in BOOLEAN
      /\ done => runs[c] # 0
      /\ completed' = IF done THEN completed \cup {runs[c]} ELSE completed
  BY DEF Goes
<1>7. ASSUME NEW b \in Cpu, NEW k \in DOMAIN schedules[b], Point(b, k).complete
      PROVE  \A t, time : t = Point(b, k).prior /\ time = Point(b, k).timestamp => IsOver(t, b, time)'
  <2> SUFFICES ASSUME NEW t, t = Point(b, k).prior, NEW time, time = Point(b, k).timestamp
               PROVE  IsOver(t, b, time)'
    OBVIOUS
  <2>1. time = Point(b, k).timestamp
    OBVIOUS
  <2>2. IsOver(t, b, time) /\ Point(b, k)'.timestamp = time /\ t \in TaskIds
    <3>1. IsOver(t, b, time) /\ completed \subseteq TaskIds
      BY <1>7, <2>1 DEF RuntimeOK, CompleteOK, RuntimeType
    <3> QED BY <1>4, <2>1, <3>1 DEF IsOver
  <2>3. t # runs[c] /\ t # next /\ t # 0
    BY <1>6, <2>2, RanTypes DEF IsOver
  <2>4. ran'[t] = ran[t] /\ t \in completed'
    BY <1>6, <2>2, <2>3 DEF Goes, IsOver
  <2>5. \A d \in Cpu : runs'[d] # t
    BY <1>3, <2>2, <2>3 DEF IsOver
  <2>6. \A d \in Cpu : \A l \in DOMAIN schedules'[d] :
          Point(d, l)'.next = t => Point(d, l)'.timestamp < time
    <3>1. ASSUME NEW d \in Cpu, NEW l \in DOMAIN schedules[d], Point(d, l)'.next = t
          PROVE  Point(d, l)'.timestamp < time
      <4>1. Point(d, l)' = Point(d, l)
        BY <1>4
      <4> QED BY <2>2, <3>1, <4>1 DEF IsOver
    <3>2. Point(c, n + 1)'.next # t
      BY <1>3, <1>5, <2>3
    <3> QED BY <1>4, <3>1, <3>2
  <2>7. ran'[t] # <<>> /\ Last(ran'[t]).end = time /\ Last(ran'[t]).cpu = b
    BY <2>2, <2>4 DEF IsOver
  <2> QED BY <2>2, <2>4, <2>5, <2>6, <2>7 DEF IsOver
<1>8. ASSUME done, NEW t, t = runs[c], NEW time, time = now
      PROVE  IsOver(t, c, time)' /\ t \in TaskIds
  <2>1. t # 0 /\ t # next /\ t \in completed'
    BY <1>6, <1>8
  <2>2. /\ t \in TaskIds /\ ran'[t] # <<>> /\ Last(ran'[t]).end = time /\ Last(ran'[t]).cpu = c
    BY <1>8, <2>1, RanLeft
  <2>3. \A d \in Cpu : runs'[d] # t
    BY <1>3, <1>8, <2>1 DEF RuntimeOK, ChainOK
  <2>4. \A d \in Cpu : \A l \in DOMAIN schedules'[d] :
          Point(d, l)'.next = t => Point(d, l)'.timestamp < time
    BY <1>3, <1>4, <1>5, <1>8, <2>1
  <2> QED BY <2>1, <2>2, <2>3, <2>4 DEF IsOver
<1>9. ASSUME NEW b \in Cpu, NEW k \in DOMAIN schedules'[b], Point(b, k)'.complete
      PROVE  IsOver(Point(b, k).prior, b, Point(b, k).timestamp)'
  <2>1. PICK t : t = Point(b, k)'.prior
    OBVIOUS
  <2>2. PICK time : time = Point(b, k)'.timestamp
    OBVIOUS
  <2>3. IsOver(t, b, time)'
    <3>1. CASE k \in DOMAIN schedules[b]
      <4>1. Point(b, k).complete /\ t = Point(b, k).prior /\ time = Point(b, k).timestamp
        BY <1>4, <1>9, <2>1, <2>2, <3>1
      <4> QED BY <1>7, <3>1, <4>1
    <3>2. CASE b = c /\ k = n + 1
      <4>1. Point(b, k)' = e
        BY <1>5, <3>2
      <4>2. done /\ t = runs[c] /\ time = now
        BY <1>3, <1>9, <2>1, <2>2, <4>1
      <4> QED BY <1>8, <3>2, <4>2
    <3> QED BY <1>4, <3>1, <3>2
  <2> QED BY <2>1, <2>2, <2>3
<1>10. ASSUME NEW t \in completed'
       PROVE  \E b \in Cpu : \E k \in DOMAIN schedules'[b] :
                Point(b, k)'.complete /\ Point(b, k)'.prior = t
  <2>1. CASE t \in completed
    <3>1. PICK b \in Cpu : \E k \in DOMAIN schedules[b] : Point(b, k).complete /\ Point(b, k).prior = t
      BY <2>1 DEF RuntimeOK, CompleteOK
    <3>2. PICK k \in DOMAIN schedules[b] : Point(b, k).complete /\ Point(b, k).prior = t
      BY <3>1
    <3> QED BY <1>4, <3>2
  <2>2. CASE done /\ t = runs[c]
    <3>1. e.complete /\ e.prior = t
      BY <1>3, <2>2
    <3> QED BY <1>4, <1>5, <3>1
  <2> QED BY <1>6, <2>1, <2>2
<1>11. completed' \subseteq TaskIds
  BY <1>6, <1>8 DEF RuntimeOK, RuntimeType
<1> QED BY <1>9, <1>10, <1>11 DEF CompleteOK

(* A scheduling point keeps what is known of the program.                  *)
LEMMA PointKeeps ==
  ASSUME RuntimeOK, NEW c \in Cpu, SchedulingPoint(c)
  PROVE  RuntimeOK'
<1>1. PICK next, done : Goes(c, next, done)
  BY PointGoes
<1>2. TimesOK' /\ ChainOK' /\ RanOK' /\ CompleteOK'
  BY <1>1, TimesGoOn, ChainGoesOn, RanGoesOn, CompleteGoesOn
<1>3. schedules' \in [Cpu -> Seq(SchedulePoint)]
  <2>1. PICK e : e = [timestamp |-> now, prior |-> runs[c], next |-> next, complete |-> done]
    OBVIOUS
  <2>2. e \in SchedulePoint /\ AddsPoint(c, e) /\ RuntimeType
    BY <1>1, <2>1, GoesOnly
  <2> QED BY <2>2, PointAdded
<1>4. ran' \in [TaskIds -> Seq(TaskRun)] /\ completed' \subseteq TaskIds
  BY <1>1, RanGoesOn, CompleteGoesOn
<1>5. now' \in Nat \ {0} /\ creates' = creates
  BY <1>1 DEF Goes, RuntimeOK, RuntimeType
<1>6. runs' \in [Cpu -> NoTask]
  BY <1>1, GoesPoint DEF Goes, RuntimeOK, RuntimeType
<1>7. RuntimeType'
  BY <1>3, <1>4, <1>5, <1>6 DEF RuntimeOK, RuntimeType
<1> QED BY <1>2, <1>7 DEF RuntimeOK

-----------------------------------------------------------------------------
(* Going through the events                                                *)

(* After the event at hand, that one and those behind are behind.          *)
GoesThrough(log) ==
  \A c \in Cpu : \A k \in DOMAIN log[c] :
    Behind(at', c, k) <=> Behind(at, c, k) \/ (c = at.cpu /\ k = at.next)
AtTheEnd(log) ==
  \A c \in Cpu : \A k \in DOMAIN log[c] : Behind(at, c, k) \/ (c = at.cpu /\ k = at.next)

LEMMA FirstIsFirst ==
  /\ FirstEvent \in Positions
  /\ \A c \in Cpu, k \in Nat \ {0} : ~Behind(FirstEvent, c, k)
BY TasksAssumption DEF FirstEvent, Positions, Behind, Sooner, Cpu

LEMMA FirstOf ==
  ASSUME NEW S, NEW log \in [Cpu -> Seq(S)]
  PROVE  AtOK(FirstEvent, log)
<1>1. 1 \in Cpu
  BY TasksAssumption DEF Cpu
<1>2. log[1] \in Seq(S)
  BY <1>1
<1>3. Len(log[1]) \in Nat /\ (log[1] # <<>> => Len(log[1]) # 0)
  BY <1>2, LenProperties, EmptySeq
<1>4. FirstEvent \in Positions /\ FirstEvent.next = 1 /\ FirstEvent.cpu = 1
  BY FirstIsFirst DEF FirstEvent
<1> QED BY <1>3, <1>4 DEF AtOK

LEMMA AdvanceRight ==
  ASSUME NEW S, NEW log \in [Cpu -> Seq(S)], NEW next, AtOK(at, log), Advance(log, next)
  PROVE  \/ taskPhase' = taskPhase /\ AtOK(at', log) /\ GoesThrough(log)
         \/ taskPhase' = next /\ at' = FirstEvent /\ AtTheEnd(log)
<1>1. PICK a : a = at.cpu
  OBVIOUS
<1>2. PICK n : n = at.next
  OBVIOUS
<1>3. at \in Positions /\ a \in Cpu /\ n \in Nat \ {0} /\ a \in Nat \ {0}
  BY <1>1, <1>2 DEF AtOK, Positions, Cpu
<1>4. \A c \in Cpu : /\ log[c] \in Seq(S) /\ Len(log[c]) \in Nat
                     /\ DOMAIN log[c] = 1 .. Len(log[c]) /\ (log[c] # <<>> => Len(log[c]) # 0)
                     /\ (log[c] = <<>> => DOMAIN log[c] = {})
  <2> SUFFICES ASSUME NEW c \in Cpu
               PROVE  /\ log[c] \in Seq(S) /\ Len(log[c]) \in Nat
                      /\ DOMAIN log[c] = 1 .. Len(log[c]) /\ (log[c] # <<>> => Len(log[c]) # 0)
                      /\ (log[c] = <<>> => DOMAIN log[c] = {})
    OBVIOUS
  <2>1. log[c] \in Seq(S)
    OBVIOUS
  <2>2. Len(log[c]) \in Nat /\ DOMAIN log[c] = 1 .. Len(log[c])
    BY <2>1, LenProperties
  <2>3. log[c] = <<>> <=> Len(log[c]) = 0
    BY <2>1, EmptySeq
  <2> QED BY <2>1, <2>2, <2>3
<1>5. CASE n < Len(log[a])
  <2>1. at' = [at EXCEPT !.next = @ + 1] /\ taskPhase' = taskPhase
    BY <1>1, <1>2, <1>5 DEF Advance
  <2>2. at' \in Positions /\ at'.cpu = a /\ at'.next = n + 1
    BY <1>1, <1>2, <1>3, <2>1 DEF Positions
  <2>3. AtOK(at', log)
    BY <1>3, <1>4, <1>5, <2>2 DEF AtOK
  <2>4. ASSUME NEW c \in Cpu, NEW k \in DOMAIN log[c]
        PROVE  Behind(at', c, k) <=> Behind(at, c, k) \/ (c = at.cpu /\ k = at.next)
    <3>1. k \in Nat /\ c \in Nat
      BY <1>4 DEF Cpu
    <3> QED BY <1>1, <1>2, <1>3, <2>2, <3>1 DEF Behind, Sooner
  <2> QED BY <2>1, <2>3, <2>4 DEF GoesThrough
<1>6. CASE ~(n < Len(log[a]))
  <2> DEFINE Later == {c \in a + 1 .. NumCpus : log[c] # <<>>}
  <2>1. ASSUME NEW c \in Cpu, NEW k \in DOMAIN log[c], c <= a
        PROVE  Behind(at, c, k) \/ (c = at.cpu /\ k = at.next)
    <3>1. k \in 1 .. Len(log[c]) /\ Len(log[c]) \in Nat /\ c \in Nat
      BY <1>4 DEF Cpu
    <3>2. CASE c < a
      BY <1>1, <3>2 DEF Behind, Sooner
    <3>3. CASE c = a
      <4>1. k <= n
        BY <1>3, <1>6, <3>1, <3>3
      <4> QED BY <1>1, <1>2, <1>3, <3>1, <3>3, <4>1 DEF Behind, Sooner
    <3> QED BY <1>3, <2>1, <3>1, <3>2, <3>3
  <2>2. CASE Later = {}
    <3>1. at' = FirstEvent /\ taskPhase' = next
      BY <1>1, <1>2, <1>6, <2>2 DEF Advance, FirstEvent
    <3>2. ASSUME NEW c \in Cpu, NEW k \in DOMAIN log[c]
          PROVE  c <= a
      <4>1. log[c] # <<>> /\ c \in Nat /\ c <= NumCpus /\ NumCpus \in Nat
        BY <1>4, <3>2, TasksAssumption DEF Cpu
      <4>2. c \notin a + 1 .. NumCpus
        BY <2>2, <4>1
      <4> QED BY <1>3, <4>1, <4>2
    <3> QED BY <2>1, <3>1, <3>2 DEF AtTheEnd
  <2>3. CASE Later # {}
    <3> DEFINE IsNext(c) == log[c] # <<>> /\ \A d \in a + 1 .. c - 1 : log[d] = <<>>
    <3>1. PICK b : b = CHOOSE c \in a + 1 .. NumCpus : IsNext(c)
      OBVIOUS
    <3>2. at' = [cpu |-> b, next |-> 1] /\ taskPhase' = taskPhase
      <4>1. \E c \in a + 1 .. NumCpus : log[c] # <<>>
        BY <2>3
      <4> QED BY <1>1, <1>2, <1>6, <3>1, <4>1 DEF Advance
    <3>3. b \in a + 1 .. NumCpus /\ IsNext(b)
      <4>1. Later \in SUBSET Nat
        BY <1>3, TasksAssumption
      <4>2. PICK m \in Later : \A c \in Later : m <= c
        <5> HIDE DEF Later
        <5> QED BY <2>3, <4>1, LeastNumber
      <4>3. ASSUME NEW d \in a + 1 .. m - 1
            PROVE  log[d] = <<>>
        <5>1. m \in Nat /\ m <= NumCpus /\ NumCpus \in Nat
          BY <1>3, <4>2, TasksAssumption
        <5>2. d \in a + 1 .. NumCpus /\ ~(m <= d)
          BY <1>3, <5>1
        <5> QED BY <4>2, <5>2
      <4>4. m \in a + 1 .. NumCpus /\ IsNext(m)
        BY <4>2, <4>3
      <4> HIDE DEF IsNext
      <4> QED BY <3>1, <4>4
    <3>4. b \in Cpu /\ b \in Nat /\ a < b
      BY <1>3, <3>3, TasksAssumption DEF Cpu
    <3>5. at' \in Positions /\ at'.cpu = b /\ at'.next = 1
      BY <3>2, <3>4 DEF Positions
    <3>6. AtOK(at', log)
      <4>1. Len(log[b]) \in Nat /\ Len(log[b]) # 0
        BY <1>4, <3>3, <3>4
      <4> QED BY <3>5, <4>1 DEF AtOK
    <3>7. ASSUME NEW c \in Cpu, NEW k \in DOMAIN log[c]
          PROVE  Behind(at', c, k) <=> Behind(at, c, k) \/ (c = at.cpu /\ k = at.next)
      <4>1. k \in Nat \ {0} /\ c \in Nat
        BY <1>4 DEF Cpu
      <4>2. Behind(at', c, k) <=> c < b
        BY <3>4, <3>5, <4>1 DEF Behind, Sooner
      <4>3. CASE c <= a
        BY <1>3, <2>1, <3>4, <4>1, <4>2, <4>3
      <4>4. CASE a < c
        <5>1. ~(c < b)
          <6> SUFFICES ASSUME c < b PROVE FALSE
            OBVIOUS
          <6>1. c \in a + 1 .. b - 1
            BY <1>3, <3>4, <4>1, <4>4
          <6>2. log[c] = <<>>
            BY <3>3, <6>1
          <6> QED BY <1>4, <6>2
        <5>2. ~(Behind(at, c, k) \/ (c = at.cpu /\ k = at.next))
          BY <1>1, <1>3, <4>1, <4>4 DEF Behind, Sooner
        <5> QED BY <4>2, <5>1, <5>2
      <4> QED BY <1>3, <4>1, <4>3, <4>4
    <3> QED BY <3>2, <3>6, <3>7 DEF GoesThrough
  <2> QED BY <2>2, <2>3
<1> QED BY <1>5, <1>6

LEMMA ProcessedNext ==
  ASSUME RuntimeType, taskPhase = "schedule", AtOK(at, schedules), UNCHANGED schedules,
         Advance(schedules, "done")
  PROVE  /\ taskPhase' \in {"schedule", "done"}
         /\ taskPhase' = "schedule" => AtOK(at, schedules)'
         /\ \A c \in Cpu : \A k :
              Processed(c, k)' <=> \/ Processed(c, k)
                                   \/ c = at.cpu /\ k = at.next /\ k \in DOMAIN schedules[c]
<1>1. \/ taskPhase' = taskPhase /\ AtOK(at', schedules) /\ GoesThrough(schedules)
      \/ taskPhase' = "done" /\ AtTheEnd(schedules)
  BY AdvanceRight DEF RuntimeType
<1>2. CASE taskPhase' = taskPhase /\ AtOK(at', schedules) /\ GoesThrough(schedules)
  <2>1. AtOK(at, schedules)'
    BY <1>2 DEF AtOK
  <2>2. ASSUME NEW c \in Cpu, NEW k
        PROVE  Processed(c, k)' <=> \/ Processed(c, k)
                                    \/ c = at.cpu /\ k = at.next /\ k \in DOMAIN schedules[c]
    <3>1. k \in DOMAIN schedules[c] =>
            (Behind(at', c, k) <=> Behind(at, c, k) \/ (c = at.cpu /\ k = at.next))
      BY <1>2 DEF GoesThrough
    <3>2. Processed(c, k)' <=> k \in DOMAIN schedules[c] /\ Behind(at', c, k)
      BY <1>2 DEF Processed, Behind
    <3>3. Processed(c, k) <=> k \in DOMAIN schedules[c] /\ Behind(at, c, k)
      BY DEF Processed
    <3> QED BY <3>1, <3>2, <3>3
  <2> QED BY <1>2, <2>1, <2>2
<1>3. CASE taskPhase' = "done" /\ AtTheEnd(schedules)
  <2>1. ASSUME NEW c \in Cpu, NEW k
        PROVE  Processed(c, k)' <=> \/ Processed(c, k)
                                    \/ c = at.cpu /\ k = at.next /\ k \in DOMAIN schedules[c]
    <3>1. k \in DOMAIN schedules[c] => Behind(at, c, k) \/ (c = at.cpu /\ k = at.next)
      BY <1>3 DEF AtTheEnd
    <3>2. Processed(c, k)' <=> k \in DOMAIN schedules[c]
      BY <1>3 DEF Processed
    <3>3. Processed(c, k) <=> k \in DOMAIN schedules[c] /\ Behind(at, c, k)
      BY DEF Processed
    <3> QED BY <3>1, <3>2, <3>3
  <2> QED BY <1>3, <2>1
<1> QED BY <1>1, <1>2, <1>3

(* What has been found does not change when no other point is processed.   *)
SameProcessed == \A c \in Cpu : \A k : Processed(c, k)' <=> Processed(c, k)

LEMMA FoundKept ==
  ASSUME CollectedOK, WrittenOK, UNCHANGED <<ran, schedules, periodVars>>, SameProcessed
  PROVE  CollectedOK' /\ WrittenOK'
<1>1. /\ ran' = ran /\ schedules' = schedules /\ collected' = collected /\ taskPeriods' = taskPeriods
      /\ firstStart' = firstStart /\ lastEnd' = lastEnd
  BY DEF periodVars
<1>2. \A c, k : Point(c, k)' = Point(c, k)
  BY <1>1 DEF Point
<1>3. \A p, q : Before(p, q)' <=> Before(p, q)
  BY <1>1 DEF Before, Point
<1>4. \A t : CollectedFor(t)' = CollectedFor(t)
  BY <1>1 DEF CollectedFor
<1>5. \A c \in Cpu : \A k : KnownRun(c, k)' = KnownRun(c, k)
  BY <1>2 DEF KnownRun, KnownEnd, SameProcessed
<1>6. ASSUME NEW t, NEW s
      PROVE  CollectedRight(t, s)' <=> CollectedRight(t, s)
  BY <1>1, <1>2, <1>3, <1>5 DEF CollectedRight, SameProcessed
<1>7. CollectedOK'
  BY <1>1, <1>4, <1>6 DEF CollectedOK
<1>8. \A t : \A c \in Cpu : \A k : Finished(t, c, k)' <=> Finished(t, c, k)
  BY <1>2 DEF Finished, SameProcessed
<1>9. \A t, c, s : FirstOn(t, c, s)' <=> FirstOn(t, c, s)
  BY <1>1 DEF FirstOn, Point
<1>10. /\ Places' = Places /\ \A p : TaskPeriod(p)' = TaskPeriod(p)
       /\ \A t : PlacesOf(t)' = PlacesOf(t) /\ PeriodsOf(t)' = PeriodsOf(t)
       /\ \A t, c : RunsUpTo(t, c)' = RunsUpTo(t, c)
  BY <1>1 DEF Places, TaskPeriod, PlacesOf, PeriodsOf, RunsUpTo
<1>11. ASSUME NEW t, NEW c, NEW time
       PROVE  WrittenRight(t, c, time)' <=> WrittenRight(t, c, time)
  BY <1>1, <1>3, <1>9, <1>10 DEF WrittenRight
<1>12. WrittenOK'
  <2>1. taskPeriods' \in [Cpu -> Seq([task : TaskIds, period : KeptRuns])]
    BY <1>1 DEF WrittenOK
  <2>2. ASSUME NEW p \in Places'
        PROVE  \E k \in DOMAIN schedules'[p[1]] : Finished(TaskPeriod(p).task, p[1], k)'
    <3>1. p \in Places /\ p[1] \in Cpu
      BY <1>10, <2>2 DEF Places
    <3>2. PICK k \in DOMAIN schedules[p[1]] : Finished(TaskPeriod(p).task, p[1], k)
      BY <3>1 DEF WrittenOK
    <3>3. PICK t : t = TaskPeriod(p).task
      OBVIOUS
    <3>4. Finished(t, p[1], k)' /\ TaskPeriod(p)'.task = t
      BY <1>8, <1>10, <3>1, <3>2, <3>3
    <3> QED BY <1>1, <3>4
  <2>3. ASSUME NEW c \in Cpu, NEW k \in DOMAIN schedules'[c], NEW t \in TaskIds, Finished(t, c, k)'
        PROVE  WrittenRight(t, c, Point(c, k).timestamp)'
    <3>1. k \in DOMAIN schedules[c] /\ Finished(t, c, k)
      BY <1>1, <1>8, <2>3
    <3>2. PICK time : time = Point(c, k).timestamp
      OBVIOUS
    <3>3. WrittenRight(t, c, time)' /\ Point(c, k)'.timestamp = time
      BY <1>2, <1>11, <3>1, <3>2 DEF WrittenOK
    <3> QED BY <3>3
  <2> QED BY <2>1, <2>2, <2>3 DEF WrittenOK
<1> QED BY <1>7, <1>12

(* Nothing is found before scheduling points are processed.                *)
LEMMA NothingProcessed ==
  ASSUME TaskInv, taskPhase \in {"execution", "create"}
  PROVE  /\ DOMAIN collected = {} /\ Places = {}
         /\ \A c, k : ~Processed(c, k)
<1>1. \A c, k : ~Processed(c, k)
  BY DEF Processed
<1>2. ASSUME NEW t \in DOMAIN collected
      PROVE  FALSE
  <2>1. /\ t \in TaskIds /\ collected[t] # <<>> /\ CollectedFor(t) = collected[t]
        /\ CollectedRight(t, CollectedFor(t))
    BY DEF TaskInv, CollectedOK, CollectedFor
  <2>2. collected[t] \in Seq(KeptRuns)
    BY <2>1 DEF CollectedRight
  <2>3. 1 \in DOMAIN collected[t]
    BY <2>1, <2>2, LenProperties, EmptySeq
  <2> QED BY <1>1, <2>1, <2>3 DEF CollectedRight
<1>3. ASSUME NEW p \in Places
      PROVE  FALSE
  BY <1>1 DEF TaskInv, WrittenOK, Finished
<1> QED BY <1>1, <1>2, <1>3

LEMMA NothingFound ==
  ASSUME TaskInv, taskPhase = "execution", taskPhase' = "execution", UNCHANGED periodVars
  PROVE  CollectedOK' /\ WrittenOK'
<1>1. /\ DOMAIN collected = {} /\ Places = {}
      /\ collected' = collected /\ taskPeriods' = taskPeriods
  BY NothingProcessed DEF periodVars
<1>2. \A c, k : ~Processed(c, k)'
  BY DEF Processed
<1>3. CollectedOK'
  <2>1. \A t : CollectedFor(t)' = <<>>
    BY <1>1 DEF CollectedFor
  <2>2. <<>> \in Seq(KeptRuns) /\ DOMAIN <<>> = {}
    BY EmptySeq, LenProperties
  <2>3. \A t : CollectedRight(t, <<>>)'
    BY <1>2, <2>2 DEF CollectedRight
  <2> QED BY <1>1, <2>1, <2>3 DEF CollectedOK
<1>4. WrittenOK'
  <2>1. taskPeriods' \in [Cpu -> Seq([task : TaskIds, period : KeptRuns])]
    BY <1>1 DEF TaskInv, WrittenOK
  <2>2. Places' = {}
    BY <1>1 DEF Places
  <2>3. \A t, c, k : ~Finished(t, c, k)'
    BY <1>2 DEF Finished
  <2> QED BY <2>1, <2>2, <2>3 DEF WrittenOK
<1> QED BY <1>3, <1>4

(* What is known of the program does not depend on anything else.          *)
LEMMA RuntimeKept ==
  ASSUME RuntimeOK, UNCHANGED runtimeVars
  PROVE  RuntimeOK' /\ Created' = Created /\ UNCHANGED <<ran, schedules, creates>>
<1>1. /\ now' = now /\ runs' = runs /\ ran' = ran /\ completed' = completed
      /\ creates' = creates /\ schedules' = schedules
  BY DEF runtimeVars
<1>2. /\ \A c, k : Point(c, k)' = Point(c, k) /\ RunAt(c, k)' = RunAt(c, k)
      /\ Created' = Created
  BY <1>1 DEF Point, RunAt, EndOf, Created
<1>3. RuntimeType' /\ TimesOK' /\ ChainOK'
  BY <1>1, <1>2 DEF RuntimeOK, RuntimeType, TimesOK, ChainOK
<1>4. RanOK'
  BY <1>1, <1>2 DEF RuntimeOK, RanOK, RanRight
<1>5. CompleteOK'
  <2>1. \A t, c, time : IsOver(t, c, time)' <=> IsOver(t, c, time)
    BY <1>1, <1>2 DEF IsOver
  <2> QED BY <1>1, <1>2, <2>1 DEF RuntimeOK, CompleteOK
<1> QED BY <1>1, <1>2, <1>3, <1>4, <1>5 DEF RuntimeOK

LEMMA CreateTaskRight ==
  ASSUME TaskInv, NEW c \in Cpu, CreateTask(c)
  PROVE  TaskInv'
<1>1. PICK code \in TaskCode, t \in TaskIds :
        creates' = [creates EXCEPT ![c] = Append(@, [codeptr |-> code, id |-> t])]
  BY DEF CreateTask
<1>2. /\ now' = now /\ runs' = runs /\ ran' = ran /\ completed' = completed
      /\ schedules' = schedules /\ at' = at
      /\ taskPhase = "execution" /\ taskPhase' = "execution" /\ UNCHANGED periodVars
  BY DEF CreateTask
<1>3. PICK e : e = [codeptr |-> code, id |-> t]
  OBVIOUS
<1>4. RuntimeOK /\ creates[c] \in Seq(TaskCreate) /\ creates \in [Cpu -> Seq(TaskCreate)] /\ e \in TaskCreate
  BY <1>3 DEF TaskInv, RuntimeOK, RuntimeType, TaskCreate
<1>5. /\ Append(creates[c], e) \in Seq(TaskCreate)
      /\ \A k \in DOMAIN creates[c] :
           k \in DOMAIN Append(creates[c], e) /\ Append(creates[c], e)[k] = creates[c][k]
  <2>1. /\ Len(creates[c]) \in Nat /\ DOMAIN creates[c] = 1 .. Len(creates[c])
        /\ Append(creates[c], e) \in Seq(TaskCreate)
        /\ DOMAIN Append(creates[c], e) = 1 .. Len(creates[c]) + 1
        /\ \A k \in 1 .. Len(creates[c]) : Append(creates[c], e)[k] = creates[c][k]
    BY <1>4, Appended
  <2> QED BY <2>1
<1>6. creates' = [creates EXCEPT ![c] = Append(creates[c], e)]
  BY <1>1, <1>3
<1>7. creates' \in [Cpu -> Seq(TaskCreate)]
  BY <1>4, <1>5, <1>6
<1>8. \A d \in Cpu : \A k \in DOMAIN creates[d] :
        k \in DOMAIN creates'[d] /\ creates'[d][k] = creates[d][k]
  BY <1>4, <1>5, <1>6
<1>9. Created \subseteq Created'
  BY <1>8 DEF Created
<1>10. \A b, k : Point(b, k)' = Point(b, k) /\ RunAt(b, k)' = RunAt(b, k)
  BY <1>2 DEF Point, RunAt, EndOf
<1>11. RuntimeType' /\ TimesOK'
  <2>1. RuntimeType'
    BY <1>2, <1>4, <1>7 DEF RuntimeOK, RuntimeType
  <2>2. TimesOK'
    BY <1>2, <1>4, <1>10 DEF RuntimeOK, TimesOK
  <2> QED BY <2>1, <2>2
<1>12. ChainOK'
  BY <1>2, <1>4, <1>9, <1>10 DEF RuntimeOK, ChainOK
<1>13. RanOK'
  BY <1>2, <1>4, <1>10 DEF RuntimeOK, RanOK, RanRight
<1>14. CompleteOK'
  <2>1. \A u, b, time : IsOver(u, b, time)' <=> IsOver(u, b, time)
    BY <1>2, <1>10 DEF IsOver
  <2> QED BY <1>2, <1>4, <1>10, <2>1 DEF RuntimeOK, CompleteOK
<1>15. CollectedOK' /\ WrittenOK'
  BY <1>2, NothingFound
<1>16. at' = FirstEvent /\ InstancesOK'
  BY <1>2 DEF TaskInv, InstancesOK
<1> QED BY <1>2, <1>11, <1>12, <1>13, <1>14, <1>15, <1>16 DEF TaskInv, RuntimeOK

LEMMA SchedulingPointRight ==
  ASSUME TaskInv, NEW c \in Cpu, SchedulingPoint(c)
  PROVE  TaskInv'
<1>1. /\ taskPhase = "execution" /\ taskPhase' = "execution" /\ at' = at /\ UNCHANGED periodVars
  BY DEF SchedulingPoint
<1>2. RuntimeOK'
  BY PointKeeps DEF TaskInv
<1>3. CollectedOK' /\ WrittenOK'
  BY <1>1, NothingFound
<1>4. at' = FirstEvent /\ InstancesOK'
  BY <1>1 DEF TaskInv, InstancesOK
<1> QED BY <1>1, <1>2, <1>3, <1>4 DEF TaskInv

LEMMA EndExecutionRight ==
  ASSUME TaskInv, EndExecution
  PROVE  TaskInv'
<1>1. /\ taskPhase = "execution" /\ taskPhase' = "create" /\ at' = at /\ UNCHANGED runtimeVars
      /\ UNCHANGED periodVars /\ UNCHANGED foundVars
  BY DEF EndExecution
<1>2. RuntimeOK' /\ UNCHANGED <<ran, schedules, creates>>
  BY <1>1, RuntimeKept DEF TaskInv
<1>3. SameProcessed
  BY <1>1 DEF SameProcessed, Processed
<1>4. CollectedOK' /\ WrittenOK'
  BY <1>1, <1>2, <1>3, FoundKept DEF TaskInv
<1>5. AtOK(at, creates)'
  <2>1. at' = FirstEvent /\ creates' = creates /\ creates \in [Cpu -> Seq(TaskCreate)]
    BY <1>1, <1>2 DEF TaskInv, RuntimeOK, RuntimeType
  <2>2. AtOK(FirstEvent, creates)
    BY <2>1, FirstOf
  <2> QED BY <2>1, <2>2 DEF AtOK
<1>6. InstancesOK'
  <2>1. ASSUME NEW c \in Cpu, NEW k \in DOMAIN creates'[c]
        PROVE  ~Behind(at, c, k)'
    <3>1. creates[c] \in Seq(TaskCreate) /\ creates' = creates /\ at' = FirstEvent
      BY <1>1, <1>2 DEF TaskInv, RuntimeOK, RuntimeType
    <3>2. k \in Nat \ {0}
      BY <2>1, <3>1, LenProperties
    <3> QED BY <3>1, <3>2, FirstIsFirst DEF Behind
  <2> QED BY <1>1, <2>1 DEF InstancesOK
<1> QED BY <1>1, <1>2, <1>4, <1>5, <1>6 DEF TaskInv

(* The event at hand of those that create tasks has been processed.        *)
LEMMA CreatesGoOn ==
  ASSUME TaskInv, taskPhase = "create", Advance(creates, "schedule"),
         UNCHANGED runtimeVars, UNCHANGED periodVars,
         DOMAIN instances \subseteq DOMAIN instances',
         at.next \in DOMAIN creates[at.cpu] =>
           creates[at.cpu][at.next].id \in DOMAIN instances'
  PROVE  TaskInv'
<1>1. RuntimeOK' /\ Created' = Created /\ ran' = ran /\ schedules' = schedules /\ creates' = creates
  BY RuntimeKept DEF TaskInv
<1>2. creates \in [Cpu -> Seq(TaskCreate)] /\ schedules \in [Cpu -> Seq(SchedulePoint)]
  BY DEF TaskInv, RuntimeOK, RuntimeType
<1>3. \A c \in Cpu : \A k \in DOMAIN creates[c] :
        Behind(at, c, k) => creates[c][k].id \in DOMAIN instances
  BY DEF TaskInv, InstancesOK
<1>4. \/ taskPhase' = taskPhase /\ AtOK(at', creates) /\ GoesThrough(creates)
      \/ taskPhase' = "schedule" /\ at' = FirstEvent /\ AtTheEnd(creates)
  BY <1>2, AdvanceRight DEF TaskInv
<1>5. CASE taskPhase' = taskPhase /\ AtOK(at', creates) /\ GoesThrough(creates)
  <2>1. SameProcessed
    BY <1>5 DEF SameProcessed, Processed
  <2>2. CollectedOK' /\ WrittenOK'
    BY <1>1, <2>1, FoundKept DEF TaskInv
  <2>3. AtOK(at, creates)'
    BY <1>1, <1>5 DEF AtOK
  <2>4. ASSUME NEW c \in Cpu, NEW k \in DOMAIN creates[c], Behind(at', c, k)
        PROVE  creates[c][k].id \in DOMAIN instances'
    <3>1. Behind(at, c, k) \/ (c = at.cpu /\ k = at.next)
      BY <1>5, <2>4 DEF GoesThrough
    <3> QED BY <1>3, <3>1
  <2>5. InstancesOK'
    BY <1>1, <1>5, <2>4 DEF InstancesOK, Behind
  <2> QED BY <1>1, <1>5, <2>2, <2>3, <2>5 DEF TaskInv
<1>6. CASE taskPhase' = "schedule" /\ at' = FirstEvent /\ AtTheEnd(creates)
  <2>1. SameProcessed
    <3>1. ASSUME NEW c \in Cpu, NEW k
          PROVE  ~Processed(c, k)'
      <4> SUFFICES ASSUME k \in DOMAIN schedules[c] PROVE ~Behind(FirstEvent, c, k)
        BY <1>1, <1>6 DEF Processed, Behind
      <4>1. schedules[c] \in Seq(SchedulePoint)
        BY <1>2
      <4>2. k \in Nat \ {0}
        BY <4>1, LenProperties
      <4> QED BY <4>2, FirstIsFirst
    <3>2. \A c, k : ~Processed(c, k)
      BY NothingProcessed
    <3> QED BY <3>1, <3>2 DEF SameProcessed
  <2>2. CollectedOK' /\ WrittenOK'
    BY <1>1, <2>1, FoundKept DEF TaskInv
  <2>3. AtOK(at, schedules)'
    <3>1. AtOK(FirstEvent, schedules)
      BY <1>2, FirstOf
    <3> QED BY <1>1, <1>6, <3>1 DEF AtOK
  <2>4. ASSUME NEW c \in Cpu, NEW k \in DOMAIN creates[c]
        PROVE  creates[c][k].id \in DOMAIN instances'
    <3>1. Behind(at, c, k) \/ (c = at.cpu /\ k = at.next)
      BY <1>6 DEF AtTheEnd
    <3> QED BY <1>3, <3>1
  <2>5. Created \subseteq DOMAIN instances'
    BY <2>4 DEF Created
  <2>6. InstancesOK'
    BY <1>1, <1>6, <2>5 DEF InstancesOK
  <2> QED BY <1>1, <1>6, <2>2, <2>3, <2>6 DEF TaskInv
<1> QED BY <1>4, <1>5, <1>6

LEMMA SkipCreatesRight ==
  ASSUME TaskInv, SkipEmpty(creates, "create", "schedule")
  PROVE  TaskInv'
<1>1. /\ taskPhase = "create" /\ Advance(creates, "schedule") /\ ~HasEvent(creates)
      /\ UNCHANGED runtimeVars /\ UNCHANGED periodVars /\ instances' = instances
  BY DEF SkipEmpty, foundVars
<1>2. at.next \notin DOMAIN creates[at.cpu]
  <2>1. at \in Positions /\ creates \in [Cpu -> Seq(TaskCreate)]
    BY <1>1 DEF TaskInv, AtOK, RuntimeOK, RuntimeType
  <2>2. creates[at.cpu] \in Seq(TaskCreate)
    BY <2>1 DEF Positions
  <2>3. DOMAIN creates[at.cpu] = 1 .. Len(creates[at.cpu]) /\ Len(creates[at.cpu]) \in Nat
    BY <2>2, LenProperties
  <2> QED BY <1>1, <2>3 DEF HasEvent
<1> QED BY <1>1, <1>2, CreatesGoOn

LEMMA LiftTaskRight ==
  ASSUME TaskInv, LiftTask
  PROVE  TaskInv'
<1>1. PICK e : e = creates[at.cpu][at.next]
  OBVIOUS
<1>2. /\ taskPhase = "create" /\ Advance(creates, "schedule")
      /\ UNCHANGED runtimeVars /\ UNCHANGED periodVars
      /\ DOMAIN instances' = DOMAIN instances \cup {e.id}
  BY <1>1 DEF LiftTask
<1> QED BY <1>1, <1>2, CreatesGoOn

LEMMA SkipSchedulesRight ==
  ASSUME TaskInv, SkipEmpty(schedules, "schedule", "done")
  PROVE  TaskInv'
<1>1. /\ taskPhase = "schedule" /\ Advance(schedules, "done") /\ ~HasEvent(schedules)
      /\ UNCHANGED runtimeVars /\ UNCHANGED periodVars /\ instances' = instances
  BY DEF SkipEmpty, foundVars
<1>2. RuntimeOK' /\ Created' = Created /\ ran' = ran /\ schedules' = schedules
  BY <1>1, RuntimeKept DEF TaskInv
<1>3. at.next \notin DOMAIN schedules[at.cpu]
  <2>1. at \in Positions /\ schedules \in [Cpu -> Seq(SchedulePoint)]
    BY <1>1 DEF TaskInv, AtOK, RuntimeOK, RuntimeType
  <2>2. schedules[at.cpu] \in Seq(SchedulePoint)
    BY <2>1 DEF Positions
  <2>3. DOMAIN schedules[at.cpu] = 1 .. Len(schedules[at.cpu]) /\ Len(schedules[at.cpu]) \in Nat
    BY <2>2, LenProperties
  <2> QED BY <1>1, <2>3 DEF HasEvent
<1>4. /\ taskPhase' \in {"schedule", "done"}
      /\ taskPhase' = "schedule" => AtOK(at, schedules)'
      /\ \A c \in Cpu : \A k :
           Processed(c, k)' <=> \/ Processed(c, k)
                                \/ c = at.cpu /\ k = at.next /\ k \in DOMAIN schedules[c]
  BY <1>1, <1>2, ProcessedNext DEF TaskInv, RuntimeOK
<1>5. SameProcessed
  BY <1>3, <1>4 DEF SameProcessed
<1>6. CollectedOK' /\ WrittenOK'
  BY <1>1, <1>2, <1>5, FoundKept DEF TaskInv
<1>7. InstancesOK'
  BY <1>1, <1>2, <1>4 DEF TaskInv, InstancesOK
<1> QED BY <1>2, <1>4, <1>6, <1>7 DEF TaskInv

-----------------------------------------------------------------------------
(* A scheduling point is processed                                         *)

(* Point e, number k of CPU c, is at hand, and is then processed.          *)
AtHand(c, k, e) ==
  /\ c \in Cpu /\ k \in DOMAIN schedules[c] /\ k \in Nat \ {0} /\ c = at.cpu /\ k = at.next
  /\ e = Point(c, k) /\ e \in SchedulePoint /\ e.prior # e.next
  /\ e.prior # 0 => k - 1 \in DOMAIN schedules[c]
  /\ k - 1 \in DOMAIN schedules[c] =>
       Point(c, k - 1).next = e.prior /\ Processed(c, k - 1)
  /\ e.next # 0 => e.next \in Created
  /\ UNCHANGED <<schedules, ran, completed>>
  /\ \A d \in Cpu : \A l : Processed(d, l)' <=> Processed(d, l) \/ (d = c /\ l = k)
  /\ \A d \in Cpu : \A l : Processed(d, l) <=> l \in DOMAIN schedules[d] /\ Sooner(d, l, c, k)

LEMMA HandProperties ==
  ASSUME TaskInv, ProcessSchedule, taskPhase' # "exit",
         NEW c, c = at.cpu, NEW k, k = at.next, NEW e, e = schedules[c][k]
  PROVE  AtHand(c, k, e) /\ ~Processed(c, k) /\ RuntimeOK /\ RuntimeOK'
<1>1. /\ taskPhase = "schedule" /\ HasEvent(schedules) /\ UNCHANGED runtimeVars
      /\ Advance(schedules, "done")
  BY DEF ProcessSchedule
<1>2. RuntimeOK /\ AtOK(at, schedules) /\ RuntimeType
  BY <1>1 DEF TaskInv, RuntimeOK
<1>3. RuntimeOK' /\ schedules' = schedules /\ ran' = ran /\ completed' = completed
  BY <1>1, RuntimeKept DEF TaskInv, runtimeVars
<1>4. c \in Cpu /\ k \in Nat \ {0}
  BY <1>2 DEF AtOK, Positions
<1>5. /\ DOMAIN schedules[c] = 1 .. Len(schedules[c]) /\ Len(schedules[c]) \in Nat
      /\ \A l \in DOMAIN schedules[c] : Point(c, l) \in SchedulePoint
  BY <1>2, <1>4, PointTypes
<1>6. k \in DOMAIN schedules[c]
  BY <1>1, <1>4, <1>5 DEF HasEvent
<1>7. e = Point(c, k) /\ e \in SchedulePoint
  BY <1>5, <1>6 DEF Point
<1>8. /\ e.prior # e.next
      /\ e.prior = IF k = 1 THEN 0 ELSE Point(c, k - 1).next
      /\ e.next # 0 => e.next \in Created
  BY <1>2, <1>4, <1>6, <1>7 DEF RuntimeOK, ChainOK
<1>9. /\ e.prior # 0 => k - 1 \in DOMAIN schedules[c]
      /\ k - 1 \in DOMAIN schedules[c] => Point(c, k - 1).next = e.prior
  BY <1>4, <1>5, <1>6, <1>8
<1>10. \A d \in Cpu : \A l : Processed(d, l)' <=> Processed(d, l) \/ (d = c /\ l = k)
  <2>1. \A d \in Cpu : \A l :
          Processed(d, l)' <=> \/ Processed(d, l)
                               \/ d = at.cpu /\ l = at.next /\ l \in DOMAIN schedules[d]
    BY <1>1, <1>2, <1>3, ProcessedNext
  <2> QED BY <1>6, <2>1
<1>11. \A d \in Cpu : \A l : Processed(d, l) <=> l \in DOMAIN schedules[d] /\ Sooner(d, l, c, k)
  BY <1>1 DEF Processed, Behind
<1>12. ~Processed(c, k)
  BY <1>4, <1>11 DEF Sooner, Cpu
<1>13. k - 1 \in DOMAIN schedules[c] => Processed(c, k - 1)
  BY <1>1, <1>4, <1>5 DEF Processed, Behind, Sooner
<1> QED BY <1>2, <1>3, <1>4, <1>6, <1>7, <1>8, <1>9, <1>10, <1>11, <1>12, <1>13 DEF AtHand

(* The end of the period that the point ends becomes known, and the period *)
(* that starts there is found.                                             *)
LEMMA KnownEndNext ==
  ASSUME RuntimeOK, NEW c, NEW k, NEW e, AtHand(c, k, e)
  PROVE  /\ \A d \in Cpu : \A l \in DOMAIN schedules[d] :
              d # c \/ l # k - 1 => KnownRun(d, l)' = KnownRun(d, l)
         /\ k - 1 \in DOMAIN schedules[c] =>
              /\ KnownRun(c, k - 1) = RunOn(InEightBits(c), Point(c, k - 1).timestamp, 0)
              /\ KnownRun(c, k - 1)' =
                   RunOn(InEightBits(c), Point(c, k - 1).timestamp, e.timestamp)
         /\ KnownRun(c, k)' = RunOn(InEightBits(c), e.timestamp, 0)
         /\ \A d \in Cpu : \A l : Point(d, l)' = Point(d, l)
<1>1. \A d \in Cpu : \A l : Point(d, l)' = Point(d, l)
  BY DEF AtHand, Point
<1>2. /\ c \in Cpu /\ k \in Nat \ {0} /\ c \in Nat /\ e = Point(c, k)
      /\ \A d \in Cpu : \A l : Processed(d, l)' <=> Processed(d, l) \/ (d = c /\ l = k)
  BY DEF AtHand, Cpu
<1>3. \A l \in Nat : k <= l => ~Processed(c, l)
  <2> SUFFICES ASSUME NEW l \in Nat, k <= l, Processed(c, l) PROVE FALSE
    OBVIOUS
  <2>1. Sooner(c, l, c, k)
    BY <1>2 DEF AtHand
  <2> QED BY <1>2, <2>1 DEF Sooner
<1>4. ASSUME NEW d \in Cpu, NEW l \in DOMAIN schedules[d], d # c \/ l # k - 1
      PROVE  KnownRun(d, l)' = KnownRun(d, l)
  <2>1. l \in Nat
    BY PointTypes DEF RuntimeOK
  <2>2. ~(d = c /\ l + 1 = k)
    BY <1>2, <1>4, <2>1
  <2>3. Processed(d, l + 1)' <=> Processed(d, l + 1)
    BY <1>2, <2>2
  <2>4. KnownEnd(d, l)' = KnownEnd(d, l)
    BY <1>1, <2>3 DEF KnownEnd
  <2> QED BY <1>1, <2>4 DEF KnownRun
<1>5. ASSUME k - 1 \in DOMAIN schedules[c]
      PROVE  /\ KnownRun(c, k - 1) = RunOn(InEightBits(c), Point(c, k - 1).timestamp, 0)
             /\ KnownRun(c, k - 1)' =
                  RunOn(InEightBits(c), Point(c, k - 1).timestamp, e.timestamp)
  <2>1. (k - 1) + 1 = k
    BY <1>2
  <2>2. KnownEnd(c, k - 1) = 0
    BY <1>2, <1>3, <2>1 DEF KnownEnd
  <2>3. KnownEnd(c, k - 1)' = e.timestamp
    BY <1>1, <1>2, <2>1 DEF KnownEnd
  <2> QED BY <1>1, <1>2, <2>2, <2>3 DEF KnownRun
<1>6. KnownRun(c, k)' = RunOn(InEightBits(c), e.timestamp, 0)
  <2>1. ~Processed(c, k + 1)'
    BY <1>2, <1>3
  <2>2. KnownEnd(c, k)' = 0
    BY <2>1 DEF KnownEnd
  <2> QED BY <1>1, <1>2, <2>2 DEF KnownRun
<1> QED BY <1>1, <1>4, <1>5, <1>6

LEMMA CollectedTypes ==
  ASSUME CollectedOK, NEW t \in TaskIds
  PROVE  /\ CollectedRight(t, CollectedFor(t)) /\ CollectedFor(t) \in Seq(KeptRuns)
         /\ Len(CollectedFor(t)) \in Nat /\ DOMAIN CollectedFor(t) = 1 .. Len(CollectedFor(t))
         /\ \A i \in DOMAIN CollectedFor(t) : CollectedFor(t)[i] \in KeptRuns
         /\ t \in DOMAIN collected => CollectedFor(t) = collected[t]
         /\ t \notin DOMAIN collected => CollectedFor(t) = <<>>
         /\ CollectedFor(t) # <<>> <=> t \in DOMAIN collected
<1>1. CollectedRight(t, CollectedFor(t)) /\ CollectedFor(t) \in Seq(KeptRuns)
  BY DEF CollectedOK, CollectedRight
<1>2. /\ Len(CollectedFor(t)) \in Nat /\ DOMAIN CollectedFor(t) = 1 .. Len(CollectedFor(t))
      /\ \A i \in DOMAIN CollectedFor(t) : CollectedFor(t)[i] \in KeptRuns
  BY <1>1, LenProperties, ElementOfSeq
<1>3. /\ t \in DOMAIN collected => CollectedFor(t) = collected[t] /\ collected[t] # <<>>
      /\ t \notin DOMAIN collected => CollectedFor(t) = <<>>
  BY DEF CollectedFor, CollectedOK
<1> QED BY <1>1, <1>2, <1>3

LEMMA PointAccepted ==
  ASSUME TaskInv, ProcessSchedule
  PROVE  taskPhase' # "exit"
<1>1. PICK e : e = schedules[at.cpu][at.next]
  OBVIOUS
<1>2. PICK c : c = at.cpu
  OBVIOUS
<1>3. PICK k : k = at.next
  OBVIOUS
<1>4. taskPhase = "schedule" /\ HasEvent(schedules)
  BY DEF ProcessSchedule
<1>5. RuntimeOK /\ c \in Cpu /\ k \in Nat \ {0} /\ RuntimeType /\ CollectedOK /\ c \in Nat
  BY <1>2, <1>3, <1>4 DEF TaskInv, AtOK, Positions, RuntimeOK, Cpu
<1>6. /\ DOMAIN schedules[c] = 1 .. Len(schedules[c]) /\ Len(schedules[c]) \in Nat
      /\ \A l \in DOMAIN schedules[c] : Point(c, l).prior \in NoTask
  BY <1>5, PointTypes
<1>7. k \in DOMAIN schedules[c] /\ e = Point(c, k)
  BY <1>1, <1>2, <1>3, <1>4, <1>5, <1>6 DEF HasEvent, Point
<1>8. Created \subseteq DOMAIN instances
  BY <1>4 DEF TaskInv, InstancesOK
<1>9. e.next # 0 => e.next \in DOMAIN instances
  BY <1>5, <1>7, <1>8 DEF RuntimeOK, ChainOK
<1>10. ASSUME e.prior # 0
       PROVE  e.prior \in DOMAIN instances /\ e.prior \in DOMAIN collected
  <2>1. k # 1 /\ Point(c, k - 1).next = e.prior
    BY <1>5, <1>7, <1>10 DEF RuntimeOK, ChainOK
  <2>2. k - 1 \in DOMAIN schedules[c]
    BY <1>5, <1>6, <1>7, <2>1
  <2>3. e.prior \in Created
    BY <1>5, <1>10, <2>1, <2>2 DEF RuntimeOK, ChainOK
  <2>4. Processed(c, k - 1)
    BY <1>2, <1>3, <1>4, <1>5, <2>2 DEF Processed, Behind, Sooner
  <2>5. e.prior \in TaskIds
    BY <1>5, <2>3, CreatedTasks
  <2>6. \E i \in DOMAIN CollectedFor(e.prior) : CollectedFor(e.prior)[i] = KnownRun(c, k - 1)
    BY <1>5, <2>1, <2>2, <2>4, <2>5, CollectedTypes DEF CollectedRight
  <2>7. CollectedFor(e.prior) # <<>>
    BY <1>5, <2>5, <2>6, CollectedTypes, EmptySeq
  <2> QED BY <1>5, <1>8, <2>3, <2>5, <2>7, CollectedTypes
<1>11. Accepted(e)
  BY <1>9, <1>10 DEF Accepted
<1>12. Advance(schedules, "done")
  BY <1>1, <1>11 DEF ProcessSchedule
<1>13. schedules \in [Cpu -> Seq(SchedulePoint)] /\ AtOK(at, schedules)
  BY <1>4, <1>5 DEF RuntimeType, TaskInv
<1>14. taskPhase' = taskPhase \/ taskPhase' = "done"
  BY <1>12, <1>13, AdvanceRight
<1> QED BY <1>4, <1>14

(* The last of the periods ends.                                           *)
Ended(s, time) == [s EXCEPT ![Len(s)].end = time]

LEMMA EndedProperties ==
  ASSUME NEW s \in Seq(KeptRuns), s # <<>>, NEW time \in Nat
  PROVE  /\ Ended(s, time) \in Seq(KeptRuns) /\ Len(Ended(s, time)) = Len(s)
         /\ DOMAIN Ended(s, time) = DOMAIN s /\ Len(s) \in DOMAIN s /\ DOMAIN s = 1 .. Len(s)
         /\ \A i \in DOMAIN s : i # Len(s) => Ended(s, time)[i] = s[i]
         /\ \A i \in DOMAIN s : Ended(s, time)[i].start = s[i].start
         /\ Ended(s, time)[Len(s)] = RunOn(s[Len(s)].cpu, s[Len(s)].start, time)
         /\ Last(Ended(s, time)).end = time
<1>1. PICK n : n = Len(s)
  OBVIOUS
<1>2. n \in Nat \ {0} /\ DOMAIN s = 1 .. n /\ s \in [1 .. n -> KeptRuns] /\ n \in 1 .. n
  BY <1>1, LenProperties, EmptySeq
<1>3. PICK r : r = [s[n] EXCEPT !.end = time]
  OBVIOUS
<1>4. r \in KeptRuns /\ r = RunOn(s[n].cpu, s[n].start, time) /\ r.start = s[n].start /\ r.end = time
  <2>1. s[n] \in KeptRuns
    BY <1>2
  <2> QED BY <1>3, <2>1 DEF KeptRuns, RunOn
<1>5. Ended(s, time) = [s EXCEPT ![n] = r]
  BY <1>1, <1>2, <1>3 DEF Ended
<1>6. /\ Ended(s, time) \in [1 .. n -> KeptRuns] /\ Ended(s, time)[n] = r
      /\ \A i \in 1 .. n : i # n => Ended(s, time)[i] = s[i]
  BY <1>2, <1>4, <1>5
<1>7. Ended(s, time) \in Seq(KeptRuns) /\ Len(Ended(s, time)) = n
  BY <1>2, <1>6, SeqDef, LenProperties
<1>8. Last(Ended(s, time)) = r
  BY <1>6, <1>7 DEF Last
<1> QED BY <1>1, <1>2, <1>4, <1>6, <1>7, <1>8

(* What is collected for the task that is left, for the one that the CPU   *)
(* goes on with, and for others                                            *)
CollectedStep(c, e) ==
  /\ DOMAIN collected' = DOMAIN collected \cup (IF e.next = 0 THEN {} ELSE {e.next})
  /\ \A t \in TaskIds :
       /\ t = e.prior =>
            /\ t \in DOMAIN collected /\ CollectedFor(t) # <<>>
            /\ CollectedFor(t)' = Ended(CollectedFor(t), e.timestamp)
            /\ WithEnd(collected, e)[t] = Ended(CollectedFor(t), e.timestamp)
       /\ t = e.next =>
            CollectedFor(t)' = Append(CollectedFor(t), RunOn(InEightBits(c), e.timestamp, 0))
       /\ t # e.prior /\ t # e.next => CollectedFor(t)' = CollectedFor(t)

LEMMA CollectedNext ==
  ASSUME TaskInv, ProcessSchedule, NEW c, NEW k, NEW e, AtHand(c, k, e),
         e = schedules[at.cpu][at.next]
  PROVE  CollectedStep(c, e)
<1>1. /\ e.prior # e.next /\ e.timestamp \in Nat /\ e.prior \in NoTask /\ e.next \in NoTask
      /\ c = at.cpu
  BY DEF AtHand, SchedulePoint
<1>2. taskPhase' # "exit" /\ CollectedOK
  BY PointAccepted DEF TaskInv
<1>3. Accepted(e) /\ collected' = WithStart(WithEnd(collected, e), e)
  BY <1>2 DEF ProcessSchedule
<1>4. PICK all : all = WithEnd(collected, e)
  OBVIOUS
<1>5. ASSUME NEW t \in DOMAIN collected
      PROVE  /\ t \in TaskIds
             /\ all[t] = IF t = e.prior THEN Ended(collected[t], e.timestamp) ELSE collected[t]
             /\ all[t] \in Seq(KeptRuns)
  <2>1. t \in TaskIds /\ collected[t] # <<>> /\ collected[t] \in Seq(KeptRuns) /\ t # 0
    <3>1. t \in TaskIds /\ t # 0
      BY <1>2, TasksAssumption DEF CollectedOK
    <3> QED BY <1>2, <3>1, CollectedTypes
  <2>2. all[t] = IF t = e.prior THEN Ended(collected[t], e.timestamp) ELSE collected[t]
    BY <1>4, <2>1 DEF WithEnd, Ended
  <2>3. Ended(collected[t], e.timestamp) \in Seq(KeptRuns)
    BY <1>1, <2>1, EndedProperties
  <2> QED BY <2>1, <2>2, <2>3
<1>6. DOMAIN all = DOMAIN collected
  BY <1>4 DEF WithEnd
<1>7. PICK r : r = RunOn(InEightBits(c), e.timestamp, 0)
  OBVIOUS
<1>8. r \in KeptRuns
  <2>1. InEightBits(c) \in Nat
    <3>1. c - 1 \in Nat
      BY DEF AtHand, Cpu
    <3> QED BY <3>1 DEF InEightBits
  <2> QED BY <1>1, <1>7, <2>1 DEF KeptRuns, RunOn
<1>9. CASE e.next = 0
  <2>1. collected' = all
    BY <1>3, <1>4, <1>9 DEF WithStart
  <2>2. ASSUME NEW t \in TaskIds
        PROVE  /\ t # e.next
               /\ t = e.prior =>
                    /\ t \in DOMAIN collected /\ CollectedFor(t) # <<>>
                    /\ CollectedFor(t)' = Ended(CollectedFor(t), e.timestamp)
                    /\ all[t] = Ended(CollectedFor(t), e.timestamp)
               /\ t # e.prior => CollectedFor(t)' = CollectedFor(t)
    <3>1. t # 0 /\ (t = e.prior => t \in DOMAIN collected)
      BY <1>3, TasksAssumption DEF Accepted
    <3>2. CollectedFor(t)' = IF t \in DOMAIN all THEN all[t] ELSE <<>>
      BY <2>1 DEF CollectedFor
    <3>3. t \in DOMAIN collected => CollectedFor(t) # <<>>
      BY <1>2, CollectedTypes
    <3> QED BY <1>5, <1>6, <1>9, <3>1, <3>2, <3>3 DEF CollectedFor
  <2> QED BY <1>4, <1>6, <1>9, <2>1, <2>2 DEF CollectedStep
<1>10. CASE e.next # 0
  <2>1. collected' = [t \in DOMAIN collected \cup {e.next} |->
          (IF t \in DOMAIN collected THEN all[t] ELSE <<>>) \o (IF t # e.next THEN <<>> ELSE <<r>>)]
    BY <1>1, <1>3, <1>4, <1>6, <1>7, <1>10 DEF WithStart, RunOn
  <2>2. DOMAIN collected' = DOMAIN collected \cup {e.next}
    BY <2>1
  <2>3. <<>> \in Seq(KeptRuns)
    BY EmptySeq
  <2>4. ASSUME NEW t \in DOMAIN collected, t # e.next
        PROVE  collected'[t] = all[t]
    <3>1. collected'[t] = all[t] \o <<>>
      BY <2>1, <2>4
    <3> QED BY <1>5, <3>1, ConcatEmptySeq
  <2>5. CollectedFor(e.next)' = Append(CollectedFor(e.next), r)
    <3>1. e.next \in TaskIds
      BY <1>1, <1>10 DEF NoTask
    <3>2. CollectedFor(e.next)' = CollectedFor(e.next) \o <<r>>
      BY <1>1, <1>5, <2>1, <2>2 DEF CollectedFor
    <3>3. CollectedFor(e.next) \in Seq(KeptRuns)
      BY <1>2, <3>1, CollectedTypes
    <3> QED BY <1>8, <3>2, <3>3, AppendIsConcat
  <2>6. ASSUME NEW t \in TaskIds
        PROVE  /\ t = e.prior =>
                    /\ t \in DOMAIN collected /\ CollectedFor(t) # <<>>
                    /\ CollectedFor(t)' = Ended(CollectedFor(t), e.timestamp)
                    /\ all[t] = Ended(CollectedFor(t), e.timestamp)
               /\ t # e.prior /\ t # e.next => CollectedFor(t)' = CollectedFor(t)
    <3>1. t # 0 /\ (t = e.prior => t \in DOMAIN collected)
      BY <1>3, TasksAssumption DEF Accepted
    <3>2. t \in DOMAIN collected => CollectedFor(t) # <<>>
      BY <1>2, CollectedTypes
    <3>3. ASSUME t # e.next
          PROVE  CollectedFor(t)' = IF t \in DOMAIN collected THEN all[t] ELSE <<>>
      BY <2>2, <2>4, <3>3 DEF CollectedFor
    <3> QED BY <1>1, <1>5, <3>1, <3>2, <3>3 DEF CollectedFor
  <2> QED BY <1>4, <1>7, <1>10, <2>2, <2>5, <2>6 DEF CollectedStep
<1> QED BY <1>9, <1>10

LEMMA BeforePoints ==
  ASSUME RuntimeOK, NEW c \in Cpu, NEW d \in Cpu, NEW k \in DOMAIN schedules[c],
         NEW l \in DOMAIN schedules[d], NEW p, p.start = Point(c, k).timestamp,
         NEW q, q.start = Point(d, l).timestamp
  PROVE  Before(p, q) <=> Sooner(c, k, d, l)
<1>1. Before(p, q) => Sooner(c, k, d, l)
  BY DEF Before
<1>2. ASSUME Sooner(c, k, d, l), NEW a \in Cpu, NEW b \in Cpu,
             NEW m \in DOMAIN schedules[a], NEW n \in DOMAIN schedules[b],
             Point(a, m).timestamp = p.start, Point(b, n).timestamp = q.start
      PROVE  Sooner(a, m, b, n)
  <2>1. a = c /\ m = k /\ b = d /\ n = l
    BY <1>2 DEF RuntimeOK, TimesOK
  <2> QED BY <1>2, <2>1
<1> QED BY <1>1, <1>2 DEF Before

LEMMA EarlierOrder ==
  ASSUME NEW c \in Cpu, NEW d \in Cpu, NEW k \in Nat, NEW l \in Nat
  PROVE  /\ ~(Sooner(c, k, d, l) /\ Sooner(d, l, c, k))
         /\ Sooner(c, k, d, l) \/ Sooner(d, l, c, k) \/ (c = d /\ k = l)
         /\ ~Sooner(c, k, c, k)
BY DEF Sooner, Cpu

LEMMA CollectedKept ==
  ASSUME RuntimeOK, NEW c, NEW k, NEW e, AtHand(c, k, e), NEW t, t # e.prior, t # e.next,
         NEW s, CollectedRight(t, s)
  PROVE  CollectedRight(t, s)'
<1>1. /\ e = Point(c, k) /\ schedules' = schedules /\ \A d, l : Point(d, l)' = Point(d, l)
      /\ k - 1 \in DOMAIN schedules[c] => Point(c, k - 1).next = e.prior
      /\ \A d \in Cpu : \A l : Processed(d, l)' <=> Processed(d, l) \/ (d = c /\ l = k)
  BY DEF AtHand, Point
<1>2. \A d \in Cpu : \A l \in DOMAIN schedules[d] :
        Point(d, l).next = t => KnownRun(d, l)' = KnownRun(d, l) /\ (Processed(d, l)' <=> Processed(d, l))
  <2> SUFFICES ASSUME NEW d \in Cpu, NEW l \in DOMAIN schedules[d], Point(d, l).next = t
               PROVE  KnownRun(d, l)' = KnownRun(d, l) /\ (Processed(d, l)' <=> Processed(d, l))
    OBVIOUS
  <2>1. (d # c \/ l # k - 1) /\ ~(d = c /\ l = k)
    BY <1>1
  <2> QED BY <1>1, <2>1, KnownEndNext
<1>3. \A p, q : Before(p, q)' <=> Before(p, q)
  BY <1>1 DEF Before
<1> QED BY <1>1, <1>2, <1>3 DEF CollectedRight

LEMMA CollectedLeft ==
  ASSUME RuntimeOK, NEW c, NEW k, NEW e, AtHand(c, k, e), NEW t, t = e.prior, t # 0,
         NEW s, s # <<>>, CollectedRight(t, s)
  PROVE  CollectedRight(t, Ended(s, e.timestamp))'
<1>1. PICK time : time = e.timestamp
  OBVIOUS
<1>2. PICK w : w = Ended(s, time)
  OBVIOUS
<1>3. PICK m : m = Len(s)
  OBVIOUS
<1>4. /\ e = Point(c, k) /\ schedules' = schedules /\ \A d, l : Point(d, l)' = Point(d, l)
      /\ c \in Cpu /\ k \in Nat \ {0} /\ c \in Nat
      /\ k - 1 \in DOMAIN schedules[c] /\ Point(c, k - 1).next = t /\ Processed(c, k - 1)
      /\ e.next # t /\ time \in Nat
      /\ \A d \in Cpu : \A l : Processed(d, l)' <=> Processed(d, l) \/ (d = c /\ l = k)
      /\ \A d \in Cpu : \A l : Processed(d, l) => l \in DOMAIN schedules[d] /\ Sooner(d, l, c, k)
  BY <1>1 DEF AtHand, Point, SchedulePoint, Cpu
<1>5. s \in Seq(KeptRuns)
  BY DEF CollectedRight
<1>6. /\ w \in Seq(KeptRuns) /\ DOMAIN w = DOMAIN s /\ m \in DOMAIN s /\ DOMAIN s = 1 .. m
      /\ \A i \in DOMAIN s : i # m => w[i] = s[i]
      /\ \A i \in DOMAIN s : w[i].start = s[i].start
      /\ w[m] = RunOn(s[m].cpu, s[m].start, time)
  BY <1>2, <1>3, <1>4, <1>5, EndedProperties
<1>7. m \in Nat
  BY <1>3, <1>5, LenProperties
<1>8. \A d \in Cpu : \A l \in DOMAIN schedules[d] : l \in Nat /\ KnownRun(d, l).start = Point(d, l).timestamp
  BY PointTypes DEF RuntimeOK, KnownRun, RunOn
<1>9. PICK j \in DOMAIN s : s[j] = KnownRun(c, k - 1)
  BY <1>4 DEF CollectedRight
<1>10. j = m
  <2> SUFFICES ASSUME j < m PROVE FALSE
    BY <1>6, <1>7, <1>9
  <2>1. PICK d \in Cpu : \E l \in DOMAIN schedules[d] : Processed(d, l) /\ s[m] = KnownRun(d, l)
    BY <1>6 DEF CollectedRight
  <2>2. PICK l \in DOMAIN schedules[d] : Processed(d, l) /\ s[m] = KnownRun(d, l)
    BY <2>1
  <2>3. Before(s[j], s[m])
    BY <1>6 DEF CollectedRight
  <2>4. Sooner(c, k - 1, d, l)
    BY <1>4, <1>8, <1>9, <2>2, <2>3 DEF Before
  <2>5. Sooner(d, l, c, k)
    BY <1>4, <2>2
  <2>6. l \in Nat /\ d \in Nat
    BY <1>8, <2>2 DEF Cpu
  <2> QED BY <1>4, <2>4, <2>5, <2>6 DEF Sooner
<1>11. w[m] = KnownRun(c, k - 1)'
  <2>1. /\ KnownRun(c, k - 1) = RunOn(InEightBits(c), Point(c, k - 1).timestamp, 0)
        /\ KnownRun(c, k - 1)' = RunOn(InEightBits(c), Point(c, k - 1).timestamp, time)
    BY <1>1, <1>4, KnownEndNext
  <2> QED BY <1>6, <1>9, <1>10, <2>1 DEF RunOn
<1>12. ASSUME NEW i \in DOMAIN s, NEW d \in Cpu, NEW l \in DOMAIN schedules[d], s[i] = KnownRun(d, l)
       PROVE  (i = m /\ d = c /\ l = k - 1) \/ (i # m /\ (d # c \/ l # k - 1))
  <2>1. CASE i = m
    <3>1. Point(d, l).timestamp = Point(c, k - 1).timestamp
      BY <1>4, <1>8, <1>9, <1>10, <1>12, <2>1
    <3> QED BY <1>4, <2>1, <3>1 DEF RuntimeOK, TimesOK
  <2>2. CASE i # m /\ d = c /\ l = k - 1
    <3>1. i < m
      BY <1>6, <1>7, <2>2
    <3>2. Before(s[i], s[m])
      BY <1>6, <3>1 DEF CollectedRight
    <3>3. Sooner(c, k - 1, c, k - 1)
      BY <1>4, <1>8, <1>9, <1>10, <1>12, <2>2, <3>2 DEF Before
    <3> QED BY <1>4, <3>3 DEF Sooner
  <2> QED BY <2>1, <2>2
<1>13. ASSUME NEW i \in DOMAIN s
       PROVE  \E d \in Cpu : \E l \in DOMAIN schedules[d] :
                Processed(d, l)' /\ Point(d, l).next = t /\ w[i] = KnownRun(d, l)'
  <2>1. PICK d \in Cpu : \E l \in DOMAIN schedules[d] :
               Processed(d, l) /\ Point(d, l).next = t /\ s[i] = KnownRun(d, l)
    BY DEF CollectedRight
  <2>2. PICK l \in DOMAIN schedules[d] :
               Processed(d, l) /\ Point(d, l).next = t /\ s[i] = KnownRun(d, l)
    BY <2>1
  <2>3. CASE i = m /\ d = c /\ l = k - 1
    BY <1>4, <1>11, <2>2, <2>3
  <2>4. CASE i # m /\ (d # c \/ l # k - 1)
    <3>1. KnownRun(d, l)' = KnownRun(d, l)
      BY <2>2, <2>4, KnownEndNext
    <3> QED BY <1>4, <1>6, <2>2, <2>4, <3>1
  <2> QED BY <1>12, <2>2, <2>3, <2>4
<1>14. ASSUME NEW d \in Cpu, NEW l \in DOMAIN schedules[d], Processed(d, l)', Point(d, l).next = t
       PROVE  \E i \in DOMAIN s : w[i] = KnownRun(d, l)'
  <2>1. Processed(d, l)
    BY <1>4, <1>14
  <2>2. PICK i \in DOMAIN s : s[i] = KnownRun(d, l)
    BY <1>14, <2>1 DEF CollectedRight
  <2>3. CASE i = m /\ d = c /\ l = k - 1
    BY <1>11, <2>2, <2>3
  <2>4. CASE i # m /\ (d # c \/ l # k - 1)
    <3>1. KnownRun(d, l)' = KnownRun(d, l)
      BY <2>4, KnownEndNext
    <3> QED BY <1>6, <2>2, <2>4, <3>1
  <2> QED BY <1>12, <2>2, <2>3, <2>4
<1>15. ASSUME NEW i \in DOMAIN s, NEW h \in DOMAIN s, i < h
       PROVE  Before(w[i], w[h])'
  <2>1. Before(s[i], s[h])
    BY <1>15 DEF CollectedRight
  <2> QED BY <1>4, <1>6, <2>1 DEF Before
<1>16. CollectedRight(t, w)'
  <2>1. \A i \in DOMAIN w : \E d \in Cpu : \E l \in DOMAIN schedules'[d] :
          Processed(d, l)' /\ Point(d, l)'.next = t /\ w[i] = KnownRun(d, l)'
    BY <1>4, <1>6, <1>13
  <2>2. \A d \in Cpu : \A l \in DOMAIN schedules'[d] :
          Processed(d, l)' /\ Point(d, l)'.next = t => \E i \in DOMAIN w : w[i] = KnownRun(d, l)'
    BY <1>4, <1>6, <1>14
  <2>3. \A i, h \in DOMAIN w : i < h => Before(w[i], w[h])'
    BY <1>6, <1>15
  <2> QED BY <1>6, <2>1, <2>2, <2>3 DEF CollectedRight
<1> QED BY <1>1, <1>2, <1>16

LEMMA CollectedEntered ==
  ASSUME RuntimeOK, NEW c, NEW k, NEW e, AtHand(c, k, e), NEW t, t = e.next, t # 0,
         NEW s, CollectedRight(t, s), ~Processed(c, k)
  PROVE  CollectedRight(t, Append(s, RunOn(InEightBits(c), e.timestamp, 0)))'
<1>1. PICK r : r = RunOn(InEightBits(c), e.timestamp, 0)
  OBVIOUS
<1>2. PICK w : w = Append(s, r)
  OBVIOUS
<1>3. PICK m : m = Len(s)
  OBVIOUS
<1>4. /\ e = Point(c, k) /\ schedules' = schedules /\ \A d, l : Point(d, l)' = Point(d, l)
      /\ c \in Cpu /\ k \in Nat \ {0} /\ c \in Nat /\ k \in DOMAIN schedules[c]
      /\ k - 1 \in DOMAIN schedules[c] => Point(c, k - 1).next # t
      /\ e.timestamp \in Nat
      /\ \A d \in Cpu : \A l : Processed(d, l)' <=> Processed(d, l) \/ (d = c /\ l = k)
      /\ \A d \in Cpu : \A l : Processed(d, l) => l \in DOMAIN schedules[d] /\ Sooner(d, l, c, k)
  BY DEF AtHand, Point, SchedulePoint, Cpu
<1>5. r \in KeptRuns /\ r = KnownRun(c, k)' /\ r.start = Point(c, k).timestamp
  <2>1. InEightBits(c) \in Nat
    <3>1. c - 1 \in Nat
      BY <1>4 DEF Cpu
    <3> QED BY <3>1 DEF InEightBits
  <2>2. r = KnownRun(c, k)'
    BY <1>1, KnownEndNext
  <2> QED BY <1>1, <1>4, <2>1, <2>2 DEF KeptRuns, RunOn
<1>6. s \in Seq(KeptRuns)
  BY DEF CollectedRight
<1>7. /\ m \in Nat /\ DOMAIN s = 1 .. m /\ w \in Seq(KeptRuns) /\ DOMAIN w = 1 .. m + 1
      /\ \A i \in 1 .. m : w[i] = s[i]
      /\ w[m + 1] = r
  BY <1>2, <1>3, <1>5, <1>6, Appended
<1>8. 1 .. m + 1 = (1 .. m) \cup {m + 1} /\ m + 1 \notin 1 .. m
  BY <1>7
<1>9. ASSUME NEW d \in Cpu, NEW l \in DOMAIN schedules[d], Point(d, l).next = t
      PROVE  KnownRun(d, l)' = KnownRun(d, l) \/ (d = c /\ l = k)
  <2>1. d # c \/ l # k - 1
    BY <1>4, <1>9
  <2> QED BY <2>1, KnownEndNext
<1>10. ASSUME NEW i \in 1 .. m + 1
       PROVE  \E d \in Cpu : \E l \in DOMAIN schedules'[d] :
                Processed(d, l)' /\ Point(d, l)'.next = t /\ w[i] = KnownRun(d, l)'
  <2>1. CASE i = m + 1
    BY <1>4, <1>5, <1>7, <2>1
  <2>2. CASE i \in 1 .. m
    <3>1. PICK d \in Cpu : \E l \in DOMAIN schedules[d] :
                 Processed(d, l) /\ Point(d, l).next = t /\ s[i] = KnownRun(d, l)
      BY <1>7, <2>2 DEF CollectedRight
    <3>2. PICK l \in DOMAIN schedules[d] :
                 Processed(d, l) /\ Point(d, l).next = t /\ s[i] = KnownRun(d, l)
      BY <3>1
    <3>3. KnownRun(d, l)' = KnownRun(d, l)
      BY <1>9, <3>2
    <3> QED BY <1>4, <1>7, <2>2, <3>2, <3>3
  <2> QED BY <1>8, <2>1, <2>2
<1>11. ASSUME NEW d \in Cpu, NEW l \in DOMAIN schedules'[d], Processed(d, l)', Point(d, l)'.next = t
       PROVE  \E i \in 1 .. m + 1 : w[i] = KnownRun(d, l)'
  <2>1. CASE d = c /\ l = k
    BY <1>5, <1>7, <1>8, <2>1
  <2>2. CASE ~(d = c /\ l = k)
    <3>1. Processed(d, l) /\ l \in DOMAIN schedules[d] /\ Point(d, l).next = t
      BY <1>4, <1>11, <2>2
    <3>2. PICK i \in DOMAIN s : s[i] = KnownRun(d, l)
      BY <3>1 DEF CollectedRight
    <3>3. KnownRun(d, l)' = KnownRun(d, l)
      BY <1>9, <2>2, <3>1
    <3> QED BY <1>7, <1>8, <3>2, <3>3
  <2> QED BY <2>1, <2>2
<1>12. ASSUME NEW i \in 1 .. m + 1, NEW h \in 1 .. m + 1, i < h
       PROVE  Before(w[i], w[h])'
  <2>1. i \in 1 .. m
    BY <1>7, <1>12
  <2>2. Before(w[i], w[h])
    <3>1. CASE h \in 1 .. m
      BY <1>7, <1>12, <2>1, <3>1 DEF CollectedRight
    <3>2. CASE h = m + 1
      <4>1. PICK d \in Cpu : \E l \in DOMAIN schedules[d] : Processed(d, l) /\ s[i] = KnownRun(d, l)
        BY <1>7, <2>1 DEF CollectedRight
      <4>2. PICK l \in DOMAIN schedules[d] : Processed(d, l) /\ s[i] = KnownRun(d, l)
        BY <4>1
      <4>3. w[i].start = Point(d, l).timestamp /\ Sooner(d, l, c, k)
        BY <1>4, <1>7, <2>1, <4>2 DEF KnownRun, RunOn
      <4>4. w[h].start = Point(c, k).timestamp
        BY <1>5, <1>7, <3>2
      <4> QED BY <1>4, <4>3, <4>4, BeforePoints
    <3> QED BY <1>8, <3>1, <3>2
  <2> QED BY <1>4, <2>2 DEF Before
<1>13. CollectedRight(t, w)'
  <2>1. \A i \in DOMAIN w : \E d \in Cpu : \E l \in DOMAIN schedules'[d] :
          Processed(d, l)' /\ Point(d, l)'.next = t /\ w[i] = KnownRun(d, l)'
    BY <1>7, <1>10
  <2>2. \A d \in Cpu : \A l \in DOMAIN schedules'[d] :
          Processed(d, l)' /\ Point(d, l)'.next = t => \E i \in DOMAIN w : w[i] = KnownRun(d, l)'
    BY <1>7, <1>11
  <2>3. \A i, h \in DOMAIN w : i < h => Before(w[i], w[h])'
    BY <1>7, <1>12
  <2> QED BY <1>7, <2>1, <2>2, <2>3 DEF CollectedRight
<1> QED BY <1>1, <1>2, <1>13

LEMMA CollectedGoesOn ==
  ASSUME TaskInv, ProcessSchedule, NEW c, NEW k, NEW e, AtHand(c, k, e), ~Processed(c, k),
         e = schedules[at.cpu][at.next], RuntimeOK
  PROVE  CollectedOK'
<1>1. CollectedOK /\ e.prior \in NoTask /\ e.next \in NoTask /\ e.prior # e.next /\ e.timestamp \in Nat
  BY DEF TaskInv, AtHand, SchedulePoint
<1>2. CollectedStep(c, e)
  BY CollectedNext
<1>3. PICK r : r = RunOn(InEightBits(c), e.timestamp, 0)
  OBVIOUS
<1>4. r \in KeptRuns
  <2>1. InEightBits(c) \in Nat
    <3>1. c - 1 \in Nat
      BY DEF AtHand, Cpu
    <3> QED BY <3>1 DEF InEightBits
  <2> QED BY <1>1, <1>3, <2>1 DEF KeptRuns, RunOn
<1>5. ASSUME NEW t \in TaskIds
      PROVE  /\ CollectedRight(t, CollectedFor(t))'
             /\ t \in DOMAIN collected' => CollectedFor(t)' # <<>>
  <2>1. PICK s : s = CollectedFor(t)
    OBVIOUS
  <2>2. PICK w : w = CollectedFor(t)'
    OBVIOUS
  <2>3. CollectedRight(t, s) /\ s \in Seq(KeptRuns) /\ t # 0 /\ (s # <<>> <=> t \in DOMAIN collected)
    <3>1. t # 0
      BY TasksAssumption
    <3> QED BY <1>1, <2>1, <3>1, CollectedTypes
  <2>4. CASE t = e.prior
    <3>1. s # <<>> /\ w = Ended(s, e.timestamp)
      BY <1>2, <2>1, <2>2, <2>4 DEF CollectedStep
    <3>2. CollectedRight(t, w)'
      BY <2>3, <2>4, <3>1, CollectedLeft
    <3>3. w # <<>>
      <4>1. w \in Seq(KeptRuns) /\ Len(w) = Len(s)
        BY <1>1, <2>3, <3>1, EndedProperties
      <4> QED BY <2>3, <3>1, <4>1, EmptySeq
    <3> QED BY <2>2, <3>2, <3>3
  <2>5. CASE t = e.next
    <3>1. w = Append(s, r)
      BY <1>2, <1>3, <2>1, <2>2, <2>5 DEF CollectedStep
    <3>2. CollectedRight(t, w)'
      BY <1>3, <2>3, <2>5, <3>1, CollectedEntered
    <3>3. w # <<>>
      BY <1>4, <2>3, <3>1, Appended
    <3> QED BY <2>2, <3>2, <3>3
  <2>6. CASE t # e.prior /\ t # e.next
    <3>1. w = s /\ (t \in DOMAIN collected' => t \in DOMAIN collected)
      BY <1>2, <2>1, <2>2, <2>6 DEF CollectedStep
    <3>2. CollectedRight(t, w)'
      BY <2>3, <2>6, <3>1, CollectedKept
    <3> QED BY <2>2, <2>3, <3>1, <3>2
  <2> QED BY <2>4, <2>5, <2>6
<1>6. DOMAIN collected' \subseteq TaskIds
  BY <1>1, <1>2 DEF CollectedOK, NoTask, CollectedStep
<1>7. \A t \in DOMAIN collected' : collected'[t] # <<>>
  BY <1>5, <1>6 DEF CollectedFor
<1> QED BY <1>5, <1>6, <1>7 DEF CollectedOK

(* What is written of a task stays as it is.                               *)
LEMMA WrittenSame ==
  ASSUME UNCHANGED <<schedules, ran>>, NEW t, NEW c, NEW time, WrittenRight(t, c, time),
         PlacesOf(t)' = PlacesOf(t), \A p \in PlacesOf(t) : TaskPeriod(p)' = TaskPeriod(p),
         t \in DOMAIN lastEnd', lastEnd'[t] = lastEnd[t],
         t \in DOMAIN firstStart', firstStart'[t] = firstStart[t]
  PROVE  WrittenRight(t, c, time)'
<1>1. PeriodsOf(t)' = RunsUpTo(t, c)'
  BY DEF WrittenRight, PeriodsOf, RunsUpTo
<1>2. \A p, q : Before(p, q)' <=> Before(p, q)
  BY DEF Before, Point
<1>3. \A p, q \in PlacesOf(t)' : Precedes(p, q) => Before(TaskPeriod(p).period, TaskPeriod(q).period)'
  <2> SUFFICES ASSUME NEW p \in PlacesOf(t), NEW q \in PlacesOf(t), Precedes(p, q)
               PROVE  Before(TaskPeriod(p).period, TaskPeriod(q).period)'
    OBVIOUS
  <2>1. Before(TaskPeriod(p).period, TaskPeriod(q).period)
    BY DEF WrittenRight
  <2> QED BY <1>2, <2>1 DEF Before, Point
<1>4. \A s : FirstOn(t, c, s)' <=> FirstOn(t, c, s)
  BY DEF FirstOn, Point
<1>5. t \in DOMAIN lastEnd' /\ lastEnd'[t] = time
  BY DEF WrittenRight
<1>6. t \in DOMAIN firstStart' /\ FirstOn(t, c, firstStart[t])'
  <2>1. PICK s : s = firstStart[t]
    OBVIOUS
  <2>2. FirstOn(t, c, s)' /\ firstStart'[t] = s
    BY <1>4, <2>1 DEF WrittenRight
  <2> QED BY <2>2
<1> QED BY <1>1, <1>3, <1>5, <1>6 DEF WrittenRight

LEMMA FinishedNext ==
  ASSUME NEW c, NEW k, NEW e, AtHand(c, k, e), NEW t, NEW d \in Cpu, NEW l
  PROVE  Finished(t, d, l)' <=>
           Finished(t, d, l) \/ (d = c /\ l = k /\ e.complete /\ e.prior = t)
BY DEF AtHand, Finished, Point

(* A task completes once.                                                  *)
LEMMA FinishedOnce ==
  ASSUME RuntimeOK, NEW t, NEW c \in Cpu, NEW k \in DOMAIN schedules[c],
         Point(c, k).complete, Point(c, k).prior = t,
         NEW d \in Cpu, NEW l \in DOMAIN schedules[d],
         Point(d, l).complete, Point(d, l).prior = t
  PROVE  d = c /\ l = k
<1>1. IsOver(t, c, Point(c, k).timestamp) /\ IsOver(t, d, Point(d, l).timestamp)
  BY DEF RuntimeOK, CompleteOK
<1>2. Point(c, k).timestamp = Point(d, l).timestamp
  BY <1>1 DEF IsOver
<1> QED BY <1>2 DEF RuntimeOK, TimesOK

(* These are the periods of task t that are known then.                    *)
ThoseKnown(t, periods) ==
  \A r : r \in periods <=>
    \E d \in Cpu : \E l \in DOMAIN schedules[d] :
      Processed(d, l)' /\ Point(d, l).next = t /\ r = KnownRun(d, l)'

(* When a task completes, its periods on the CPUs up to this one are known. *)
LEMMA UpToNow ==
  ASSUME RuntimeOK, NEW c, NEW k, NEW e, AtHand(c, k, e), e.complete, NEW t, t = e.prior,
         NEW d \in Cpu, NEW l \in DOMAIN schedules[d], Point(d, l).next = t
  PROVE  /\ d <= c <=> Processed(d, l)'
         /\ d <= c => Kept(RunAt(d, l)) = KnownRun(d, l)'
<1>1. /\ e = Point(c, k) /\ c \in Cpu /\ c \in Nat /\ k \in Nat \ {0} /\ k \in DOMAIN schedules[c]
      /\ schedules' = schedules /\ \A b, m : Point(b, m)' = Point(b, m)
      /\ \A b \in Cpu : \A m : Processed(b, m)' <=> Processed(b, m) \/ (b = c /\ m = k)
      /\ \A b \in Cpu : \A m : Processed(b, m) <=> m \in DOMAIN schedules[b] /\ Sooner(b, m, c, k)
  BY DEF AtHand, Point, Cpu
<1>2. IsOver(t, c, e.timestamp)
  BY <1>1 DEF RuntimeOK, CompleteOK
<1>3. \A b \in Cpu : \A m \in DOMAIN schedules[b] : Sooner(b, m, c, k) => Processed(b, m)'
  BY <1>1
<1>4. \A b \in Cpu : /\ b \in Nat /\ Len(schedules[b]) \in Nat
                     /\ DOMAIN schedules[b] = 1 .. Len(schedules[b])
                     /\ \A m \in DOMAIN schedules[b] : m \in Nat /\ Point(b, m).timestamp \in Nat
  BY PointTypes DEF RuntimeOK, Cpu
<1>11. Point(d, l).timestamp < e.timestamp
  BY <1>2 DEF IsOver
<1>12. d = c => l < k
  <2> SUFFICES ASSUME d = c, ~(l < k) PROVE FALSE
    OBVIOUS
  <2>1. k = l \/ k < l
    BY <1>1, <1>4
  <2>2. k = l \/ e.timestamp < Point(d, l).timestamp
    BY <1>1, <2>1 DEF RuntimeOK, TimesOK
  <2> QED BY <1>1, <1>4, <1>11, <2>2
<1>13. d <= c <=> Sooner(d, l, c, k)
  BY <1>1, <1>4, <1>12 DEF Sooner
<1>14. Processed(d, l)' => d <= c
  BY <1>1, <1>4, <1>13
<1>15. ASSUME d <= c
      PROVE  KnownEnd(d, l)' = EndOf(d, l)
  <2>1. CASE l < Len(schedules[d])
    <3>1. l + 1 \in DOMAIN schedules[d]
      BY <1>4, <2>1
    <3>2. Sooner(d, l + 1, c, k) \/ (d = c /\ l + 1 = k)
      <4>1. l \in Nat /\ d \in Nat /\ k \in Nat /\ c \in Nat
        BY <1>1, <1>4
      <4>2. CASE d < c
        BY <4>2 DEF Sooner
      <4>3. CASE d = c
        BY <1>12, <4>1, <4>3 DEF Sooner
      <4> QED BY <1>15, <4>1, <4>2, <4>3
    <3>3. Processed(d, l + 1)'
      BY <1>1, <3>1, <3>2
    <3> QED BY <1>1, <2>1, <3>3 DEF KnownEnd, EndOf
  <2>2. CASE ~(l < Len(schedules[d]))
    <3>1. l + 1 \notin DOMAIN schedules[d]
      BY <1>4, <2>2
    <3>2. ~Processed(d, l + 1)'
      BY <1>1, <3>1
    <3> QED BY <2>2, <3>2 DEF KnownEnd, EndOf
  <2> QED BY <2>1, <2>2
<1>16. d <= c => Kept(RunAt(d, l)) = KnownRun(d, l)'
  <2>1. Kept(RunAt(d, l)) = RunOn(InEightBits(d), Point(d, l).timestamp, EndOf(d, l))
    BY DEF Kept, RunAt, RunOn
  <2> QED BY <1>1, <1>15, <2>1 DEF KnownRun
<1> QED BY <1>3, <1>13, <1>14, <1>16

(* When a task completes, exactly its periods on the CPUs processed so far *)
(* are known.                                                              *)
LEMMA RunsKnown ==
  ASSUME RuntimeOK, NEW c, NEW k, NEW e, AtHand(c, k, e), e.complete, NEW t \in TaskIds, t = e.prior
  PROVE  ThoseKnown(t, RunsUpTo(t, c))
<1>5. ASSUME NEW d \in Cpu, NEW l \in DOMAIN schedules[d], Point(d, l).next = t
      PROVE  /\ d <= c <=> Processed(d, l)'
             /\ d <= c => Kept(RunAt(d, l)) = KnownRun(d, l)'
  BY <1>5, UpToNow
<1>6. RanRight(t)
  BY DEF RuntimeOK, RanOK
<1>7. ASSUME NEW r \in RunsUpTo(t, c)
      PROVE  \E d \in Cpu : \E l \in DOMAIN schedules[d] :
               Processed(d, l)' /\ Point(d, l).next = t /\ r = KnownRun(d, l)'
  <2>1. PICK i \in DOMAIN ran[t] : ran[t][i].cpu <= c /\ r = Kept(ran[t][i])
    BY RanTypes DEF RunsUpTo, ToSet
  <2>2. PICK d \in Cpu : \E l \in DOMAIN schedules[d] : Point(d, l).next = t /\ ran[t][i] = RunAt(d, l)
    BY <1>6 DEF RanRight
  <2>3. PICK l \in DOMAIN schedules[d] : Point(d, l).next = t /\ ran[t][i] = RunAt(d, l)
    BY <2>2
  <2>4. d <= c
    BY <2>1, <2>3 DEF RunAt, RunOn
  <2> QED BY <1>5, <2>1, <2>3, <2>4
<1>8. ASSUME NEW d \in Cpu, NEW l \in DOMAIN schedules[d], Processed(d, l)', Point(d, l).next = t
      PROVE  KnownRun(d, l)' \in RunsUpTo(t, c)
  <2>1. PICK i \in DOMAIN ran[t] : ran[t][i] = RunAt(d, l)
    BY <1>6, <1>8 DEF RanRight
  <2>2. ran[t][i].cpu = d
    BY <2>1 DEF RunAt, RunOn
  <2>3. d <= c /\ KnownRun(d, l)' = Kept(ran[t][i])
    BY <1>5, <1>8, <2>1
  <2> QED BY <2>2, <2>3 DEF RunsUpTo, ToSet
<1> QED BY <1>7, <1>8 DEF ThoseKnown

LEMMA NothingWritten ==
  ASSUME TaskInv, NEW c, NEW k, NEW e, AtHand(c, k, e), ~Completes(e),
         UNCHANGED <<taskPeriods, firstStart, lastEnd>>
  PROVE  WrittenOK'
<1>1. /\ schedules' = schedules /\ ran' = ran /\ \A d, l : Point(d, l)' = Point(d, l)
  BY DEF AtHand, Point
<1>2. WrittenOK /\ \A t \in TaskIds : ~(e.complete /\ e.prior = t)
  BY TasksAssumption DEF TaskInv, Completes
<1>3. /\ Places' = Places /\ \A p : TaskPeriod(p)' = TaskPeriod(p)
      /\ \A t : PlacesOf(t)' = PlacesOf(t)
  BY DEF Places, TaskPeriod, PlacesOf
<1>4. taskPeriods' \in [Cpu -> Seq([task : TaskIds, period : KeptRuns])]
  BY <1>2 DEF WrittenOK
<1>5. ASSUME NEW p \in Places'
      PROVE  \E l \in DOMAIN schedules'[p[1]] : Finished(TaskPeriod(p).task, p[1], l)'
  <2>1. p \in Places /\ p[1] \in Cpu
    BY <1>3, <1>5 DEF Places
  <2>2. PICK l \in DOMAIN schedules[p[1]] : Finished(TaskPeriod(p).task, p[1], l)
    BY <1>2, <2>1 DEF WrittenOK
  <2>3. PICK t : t = TaskPeriod(p).task
    OBVIOUS
  <2>4. Finished(t, p[1], l)' /\ TaskPeriod(p)'.task = t
    BY <1>3, <2>1, <2>2, <2>3, FinishedNext
  <2> QED BY <1>1, <2>4
<1>6. ASSUME NEW d \in Cpu, NEW l \in DOMAIN schedules'[d], NEW t \in TaskIds, Finished(t, d, l)'
      PROVE  WrittenRight(t, d, Point(d, l).timestamp)'
  <2>1. l \in DOMAIN schedules[d] /\ Finished(t, d, l)
    BY <1>1, <1>2, <1>6, FinishedNext
  <2>2. PICK time : time = Point(d, l).timestamp
    OBVIOUS
  <2>3. WrittenRight(t, d, time)
    BY <1>2, <2>1, <2>2 DEF WrittenOK
  <2>4. t \in DOMAIN lastEnd /\ t \in DOMAIN firstStart
    BY <2>3 DEF WrittenRight
  <2>5. WrittenRight(t, d, time)'
    BY <1>1, <1>3, <2>3, <2>4, WrittenSame
  <2>6. Point(d, l)'.timestamp = time
    BY <1>1, <2>2
  <2> QED BY <2>5, <2>6
<1> QED BY <1>4, <1>5, <1>6 DEF WrittenOK

(* The places of the array                                                 *)
LEMMA PlaceProperties ==
  /\ \A p \in Places : p = <<p[1], p[2]>> /\ p[1] \in Cpu /\ p[2] \in DOMAIN taskPeriods[p[1]]
  /\ \A c \in Cpu : \A i \in DOMAIN taskPeriods[c] :
       <<c, i>> \in Places /\ TaskPeriod(<<c, i>>) = taskPeriods[c][i]
BY DEF Places, TaskPeriod

(* The periods w of task t are added to the array of CPU c.                *)
Held(c) == Len(taskPeriods[c])
Recorded(t, r) == [task |-> t, period |-> r]
Adds(c, t, w) ==
  taskPeriods' = [taskPeriods EXCEPT ![c] = @ \o [i \in DOMAIN w |-> Recorded(t, w[i])]]

(* After the first n places of the CPU come those of w.                    *)
PlacesGrow(c, t, w, n) ==
  /\ taskPeriods' \in [Cpu -> Seq([task : TaskIds, period : KeptRuns])] /\ n \in Nat
  /\ \A p \in Places : p \in Places' /\ TaskPeriod(p)' = TaskPeriod(p)
  /\ \A i \in DOMAIN w : /\ <<c, n + i>> \in Places' /\ <<c, n + i>> \notin Places
                         /\ TaskPeriod(<<c, n + i>>)' = Recorded(t, w[i])
  /\ \A p \in Places' : p \in Places \/ \E i \in DOMAIN w : p = <<c, n + i>>

LEMMA PlacesAdded ==
  ASSUME WrittenOK, NEW c \in Cpu, NEW t \in TaskIds, NEW w \in Seq(KeptRuns), Adds(c, t, w),
         NEW n, n = Held(c)
  PROVE  PlacesGrow(c, t, w, n)
<1> DEFINE Entries == [task : TaskIds, period : KeptRuns]
           part == [i \in DOMAIN w |-> Recorded(t, w[i])]
<1>1. taskPeriods \in [Cpu -> Seq(Entries)] /\ taskPeriods[c] \in Seq(Entries)
  BY DEF WrittenOK
<1>2. PICK m : m = Len(w)
  OBVIOUS
<1>3. m \in Nat /\ DOMAIN w = 1 .. m /\ \A i \in 1 .. m : w[i] \in KeptRuns
  BY <1>2, LenProperties, ElementOfSeq
<1>4. part \in [1 .. m -> Entries]
  BY <1>3 DEF Recorded
<1>5. part \in Seq(Entries) /\ Len(part) = m
  BY <1>3, <1>4, SeqDef, LenProperties
<1>6. n \in Nat /\ DOMAIN taskPeriods[c] = 1 .. n
  BY <1>1, LenProperties DEF Held
<1>7. PICK b : b = part
  OBVIOUS
<1>8. /\ b \in Seq(Entries) /\ Len(b) = m
      /\ \A i \in 1 .. m : b[i] = Recorded(t, w[i])
  BY <1>3, <1>5, <1>7
<1>9. taskPeriods' = [taskPeriods EXCEPT ![c] = taskPeriods[c] \o b]
  BY <1>7 DEF Adds
<1>10. PICK u : u = taskPeriods[c] \o b
  OBVIOUS
<1> HIDE DEF part, Entries
<1>11. u \in Seq(Entries) /\ Len(u) = n + m
       /\ \A i \in 1 .. n + m : u[i] = IF i <= n THEN taskPeriods[c][i] ELSE b[i - n]
  <2>1. PICK v : v = taskPeriods[c]
    OBVIOUS
  <2>2. v \in Seq(Entries) /\ b \in Seq(Entries) /\ u = v \o b
    BY <1>1, <1>8, <1>10, <2>1
  <2>3. /\ v \o b \in Seq(Entries) /\ Len(v \o b) = Len(v) + Len(b)
        /\ \A i \in 1 .. Len(v) + Len(b) : (v \o b)[i] = IF i <= Len(v) THEN v[i] ELSE b[i - Len(v)]
    BY ONLY <2>2, ConcatProperties
  <2>4. Len(v) = n /\ Len(b) = m
    BY <1>8, <2>1 DEF Held
  <2> QED BY <2>1, <2>2, <2>3, <2>4
<1>12. DOMAIN u = 1 .. n + m
  BY <1>11, LenProperties
<1>13. \A i \in 1 .. n : i \in 1 .. n + m /\ u[i] = taskPeriods[c][i]
  BY <1>3, <1>6, <1>11
<1>14. \A i \in 1 .. m : n + i \in 1 .. n + m /\ u[n + i] = b[i] /\ n + i \notin 1 .. n
  <2> SUFFICES ASSUME NEW i \in 1 .. m
               PROVE  n + i \in 1 .. n + m /\ u[n + i] = b[i] /\ n + i \notin 1 .. n
    OBVIOUS
  <2>1. n + i \in 1 .. n + m /\ ~(n + i <= n) /\ (n + i) - n = i /\ n + i \notin 1 .. n
    BY <1>3, <1>6
  <2> QED BY <1>11, <2>1
<1>15. \A j \in 1 .. n + m : j \in 1 .. n \/ \E i \in 1 .. m : j = n + i
  <2> SUFFICES ASSUME NEW j \in 1 .. n + m, j \notin 1 .. n
               PROVE  \E i \in 1 .. m : j = n + i
    OBVIOUS
  <2>1. j - n \in 1 .. m /\ j = n + (j - n)
    BY <1>3, <1>6
  <2> QED BY <2>1
<1>16. /\ taskPeriods' \in [Cpu -> Seq(Entries)] /\ taskPeriods'[c] = u
       /\ \A d \in Cpu : d # c => taskPeriods'[d] = taskPeriods[d]
  BY <1>1, <1>9, <1>10, <1>11
<1>17. ASSUME NEW p \in Places
       PROVE  p \in Places' /\ TaskPeriod(p)' = TaskPeriod(p)
  <2>1. p[1] \in Cpu /\ p[2] \in DOMAIN taskPeriods[p[1]] /\ p = <<p[1], p[2]>>
    BY PlaceProperties
  <2>2. p[2] \in DOMAIN taskPeriods'[p[1]] /\ taskPeriods'[p[1]][p[2]] = taskPeriods[p[1]][p[2]]
    <3>1. CASE p[1] = c
      <4>1. p[2] \in 1 .. n
        BY <1>6, <2>1, <3>1
      <4>2. p[2] \in 1 .. n + m /\ u[p[2]] = taskPeriods[c][p[2]]
        BY <1>13, <4>1
      <4> QED BY <1>12, <1>16, <3>1, <4>2
    <3>2. CASE p[1] # c
      BY <1>16, <2>1, <3>2
    <3> QED BY <3>1, <3>2
  <2> QED BY <2>1, <2>2 DEF Places, TaskPeriod
<1>18. ASSUME NEW i \in DOMAIN w
       PROVE  /\ <<c, n + i>> \in Places' /\ <<c, n + i>> \notin Places
              /\ TaskPeriod(<<c, n + i>>)' = Recorded(t, w[i])
  <2>1. /\ n + i \in DOMAIN taskPeriods'[c] /\ n + i \notin DOMAIN taskPeriods[c]
        /\ taskPeriods'[c][n + i] = Recorded(t, w[i])
    BY <1>3, <1>6, <1>8, <1>12, <1>14, <1>16
  <2> QED BY <2>1 DEF Places, TaskPeriod
<1>19. ASSUME NEW p \in Places', p \notin Places
       PROVE  \E i \in DOMAIN w : p = <<c, n + i>>
  <2>1. PICK d \in Cpu : \E j \in DOMAIN taskPeriods'[d] : p = <<d, j>>
    BY <1>19 DEF Places
  <2>2. PICK j \in DOMAIN taskPeriods'[d] : p = <<d, j>>
    BY <2>1
  <2>3. j \notin DOMAIN taskPeriods[d]
    BY <1>19, <2>2 DEF Places
  <2>4. d = c /\ j \in 1 .. n + m /\ j \notin 1 .. n
    BY <1>6, <1>12, <1>16, <2>2, <2>3
  <2>5. PICK i \in 1 .. m : j = n + i
    BY <1>15, <2>4
  <2> QED BY <1>3, <2>2, <2>4, <2>5
<1>20. taskPeriods' \in [Cpu -> Seq([task : TaskIds, period : KeptRuns])]
  BY <1>16 DEF Entries
<1> QED BY <1>6, <1>17, <1>18, <1>19, <1>20 DEF PlacesGrow

(* The entry of a task that has completed is made, others stay.            *)
Sets(fun, next, t, value) ==
  /\ t \in DOMAIN next /\ next[t] = value
  /\ \A u \in DOMAIN fun : u # t => u \in DOMAIN next /\ next[u] = fun[u]

(* What is written when a task completes                                   *)
LEMMA TaskWritten ==
  ASSUME TaskInv, RuntimeOK, NEW c, NEW k, NEW e, AtHand(c, k, e), ~Processed(c, k),
         e.complete, NEW t \in TaskIds, t = e.prior,
         NEW w \in Seq(KeptRuns), w # <<>>, Last(w).end = e.timestamp, CollectedRight(t, w)',
         Adds(c, t, w), Sets(lastEnd, lastEnd', t, e.timestamp),
         Sets(firstStart, firstStart', t, w[1].start)
  PROVE  WrittenOK'
<1>1. PICK n : n = Held(c)
  OBVIOUS
<1>2. /\ schedules' = schedules /\ ran' = ran /\ \A d, l : Point(d, l)' = Point(d, l)
      /\ c \in Cpu /\ c \in Nat /\ k \in DOMAIN schedules[c] /\ e = Point(c, k)
  <2>1. schedules' = schedules /\ ran' = ran /\ c \in Cpu /\ k \in DOMAIN schedules[c] /\ e = Point(c, k)
    BY DEF AtHand
  <2>2. \A d, l : Point(d, l)' = Point(d, l)
    BY <2>1 DEF Point
  <2>3. c \in Nat
    BY <2>1 DEF Cpu
  <2> QED BY <2>1, <2>2, <2>3
<1>3. WrittenOK
  BY DEF TaskInv
<1>4. /\ taskPeriods' \in [Cpu -> Seq([task : TaskIds, period : KeptRuns])] /\ n \in Nat
      /\ \A p \in Places : p \in Places' /\ TaskPeriod(p)' = TaskPeriod(p)
      /\ \A i \in DOMAIN w : /\ <<c, n + i>> \in Places' /\ <<c, n + i>> \notin Places
                             /\ TaskPeriod(<<c, n + i>>)' = Recorded(t, w[i])
      /\ \A p \in Places' : p \in Places \/ \E i \in DOMAIN w : p = <<c, n + i>>
  <2>1. PlacesGrow(c, t, w, n)
    BY <1>1, <1>2, <1>3, PlacesAdded
  <2> QED BY <2>1 DEF PlacesGrow
<1>5. ASSUME NEW p \in Places
      PROVE  /\ p[1] \in Cpu
             /\ \E l \in DOMAIN schedules[p[1]] : Finished(TaskPeriod(p).task, p[1], l)
  BY <1>3, PlaceProperties DEF WrittenOK
<1>6. \A i \in DOMAIN w : Recorded(t, w[i]).task = t /\ Recorded(t, w[i]).period = w[i]
  BY DEF Recorded
<1>7. \A p \in Places : TaskPeriod(p).task # t
  <2> SUFFICES ASSUME NEW p \in Places, TaskPeriod(p).task = t PROVE FALSE
    OBVIOUS
  <2>1. PICK l \in DOMAIN schedules[p[1]] : Finished(t, p[1], l)
    BY <1>5
  <2>2. Point(c, k).complete /\ Point(c, k).prior = t
    BY <1>2
  <2>3. p[1] \in Cpu /\ Point(p[1], l).complete /\ Point(p[1], l).prior = t
    BY <1>5, <2>1 DEF Finished
  <2>4. p[1] = c /\ l = k
    <3>1. PICK d : d = p[1]
      OBVIOUS
    <3>2. d \in Cpu /\ l \in DOMAIN schedules[d] /\ Point(d, l).complete /\ Point(d, l).prior = t
      BY <2>1, <2>3, <3>1
    <3>3. RuntimeOK /\ c \in Cpu /\ k \in DOMAIN schedules[c]
      BY <1>2
    <3>4. d = c /\ l = k
      BY ONLY <2>2, <3>2, <3>3, FinishedOnce
    <3> QED BY <3>1, <3>4
  <2> QED BY <2>1, <2>4 DEF Finished
<1>8. \A u : u # t => PlacesOf(u)' = PlacesOf(u)
  <2> SUFFICES ASSUME NEW u, u # t
               PROVE  \A p : p \in PlacesOf(u)' <=> p \in PlacesOf(u)
    BY DEF PlacesOf
  <2>1. \A p \in Places' : p \in Places \/ TaskPeriod(p)'.task = t
    BY <1>4, <1>6
  <2> QED BY <1>4, <2>1 DEF PlacesOf
<1>9. \A p : p \in PlacesOf(t)' <=> \E i \in DOMAIN w : p = <<c, n + i>>
  <2>1. \A i \in DOMAIN w : <<c, n + i>> \in Places' /\ TaskPeriod(<<c, n + i>>)'.task = t
    BY <1>4, <1>6
  <2>2. \A p \in Places' : TaskPeriod(p)'.task = t => p \notin Places
    BY <1>4, <1>7
  <2> QED BY <1>4, <2>1, <2>2 DEF PlacesOf
<1>10. \A i \in DOMAIN w : TaskPeriod(<<c, n + i>>)'.period = w[i]
  BY <1>4, <1>6
<1>11. \A p, q : Before(p, q)' <=> Before(p, q)
  BY <1>2 DEF Before
<1>12. DOMAIN w = 1 .. Len(w) /\ Len(w) \in Nat \ {0}
  BY LenProperties, EmptySeq
<1>13. PICK time : time = e.timestamp
  OBVIOUS
<1>14. ASSUME NEW p \in Places'
       PROVE  \E l \in DOMAIN schedules'[p[1]] : Finished(TaskPeriod(p).task, p[1], l)'
  <2>1. PICK u : u = TaskPeriod(p)'.task
    OBVIOUS
  <2>2. CASE p \in Places
    <3>1. u = TaskPeriod(p).task
      BY <1>4, <2>1, <2>2
    <3>2. PICK l \in DOMAIN schedules[p[1]] : Finished(u, p[1], l)
      BY <1>5, <2>2, <3>1
    <3>3. Finished(u, p[1], l)'
      BY <1>5, <2>2, <3>2, FinishedNext
    <3> QED BY <1>2, <2>1, <3>3
  <2>3. CASE \E i \in DOMAIN w : p = <<c, n + i>>
    <3>1. u = t /\ p[1] = c
      BY <1>4, <1>6, <2>1, <2>3
    <3>2. Finished(t, c, k)'
      BY <1>2, FinishedNext
    <3> QED BY <1>2, <2>1, <3>1, <3>2
  <2> QED BY <1>4, <2>2, <2>3
<1>15. PeriodsOf(t)' = RunsUpTo(t, c)'
  <2>1. RunsUpTo(t, c)' = RunsUpTo(t, c)
    BY <1>2 DEF RunsUpTo
  <2>2. PICK periods : periods = PeriodsOf(t)'
    OBVIOUS
  <2>3. \A r : r \in periods <=> \E i \in DOMAIN w : r = w[i]
    <3>1. \A r : r \in periods <=> \E p \in PlacesOf(t)' : r = TaskPeriod(p)'.period
      BY <2>2 DEF PeriodsOf
    <3>2. ASSUME NEW r, NEW p \in PlacesOf(t)', r = TaskPeriod(p)'.period
          PROVE  \E i \in DOMAIN w : r = w[i]
      <4>1. PICK i \in DOMAIN w : p = <<c, n + i>>
        BY <1>9
      <4>2. r = w[i]
        BY <1>10, <3>2, <4>1
      <4> QED BY <4>2
    <3>3. ASSUME NEW i \in DOMAIN w
          PROVE  \E p \in PlacesOf(t)' : w[i] = TaskPeriod(p)'.period
      BY <1>9, <1>10
    <3> QED BY <3>1, <3>2, <3>3
  <2>4. ThoseKnown(t, periods)
    <3>1. ASSUME NEW r \in periods
          PROVE  \E d \in Cpu : \E l \in DOMAIN schedules[d] :
                   Processed(d, l)' /\ Point(d, l).next = t /\ r = KnownRun(d, l)'
      BY <1>2, <2>3 DEF CollectedRight
    <3>2. ASSUME NEW d \in Cpu, NEW l \in DOMAIN schedules[d], Processed(d, l)', Point(d, l).next = t
          PROVE  KnownRun(d, l)' \in periods
      BY <1>2, <2>3, <3>2 DEF CollectedRight
    <3> QED BY <3>1, <3>2 DEF ThoseKnown
  <2>5. ThoseKnown(t, RunsUpTo(t, c))
    BY RunsKnown
  <2>6. PICK runsUpTo : runsUpTo = RunsUpTo(t, c)
    OBVIOUS
  <2>7. \A r : r \in periods <=> r \in runsUpTo
    BY <2>4, <2>5, <2>6 DEF ThoseKnown
  <2>8. periods = runsUpTo
    BY <2>7
  <2> QED BY <2>1, <2>2, <2>6, <2>8
<1>16. ASSUME NEW p \in PlacesOf(t)', NEW q \in PlacesOf(t)', Precedes(p, q)
       PROVE  Before(TaskPeriod(p).period, TaskPeriod(q).period)'
  <2>1. PICK i \in DOMAIN w : p = <<c, n + i>>
    BY <1>9
  <2>2. PICK j \in DOMAIN w : q = <<c, n + j>>
    BY <1>9
  <2>3. i < j
    BY <1>2, <1>4, <1>12, <1>16, <2>1, <2>2 DEF Precedes
  <2>4. Before(w[i], w[j])'
    BY <2>3 DEF CollectedRight
  <2>5. TaskPeriod(p)'.period = w[i] /\ TaskPeriod(q)'.period = w[j]
    BY <1>10, <2>1, <2>2
  <2> QED BY <2>4, <2>5 DEF Before
<1>17. FirstOn(t, c, w[1].start)'
  <2>1. 1 \in DOMAIN w
    BY <1>12
  <2>2. PICK d \in Cpu : \E l \in DOMAIN schedules[d] :
               Processed(d, l)' /\ Point(d, l)'.next = t /\ w[1] = KnownRun(d, l)'
    BY <1>2, <2>1 DEF CollectedRight
  <2>3. PICK l \in DOMAIN schedules[d] :
               Processed(d, l)' /\ Point(d, l)'.next = t /\ w[1] = KnownRun(d, l)'
    BY <2>2
  <2>4. Point(d, l)'.timestamp = w[1].start /\ d <= c
    BY <1>2, <2>3, UpToNow DEF KnownRun, RunOn
  <2>5. ASSUME NEW b \in Cpu, NEW m \in DOMAIN schedules[b], b <= c, Point(b, m)'.next = t
        PROVE  Sooner(d, l, b, m) \/ (b = d /\ m = l)
    <3>1. Processed(b, m)'
      BY <1>2, <2>5, UpToNow
    <3>2. PICK i \in DOMAIN w : w[i] = KnownRun(b, m)'
      BY <1>2, <2>5, <3>1 DEF CollectedRight
    <3>3. w[i].start = Point(b, m).timestamp /\ w[1].start = Point(d, l).timestamp
      BY <1>2, <2>3, <3>2 DEF KnownRun, RunOn
    <3>4. CASE i = 1
      BY <2>3, <3>3, <3>4 DEF RuntimeOK, TimesOK
    <3>5. CASE i # 1
      <4>1. 1 < i
        BY <1>12, <3>5
      <4>2. Before(w[1], w[i])
        BY <1>11, <1>12, <4>1 DEF CollectedRight
      <4> QED BY <2>3, <3>3, <4>2 DEF Before
    <3> QED BY <3>4, <3>5
  <2> QED BY <1>2, <2>3, <2>4, <2>5 DEF FirstOn
<1>18. WrittenRight(t, c, time)'
  BY <1>13, <1>15, <1>16, <1>17 DEF WrittenRight, Sets
<1>19. ASSUME NEW d \in Cpu, NEW l \in DOMAIN schedules'[d], NEW u \in TaskIds, Finished(u, d, l)'
       PROVE  WrittenRight(u, d, Point(d, l).timestamp)'
  <2>1. CASE u = t /\ d = c /\ l = k
    BY <1>2, <1>13, <1>18, <2>1
  <2>2. CASE u # t
    <3>1. l \in DOMAIN schedules[d] /\ Finished(u, d, l)
      BY <1>2, <1>19, <2>2, FinishedNext
    <3>2. PICK from : from = Point(d, l).timestamp
      OBVIOUS
    <3>3. WrittenRight(u, d, from)
      BY <1>3, <3>1, <3>2 DEF WrittenOK
    <3>4. u \in DOMAIN lastEnd /\ u \in DOMAIN firstStart
      BY <3>3 DEF WrittenRight
    <3>5. \A p \in PlacesOf(u) : TaskPeriod(p)' = TaskPeriod(p)
      BY <1>4 DEF PlacesOf
    <3>6. WrittenRight(u, d, from)'
      BY <1>2, <1>8, <2>2, <3>3, <3>4, <3>5, WrittenSame DEF Sets
    <3>7. Point(d, l)'.timestamp = from
      BY <1>2, <3>2
    <3> QED BY <3>6, <3>7
  <2>3. CASE u = t /\ ~(d = c /\ l = k)
    <3>1. l \in DOMAIN schedules[d] /\ Point(d, l).complete /\ Point(d, l).prior = t
      BY <1>2, <1>19, <2>3 DEF Finished
    <3>2. Point(c, k).complete /\ Point(c, k).prior = t
      BY <1>2
    <3>3. RuntimeOK /\ c \in Cpu /\ k \in DOMAIN schedules[c]
      BY <1>2
    <3>4. d = c /\ l = k
      BY ONLY <3>1, <3>2, <3>3, FinishedOnce
    <3> QED BY <2>3, <3>4
  <2> QED BY <2>1, <2>2, <2>3
<1> QED BY <1>4, <1>14, <1>19 DEF WrittenOK

LEMMA ProcessScheduleRight ==
  ASSUME TaskInv, ProcessSchedule
  PROVE  TaskInv'
<1>1. PICK c : c = at.cpu
  OBVIOUS
<1>2. PICK k : k = at.next
  OBVIOUS
<1>3. PICK e : e = schedules[c][k]
  OBVIOUS
<1>4. taskPhase' # "exit"
  BY PointAccepted
<1>5. AtHand(c, k, e) /\ ~Processed(c, k) /\ RuntimeOK /\ RuntimeOK'
  BY <1>1, <1>2, <1>3, <1>4, HandProperties
<1>6. e = schedules[at.cpu][at.next]
  BY <1>1, <1>2, <1>3
<1>7. CollectedOK'
  BY <1>5, <1>6, CollectedGoesOn
<1>8. CollectedStep(c, e)
  BY <1>5, <1>6, CollectedNext
<1>9. PICK all : all = WithEnd(collected, e)
  OBVIOUS
<1>10. /\ taskPhase = "schedule" /\ UNCHANGED <<runtimeVars, foundVars>> /\ Advance(schedules, "done")
       /\ IF Completes(e)
            THEN /\ taskPeriods' = [taskPeriods EXCEPT ![c] =
                      @ \o [i \in DOMAIN all[e.prior] |->
                              [task |-> e.prior, period |-> all[e.prior][i]]]]
                 /\ firstStart' = [t \in DOMAIN firstStart \cup {e.prior} |->
                      IF t = e.prior THEN all[t][1].start ELSE firstStart[t]]
                 /\ lastEnd' = [t \in DOMAIN lastEnd \cup {e.prior} |->
                      IF t = e.prior THEN Last(all[t]).end ELSE lastEnd[t]]
            ELSE UNCHANGED <<taskPeriods, firstStart, lastEnd>>
  BY <1>1, <1>4, <1>6, <1>9 DEF ProcessSchedule
<1>11. WrittenOK'
  <2>1. CASE Completes(e)
    <3>1. PICK t : t = e.prior
      OBVIOUS
    <3>2. t \in TaskIds /\ e.complete /\ e.timestamp \in Nat /\ CollectedOK
      BY <1>5, <2>1, <3>1 DEF Completes, AtHand, SchedulePoint, NoTask, TaskInv
    <3>3. PICK w : w = all[t]
      OBVIOUS
    <3>4. /\ CollectedFor(t) # <<>> /\ w = Ended(CollectedFor(t), e.timestamp)
          /\ w = CollectedFor(t)'
      BY <1>8, <1>9, <3>1, <3>2, <3>3 DEF CollectedStep
    <3>5. CollectedFor(t) \in Seq(KeptRuns)
      BY <3>2, CollectedTypes
    <3>6. w \in Seq(KeptRuns) /\ w # <<>> /\ Last(w).end = e.timestamp
      <4>1. PICK s : s = CollectedFor(t)
        OBVIOUS
      <4>2. PICK time : time = e.timestamp
        OBVIOUS
      <4>3. s \in Seq(KeptRuns) /\ s # <<>> /\ time \in Nat /\ w = Ended(s, time)
        BY <3>2, <3>4, <3>5, <4>1, <4>2
      <4>4. w \in Seq(KeptRuns) /\ Len(w) = Len(s) /\ Last(w).end = time
        BY ONLY <4>3, EndedProperties
      <4>5. w # <<>>
        BY ONLY <4>3, <4>4, EmptySeq
      <4> QED BY <4>2, <4>4, <4>5
    <3>8. CollectedRight(t, w)'
      BY <1>7, <3>2, <3>4 DEF CollectedOK
    <3>9. Adds(c, t, w)
      BY <1>10, <2>1, <3>1, <3>3 DEF Adds, Recorded
    <3>10. Sets(lastEnd, lastEnd', t, e.timestamp)
      BY <1>10, <2>1, <3>1, <3>3, <3>6 DEF Sets
    <3>11. Sets(firstStart, firstStart', t, w[1].start)
      BY <1>10, <2>1, <3>1, <3>3 DEF Sets
    <3> QED BY <1>5, <3>1, <3>2, <3>6, <3>8, <3>9, <3>10, <3>11, TaskWritten
  <2>2. CASE ~Completes(e)
    BY <1>5, <1>10, <2>2, NothingWritten
  <2> QED BY <2>1, <2>2
<1>12. /\ taskPhase' \in {"schedule", "done"}
       /\ taskPhase' = "schedule" => AtOK(at, schedules)'
  <2>1. RuntimeType /\ AtOK(at, schedules) /\ schedules' = schedules
    BY <1>5, <1>10 DEF RuntimeOK, TaskInv, runtimeVars
  <2> QED BY <1>10, <2>1, ProcessedNext
<1>13. InstancesOK'
  BY <1>10, <1>12 DEF TaskInv, InstancesOK, runtimeVars, foundVars, Created
<1> QED BY <1>5, <1>7, <1>11, <1>12, <1>13 DEF TaskInv

LEMMA TaskInit_TaskInv == TaskInit => TaskInv
<1> SUFFICES ASSUME TaskInit PROVE TaskInv
  OBVIOUS
<1>1. /\ now = 1 /\ runs = [c \in Cpu |-> 0] /\ ran = [t \in TaskIds |-> <<>>] /\ completed = {}
      /\ creates = [c \in Cpu |-> <<>>] /\ schedules = [c \in Cpu |-> <<>>]
      /\ instances = <<>> /\ collected = <<>> /\ taskPeriods = [c \in Cpu |-> <<>>]
      /\ at = FirstEvent /\ taskPhase = "execution"
  BY DEF TaskInit, FirstEvent
<1>2. DOMAIN <<>> = {} /\ \A S : <<>> \in Seq(S)
  <2>1. \A S : <<>> \in Seq(S)
    BY EmptySeq
  <2> QED BY <2>1
<1>3. \A c \in Cpu : schedules[c] = <<>> /\ DOMAIN schedules[c] = {}
  BY <1>1, <1>2
<1>4. RuntimeType
  BY <1>1, <1>2 DEF RuntimeType, NoTask
<1>5. TimesOK /\ ChainOK
  BY <1>1, <1>3 DEF TimesOK, ChainOK
<1>6. RanOK
  <2>1. \A t \in TaskIds : ran[t] = <<>> /\ DOMAIN ran[t] = {}
    BY <1>1, <1>2
  <2> QED BY <1>3, <2>1 DEF RanOK, RanRight
<1>7. CompleteOK
  BY <1>1, <1>3 DEF CompleteOK
<1>8. InstancesOK
  BY <1>1 DEF InstancesOK
<1>9. \A c, k : ~Processed(c, k)
  BY <1>1 DEF Processed
<1>10. CollectedOK
  <2>1. \A t : CollectedFor(t) = <<>>
    BY <1>1, <1>2 DEF CollectedFor
  <2>2. \A t : CollectedRight(t, <<>>)
    BY <1>2, <1>9 DEF CollectedRight
  <2> QED BY <1>1, <1>2, <2>1, <2>2 DEF CollectedOK
<1>11. WrittenOK
  <2>1. taskPeriods \in [Cpu -> Seq([task : TaskIds, period : KeptRuns])]
    BY <1>1, <1>2
  <2>2. \A c \in Cpu : DOMAIN taskPeriods[c] = {}
    BY <1>1, <1>2
  <2>3. Places = {}
    BY <2>2 DEF Places
  <2> QED BY <1>9, <2>1, <2>3 DEF WrittenOK, Finished
<1> QED BY <1>1, <1>4, <1>5, <1>6, <1>7, <1>8, <1>10, <1>11 DEF TaskInv, RuntimeOK

LEMMA TaskInvNext == TaskInv /\ [TaskNext]_taskVars => TaskInv'
<1> SUFFICES ASSUME TaskInv, [TaskNext]_taskVars PROVE TaskInv'
  OBVIOUS
<1>1. ASSUME NEW c \in Cpu, CreateTask(c)
      PROVE  TaskInv'
  BY <1>1, CreateTaskRight
<1>2. ASSUME NEW c \in Cpu, SchedulingPoint(c)
      PROVE  TaskInv'
  BY <1>2, SchedulingPointRight
<1>3. CASE EndExecution
  BY <1>3, EndExecutionRight
<1>4. CASE SkipEmpty(creates, "create", "schedule")
  BY <1>4, SkipCreatesRight
<1>5. CASE SkipEmpty(schedules, "schedule", "done")
  BY <1>5, SkipSchedulesRight
<1>6. CASE LiftTask
  BY <1>6, LiftTaskRight
<1>7. CASE ProcessSchedule
  BY <1>7, ProcessScheduleRight
<1>8. CASE UNCHANGED taskVars
  <2>1. /\ UNCHANGED runtimeVars /\ UNCHANGED periodVars /\ at' = at /\ taskPhase' = taskPhase
        /\ instances' = instances
    BY <1>8 DEF taskVars, foundVars
  <2>2. RuntimeOK' /\ Created' = Created /\ ran' = ran /\ schedules' = schedules /\ creates' = creates
    BY <2>1, RuntimeKept DEF TaskInv
  <2>3. SameProcessed
    BY <2>1, <2>2 DEF SameProcessed, Processed, Behind
  <2>4. CollectedOK' /\ WrittenOK'
    BY <2>1, <2>2, <2>3, FoundKept DEF TaskInv
  <2>5. InstancesOK'
    BY <2>1, <2>2 DEF TaskInv, InstancesOK, Behind
  <2> QED BY <2>1, <2>2, <2>4, <2>5 DEF TaskInv, AtOK
<1> QED BY <1>1, <1>2, <1>3, <1>4, <1>5, <1>6, <1>7, <1>8 DEF TaskNext

-----------------------------------------------------------------------------
(* What is found of the tasks is what they did.                            *)

(* A task has a place only in the array of the CPU on which it completed.  *)
LEMMA PlaceFinished ==
  ASSUME TaskInv, NEW t, NEW p \in PlacesOf(t)
  PROVE  /\ p \in Places /\ p[1] \in Cpu /\ t \in TaskIds
         /\ \E k \in DOMAIN schedules[p[1]] :
              /\ Finished(t, p[1], k) /\ Point(p[1], k).timestamp \in Nat
              /\ IsOver(t, p[1], Point(p[1], k).timestamp)
              /\ WrittenRight(t, p[1], Point(p[1], k).timestamp)
<1>1. p \in Places /\ p[1] \in Cpu /\ p[2] \in DOMAIN taskPeriods[p[1]] /\ TaskPeriod(p).task = t
  BY PlaceProperties DEF PlacesOf
<1>2. t \in TaskIds
  <2>1. taskPeriods[p[1]] \in Seq([task : TaskIds, period : KeptRuns])
    BY <1>1 DEF TaskInv, WrittenOK
  <2>2. TaskPeriod(p) \in [task : TaskIds, period : KeptRuns]
    BY <1>1, <2>1, LenProperties, ElementOfSeq DEF TaskPeriod
  <2> QED BY <1>1, <2>2
<1>3. PICK k \in DOMAIN schedules[p[1]] : Finished(t, p[1], k)
  BY <1>1 DEF TaskInv, WrittenOK
<1>4. Point(p[1], k).complete /\ Point(p[1], k).prior = t
  BY <1>3 DEF Finished
<1>5. IsOver(t, p[1], Point(p[1], k).timestamp)
  BY <1>1, <1>4 DEF TaskInv, RuntimeOK, CompleteOK
<1>6. WrittenRight(t, p[1], Point(p[1], k).timestamp)
  BY <1>1, <1>2, <1>3 DEF TaskInv, WrittenOK
<1>7. Point(p[1], k).timestamp \in Nat
  BY <1>1, PointTypes DEF TaskInv, RuntimeOK
<1> QED BY <1>1, <1>2, <1>3, <1>5, <1>6, <1>7

(* A period that ran on CPUs up to c starts with a point.                  *)
LEMMA KeptPoint ==
  ASSUME TaskInv, NEW t \in TaskIds, NEW c, NEW r \in RunsUpTo(t, c)
  PROVE  \E i \in DOMAIN ran[t] : \E d \in Cpu : \E l \in DOMAIN schedules[d] :
           /\ ran[t][i].cpu <= c /\ r = Kept(ran[t][i]) /\ r.start = ran[t][i].start
           /\ Point(d, l).next = t /\ ran[t][i] = RunAt(d, l)
           /\ ran[t][i].cpu = d /\ ran[t][i].start = Point(d, l).timestamp
<1>1. PICK x \in ToSet(ran[t]) : x.cpu <= c /\ r = Kept(x)
  BY DEF RunsUpTo
<1>2. PICK i \in DOMAIN ran[t] : x = ran[t][i]
  BY <1>1 DEF ToSet
<1>3. PICK d \in Cpu : \E l \in DOMAIN schedules[d] : Point(d, l).next = t /\ ran[t][i] = RunAt(d, l)
  BY <1>2 DEF TaskInv, RuntimeOK, RanOK, RanRight
<1>4. PICK l \in DOMAIN schedules[d] : Point(d, l).next = t /\ ran[t][i] = RunAt(d, l)
  BY <1>3
<1>5. ran[t][i].cpu = d /\ ran[t][i].start = Point(d, l).timestamp
  BY <1>4 DEF RunAt, RunOn
<1>6. ran[t][i] \in TaskRun
  BY <1>2, RanTypes DEF TaskInv
<1>7. r.start = ran[t][i].start
  BY <1>1, <1>2, <1>6 DEF Kept, TaskRun
<1> QED BY <1>1, <1>2, <1>4, <1>5, <1>7

LEMMA FoundTrue == TaskInv => PeriodsTrue
<1> SUFFICES ASSUME TaskInv, NEW t \in TaskIds
             PROVE  /\ PlacesOf(t) # {} => t \in completed /\ lastEnd[t] = Last(ran[t]).end
                    /\ PeriodsOf(t) \subseteq {Kept(r) : r \in ToSet(ran[t])}
                    /\ \A p, q \in PlacesOf(t) : p # q => TaskPeriod(p).period # TaskPeriod(q).period
  BY DEF PeriodsTrue
<1>1. ASSUME NEW p \in PlacesOf(t)
      PROVE  /\ t \in completed /\ lastEnd[t] = Last(ran[t]).end
             /\ TaskPeriod(p).period \in {Kept(r) : r \in ToSet(ran[t])}
  <2>1. PICK k \in DOMAIN schedules[p[1]] :
          /\ IsOver(t, p[1], Point(p[1], k).timestamp)
          /\ WrittenRight(t, p[1], Point(p[1], k).timestamp)
    BY PlaceFinished
  <2>2. t \in completed /\ lastEnd[t] = Last(ran[t]).end
    BY <2>1 DEF IsOver, WrittenRight
  <2>3. TaskPeriod(p).period \in RunsUpTo(t, p[1])
    BY <2>1 DEF WrittenRight, PeriodsOf
  <2> QED BY <2>2, <2>3 DEF RunsUpTo
<1>2. ASSUME NEW p \in PlacesOf(t), NEW q \in PlacesOf(t), Precedes(p, q)
      PROVE  TaskPeriod(p).period # TaskPeriod(q).period
  <2>1. PICK k \in DOMAIN schedules[p[1]] : WrittenRight(t, p[1], Point(p[1], k).timestamp)
    BY PlaceFinished
  <2>2. TaskPeriod(p).period \in RunsUpTo(t, p[1])
    BY <2>1 DEF WrittenRight, PeriodsOf
  <2>3. PICK d \in Cpu : \E l \in DOMAIN schedules[d] : Point(d, l).timestamp = TaskPeriod(p).period.start
    BY <2>2, PlaceFinished, KeptPoint
  <2>4. PICK l \in DOMAIN schedules[d] : Point(d, l).timestamp = TaskPeriod(p).period.start
    BY <2>3
  <2>5. Before(TaskPeriod(p).period, TaskPeriod(q).period)
    BY <1>2, <2>1 DEF WrittenRight
  <2>6. ~Sooner(d, l, d, l)
    <3>1. l \in Nat
      BY PointTypes DEF TaskInv, RuntimeOK
    <3> QED BY <3>1, EarlierOrder
  <2> QED BY <2>4, <2>5, <2>6 DEF Before
<1>3. ASSUME NEW p \in PlacesOf(t), NEW q \in PlacesOf(t), p # q
      PROVE  Precedes(p, q) \/ Precedes(q, p)
  <2>1. /\ p = <<p[1], p[2]>> /\ p[1] \in Cpu /\ p[2] \in DOMAIN taskPeriods[p[1]]
        /\ q = <<q[1], q[2]>> /\ q[1] \in Cpu /\ q[2] \in DOMAIN taskPeriods[q[1]]
    BY PlaceProperties DEF PlacesOf
  <2>2. \A c \in Cpu : DOMAIN taskPeriods[c] \subseteq Nat
    <3>1. \A c \in Cpu : taskPeriods[c] \in Seq([task : TaskIds, period : KeptRuns])
      BY DEF TaskInv, WrittenOK
    <3> QED BY <3>1, LenProperties
  <2>3. PICK a : a = p[1]
    OBVIOUS
  <2>4. PICK b : b = q[1]
    OBVIOUS
  <2>5. PICK i : i = p[2]
    OBVIOUS
  <2>6. PICK j : j = q[2]
    OBVIOUS
  <2>7. a \in Nat /\ b \in Nat /\ i \in Nat /\ j \in Nat /\ ~(a = b /\ i = j)
    BY <1>3, <2>1, <2>2, <2>3, <2>4, <2>5, <2>6 DEF Cpu
  <2>8. \/ a < b \/ (a = b /\ i < j)
        \/ b < a \/ (b = a /\ j < i)
    BY ONLY <2>7
  <2> QED BY <2>3, <2>4, <2>5, <2>6, <2>8 DEF Precedes
<1>4. PeriodsOf(t) \subseteq {Kept(r) : r \in ToSet(ran[t])}
  BY <1>1 DEF PeriodsOf
<1> QED BY <1>1, <1>2, <1>3, <1>4

(* The periods of a task that only moved to later CPUs are processed in    *)
(* the order in which it ran.                                              *)
LEMMA AscendingOrder ==
  ASSUME RuntimeOK, NEW t \in TaskIds, Ascending(t),
         NEW i \in DOMAIN ran[t], NEW j \in DOMAIN ran[t],
         NEW b \in Cpu, NEW d \in Cpu, NEW k \in DOMAIN schedules[b], NEW l \in DOMAIN schedules[d],
         ran[t][i].cpu = b, ran[t][i].start = Point(b, k).timestamp,
         ran[t][j].cpu = d, ran[t][j].start = Point(d, l).timestamp,
         Sooner(b, k, d, l)
  PROVE  i < j
<1>1. i \in Nat /\ j \in Nat /\ k \in Nat /\ l \in Nat /\ b \in Nat /\ d \in Nat
  <2>1. i \in Nat /\ j \in Nat
    BY RanTypes
  <2>2. k \in Nat /\ l \in Nat
    BY PointTypes DEF RuntimeOK
  <2> QED BY <2>1, <2>2 DEF Cpu
<1>2. CASE i = j
  <2>1. b = d /\ k = l
    BY <1>2 DEF RuntimeOK, TimesOK
  <2> QED BY <1>1, <2>1, EarlierOrder
<1>3. CASE j < i
  <2>1. d <= b
    BY <1>3 DEF Ascending
  <2>2. b = d /\ k < l
    BY <1>1, <2>1 DEF Sooner
  <2>3. PICK early : early = Point(b, k).timestamp
    OBVIOUS
  <2>4. PICK late : late = Point(d, l).timestamp
    OBVIOUS
  <2>5. early < late
    BY <2>2, <2>3, <2>4 DEF RuntimeOK, TimesOK
  <2>6. late < early
    BY <1>3, <2>3, <2>4 DEF RuntimeOK, RanOK, RanRight
  <2>7. early \in Nat /\ late \in Nat
    BY <2>3, <2>4, PointTypes DEF RuntimeOK
  <2> QED BY ONLY <2>5, <2>6, <2>7
<1> QED BY <1>1, <1>2, <1>3

LEMMA TasksFound == TaskInv => TaskPeriodsRight
<1> SUFFICES ASSUME TaskInv, taskPhase = "done", NEW t \in completed, Ascending(t)
             PROVE  /\ PeriodsOf(t) = {Kept(r) : r \in ToSet(ran[t])}
                    /\ \A p, q \in PlacesOf(t) :
                         Precedes(p, q) => TaskPeriod(p).period.start < TaskPeriod(q).period.start
                    /\ firstStart[t] = ran[t][1].start
                    /\ lastEnd[t] = Last(ran[t]).end
  BY DEF TaskInv, TaskPeriodsRight
<1>1. RuntimeOK /\ t \in TaskIds
  BY DEF TaskInv, RuntimeOK, RuntimeType
<1>2. PICK c \in Cpu : \E k \in DOMAIN schedules[c] : Point(c, k).complete /\ Point(c, k).prior = t
  BY <1>1 DEF RuntimeOK, CompleteOK
<1>3. PICK k \in DOMAIN schedules[c] : Point(c, k).complete /\ Point(c, k).prior = t
  BY <1>2
<1>4. IsOver(t, c, Point(c, k).timestamp)
  BY <1>1, <1>3 DEF RuntimeOK, CompleteOK
<1>5. WrittenRight(t, c, Point(c, k).timestamp)
  BY <1>1, <1>3 DEF TaskInv, WrittenOK, Finished, Processed
<1>6. ran[t] \in Seq(TaskRun) /\ ran[t] # <<>> /\ Last(ran[t]).cpu = c
  BY <1>1, <1>4, RanTypes DEF IsOver
<1>7. \A i \in DOMAIN ran[t] : ran[t][i].cpu \in Cpu /\ ran[t][i].cpu <= c
  <2>1. /\ Len(ran[t]) \in Nat \ {0} /\ DOMAIN ran[t] = 1 .. Len(ran[t])
        /\ Last(ran[t]) = ran[t][Len(ran[t])]
    BY <1>6, FrontLast
  <2> SUFFICES ASSUME NEW i \in DOMAIN ran[t]
               PROVE  ran[t][i].cpu \in Cpu /\ ran[t][i].cpu <= c
    OBVIOUS
  <2>2. ran[t][i].cpu \in Cpu
    BY <1>1, RanTypes
  <2>3. CASE i = Len(ran[t])
    BY <1>6, <2>1, <2>3 DEF Cpu
  <2>4. CASE i < Len(ran[t])
    <3>1. PICK n : n = Len(ran[t])
      OBVIOUS
    <3>2. n \in DOMAIN ran[t] /\ i < n /\ ran[t][n].cpu = c
      BY <1>6, <2>1, <2>4, <3>1
    <3> QED BY <2>2, <3>2 DEF Ascending
  <2> QED BY <2>1, <2>2, <2>3, <2>4
<1>8. RunsUpTo(t, c) = {Kept(r) : r \in ToSet(ran[t])}
  <2>1. \A r \in ToSet(ran[t]) : r.cpu <= c
    BY <1>7 DEF ToSet
  <2> QED BY <2>1 DEF RunsUpTo
<1>9. PeriodsOf(t) = {Kept(r) : r \in ToSet(ran[t])}
  BY <1>5, <1>8 DEF WrittenRight
<1>10. ASSUME NEW p \in PlacesOf(t), NEW q \in PlacesOf(t), Precedes(p, q)
       PROVE  TaskPeriod(p).period.start < TaskPeriod(q).period.start
  <2>1. PICK u : u = TaskPeriod(p).period
    OBVIOUS
  <2>2. PICK v : v = TaskPeriod(q).period
    OBVIOUS
  <2>3. u \in RunsUpTo(t, c) /\ v \in RunsUpTo(t, c) /\ Before(u, v)
    BY <1>5, <1>10, <2>1, <2>2 DEF WrittenRight, PeriodsOf
  <2>4. PICK i \in DOMAIN ran[t] : \E d \in Cpu : \E l \in DOMAIN schedules[d] :
          /\ u.start = ran[t][i].start /\ ran[t][i].cpu = d /\ ran[t][i].start = Point(d, l).timestamp
    BY <1>1, <2>3, KeptPoint
  <2>5. PICK d \in Cpu : \E l \in DOMAIN schedules[d] :
          /\ u.start = ran[t][i].start /\ ran[t][i].cpu = d /\ ran[t][i].start = Point(d, l).timestamp
    BY <2>4
  <2>6. PICK l \in DOMAIN schedules[d] :
          /\ u.start = ran[t][i].start /\ ran[t][i].cpu = d /\ ran[t][i].start = Point(d, l).timestamp
    BY <2>5
  <2>7. PICK j \in DOMAIN ran[t] : \E b \in Cpu : \E m \in DOMAIN schedules[b] :
          /\ v.start = ran[t][j].start /\ ran[t][j].cpu = b /\ ran[t][j].start = Point(b, m).timestamp
    BY <1>1, <2>3, KeptPoint
  <2>8. PICK b \in Cpu : \E m \in DOMAIN schedules[b] :
          /\ v.start = ran[t][j].start /\ ran[t][j].cpu = b /\ ran[t][j].start = Point(b, m).timestamp
    BY <2>7
  <2>9. PICK m \in DOMAIN schedules[b] :
          /\ v.start = ran[t][j].start /\ ran[t][j].cpu = b /\ ran[t][j].start = Point(b, m).timestamp
    BY <2>8
  <2>10. Sooner(d, l, b, m)
    BY <2>3, <2>6, <2>9 DEF Before
  <2>11. i < j
    BY <1>1, <2>6, <2>9, <2>10, AscendingOrder
  <2>12. ran[t][i].start < ran[t][j].start
    BY <1>1, <2>11 DEF RuntimeOK, RanOK, RanRight
  <2> QED BY <2>1, <2>2, <2>6, <2>9, <2>12
<1>11. firstStart[t] = ran[t][1].start
  <2>1. PICK d \in Cpu : \E l \in DOMAIN schedules[d] :
          /\ Point(d, l).next = t /\ Point(d, l).timestamp = firstStart[t]
          /\ \A b \in Cpu : \A m \in DOMAIN schedules[b] :
               b <= c /\ Point(b, m).next = t => Sooner(d, l, b, m) \/ (b = d /\ m = l)
    BY <1>5 DEF WrittenRight, FirstOn
  <2>2. PICK l \in DOMAIN schedules[d] :
          /\ Point(d, l).next = t /\ Point(d, l).timestamp = firstStart[t]
          /\ \A b \in Cpu : \A m \in DOMAIN schedules[b] :
               b <= c /\ Point(b, m).next = t => Sooner(d, l, b, m) \/ (b = d /\ m = l)
    BY <2>1
  <2>3. PICK i \in DOMAIN ran[t] : ran[t][i] = RunAt(d, l)
    BY <1>1, <2>2 DEF RuntimeOK, RanOK, RanRight
  <2>4. 1 \in DOMAIN ran[t]
    BY <1>6, FrontLast
  <2>5. PICK b \in Cpu : \E m \in DOMAIN schedules[b] : Point(b, m).next = t /\ ran[t][1] = RunAt(b, m)
    BY <1>1, <2>4 DEF RuntimeOK, RanOK, RanRight
  <2>6. PICK m \in DOMAIN schedules[b] : Point(b, m).next = t /\ ran[t][1] = RunAt(b, m)
    BY <2>5
  <2>7. /\ ran[t][i].cpu = d /\ ran[t][i].start = Point(d, l).timestamp
        /\ ran[t][1].cpu = b /\ ran[t][1].start = Point(b, m).timestamp
    BY <2>3, <2>6 DEF RunAt, RunOn
  <2>8. b <= c
    BY <1>7, <2>4, <2>7
  <2>9. CASE Sooner(d, l, b, m)
    <3>1. i < 1
      BY <1>1, <2>4, <2>7, <2>9, AscendingOrder
    <3>2. i \in Nat \ {0}
      BY <1>6, LenProperties
    <3> QED BY <3>1, <3>2
  <2>10. CASE b = d /\ m = l
    BY <2>2, <2>7, <2>10
  <2> QED BY <2>2, <2>6, <2>8, <2>9, <2>10
<1>12. lastEnd[t] = Last(ran[t]).end
  BY <1>4, <1>5 DEF IsOver, WrittenRight
<1> QED BY <1>9, <1>10, <1>11, <1>12

(* Tasks: no order of events, however the program moved its tasks between  *)
(* CPUs, makes processTrace() exit, and each period that is found for a    *)
(* task is one in which it ran.  A task that only moved to CPUs that are   *)
(* processed later has all its periods, in order.                          *)
THEOREM TasksCorrect == TaskSpec => []TaskPeriodsFound
<1>1. TaskInit => TaskInv
  BY TaskInit_TaskInv
<1>2. TaskInv /\ [TaskNext]_taskVars => TaskInv'
  BY TaskInvNext
<1>3. TaskInv => TaskPeriodsFound
  BY TasksFound, FoundTrue DEF TaskPeriodsFound
<1> QED BY <1>1, <1>2, <1>3, PTL DEF TaskSpec

=============================================================================
