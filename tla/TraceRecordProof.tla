-------------------------- MODULE TraceRecordProof --------------------------
(***************************************************************************)
(* Theorems about TraceRecord, for all scenarios, sizes of buffers and     *)
(* bounds.                                                                 *)
(***************************************************************************)
EXTENDS TraceRecord, TLAPS, SequenceTheorems, FiniteSetTheorems, NaturalFacts

(* The pieces that may be in a buffer                                      *)
BufferPiece == [frame : Frame(States), number : 1 .. 3, whole : {TRUE}]

(* Frames one after the other, none of them cut                            *)
Aligned(pieces) ==
  /\ \A j \in 1 .. Len(pieces) : Continues(pieces, j)
  /\ pieces # <<>> => Complete(pieces[Len(pieces)])

-----------------------------------------------------------------------------
(* The inductive invariant                                                 *)

BuffersInv ==
  /\ size \in [Bufs -> Nat]
  /\ data \in [Bufs -> Seq(BufferPiece)]
  /\ \A b \in Bufs : Len(data[b]) <= size[b] /\ Aligned(data[b])

(* No ID is higher than the highest.                                       *)
IdsInv ==
  /\ ids \in Seq(Nat) /\ Len(ids) <= MaxColls
  /\ highest \in Nat
  /\ \A i \in 1 .. Len(ids) : ids[i] <= highest

ProgramInv ==
  /\ script \in Seq(Operation)
  /\ frames \in Seq(Frame(States))
  /\ stack \in [Colls -> Seq([state : States, start : Nat])]
  /\ \A c \in Colls : Len(stack[c]) <= Depth
  /\ now \in Nat

DumpInv ==
  /\ dump \in [at : Int, named : BOOLEAN]
  /\ dump.at \in -1 .. Len(ids) + 1

RecordInv == BuffersInv /\ IdsInv /\ ProgramInv /\ DumpInv

-----------------------------------------------------------------------------
(* Writing a frame                                                         *)

LEMMA FunctionIsSeq ==
  ASSUME NEW S, NEW n \in Nat, NEW g \in [1 .. n -> S]
  PROVE  g \in Seq(S) /\ Len(g) = n
OBVIOUS

(* The pieces of a frame                                                   *)
LEMMA WholeType ==
  ASSUME NEW f \in Frame(States)
  PROVE  /\ Whole(f) \in Seq(BufferPiece) /\ Len(Whole(f)) = Pieces(f)
         /\ \A i \in 1 .. Pieces(f) : Whole(f)[i] = Piece(f, i)
<1>1. Pieces(f) \in Nat /\ \A i \in 1 .. Pieces(f) : i \in 1 .. 3
  BY DEF Pieces
<1>2. \A i \in 1 .. 3 : Piece(f, i) \in BufferPiece
  BY DEF Piece, BufferPiece
<1>3. Whole(f) \in [1 .. Pieces(f) -> BufferPiece]
  BY <1>1, <1>2 DEF Whole
<1>4. Whole(f) \in Seq(BufferPiece) /\ Len(Whole(f)) = Pieces(f)
  BY <1>1, <1>3, FunctionIsSeq
<1>5. \A i \in 1 .. Pieces(f) : Whole(f)[i] = Piece(f, i)
  BY <1>1 DEF Whole
<1> QED BY <1>4, <1>5

(* A whole frame goes on where whole frames end.                           *)
LEMMA WholeAligned ==
  ASSUME NEW s \in Seq(BufferPiece), Aligned(s), NEW f \in Frame(States)
  PROVE  /\ s \o Whole(f) \in Seq(BufferPiece)
         /\ Len(s \o Whole(f)) = Len(s) + Pieces(f)
         /\ Aligned(s \o Whole(f))
<1> DEFINE w == Whole(f)
           t == s \o w
<1>1. Pieces(f) \in {2, 3}
  BY DEF Pieces
<1>2. /\ w \in Seq(BufferPiece) /\ Len(w) = Pieces(f)
      /\ \A i \in 1 .. Pieces(f) : w[i] = Piece(f, i)
  BY WholeType
<1>3. /\ t \in Seq(BufferPiece) /\ Len(t) = Len(s) + Pieces(f)
      /\ \A j \in 1 .. Len(s) : t[j] = s[j]
      /\ \A i \in 1 .. Pieces(f) : t[Len(s) + i] = Piece(f, i)
  BY <1>1, <1>2
<1> HIDE DEF w, t
<1>4. ASSUME NEW j \in 1 .. Len(t) PROVE Continues(t, j)
  <2>1. CASE j <= Len(s)
    <3>1. Continues(s, j) /\ j \in 1 .. Len(s)
      BY <2>1, <1>3 DEF Aligned
    <3>2. j # 1 => j - 1 \in 1 .. Len(s)
      BY <3>1
    <3> QED BY <1>3, <3>1, <3>2 DEF Continues
  <2>2. CASE j = Len(s) + 1
    <3>1. t[j] = Piece(f, 1)
      BY <2>2, <1>1, <1>3
    <3>2. j = 1 \/ Complete(t[j - 1])
      BY <2>2, <1>3 DEF Aligned
    <3> QED BY <3>1, <3>2 DEF Continues, Piece
  <2>3. CASE j > Len(s) + 1
    <3>1. PICK i \in 2 .. Pieces(f) : j = Len(s) + i
      <4>1. j - Len(s) \in 2 .. Pieces(f)
        BY <2>3, <1>1, <1>3
      <4> QED BY <4>1
    <3>2. t[j] = Piece(f, i) /\ t[j - 1] = Piece(f, i - 1)
      <4>1. i \in 1 .. Pieces(f) /\ i - 1 \in 1 .. Pieces(f) /\ j - 1 = Len(s) + (i - 1)
        BY <3>1, <1>1
      <4> QED BY <4>1, <3>1, <1>3
    <3>3. ~Complete(t[j - 1]) /\ j # 1
      BY <3>1, <3>2, <1>1, <2>3 DEF Complete, Piece
    <3>4. t[j].whole
      BY <3>2 DEF Piece
    <3>5. t[j - 1].frame = f /\ t[j - 1].number + 1 = i
      BY <3>1, <3>2, <1>1 DEF Piece
    <3> QED BY <3>2, <3>3, <3>4, <3>5 DEF Continues
  <2> QED BY <2>1, <2>2, <2>3, <1>3
<1>5. Complete(t[Len(t)])
  <2>1. t[Len(t)] = Piece(f, Pieces(f))
    BY <1>1, <1>3
  <2> QED BY <2>1 DEF Complete, Piece
<1> QED BY <1>3, <1>4, <1>5 DEF Aligned, t, w

(* Writing a frame keeps the buffers within their sizes and their frames   *)
(* whole, whether there is room for it or not.                             *)
LEMMA WriteFramePreserves ==
  ASSUME BuffersInv, NEW b \in Bufs, NEW f \in Frame(States),
         WriteFrame(b, f), UNCHANGED size
  PROVE  BuffersInv'
<1>1. /\ data[b] \in Seq(BufferPiece) /\ Aligned(data[b])
      /\ Len(data[b]) <= size[b] /\ size[b] \in Nat /\ Pieces(f) \in {2, 3}
  BY DEF BuffersInv, Pieces
<1>2. CASE Taken(b, f)
  <2>1. data' = [data EXCEPT ![b] = data[b] \o Whole(f)]
    BY <1>2 DEF WriteFrame, Fitting
  <2>2. /\ data[b] \o Whole(f) \in Seq(BufferPiece)
        /\ Len(data[b] \o Whole(f)) = Len(data[b]) + Pieces(f)
        /\ Aligned(data[b] \o Whole(f))
    BY <1>1, WholeAligned
  <2>3. Len(data[b] \o Whole(f)) <= size[b]
    BY <1>1, <1>2, <2>2 DEF Taken, Room
  <2> QED BY <2>1, <2>2, <2>3 DEF BuffersInv
<1>3. CASE ~Taken(b, f)
  <2>1. Fitting(b, f) = SubSeq(Whole(f), 1, Room(b)) /\ Room(b) \in 0 .. Pieces(f) - 1
    BY <1>1, <1>3 DEF Fitting, Taken, Room
  <2>2. Whole(f) \in Seq(BufferPiece) /\ Len(Whole(f)) = Pieces(f)
    BY WholeType
  <2>3. Fitting(b, f) \in Seq(BufferPiece)
    BY <2>1, <2>2, <1>1
  <2>4. RolledBack(b, data[b] \o Fitting(b, f)) = data[b]
    BY <2>3, <1>1 DEF RolledBack
  <2>5. data' = [data EXCEPT ![b] = data[b]]
    BY <1>3, <2>4 DEF WriteFrame
  <2> QED BY <2>5 DEF BuffersInv
<1> QED BY <1>2, <1>3

(* An ID is a natural number, and that of a new collection is the next one *)
(* as long as the IDs do not overflow.                                     *)
LEMMA NewIdType ==
  ASSUME IdsInv
  PROVE  /\ NewId \in Nat
         /\ ids # <<>> /\ highest + 1 < IdLimit => NewId = highest + 1
<1>1. IdLimit \in Nat \ {0} /\ highest \in Nat
  BY RecordAssumption DEF IdsInv
<1>2. \A m \in Nat, n \in Nat \ {0} : m % n \in Nat /\ (m < n => m % n = m)
  OBVIOUS
<1> QED BY <1>1, <1>2 DEF NewId

-----------------------------------------------------------------------------
(* The steps                                                               *)

LEMMA InitInv == RecordInit => RecordInv
<1> SUFFICES ASSUME RecordInit PROVE RecordInv
  OBVIOUS
<1>1. PICK s \in Scenarios : script = s.script /\ size = s.sizes
  BY DEF RecordInit
<1>2. /\ s.script \in Seq(Operation) /\ s.sizes \in [0 .. MaxColls -> Nat] /\ s.sizes[0] >= 2
      /\ Depth \in Nat /\ MaxColls \in Nat
  BY RecordAssumption
<1>3. Bufs = 0 .. MaxColls /\ Main \in Bufs
  BY <1>2 DEF Bufs, Colls, Main
<1>4. Header \in Frame(States) /\ Pieces(Header) = 2
  BY DEF Header, Frame, Pieces
<1>5. Whole(Header) \in Seq(BufferPiece) /\ Len(Whole(Header)) = 2 /\ Aligned(Whole(Header))
  <2>1. <<>> \in Seq(BufferPiece) /\ Aligned(<<>>)
    BY DEF Aligned
  <2>2. Whole(Header) \in Seq(BufferPiece) /\ <<>> \o Whole(Header) = Whole(Header)
    BY <1>4, WholeType, ConcatEmptySeq
  <2>3. /\ Len(<<>> \o Whole(Header)) = Len(<<>>) + Pieces(Header)
        /\ Aligned(<<>> \o Whole(Header))
    BY <2>1, <1>4, WholeAligned
  <2> QED BY <2>2, <2>3, <1>4, WholeType
<1>6. BuffersInv
  <2>1. size \in [Bufs -> Nat] /\ size[Main] >= 2
    BY <1>1, <1>2, <1>3 DEF Main
  <2>2. data = [b \in Bufs |-> IF b = Main THEN Whole(Header) ELSE <<>>]
    BY DEF RecordInit
  <2>3. <<>> \in Seq(BufferPiece) /\ Len(<<>>) = 0 /\ Aligned(<<>>)
    BY DEF Aligned
  <2>4. data \in [Bufs -> Seq(BufferPiece)]
    BY <2>2, <2>3, <1>5
  <2>5. ASSUME NEW b \in Bufs PROVE Len(data[b]) <= size[b] /\ Aligned(data[b])
    <3>1. CASE b = Main
      BY <3>1, <2>1, <2>2, <1>5
    <3>2. CASE b # Main
      BY <3>2, <2>1, <2>2, <2>3
    <3> QED BY <3>1, <3>2
  <2> QED BY <2>1, <2>4, <2>5 DEF BuffersInv
<1>7. IdsInv /\ ProgramInv /\ DumpInv
  BY <1>1, <1>2 DEF RecordInit, IdsInv, ProgramInv, DumpInv, NoDump
<1> QED BY <1>6, <1>7 DEF RecordInv

LEMMA MainStepInv == RecordInv /\ MainStep => RecordInv'
<1> SUFFICES ASSUME RecordInv, MainStep PROVE RecordInv'
  OBVIOUS
<1> USE DEF RecordInv
<1> DEFINE next == Head(script)
<1>1. next \in Operation /\ script' \in Seq(Operation)
  BY DEF MainStep, ProgramInv
<1>2. ids' \in Seq(Nat) /\ frames' \in Seq(Frame(States)) /\ IdsInv'
        /\ Len(ids') >= Len(ids)
  <2>1. ASSUME NEW i \in Nat, Create(i)
        PROVE  ids' \in Seq(Nat) /\ frames' \in Seq(Frame(States)) /\ IdsInv' /\ Len(ids') >= Len(ids)
    <3>1. Len(ids) + 1 <= MaxColls
      BY <2>1, RecordAssumption DEF Create, IdsInv
    <3>2. ids' = Append(ids, i) /\ highest' \in Nat /\ highest' >= highest /\ highest' >= i
      BY <2>1 DEF Create, AddCollection, IdsInv
    <3>3. IdsInv'
      BY <3>1, <3>2 DEF IdsInv
    <3>4. Collection(i) \in Frame(States)
      BY DEF Collection, Frame
    <3> QED BY <2>1, <3>2, <3>3, <3>4 DEF Create, IdsInv
  <2>2. CASE next.op = "write" /\ frames' = next.frames /\ UNCHANGED <<ids, highest>>
    BY <1>1, <2>2 DEF Operation, IdsInv
  <2>3. CASE /\ frames' = [i \in DOMAIN ids |-> Mapping(ids[i], 1, 1, 0, MaxTime)]
             /\ UNCHANGED <<ids, highest>>
    <3>1. MaxTime \in Nat
      BY RecordAssumption
    <3>2. \A i \in DOMAIN ids : Mapping(ids[i], 1, 1, 0, MaxTime) \in Frame(States)
      BY <3>1 DEF Mapping, Frame, IdsInv
    <3> QED BY <2>3, <3>2 DEF IdsInv
  <2>4. CASE Create(NewId)
    BY <2>4, <2>1, NewIdType
  <2>5. CASE next.op = "add" /\ Create(next.id)
    BY <2>5, <2>1, <1>1 DEF Operation
  <2>6. CASE UNCHANGED <<ids, highest, frames>>
    BY <2>6 DEF IdsInv, ProgramInv
  <2> QED BY <2>2, <2>3, <2>4, <2>5, <2>6 DEF MainStep
<1>3. BuffersInv'
  BY DEF MainStep, BuffersInv
<1>4. ProgramInv'
  BY <1>1, <1>2 DEF MainStep, ProgramInv
<1>5. DumpInv'
  BY <1>2 DEF MainStep, DumpInv, IdsInv
<1> QED BY <1>2, <1>3, <1>4, <1>5

LEMMA MainWritesInv == RecordInv /\ MainWrites => RecordInv'
<1> SUFFICES ASSUME RecordInv, MainWrites PROVE RecordInv'
  OBVIOUS
<1> USE DEF RecordInv
<1>1. Head(frames) \in Frame(States) /\ frames' \in Seq(Frame(States))
  BY DEF MainWrites, ProgramInv
<1>2. BuffersInv'
  BY <1>1, WriteFramePreserves DEF MainWrites, Bufs
<1>3. ProgramInv' /\ IdsInv' /\ DumpInv'
  BY <1>1 DEF MainWrites, ProgramInv, IdsInv, DumpInv
<1> QED BY <1>2, <1>3

(* What a call of a thread finds and leaves                                *)
LEMMA CallType ==
  ASSUME RecordInv, NEW c \in Colls, NEW time \in now .. now + 1, Call(c, time)
  PROVE  /\ time \in Nat /\ now' = time
         /\ c \in Bufs /\ ids[c] \in Nat
<1>1. ids \in Seq(Nat) /\ now \in Nat /\ MaxColls \in Nat
  BY RecordAssumption DEF RecordInv, ProgramInv, IdsInv
<1>2. c \in 1 .. Len(ids) /\ now' = time
  BY <1>1 DEF Call, Colls
<1> QED BY <1>1, <1>2, ElementOfSeq DEF Bufs

LEMMA StackEvent ==
  ASSUME RecordInv, NEW c \in Colls, NEW time \in Nat, stack[c] # <<>>, ids[c] \in Nat
  PROVE  Event(ids[c], Last(stack[c]).state, Last(stack[c]).start, time) \in Frame(States)
<1>1. stack[c] \in Seq([state : States, start : Nat])
  BY DEF RecordInv, ProgramInv
<1>2. Len(stack[c]) \in 1 .. Len(stack[c])
  BY <1>1
<1>3. Last(stack[c]) \in [state : States, start : Nat]
  BY <1>1, <1>2, ElementOfSeq DEF Last
<1> QED BY <1>3 DEF Event, Frame

LEMMA PushTraceInv ==
  ASSUME RecordInv, NEW c \in Colls, NEW s \in States, PushTrace(c, s)
  PROVE  RecordInv'
<1>1. PICK time \in now .. now + 1 :
        /\ Call(c, time)
        /\ \/ WriteNothing /\ UNCHANGED stack
           \/ /\ Len(stack[c]) < Depth
              /\ stack' = [stack EXCEPT ![c] = Append(@, [state |-> s, start |-> time])]
              /\ IF stack[c] = <<>>
                   THEN WriteNothing
                   ELSE WriteFrame(c, Event(ids[c], Last(stack[c]).state,
                                            Last(stack[c]).start, time))
        /\ UNCHANGED <<size, ids, highest, script, frames, dump>>
  BY DEF PushTrace
<1>2. time \in Nat /\ now' = time /\ c \in Bufs /\ ids[c] \in Nat
  BY <1>1, CallType
<1>3. BuffersInv'
  <2>1. CASE WriteNothing
    BY <2>1, <1>1 DEF WriteNothing, RecordInv, BuffersInv
  <2>2. CASE /\ stack[c] # <<>>
             /\ WriteFrame(c, Event(ids[c], Last(stack[c]).state, Last(stack[c]).start, time))
    BY <2>2, <1>1, <1>2, StackEvent, WriteFramePreserves DEF RecordInv
  <2> QED BY <1>1, <2>1, <2>2
<1>4. stack' \in [Colls -> Seq([state : States, start : Nat])]
        /\ \A d \in Colls : Len(stack'[d]) <= Depth
  <2> DEFINE E == [state : States, start : Nat]
             new == Append(stack[c], [state |-> s, start |-> time])
  <2>1. stack \in [Colls -> Seq(E)] /\ \A d \in Colls : Len(stack[d]) <= Depth
    BY DEF RecordInv, ProgramInv
  <2>2. CASE UNCHANGED stack
    BY <2>1, <2>2
  <2>3. CASE Len(stack[c]) < Depth /\ stack' = [stack EXCEPT ![c] = new]
    <3>1. [state |-> s, start |-> time] \in E
      BY <1>2
    <3> HIDE DEF E
    <3>2. new \in Seq(E) /\ Len(new) = Len(stack[c]) + 1
      BY <2>1, <3>1, AppendProperties
    <3>3. Depth \in Nat /\ Len(stack[c]) \in Nat
      BY <2>1, RecordAssumption
    <3> HIDE DEF new
    <3>4. stack' \in [Colls -> Seq(E)] /\ \A d \in Colls : Len(stack'[d]) <= Depth
      BY <2>1, <2>3, <3>2, <3>3
    <3> QED BY <3>4 DEF E
  <2> QED BY <1>1, <2>2, <2>3
<1> QED BY <1>1, <1>2, <1>3, <1>4 DEF RecordInv, ProgramInv, IdsInv, DumpInv

LEMMA PopTraceInv ==
  ASSUME RecordInv, NEW c \in Colls, PopTrace(c)
  PROVE  RecordInv'
<1>1. PICK time \in now .. now + 1 :
        /\ Call(c, time)
        /\ \/ WriteNothing /\ UNCHANGED stack
           \/ /\ stack[c] # <<>>
              /\ WriteFrame(c, Event(ids[c], Last(stack[c]).state, Last(stack[c]).start, time))
              /\ \/ stack' = [stack EXCEPT ![c] = Popped(stack[c], time)]
                 \/ UNCHANGED stack
        /\ UNCHANGED <<size, ids, highest, script, frames, dump>>
  BY DEF PopTrace
<1>2. time \in Nat /\ now' = time /\ c \in Bufs /\ ids[c] \in Nat
  BY <1>1, CallType
<1>3. BuffersInv'
  <2>1. CASE WriteNothing
    BY <2>1, <1>1 DEF WriteNothing, RecordInv, BuffersInv
  <2>2. CASE /\ stack[c] # <<>>
             /\ WriteFrame(c, Event(ids[c], Last(stack[c]).state, Last(stack[c]).start, time))
    BY <2>2, <1>1, <1>2, StackEvent, WriteFramePreserves DEF RecordInv
  <2> QED BY <1>1, <2>1, <2>2
<1>4. stack[c] # <<>> => /\ Popped(stack[c], time) \in Seq([state : States, start : Nat])
                         /\ Len(Popped(stack[c], time)) <= Depth
  <2> SUFFICES ASSUME stack[c] # <<>>
               PROVE  /\ Popped(stack[c], time) \in Seq([state : States, start : Nat])
                      /\ Len(Popped(stack[c], time)) <= Depth
    OBVIOUS
  <2> DEFINE rest == Front(stack[c])
  <2>1. stack[c] \in Seq([state : States, start : Nat]) /\ Len(stack[c]) <= Depth /\ Depth \in Nat
    BY RecordAssumption DEF RecordInv, ProgramInv
  <2>2. rest \in Seq([state : States, start : Nat]) /\ Len(rest) <= Depth
    <3> DEFINE E == [state : States, start : Nat]
               n == Len(stack[c]) - 1
    <3>1. stack[c] \in Seq(E)
      BY <2>1
    <3> HIDE DEF E
    <3>2. n \in Int /\ 1 \in Int /\ Len(stack[c]) \in Nat /\ n < Len(stack[c])
      BY <3>1
    <3>3. \A i \in 1 .. n : stack[c][i] \in E
      BY <3>1, <3>2
    <3> HIDE DEF n
    <3>4. /\ SubSeq(stack[c], 1, n) \in Seq(E)
          /\ Len(SubSeq(stack[c], 1, n)) = IF 1 <= n THEN n - 1 + 1 ELSE 0
      BY <3>2, <3>3, SubSeqProperties
    <3>5. rest = SubSeq(stack[c], 1, n)
      BY DEF Front, n
    <3> QED BY <2>1, <3>2, <3>4, <3>5 DEF E
  <2>3. CASE rest = <<>>
    BY <2>2, <2>3 DEF Popped
  <2>4. CASE rest # <<>>
    <3>1. Popped(stack[c], time) = [rest EXCEPT ![Len(rest)].start = time]
      BY <2>4 DEF Popped
    <3> HIDE DEF rest
    <3>2. Len(rest) \in 1 .. Len(rest)
      BY <2>2, <2>4, EmptySeq
    <3>3. [rest EXCEPT ![Len(rest)].start = time] \in Seq([state : States, start : Nat])
            /\ Len([rest EXCEPT ![Len(rest)].start = time]) = Len(rest)
      <4> DEFINE top == [rest[Len(rest)] EXCEPT !.start = time]
      <4>1. rest[Len(rest)] \in [state : States, start : Nat]
        BY <2>2, <3>2, ElementOfSeq
      <4>2. top \in [state : States, start : Nat]
        BY <4>1, <1>2
      <4>3. [rest EXCEPT ![Len(rest)].start = time] = [rest EXCEPT ![Len(rest)] = top]
        OBVIOUS
      <4> HIDE DEF top
      <4>4. /\ [rest EXCEPT ![Len(rest)] = top] \in Seq([state : States, start : Nat])
            /\ Len([rest EXCEPT ![Len(rest)] = top]) = Len(rest)
        <5> DEFINE E == [state : States, start : Nat]
        <5>1. rest \in Seq(E) /\ top \in E
          BY <2>2, <4>2
        <5> HIDE DEF E
        <5>2. [rest EXCEPT ![Len(rest)] = top] \in Seq(E)
                /\ Len([rest EXCEPT ![Len(rest)] = top]) = Len(rest)
          BY <5>1, <3>2, ExceptSeq
        <5> QED BY <5>2 DEF E
      <4> QED BY <4>3, <4>4, Zenon
    <3> QED BY <3>1, <3>3, <2>2
  <2> QED BY <2>3, <2>4
<1>5. stack' \in [Colls -> Seq([state : States, start : Nat])]
        /\ \A d \in Colls : Len(stack'[d]) <= Depth
  BY <1>1, <1>4 DEF RecordInv, ProgramInv
<1> QED BY <1>1, <1>2, <1>3, <1>5 DEF RecordInv, ProgramInv, IdsInv, DumpInv

LEMMA DumpInvariant ==
  ASSUME RecordInv, (\E named \in BOOLEAN : DumpStart(named)) \/ DumpBuffer \/ DumpFails \/ DumpEnd
  PROVE  RecordInv'
<1> USE DEF RecordInv
<1>1. CASE \E named \in BOOLEAN : DumpStart(named)
  <2>1. PICK named \in BOOLEAN : dump' = [at |-> 0, named |-> named]
    BY <1>1 DEF DumpStart, Main
  <2>2. dump' \in [at : Int, named : BOOLEAN] /\ dump'.at = 0
    BY <2>1
  <2>3. UNCHANGED <<size, data, ids, highest, script, frames, stack, now>>
    BY <1>1 DEF DumpStart
  <2>4. Len(ids) \in Nat
    BY DEF IdsInv
  <2>5. DumpInv'
    BY <2>2, <2>3, <2>4 DEF DumpInv
  <2> QED BY <2>3, <2>5 DEF BuffersInv, IdsInv, ProgramInv
<1>2. CASE DumpBuffer
  <2>1. dump.at \in Bufs
    BY <1>2, RecordAssumption DEF DumpBuffer, IdsInv, Bufs, Colls, Main
  <2>2. data' = [data EXCEPT ![dump.at] = <<>>]
    BY <1>2 DEF DumpBuffer, Emptied
  <2>3. BuffersInv'
    BY <2>1, <2>2, <1>2 DEF DumpBuffer, BuffersInv, Aligned
  <2>4. DumpInv'
    <3>1. /\ dump \in [at : Int, named : BOOLEAN] /\ dump.at \in 0 .. Len(ids)
          /\ dump' = [dump EXCEPT !.at = @ + 1] /\ ids' = ids /\ Len(ids) \in Nat
      BY <1>2 DEF DumpBuffer, DumpInv, IdsInv
    <3>2. dump' \in [at : Int, named : BOOLEAN] /\ dump'.at = dump.at + 1
      BY <3>1
    <3> QED BY <3>1, <3>2 DEF DumpInv
  <2> QED BY <1>2, <2>3, <2>4 DEF DumpBuffer, IdsInv, ProgramInv
<1>3. CASE DumpFails \/ DumpEnd
  <2>1. /\ dump' = [at |-> -1, named |-> FALSE] /\ Len(ids) \in Nat
        /\ UNCHANGED <<size, data, ids, highest, script, frames, stack, now>>
    BY <1>3 DEF DumpFails, DumpEnd, Ended, NoDump, IdsInv
  <2>2. dump' \in [at : Int, named : BOOLEAN] /\ dump'.at = -1
    BY <2>1
  <2>3. DumpInv'
    BY <2>1, <2>2 DEF DumpInv
  <2> QED BY <2>1, <2>3 DEF BuffersInv, IdsInv, ProgramInv
<1> QED BY <1>1, <1>2, <1>3

LEMMA NextInv == RecordInv /\ [RecordNext]_recordVars => RecordInv'
<1> SUFFICES ASSUME RecordInv, [RecordNext]_recordVars PROVE RecordInv'
  OBVIOUS
<1>1. CASE MainStep
  BY <1>1, MainStepInv
<1>2. CASE MainWrites
  BY <1>2, MainWritesInv
<1>3. CASE \E c \in Colls : PopTrace(c) \/ \E s \in States : PushTrace(c, s)
  BY <1>3, PopTraceInv, PushTraceInv
<1>4. CASE (\E named \in BOOLEAN : DumpStart(named)) \/ DumpBuffer \/ DumpFails \/ DumpEnd
  BY <1>4, DumpInvariant
<1>5. CASE UNCHANGED recordVars
  BY <1>5 DEF recordVars, RecordInv, BuffersInv, IdsInv, ProgramInv, DumpInv
<1> QED BY <1>1, <1>2, <1>3, <1>4, <1>5 DEF RecordNext

-----------------------------------------------------------------------------
(* The theorems                                                            *)

(* The invariant holds at any time.                                        *)
THEOREM RecordInvariant == RecordSpec => []RecordInv
<1>1. RecordInit => RecordInv
  BY InitInv
<1>2. RecordInv /\ [RecordNext]_recordVars => RecordInv'
  BY NextInv
<1> QED BY <1>1, <1>2, PTL DEF RecordSpec

(* No buffer is filled beyond its size and no stack beyond its depth, and  *)
(* a dump stays within the buffers of the trace.                           *)
THEOREM RecordTypeCorrect == RecordSpec => []RecordTypeOK
<1>1. RecordInv => RecordTypeOK
  BY DEF RecordInv, BuffersInv, ProgramInv, DumpInv, RecordTypeOK
<1> QED BY <1>1, RecordInvariant, PTL

(* No buffer ever holds a part of a frame, whatever the sizes of the       *)
(* buffers are and wherever a write finds no room.                         *)
THEOREM BuffersAlwaysWhole == RecordSpec => []BuffersWhole
<1>1. ASSUME NEW s \in Seq(BufferPiece), Aligned(s) PROVE ~Torn(s)
  <2>1. Readable(s) = Len(s)
    BY <1>1 DEF Readable, Aligned
  <2> QED BY <1>1, <2>1 DEF Torn, Aligned, Last
<1>2. RecordInv => BuffersWhole
  BY <1>1 DEF RecordInv, BuffersInv, BuffersWhole
<1> QED BY <1>2, RecordInvariant, PTL

(* Both together: what the dump relies on when it takes a buffer as it is. *)
THEOREM BuffersCorrect == RecordSpec => []BuffersOK
BY RecordTypeCorrect, BuffersAlwaysWhole, PTL DEF BuffersOK

(* A collection that the trace makes gets an ID that none has, whatever    *)
(* IDs the program gave to its own, as long as the IDs do not overflow.    *)
THEOREM NewIdsUnique == RecordSpec => IdsUnique
<1> DEFINE Unique == Len(ids') > Len(ids) /\ Head(script).op = "new" /\ highest + 1 < IdLimit
                       => Last(ids') \notin Range(ids)
<1>1. ASSUME RecordInv, RecordNext PROVE Unique
  <2> SUFFICES ASSUME Len(ids') > Len(ids), Head(script).op = "new", highest + 1 < IdLimit
               PROVE  Last(ids') \notin Range(ids)
    OBVIOUS
  <2>1. ids \in Seq(Nat) /\ highest \in Nat
    BY <1>1 DEF RecordInv, IdsInv
  <2>2. ids' # ids
    BY <2>1
  <2>3. MainStep
    BY <1>1, <2>2 DEF RecordNext, MainWrites, PopTrace, PushTrace, DumpStart, DumpBuffer,
                      DumpFails, DumpEnd
  <2>4. Create(NewId)
    BY <2>2, <2>3 DEF MainStep
  <2>5. NewId \in Nat /\ (ids # <<>> => NewId = highest + 1)
    BY <1>1, NewIdType DEF RecordInv
  <2>6. Last(ids') = NewId
    BY <2>1, <2>4, <2>5 DEF Create, AddCollection, Last
  <2>7. \A i \in DOMAIN ids : ids[i] <= highest /\ ids[i] \in Nat
    BY <1>1, <2>1 DEF RecordInv, IdsInv
  <2>8. NewId \notin Range(ids)
    BY <2>1, <2>5, <2>7 DEF Range
  <2> QED BY <2>6, <2>8
<1>2. RecordInv /\ [RecordNext]_recordVars => [Unique]_recordVars
  BY <1>1
<1>3. [][Unique]_recordVars => IdsUnique
  BY PTL DEF IdsUnique
<1> QED BY <1>2, <1>3, RecordInvariant, PTL DEF RecordSpec

-----------------------------------------------------------------------------
(***************************************************************************)
(* The events in the buffer of a thread tell the states that the thread    *)
(* was in (TraceRecord.StatesTold), for any calls of any number of         *)
(* threads, any depth of the state stacks and any sizes of the buffers.    *)
(***************************************************************************)
(* The inductive invariant.  A thread in the states in was, in the time    *)
(* steps before, in the states ps, innermost; st is the state stack of its *)
(* collection and es are the events in its buffer.                         *)

(* The stack holds the states of the thread, and the one on top is what    *)
(* the thread has been in since that entry started.                        *)
Follows(in, st, ps) ==
  /\ Len(in) = Len(st)
  /\ \A i \in 1 .. Len(st) : st[i].state = in[i]
  /\ st # <<>> => /\ st[Len(st)].start <= Len(ps)
                  /\ \A t \in st[Len(st)].start + 1 .. Len(ps) : ps[t] = st[Len(st)].state

(* The events must tell everything up to this time step.                   *)
Until(st, ps) == IF st = <<>> THEN Len(ps) ELSE st[Len(st)].start

(* Every event tells the truth, and they follow each other in time.        *)
Tells(es, id, ps, end) ==
  \A i \in 1 .. Len(es) :
    /\ es[i].id = id
    /\ es[i].start \in Nat /\ es[i].end \in Nat /\ es[i].start <= es[i].end /\ es[i].end <= end
    /\ \A t \in es[i].start + 1 .. es[i].end : ps[t] = es[i].state
    /\ \A j \in 1 .. i - 1 : es[j].end <= es[i].start

(* Nothing is left out, unless the collection is among those that missed   *)
(* something.                                                              *)
Covers(es, ps, end, c, missed) ==
  \A t \in 1 .. end :
    \/ c \in missed
    \/ ps[t] = None
    \/ \E i \in 1 .. Len(es) : t \in es[i].start + 1 .. es[i].end

Told(c) ==
  /\ Len(past[c]) = now
  /\ taken[c] # <<>> => c <= Len(ids)
  /\ Follows(inside[c], stack[c], past[c])
  /\ Tells(taken[c], ids[c], past[c], Until(stack[c], past[c]))
  /\ Covers(taken[c], past[c], Until(stack[c], past[c]), c, lost)

HistoryInv ==
  /\ past \in [Colls -> Seq(States \cup {None})]
  /\ inside \in [Colls -> Seq(States)]
  /\ taken \in [Bufs -> Seq(Frame(States))]

ToldInv == HistoryInv /\ \A c \in Colls \ astray : Told(c)

-----------------------------------------------------------------------------
(* Time passes                                                             *)

Entry == [state : States, start : Nat]
Moment == States \cup {None}
InnermostOf(in) == IF in = <<>> THEN None ELSE Last(in)

(* What a longer past says                                                 *)
Longer(ps, k, s) == ps \o [t \in 1 .. k |-> s]

LEMMA LongerType ==
  ASSUME NEW ps \in Seq(Moment), NEW k \in Nat, NEW s \in Moment
  PROVE  /\ Longer(ps, k, s) \in Seq(Moment)
         /\ Len(Longer(ps, k, s)) = Len(ps) + k
         /\ \A t \in 1 .. Len(ps) : Longer(ps, k, s)[t] = ps[t]
         /\ \A t \in Len(ps) + 1 .. Len(ps) + k : Longer(ps, k, s)[t] = s
<1> DEFINE more == [t \in 1 .. k |-> s]
<1>1. more \in Seq(Moment) /\ Len(more) = k /\ \A t \in 1 .. k : more[t] = s
  BY FunctionIsSeq
<1> HIDE DEF more
<1>2. /\ ps \o more \in Seq(Moment) /\ Len(ps \o more) = Len(ps) + k
      /\ \A t \in 1 .. Len(ps) + k : (ps \o more)[t] =
                     IF t <= Len(ps) THEN ps[t] ELSE more[t - Len(ps)]
  BY <1>1, ConcatProperties
<1>3. Len(ps) \in Nat
  OBVIOUS
<1>4. \A t \in Len(ps) + 1 .. Len(ps) + k : t - Len(ps) \in 1 .. k /\ ~(t <= Len(ps))
  BY <1>3
<1>5. \A t \in 1 .. Len(ps) : t \in 1 .. Len(ps) + k /\ t <= Len(ps)
  BY <1>3
<1>6. \A t \in Len(ps) + 1 .. Len(ps) + k : t \in 1 .. Len(ps) + k
  BY <1>3
<1> QED BY <1>1, <1>2, <1>4, <1>5, <1>6 DEF Longer, more

(* As long as the thread stays where it is, its stack follows it.          *)
LEMMA FollowsLonger ==
  ASSUME NEW in \in Seq(States), NEW st \in Seq(Entry), NEW ps \in Seq(Moment), NEW k \in Nat,
         Follows(in, st, ps)
  PROVE  Follows(in, st, Longer(ps, k, InnermostOf(in)))
<1> DEFINE s == InnermostOf(in)
           qs == Longer(ps, k, s)
<1>1. CASE st = <<>>
  BY <1>1 DEF Follows
<1>2. CASE st # <<>>
  <2>1. Len(st) \in 1 .. Len(st) /\ Len(in) = Len(st) /\ in # <<>>
    BY <1>2 DEF Follows
  <2>2. in[Len(in)] \in States
    BY <2>1
  <2>3. s = in[Len(in)] /\ s \in Moment /\ s = st[Len(st)].state
    BY <2>1, <2>2 DEF Follows, InnermostOf, Last, Moment
  <2> HIDE DEF s
  <2>4. /\ Len(qs) = Len(ps) + k
        /\ \A t \in 1 .. Len(ps) : qs[t] = ps[t]
        /\ \A t \in Len(ps) + 1 .. Len(ps) + k : qs[t] = s
    BY <2>3, LongerType
  <2> HIDE DEF qs
  <2>5. st[Len(st)] \in Entry
    BY <2>1
  <2>6. st[Len(st)].start \in Nat /\ Len(ps) \in Nat
    BY <2>5 DEF Entry
  <2>7. st[Len(st)].start <= Len(ps) /\ \A t \in st[Len(st)].start + 1 .. Len(ps) : ps[t] = s
    BY <1>2, <2>3 DEF Follows
  <2>8. ASSUME NEW t \in st[Len(st)].start + 1 .. Len(qs) PROVE qs[t] = s
    <3>1. CASE t <= Len(ps)
      <4>1. t \in 1 .. Len(ps) /\ t \in st[Len(st)].start + 1 .. Len(ps)
        BY <3>1, <2>6
      <4> QED BY <4>1, <2>4, <2>7
    <3>2. CASE ~(t <= Len(ps))
      <4>1. t \in Len(ps) + 1 .. Len(ps) + k
        BY <3>2, <2>4, <2>6
      <4> QED BY <4>1, <2>4
    <3> QED BY <3>1, <3>2
  <2>9. st[Len(st)].start <= Len(qs)
    BY <2>4, <2>6, <2>7
  <2> QED BY <2>3, <2>8, <2>9 DEF Follows, qs, s
<1> QED BY <1>1, <1>2

(* What was told remains told.                                             *)
LEMMA ToldLonger ==
  ASSUME NEW es \in Seq(Frame(States)), NEW id, NEW ps \in Seq(Moment), NEW k \in Nat,
         NEW s \in Moment, NEW e \in 0 .. Len(ps), NEW f \in Nat, e <= f,
         Tells(es, id, ps, e)
  PROVE  Tells(es, id, Longer(ps, k, s), f)
<1> DEFINE qs == Longer(ps, k, s)
<1>1. \A t \in 1 .. Len(ps) : qs[t] = ps[t]
  BY LongerType
<1> HIDE DEF qs
<1>2. Len(ps) \in Nat
  OBVIOUS
<1> SUFFICES ASSUME NEW i \in 1 .. Len(es)
             PROVE  /\ es[i].end <= f
                    /\ \A t \in es[i].start + 1 .. es[i].end : qs[t] = es[i].state
  BY DEF Tells, qs
<1>3. /\ es[i].start \in Nat /\ es[i].end \in Nat /\ es[i].end <= e
      /\ \A t \in es[i].start + 1 .. es[i].end : ps[t] = es[i].state
  BY DEF Tells
<1>4. \A t \in es[i].start + 1 .. es[i].end : t \in 1 .. Len(ps)
  BY <1>2, <1>3
<1> QED BY <1>1, <1>3, <1>4

LEMMA CoversLonger ==
  ASSUME NEW es \in Seq(Frame(States)), NEW ps \in Seq(Moment), NEW k \in Nat,
         NEW s \in Moment, NEW e \in 0 .. Len(ps), NEW c, NEW missed, NEW missed2,
         c \in missed => c \in missed2, Covers(es, ps, e, c, missed)
  PROVE  /\ Covers(es, Longer(ps, k, s), e, c, missed2)
         /\ s = None /\ e = Len(ps) => Covers(es, Longer(ps, k, s), Len(ps) + k, c, missed2)
<1> DEFINE qs == Longer(ps, k, s)
<1>1. /\ \A t \in 1 .. Len(ps) : qs[t] = ps[t]
      /\ \A t \in Len(ps) + 1 .. Len(ps) + k : qs[t] = s
  BY LongerType
<1> HIDE DEF qs
<1>2. Len(ps) \in Nat /\ \A t \in 1 .. e : t \in 1 .. Len(ps)
  OBVIOUS
<1>3. Covers(es, qs, e, c, missed2)
  BY <1>1, <1>2 DEF Covers
<1>4. ASSUME s = None, e = Len(ps) PROVE Covers(es, qs, Len(ps) + k, c, missed2)
  <2>1. \A t \in 1 .. Len(ps) + k : t \in 1 .. e \/ t \in Len(ps) + 1 .. Len(ps) + k
    BY <1>4, <1>2
  <2> QED BY <2>1, <1>1, <1>3, <1>4 DEF Covers
<1> QED BY <1>3, <1>4 DEF qs

-----------------------------------------------------------------------------
(* An event is written                                                     *)

(* An event that begins where the last ended and tells the truth           *)
LEMMA EventTells ==
  ASSUME NEW es \in Seq(Frame(States)), NEW id \in Nat, NEW ps, NEW e \in Nat, NEW f \in Nat,
         e <= f, NEW s \in States, NEW c, NEW missed, \A t \in e + 1 .. f : ps[t] = s,
         Tells(es, id, ps, e), Covers(es, ps, e, c, missed)
  PROVE  /\ Append(es, Event(id, s, e, f)) \in Seq(Frame(States))
         /\ Tells(Append(es, Event(id, s, e, f)), id, ps, f)
         /\ Covers(Append(es, Event(id, s, e, f)), ps, f, c, missed)
<1> DEFINE ev == Event(id, s, e, f)
           fs == Append(es, ev)
<1>1. ev \in Frame(States) /\ ev.id = id /\ ev.state = s /\ ev.start = e /\ ev.end = f
  BY DEF Event, Frame
<1> HIDE DEF ev
<1>2. /\ fs \in Seq(Frame(States)) /\ Len(fs) = Len(es) + 1 /\ Len(es) \in Nat
      /\ \A i \in 1 .. Len(es) : fs[i] = es[i]
      /\ fs[Len(es) + 1] = ev
  <2> HIDE DEF fs
  <2> DEFINE F == Frame(States)
  <2>1. es \in Seq(F) /\ ev \in F
    BY <1>1
  <2> HIDE DEF F
  <2>2. /\ Append(es, ev) \in Seq(F)
        /\ Len(Append(es, ev)) = Len(es) + 1 /\ Len(es) \in Nat
        /\ \A i \in 1 .. Len(es) : Append(es, ev)[i] = es[i]
        /\ Append(es, ev)[Len(es) + 1] = ev
    BY <2>1, AppendProperties, LenProperties
  <2> QED BY <2>2 DEF fs, F
<1> HIDE DEF fs
<1>3. \A i \in 1 .. Len(es) : /\ es[i].id = id
                              /\ es[i].start \in Nat /\ es[i].end \in Nat
                              /\ es[i].start <= es[i].end /\ es[i].end <= e
                              /\ \A t \in es[i].start + 1 .. es[i].end : ps[t] = es[i].state
                              /\ \A j \in 1 .. i - 1 : es[j].end <= es[i].start
  BY DEF Tells
<1>4. Tells(fs, id, ps, f)
  <2> SUFFICES ASSUME NEW i \in 1 .. Len(fs)
               PROVE  /\ fs[i].id = id
                      /\ fs[i].start \in Nat /\ fs[i].end \in Nat
                      /\ fs[i].start <= fs[i].end /\ fs[i].end <= f
                      /\ \A t \in fs[i].start + 1 .. fs[i].end : ps[t] = fs[i].state
                      /\ \A j \in 1 .. i - 1 : fs[j].end <= fs[i].start
    BY DEF Tells
  <2>1. CASE i \in 1 .. Len(es)
    <3>1. \A j \in 1 .. i - 1 : j \in 1 .. Len(es) /\ fs[j] = es[j]
      BY <2>1, <1>2
    <3>2. fs[i] = es[i] /\ i \in 1 .. Len(es)
      BY <2>1, <1>2
    <3>3. es[i].end \in Nat /\ es[i].end <= e => es[i].end <= f
      OBVIOUS
    <3> QED BY <3>1, <3>2, <3>3, <1>3
  <2>2. CASE i = Len(es) + 1
    <3>1. \A j \in 1 .. i - 1 : j \in 1 .. Len(es) /\ fs[j] = es[j]
      BY <2>2, <1>2
    <3>2. fs[i] = ev
      BY <2>2, <1>2
    <3>3. \A j \in 1 .. i - 1 : fs[j].end <= e
      BY <3>1, <1>3
    <3> QED BY <3>2, <3>3, <1>1
  <2> QED BY <2>1, <2>2, <1>2
<1>5. Covers(fs, ps, f, c, missed)
  <2> SUFFICES ASSUME NEW t \in 1 .. f, c \notin missed, ps[t] # None
               PROVE  \E i \in 1 .. Len(fs) : t \in fs[i].start + 1 .. fs[i].end
    BY DEF Covers
  <2>1. CASE t <= e
    <3>1. PICK i \in 1 .. Len(es) : t \in es[i].start + 1 .. es[i].end
      BY <2>1 DEF Covers
    <3>2. i \in 1 .. Len(fs) /\ fs[i] = es[i]
      BY <1>2
    <3> QED BY <3>1, <3>2
  <2>2. CASE ~(t <= e)
    <3>1. t \in ev.start + 1 .. ev.end
      BY <2>2, <1>1
    <3>2. Len(fs) \in 1 .. Len(fs) /\ fs[Len(fs)] = ev
      BY <1>2
    <3> QED BY <3>1, <3>2
  <2> QED BY <2>1, <2>2
<1> QED BY <1>2, <1>4, <1>5 DEF fs, ev

-----------------------------------------------------------------------------
(* The stack                                                               *)

LEMMA PushFollows ==
  ASSUME NEW in \in Seq(States), NEW st \in Seq(Entry), NEW ps \in Seq(Moment),
         NEW s \in States, Follows(in, st, ps)
  PROVE  LET up == Append(st, [state |-> s, start |-> Len(ps)])
         IN  Follows(Append(in, s), up, ps) /\ Until(up, ps) = Len(ps)
<1> DEFINE top == [state |-> s, start |-> Len(ps)]
           up == Append(st, top)
           now2 == Append(in, s)
<1>1. Len(ps) \in Nat /\ Len(st) \in Nat /\ Len(in) = Len(st)
  BY DEF Follows
<1>2. top \in Entry /\ top.state = s /\ top.start = Len(ps)
  BY <1>1 DEF Entry
<1> HIDE DEF top
<1>3. /\ up # <<>> /\ Len(up) = Len(st) + 1 /\ up[Len(st) + 1] = top
      /\ \A i \in 1 .. Len(st) : up[i] = st[i]
  BY <1>2, AppendProperties
<1>4. /\ Len(now2) = Len(in) + 1 /\ now2[Len(in) + 1] = s
      /\ \A i \in 1 .. Len(in) : now2[i] = in[i]
  BY AppendProperties
<1> HIDE DEF up, now2
<1>5. \A i \in 1 .. Len(st) : st[i].state = in[i]
  BY DEF Follows
<1>6. ASSUME NEW i \in 1 .. Len(up) PROVE up[i].state = now2[i]
  <2>1. i \in 1 .. Len(st) \/ i = Len(st) + 1
    BY <1>1, <1>3
  <2> QED BY <2>1, <1>1, <1>2, <1>3, <1>4, <1>5
<1>7. up[Len(up)].start = Len(ps)
  BY <1>2, <1>3
<1>8. \A t \in up[Len(up)].start + 1 .. Len(ps) : FALSE
  BY <1>1, <1>7
<1>9. Follows(now2, up, ps) /\ Until(up, ps) = Len(ps)
  BY <1>1, <1>3, <1>4, <1>6, <1>7, <1>8 DEF Follows, Until
<1> QED BY <1>9 DEF up, top, now2

LEMMA FrontOf ==
  ASSUME NEW S, NEW s \in Seq(S), s # <<>>
  PROVE  /\ Front(s) \in Seq(S) /\ Len(Front(s)) = Len(s) - 1
         /\ \A i \in 1 .. Len(s) - 1 : Front(s)[i] = s[i]
<1>1. Len(s) \in Nat \ {0} /\ \A i \in 1 .. Len(s) - 1 : s[i] \in S
  BY EmptySeq
<1> DEFINE n == Len(s) - 1
<1>2. n \in Nat /\ 1 \in Int /\ n \in Int /\ \A i \in 1 .. n : s[i] \in S
  BY <1>1
<1> HIDE DEF n
<1>3. /\ SubSeq(s, 1, n) \in Seq(S)
      /\ Len(SubSeq(s, 1, n)) = IF 1 <= n THEN n - 1 + 1 ELSE 0
      /\ \A i \in 1 .. n - 1 + 1 : SubSeq(s, 1, n)[i] = s[1 + i - 1]
  BY <1>2, SubSeqProperties
<1>4. /\ SubSeq(s, 1, n) \in Seq(S) /\ Len(SubSeq(s, 1, n)) = n
      /\ \A i \in 1 .. n : SubSeq(s, 1, n)[i] = s[i]
  BY <1>2, <1>3
<1> QED BY <1>4 DEF Front, n

LEMMA PopFollows ==
  ASSUME NEW in \in Seq(States), NEW st \in Seq(Entry), NEW ps \in Seq(Moment),
         Follows(in, st, ps), st # <<>>
  PROVE  LET rest == Popped(st, Len(ps))
         IN  Follows(Front(in), rest, ps) /\ Until(rest, ps) = Len(ps)
<1> DEFINE fr == Front(st)
           rest == Popped(st, Len(ps))
           out == Front(in)
<1>1. /\ Len(ps) \in Nat /\ Len(st) \in Nat \ {0} /\ Len(in) = Len(st) /\ in # <<>>
      /\ \A i \in 1 .. Len(st) : st[i].state = in[i]
  BY EmptySeq DEF Follows
<1>2. /\ fr \in Seq(Entry) /\ Len(fr) = Len(st) - 1
      /\ \A i \in 1 .. Len(st) - 1 : fr[i] = st[i]
  BY FrontOf
<1>3. out \in Seq(States) /\ Len(out) = Len(in) - 1 /\ \A i \in 1 .. Len(in) - 1 : out[i] = in[i]
  BY <1>1, FrontOf
<1> HIDE DEF out
<1>4. CASE fr = <<>>
  <2>1. rest = <<>>
    BY <1>4 DEF Popped
  <2>2. Len(out) = 0
    BY <1>1, <1>2, <1>3, <1>4
  <2>3. Follows(out, <<>>, ps) /\ Until(<<>>, ps) = Len(ps)
    BY <2>2 DEF Follows, Until
  <2> QED BY <2>1, <2>3, Zenon DEF out
<1>5. CASE fr # <<>>
  <2> DEFINE top == [fr[Len(fr)] EXCEPT !.start = Len(ps)]
  <2>1. Len(fr) \in 1 .. Len(fr)
    BY <1>2, <1>5, EmptySeq
  <2>2. rest = [fr EXCEPT ![Len(fr)] = top]
    BY <1>5 DEF Popped
  <2>3. fr[Len(fr)] \in Entry
    BY <1>2, <2>1, ElementOfSeq
  <2>4. top \in Entry /\ top.start = Len(ps) /\ top.state = fr[Len(fr)].state
    BY <1>1, <2>3 DEF Entry
  <2> HIDE DEF top, fr, rest
  <2>5. /\ rest \in Seq(Entry) /\ Len(rest) = Len(fr)
        /\ \A j \in 1 .. Len(fr) : rest[j] = IF j = Len(fr) THEN top ELSE fr[j]
    BY <1>2, <2>1, <2>2, <2>4, ExceptSeq
  <2>6. rest # <<>> /\ rest[Len(rest)].start = Len(ps)
    BY <2>1, <2>4, <2>5
  <2>7. \A t \in rest[Len(rest)].start + 1 .. Len(ps) : FALSE
    BY <1>1, <2>6
  <2>8. \A i \in 1 .. Len(rest) : rest[i].state = out[i]
    BY <1>1, <1>2, <1>3, <2>4, <2>5
  <2>9. Follows(out, rest, ps) /\ Until(rest, ps) = Len(ps)
    BY <1>1, <1>2, <1>3, <2>5, <2>6, <2>7, <2>8 DEF Follows, Until
  <2> QED BY <2>9 DEF rest, out
<1> QED BY <1>4, <1>5

-----------------------------------------------------------------------------
(* The steps                                                               *)

LEMMA HistoryType ==
  ASSUME RecordInv, HistoryInv, NEW c \in Colls
  PROVE  /\ c \in Bufs /\ c # Main
         /\ inside[c] \in Seq(States) /\ stack[c] \in Seq(Entry) /\ past[c] \in Seq(Moment)
         /\ taken[c] \in Seq(Frame(States))
         /\ InnermostOf(inside[c]) \in Moment
         /\ now \in Nat
<1>1. c \in Bufs /\ c # Main
  BY RecordAssumption DEF Bufs, Main, Colls
<1>2. /\ inside[c] \in Seq(States) /\ stack[c] \in Seq(Entry) /\ past[c] \in Seq(Moment)
      /\ taken[c] \in Seq(Frame(States)) /\ now \in Nat
  BY <1>1 DEF HistoryInv, RecordInv, ProgramInv, Entry, Moment
<1>3. InnermostOf(inside[c]) \in Moment
  <2>1. CASE inside[c] = <<>>
    BY <2>1 DEF InnermostOf, Moment
  <2>2. CASE inside[c] # <<>>
    <3>1. inside[c][Len(inside[c])] \in States
      BY <1>2, <2>2, EmptySeq, ElementOfSeq
    <3> QED BY <2>2, <3>1 DEF InnermostOf, Moment, Last
  <2> QED BY <2>1, <2>2
<1> QED BY <1>1, <1>2, <1>3

(* A collection that a step leaves alone                                   *)
LEMMA StillTold ==
  ASSUME NEW c \in Colls, Told(c), ids \in Seq(Nat),
         UNCHANGED <<now, past, inside, stack, taken, lost>>,
         ids' = ids \/ \E i \in Nat : ids' = Append(ids, i)
  PROVE  Told(c)'
<1>1. CASE taken[c] = <<>>
  BY <1>1 DEF Told, Tells, Covers
<1>2. CASE taken[c] # <<>>
  <2>1. c \in 1 .. Len(ids)
    BY <1>2, RecordAssumption DEF Told, Colls
  <2>2. c <= Len(ids') /\ ids'[c] = ids[c]
    BY <2>1
  <2> QED BY <2>2 DEF Told
<1> QED BY <1>1, <1>2

(* Time passes while the thread of a collection stays where it is.         *)
LEMMA WaitTold ==
  ASSUME RecordInv, HistoryInv, NEW c \in Colls, Told(c), NEW k \in Nat
  PROVE  LET qs == Longer(past[c], k, InnermostOf(inside[c]))
         IN  /\ Len(qs) = now + k
             /\ Follows(inside[c], stack[c], qs)
             /\ Tells(taken[c], ids[c], qs, Until(stack[c], qs))
             /\ Covers(taken[c], qs, Until(stack[c], qs), c, lost)
<1> DEFINE ps == past[c]
           st == stack[c]
           s == InnermostOf(inside[c])
           u == Until(stack[c], past[c])
           n == k
           qs == Longer(ps, n, s)
<1>1. /\ ps \in Seq(Moment) /\ st \in Seq(Entry) /\ inside[c] \in Seq(States)
      /\ taken[c] \in Seq(Frame(States)) /\ s \in Moment /\ n \in Nat
  BY HistoryType
<1>2. /\ Len(ps) = now
      /\ Follows(inside[c], st, ps) /\ Tells(taken[c], ids[c], ps, u)
      /\ Covers(taken[c], ps, u, c, lost) /\ u = Until(st, ps)
  BY DEF Told
<1> HIDE DEF ps, s, u, st, n
<1>3. Len(qs) = Len(ps) + n /\ Len(ps) \in Nat
  <2>1. ps \in Seq(Moment) /\ s \in Moment /\ n \in Nat
    BY <1>1
  <2>2. Len(Longer(ps, n, s)) = Len(ps) + n
    BY <2>1, LongerType
  <2> QED BY <2>1, <2>2, LenProperties
<1>4. Follows(inside[c], st, qs)
  BY <1>1, <1>2, FollowsLonger DEF s
<1>5. u \in 0 .. Len(ps) /\ Until(st, qs) \in Nat /\ u <= Until(st, qs)
  <2> HIDE DEF qs
  <2>1. CASE st = <<>>
    BY <2>1, <1>1, <1>2, <1>3 DEF Until
  <2>2. CASE st # <<>>
    <3>1. st[Len(st)] \in Entry
      BY <1>1, <2>2, EmptySeq, ElementOfSeq
    <3> QED BY <2>2, <3>1, <1>2, <1>3 DEF Until, Entry, Follows
  <2> QED BY <2>1, <2>2
<1>6. Tells(taken[c], ids[c], qs, Until(st, qs))
  BY <1>1, <1>2, <1>5, ToldLonger
<1>7. Covers(taken[c], qs, Until(st, qs), c, lost)
  <2>1. CASE st = <<>>
    <3>1. inside[c] = <<>>
      BY <1>1, <1>2, <2>1, EmptySeq DEF Follows
    <3>2. s = None /\ u = Len(ps) /\ Until(st, qs) = Len(ps) + n
      BY <2>1, <3>1, <1>2, <1>3 DEF InnermostOf, Until, s
    <3> QED BY <1>1, <1>2, <1>5, <3>2, CoversLonger
  <2>2. CASE st # <<>>
    <3>1. Until(st, qs) = u
      BY <2>2, <1>2 DEF Until
    <3> QED BY <1>1, <1>2, <1>5, <3>1, CoversLonger
  <2> QED BY <2>1, <2>2
<1> QED BY <1>2, <1>3, <1>4, <1>6, <1>7 DEF ps, s, st, n

(* What a call does to the past                                            *)
LEMMA CallPast ==
  ASSUME RecordInv, HistoryInv, NEW c \in Colls, NEW time \in now .. now + 1, Call(c, time)
  PROVE  /\ time - now \in Nat /\ now' = now + (time - now) /\ now' = time
         /\ past' \in [Colls -> Seq(Moment)]
         /\ \A d \in Colls : past'[d] = Longer(past[d], time - now, InnermostOf(inside[d]))
         /\ c <= Len(ids)
<1>1. now \in Nat /\ now' = time /\ c <= Len(ids)
  BY DEF Call, RecordInv, ProgramInv
<1>2. time - now \in Nat /\ now' = now + (time - now)
  BY <1>1
<1>3. past' = [d \in Colls |-> Longer(past[d], time - now, InnermostOf(inside[d]))]
  BY DEF Call, Longer, Innermost, InnermostOf
<1>4. \A d \in Colls : Longer(past[d], time - now, InnermostOf(inside[d])) \in Seq(Moment)
  BY <1>2, HistoryType, LongerType
<1> QED BY <1>1, <1>2, <1>3, <1>4

(* What is told of any thread at the time of a call, before it has effect  *)
LEMMA CallTold ==
  ASSUME RecordInv, HistoryInv, NEW c \in Colls, NEW time \in now .. now + 1, Call(c, time),
         NEW d \in Colls, Told(d)
  PROVE  /\ Len(past'[d]) = now'
         /\ past'[d] \in Seq(Moment)
         /\ Follows(inside[d], stack[d], past'[d])
         /\ Tells(taken[d], ids[d], past'[d], Until(stack[d], past'[d]))
         /\ Covers(taken[d], past'[d], Until(stack[d], past'[d]), d, lost)
<1> DEFINE k == time - now
<1>1. /\ k \in Nat /\ now' = now + k
      /\ past'[d] = Longer(past[d], k, InnermostOf(inside[d]))
      /\ past'[d] \in Seq(Moment)
  BY CallPast
<1> HIDE DEF k
<1> QED BY <1>1, WaitTold

LEMMA CoversMore ==
  ASSUME NEW es, NEW ps, NEW e, NEW c, NEW missed, NEW missed2, c \in missed => c \in missed2,
         Covers(es, ps, e, c, missed)
  PROVE  Covers(es, ps, e, c, missed2)
BY DEF Covers

(* The others wait while a thread calls.                                   *)
LEMMA OthersTold ==
  ASSUME RecordInv, HistoryInv, NEW c \in Colls, NEW time \in now .. now + 1, Call(c, time),
         NEW d \in Colls, Told(d), ids' = ids, d \in lost => d \in lost',
         inside'[d] = inside[d], stack'[d] = stack[d], taken'[d] = taken[d]
  PROVE  Told(d)'
<1>1. /\ Len(past'[d]) = now'
      /\ Follows(inside[d], stack[d], past'[d])
      /\ Tells(taken[d], ids[d], past'[d], Until(stack[d], past'[d]))
      /\ Covers(taken[d], past'[d], Until(stack[d], past'[d]), d, lost)
  BY CallTold
<1>2. Covers(taken[d], past'[d], Until(stack[d], past'[d]), d, lost')
  BY <1>1, CoversMore
<1> QED BY <1>1, <1>2 DEF Told

(* The event of the state on top of the stack is true.                     *)
LEMMA TopTells ==
  ASSUME RecordInv, HistoryInv, NEW c \in Colls, Told(c), stack[c] # <<>>,
         NEW time \in now .. now + 1, Call(c, time)
  PROVE  LET top == Last(stack[c])
             es == Append(taken[c], Event(ids[c], top.state, top.start, time))
         IN  /\ Tells(es, ids[c], past'[c], time)
             /\ Covers(es, past'[c], time, c, lost)
             /\ \A missed : c \in missed => /\ Tells(taken[c], ids[c], past'[c], time)
                                            /\ Covers(taken[c], past'[c], time, c, missed)
<1> DEFINE qs == past'[c]
           st == stack[c]
           top == st[Len(st)]
           s == top.state
           e == top.start
           f == time
           es == taken[c]
           id == ids[c]
<1>1. /\ Len(qs) = f /\ f \in Nat
      /\ Follows(inside[c], st, qs)
      /\ Tells(es, id, qs, Until(st, qs))
      /\ Covers(es, qs, Until(st, qs), c, lost)
      /\ es \in Seq(Frame(States)) /\ id \in Nat
  BY CallTold, CallPast, CallType, HistoryType
<1>2. st \in Seq(Entry) /\ st # <<>>
  BY HistoryType
<1>3. top \in Entry
  BY <1>2, EmptySeq, ElementOfSeq
<1>4. s \in States /\ e \in Nat /\ Until(st, qs) = e /\ top = Last(stack[c])
  BY <1>2, <1>3 DEF Entry, Until, Last
<1>5. e <= f /\ \A t \in e + 1 .. f : qs[t] = s
  BY <1>1, <1>2 DEF Follows
<1> HIDE DEF qs, st, top, s, e, f, es, id
<1>6. /\ Tells(Append(es, Event(id, s, e, f)), id, qs, f)
      /\ Covers(Append(es, Event(id, s, e, f)), qs, f, c, lost)
  BY <1>1, <1>4, <1>5, EventTells
<1>7. \A n \in Nat : n <= e => n <= f
  BY <1>1, <1>4, <1>5
<1>8. Tells(es, id, qs, f)
  BY <1>1, <1>4, <1>7 DEF Tells
<1>9. \A missed : c \in missed => Covers(es, qs, f, c, missed)
  BY DEF Covers
<1> QED BY <1>4, <1>6, <1>8, <1>9 DEF qs, st, s, e, f, es, id

(* What writing a frame does to the histories                              *)
LEMMA WriteTaken ==
  ASSUME HistoryInv, NEW b \in Bufs, NEW f \in Frame(States), WriteFrame(b, f)
  PROVE  /\ taken' \in [Bufs -> Seq(Frame(States))]
         /\ \A d \in Bufs \ {b} : taken'[d] = taken[d] /\ (d \in lost => d \in lost')
         /\ \/ Taken(b, f) /\ taken'[b] = Append(taken[b], f) /\ lost' = lost
            \/ ~Taken(b, f) /\ taken' = taken /\ b \in lost'
<1>1. taken \in [Bufs -> Seq(Frame(States))]
  BY DEF HistoryInv
<1>2. CASE Taken(b, f)
  <2>1. taken' = [taken EXCEPT ![b] = Append(taken[b], f)] /\ lost' = lost
    BY <1>2 DEF WriteFrame
  <2>2. Append(taken[b], f) \in Seq(Frame(States))
    BY <1>1, AppendProperties
  <2> QED BY <1>1, <1>2, <2>1, <2>2
<1>3. CASE ~Taken(b, f)
  BY <1>1, <1>3 DEF WriteFrame
<1> QED BY <1>2, <1>3

LEMMA PushTraceTold ==
  ASSUME RecordInv, ToldInv, NEW c \in Colls, NEW s \in States, PushTrace(c, s)
  PROVE  ToldInv'
<1> DEFINE entry(time) == [state |-> s, start |-> time]
           event(time) == Event(ids[c], Last(stack[c]).state, Last(stack[c]).start, time)
<1>1. PICK time \in now .. now + 1 :
        /\ Call(c, time)
        /\ inside' = [inside EXCEPT ![c] = Append(@, s)]
        /\ \/ astray' = astray \cup {c} /\ WriteNothing /\ UNCHANGED stack
           \/ /\ stack' = [stack EXCEPT ![c] = Append(@, entry(time))]
              /\ \/ stack[c] = <<>> /\ WriteNothing
                 \/ stack[c] # <<>> /\ WriteFrame(c, event(time))
              /\ UNCHANGED astray
        /\ UNCHANGED ids
  BY DEF PushTrace
<1>2. /\ HistoryInv /\ c \in Bufs /\ ids[c] \in Nat /\ time \in Nat /\ now' = time
      /\ stack \in [Colls -> Seq(Entry)] /\ inside \in [Colls -> Seq(States)]
      /\ Colls \subseteq Bufs
  BY <1>1, CallType DEF ToldInv, HistoryInv, RecordInv, ProgramInv, Entry, Bufs
<1>3. stack[c] # <<>> => event(time) \in Frame(States)
  BY <1>2, StackEvent
<1>4. /\ taken' \in [Bufs -> Seq(Frame(States))]
      /\ \A d \in Bufs \ {c} : taken'[d] = taken[d] /\ (d \in lost => d \in lost')
  BY <1>1, <1>2, <1>3, WriteTaken DEF WriteNothing, HistoryInv
<1>5. inside' \in [Colls -> Seq(States)] /\ inside'[c] = Append(inside[c], s)
        /\ \A d \in Colls \ {c} : inside'[d] = inside[d] /\ stack'[d] = stack[d]
  BY <1>1, <1>2
<1>6. HistoryInv'
  BY <1>1, <1>2, <1>4, <1>5, CallPast DEF HistoryInv, Moment
<1>7. ASSUME NEW d \in Colls \ {c}, d \notin astray' PROVE Told(d)'
  <2>1. Told(d)
    BY <1>1, <1>7 DEF ToldInv
  <2> QED BY <1>1, <1>2, <1>4, <1>5, <2>1, OthersTold
<1>8. ASSUME c \notin astray' PROVE Told(c)'
  <2> DEFINE qs == past'[c]
             up == Append(stack[c], [state |-> s, start |-> Len(qs)])
  <2>1. Told(c) /\ c <= Len(ids)
    BY <1>1, <1>8, CallPast, <1>2 DEF ToldInv
  <2>2. /\ Len(qs) = now' /\ qs \in Seq(Moment)
        /\ Follows(inside[c], stack[c], qs)
        /\ Tells(taken[c], ids[c], qs, Until(stack[c], qs))
        /\ Covers(taken[c], qs, Until(stack[c], qs), c, lost)
    BY <1>1, <1>2, <2>1, CallTold
  <2>3. stack'[c] = up
    BY <1>1, <1>2, <1>8, <2>2
  <2>4. Follows(inside'[c], stack'[c], qs) /\ Until(stack'[c], qs) = time
    <3>1. Follows(Append(inside[c], s), up, qs) /\ Until(up, qs) = Len(qs)
      BY <1>2, <2>2, PushFollows
    <3> QED BY <1>2, <1>5, <2>2, <2>3, <3>1
  <2>5. Tells(taken'[c], ids[c], qs, time) /\ Covers(taken'[c], qs, time, c, lost')
    <3>1. CASE stack[c] = <<>> /\ WriteNothing
      BY <3>1, <1>2, <2>2 DEF WriteNothing, Until
    <3>2. CASE stack[c] # <<>> /\ WriteFrame(c, event(time))
      <4>1. /\ Tells(Append(taken[c], event(time)), ids[c], qs, time)
            /\ Covers(Append(taken[c], event(time)), qs, time, c, lost)
            /\ \A missed : c \in missed => /\ Tells(taken[c], ids[c], qs, time)
                                           /\ Covers(taken[c], qs, time, c, missed)
        BY <3>2, <1>1, <1>2, <2>1, TopTells
      <4>2. \/ taken'[c] = Append(taken[c], event(time)) /\ lost' = lost
            \/ taken' = taken /\ c \in lost'
        BY <3>2, <1>2, <1>3, WriteTaken
      <4> QED BY <4>1, <4>2
    <3> QED BY <1>1, <1>8, <3>1, <3>2
  <2> QED BY <1>1, <2>1, <2>2, <2>4, <2>5 DEF Told
<1>9. \A d \in Colls \ astray' : Told(d)'
  BY <1>7, <1>8
<1> QED BY <1>6, <1>9 DEF ToldInv

LEMMA PopTraceTold ==
  ASSUME RecordInv, ToldInv, NEW c \in Colls, PopTrace(c)
  PROVE  ToldInv'
<1> DEFINE event(time) == Event(ids[c], Last(stack[c]).state, Last(stack[c]).start, time)
<1>1. PICK time \in now .. now + 1 :
        /\ Call(c, time)
        /\ inside[c] # <<>>
        /\ inside' = [inside EXCEPT ![c] = Front(@)]
        /\ \/ stack[c] = <<>> /\ WriteNothing /\ UNCHANGED <<stack, astray>>
           \/ /\ stack[c] # <<>>
              /\ WriteFrame(c, event(time))
              /\ \/ /\ Taken(c, event(time))
                    /\ stack' = [stack EXCEPT ![c] = Popped(@, time)] /\ astray' = astray
                 \/ ~Taken(c, event(time)) /\ stack' = stack /\ astray' = astray \cup {c}
        /\ UNCHANGED ids
  BY DEF PopTrace
<1>2. /\ HistoryInv /\ c \in Bufs /\ ids[c] \in Nat /\ time \in Nat /\ now' = time
      /\ stack \in [Colls -> Seq(Entry)] /\ inside \in [Colls -> Seq(States)]
      /\ Colls \subseteq Bufs
  BY <1>1, CallType DEF ToldInv, HistoryInv, RecordInv, ProgramInv, Entry, Bufs
<1>3. stack[c] # <<>> => event(time) \in Frame(States)
  BY <1>2, StackEvent
<1>4. /\ taken' \in [Bufs -> Seq(Frame(States))]
      /\ \A d \in Bufs \ {c} : taken'[d] = taken[d] /\ (d \in lost => d \in lost')
  BY <1>1, <1>2, <1>3, WriteTaken DEF WriteNothing, HistoryInv
<1>5. inside' \in [Colls -> Seq(States)] /\ inside'[c] = Front(inside[c])
        /\ \A d \in Colls \ {c} : inside'[d] = inside[d] /\ stack'[d] = stack[d]
  <2>1. Front(inside[c]) \in Seq(States)
    BY <1>1, <1>2, FrontOf
  <2> QED BY <1>1, <1>2, <2>1
<1>6. HistoryInv'
  BY <1>1, <1>2, <1>4, <1>5, CallPast DEF HistoryInv, Moment
<1>7. ASSUME NEW d \in Colls \ {c}, d \notin astray' PROVE Told(d)'
  <2>1. Told(d)
    BY <1>1, <1>7 DEF ToldInv
  <2> QED BY <1>1, <1>2, <1>4, <1>5, <2>1, OthersTold
<1>8. ASSUME c \notin astray' PROVE Told(c)'
  <2> DEFINE qs == past'[c]
  <2>1. Told(c) /\ c <= Len(ids)
    BY <1>1, <1>8, CallPast, <1>2 DEF ToldInv
  <2>2. Len(qs) = now' /\ qs \in Seq(Moment) /\ Follows(inside[c], stack[c], qs)
    BY <1>1, <1>2, <2>1, CallTold
  <2>3. stack[c] # <<>>
    <3>1. inside[c] \in Seq(States) /\ Len(inside[c]) = Len(stack[c]) /\ stack[c] \in Seq(Entry)
      BY <1>2, <2>1 DEF Told, Follows
    <3> QED BY <3>1, <1>1, EmptySeq
  <2>4. /\ WriteFrame(c, event(time)) /\ Taken(c, event(time))
        /\ stack'[c] = Popped(stack[c], Len(qs))
    BY <1>1, <1>2, <1>8, <2>2, <2>3
  <2>5. Follows(inside'[c], stack'[c], qs) /\ Until(stack'[c], qs) = time
    <3>1. /\ Follows(Front(inside[c]), Popped(stack[c], Len(qs)), qs)
          /\ Until(Popped(stack[c], Len(qs)), qs) = Len(qs)
      BY <1>2, <2>2, <2>3, PopFollows
    <3> QED BY <1>2, <1>5, <2>2, <2>4, <3>1
  <2>6. Tells(taken'[c], ids[c], qs, time) /\ Covers(taken'[c], qs, time, c, lost')
    <3>1. /\ Tells(Append(taken[c], event(time)), ids[c], qs, time)
          /\ Covers(Append(taken[c], event(time)), qs, time, c, lost)
      BY <1>1, <1>2, <2>1, <2>3, TopTells
    <3>2. taken'[c] = Append(taken[c], event(time)) /\ lost' = lost
      BY <1>2, <1>3, <2>3, <2>4, WriteTaken
    <3> QED BY <3>1, <3>2
  <2> QED BY <1>1, <2>1, <2>2, <2>5, <2>6 DEF Told
<1>9. \A d \in Colls \ astray' : Told(d)'
  BY <1>7, <1>8
<1> QED BY <1>6, <1>9 DEF ToldInv

LEMMA InitTold == RecordInit => ToldInv
<1> SUFFICES ASSUME RecordInit PROVE ToldInv
  OBVIOUS
<1>1. /\ past = [c \in Colls |-> <<>>] /\ inside = [c \in Colls |-> <<>>]
      /\ stack = [c \in Colls |-> <<>>] /\ now = 0
      /\ taken = [b \in Bufs |-> IF b = Main THEN <<Header>> ELSE <<>>]
  BY DEF RecordInit
<1>2. Header \in Frame(States)
  BY DEF Header, Frame
<1>3. HistoryInv
  BY <1>1, <1>2 DEF HistoryInv
<1>4. ASSUME NEW c \in Colls PROVE Told(c)
  <2>1. c \in Bufs /\ c # Main
    BY RecordAssumption DEF Bufs, Main, Colls
  <2>2. past[c] = <<>> /\ inside[c] = <<>> /\ stack[c] = <<>> /\ taken[c] = <<>>
    BY <1>1, <2>1
  <2>3. Follows(<<>>, <<>>, <<>>) /\ Until(<<>>, <<>>) = 0
    BY DEF Follows, Until
  <2>4. Tells(<<>>, ids[c], <<>>, 0) /\ Covers(<<>>, <<>>, 0, c, lost)
    BY DEF Tells, Covers
  <2> QED BY <1>1, <2>2, <2>3, <2>4 DEF Told
<1> QED BY <1>3, <1>4 DEF ToldInv

LEMMA NextTold == RecordInv /\ ToldInv /\ [RecordNext]_recordVars => ToldInv'
<1> SUFFICES ASSUME RecordInv, ToldInv, [RecordNext]_recordVars PROVE ToldInv'
  OBVIOUS
<1>1. ids \in Seq(Nat) /\ HistoryInv
  BY DEF RecordInv, IdsInv, ToldInv
<1>2. ASSUME UNCHANGED <<now, past, inside, stack, taken, lost, astray>>,
             ids' = ids \/ \E i \in Nat : ids' = Append(ids, i)
      PROVE  ToldInv'
  <2>1. HistoryInv'
    BY <1>1, <1>2 DEF HistoryInv
  <2>2. ASSUME NEW c \in Colls \ astray' PROVE Told(c)'
    BY <1>1, <1>2, <2>2, StillTold DEF ToldInv
  <2> QED BY <2>1, <2>2 DEF ToldInv
<1>3. CASE MainStep
  <2>1. Head(script) \in Operation
    BY <1>3 DEF MainStep, RecordInv, ProgramInv
  <2>2. ids' = ids \/ ids' = Append(ids, NewId)
          \/ (Head(script).op = "add" /\ ids' = Append(ids, Head(script).id))
    BY <1>3 DEF MainStep, Create, AddCollection
  <2>3. NewId \in Nat /\ (Head(script).op = "add" => Head(script).id \in Nat)
    BY <2>1, NewIdType DEF RecordInv, Operation
  <2> QED BY <1>2, <1>3, <2>2, <2>3 DEF MainStep
<1>4. CASE MainWrites
  <2>1. Head(frames) \in Frame(States) /\ Main \in Bufs /\ WriteFrame(Main, Head(frames))
    BY <1>4 DEF MainWrites, RecordInv, ProgramInv, Bufs
  <2>2. /\ taken' \in [Bufs -> Seq(Frame(States))]
        /\ \A d \in Bufs \ {Main} : taken'[d] = taken[d] /\ (d \in lost => d \in lost')
    BY <1>1, <2>1, WriteTaken
  <2>3. UNCHANGED <<ids, now, past, inside, stack, astray>>
    BY <1>4 DEF MainWrites
  <2>4. HistoryInv'
    BY <1>1, <2>2, <2>3 DEF HistoryInv
  <2>5. ASSUME NEW c \in Colls \ astray' PROVE Told(c)'
    <3>1. c \in Bufs \ {Main} /\ Told(c)
      BY <1>1, <2>3, HistoryType DEF ToldInv
    <3>2. taken'[c] = taken[c]
            /\ Covers(taken[c], past[c], Until(stack[c], past[c]), c, lost')
      BY <2>2, <3>1, CoversMore DEF Told
    <3> QED BY <2>3, <3>1, <3>2 DEF Told
  <2> QED BY <2>4, <2>5 DEF ToldInv
<1>5. CASE \E c \in Colls : PopTrace(c) \/ \E s \in States : PushTrace(c, s)
  BY <1>5, PopTraceTold, PushTraceTold
<1>6. CASE (\E named \in BOOLEAN : DumpStart(named)) \/ DumpBuffer \/ DumpFails \/ DumpEnd
  BY <1>2, <1>6 DEF DumpStart, DumpBuffer, DumpFails, DumpEnd
<1>7. CASE UNCHANGED recordVars
  BY <1>2, <1>7 DEF recordVars
<1> QED BY <1>3, <1>4, <1>5, <1>6, <1>7 DEF RecordNext

-----------------------------------------------------------------------------
(* The theorems                                                            *)

LEMMA ToldStates == RecordInv /\ ToldInv => StatesTold
<1> SUFFICES ASSUME RecordInv, ToldInv, NEW c \in Colls \ astray
             PROVE  /\ \A i \in DOMAIN taken[c] :
                         LET e == taken[c][i]
                         IN  e.id = ids[c] /\ \A t \in e.start + 1 .. e.end : past[c][t] = e.state
                    /\ \A t \in 1 .. (IF stack[c] = <<>> THEN Len(past[c])
                                                         ELSE Last(stack[c]).start) :
                         LET covering == {i \in DOMAIN taken[c] :
                                            t \in taken[c][i].start + 1 .. taken[c][i].end}
                         IN  /\ Cardinality(covering) <= 1
                             /\ covering = {} => c \in lost \/ past[c][t] = None
  BY DEF StatesTold, Faithful, Tiled
<1> DEFINE es == taken[c]
           u == Until(stack[c], past[c])
<1>1. /\ es \in Seq(Frame(States)) /\ DOMAIN es = 1 .. Len(es) /\ Len(es) \in Nat
      /\ Tells(es, ids[c], past[c], u) /\ Covers(es, past[c], u, c, lost)
  <2>1. HistoryInv /\ Told(c)
    BY DEF ToldInv
  <2>2. es \in Seq(Frame(States))
    BY <2>1, HistoryType
  <2> HIDE DEF es
  <2>3. DOMAIN es = 1 .. Len(es) /\ Len(es) \in Nat
    BY <2>2, LenProperties
  <2> QED BY <2>1, <2>2, <2>3 DEF Told, es
<1>2. u = IF stack[c] = <<>> THEN Len(past[c]) ELSE Last(stack[c]).start
  BY DEF Until, Last
<1> HIDE DEF es, u
<1>3. \A i \in DOMAIN es :
        es[i].id = ids[c] /\ \A t \in es[i].start + 1 .. es[i].end : past[c][t] = es[i].state
  BY <1>1 DEF Tells
<1>4. ASSUME NEW t \in 1 .. u
      PROVE  LET covering == {i \in DOMAIN es : t \in es[i].start + 1 .. es[i].end}
             IN  /\ Cardinality(covering) <= 1
                 /\ covering = {} => c \in lost \/ past[c][t] = None
  <2> DEFINE covering == {i \in DOMAIN es : t \in es[i].start + 1 .. es[i].end}
  <2>1. \A i, j \in covering : ~(j < i)
    <3> SUFFICES ASSUME NEW i \in covering, NEW j \in covering, j < i PROVE FALSE
      OBVIOUS
    <3>1. i \in 1 .. Len(es) /\ j \in 1 .. i - 1
      BY <1>1
    <3>2. es[j].end <= es[i].start /\ es[j].end \in Nat /\ es[i].start \in Nat
            /\ es[i].end \in Nat /\ es[j].start \in Nat
      BY <1>1, <3>1 DEF Tells
    <3> QED BY <3>2
  <2>2. \A i, j \in covering : i = j
    BY <1>1, <2>1
  <2>3. covering = {} \/ \E i : covering = {i}
    <3> HIDE DEF covering
    <3> SUFFICES ASSUME NEW i \in covering PROVE covering = {i}
      OBVIOUS
    <3>1. \A j : j \in covering <=> j \in {i}
      BY <2>2
    <3> QED BY <3>1
  <2>4. Cardinality(covering) <= 1
    <3> HIDE DEF covering
    <3>1. CASE covering = {}
      <4>1. Cardinality({}) = 0
        BY FS_EmptySet
      <4> QED BY <3>1, <4>1
    <3>2. CASE \E i : covering = {i}
      <4>1. PICK i : covering = {i}
        BY <3>2
      <4>2. Cardinality({i}) = 1
        BY FS_Singleton
      <4> QED BY <4>1, <4>2
    <3> QED BY <2>3, <3>1, <3>2
  <2>5. covering = {} => c \in lost \/ past[c][t] = None
    <3>1. \/ c \in lost
          \/ past[c][t] = None
          \/ \E i \in 1 .. Len(es) : t \in es[i].start + 1 .. es[i].end
      BY <1>1 DEF Covers
    <3> QED BY <1>1, <3>1
  <2> QED BY <2>4, <2>5
<1> QED BY <1>2, <1>3, <1>4 DEF es

(* Whatever the threads call, each at any time: the events in the buffer   *)
(* of a thread tell its states, every moment in one event, except where an *)
(* event found no room or the stack overflowed.                            *)
THEOREM StatesToldCorrect == RecordSpec => []StatesTold
<1>1. RecordInit => RecordInv /\ ToldInv
  BY InitInv, InitTold
<1>2. RecordInv /\ ToldInv /\ [RecordNext]_recordVars => (RecordInv /\ ToldInv)'
  BY NextInv, NextTold
<1> QED BY <1>1, <1>2, ToldStates, PTL DEF RecordSpec

-----------------------------------------------------------------------------
(***************************************************************************)
(* TraceRecord implements TraceLog: the bytes that are in the buffers and  *)
(* in the file can be read as whole frames, and every step of the library  *)
(* takes, delivers or loses such frames.                                   *)
(***************************************************************************)
(* The recursive definition of FramesEnded has a solution.                 *)
EndedStep(p, g, k) ==
  IF k = 0 THEN <<>>
  ELSE IF Complete(p[k]) THEN Append(g[k - 1], p[k].frame)
  ELSE g[k - 1]

LEMMA EndedDef ==
  ASSUME NEW p, Len(p) \in Nat
  PROVE  FramesEnded(p) = [k \in 0 .. Len(p) |-> EndedStep(p, FramesEnded(p), k)]
<1> DEFINE Solves(g, n) == g = [k \in 0 .. n |-> EndedStep(p, g, k)]
           T == {n \in Nat : \E g : Solves(g, n)}
<1>1. 0 \in T
  <2>1. Solves([k \in 0 .. 0 |-> <<>>], 0)
    BY DEF EndedStep
  <2> QED BY <2>1
<1>2. ASSUME NEW n \in Nat, n \in T PROVE n + 1 \in T
  <2>1. PICK g : Solves(g, n)
    BY <1>2
  <2> DEFINE h == [k \in 0 .. n + 1 |-> IF k = n + 1 THEN EndedStep(p, g, n + 1) ELSE g[k]]
  <2>2. \A k \in 0 .. n : h[k] = g[k] /\ k # n + 1
    OBVIOUS
  <2>3. \A k \in 0 .. n + 1 : h[k] = EndedStep(p, h, k)
    <3> SUFFICES ASSUME NEW k \in 0 .. n + 1 PROVE h[k] = EndedStep(p, h, k)
      OBVIOUS
    <3>1. k # 0 => k - 1 \in 0 .. n
      OBVIOUS
    <3>2. k # 0 => h[k - 1] = g[k - 1]
      BY <3>1, <2>2
    <3>3. EndedStep(p, h, k) = EndedStep(p, g, k)
      BY <3>2 DEF EndedStep
    <3>4. CASE k = n + 1
      BY <3>3, <3>4
    <3>5. CASE k # n + 1
      <4>1. k \in 0 .. n
        BY <3>5
      <4>2. g[k] = EndedStep(p, g, k)
        BY <2>1, <4>1
      <4> QED BY <3>3, <4>1, <4>2, <2>2
    <3> QED BY <3>4, <3>5
  <2>4. Solves(h, n + 1)
    <3>1. h = [k \in 0 .. n + 1 |-> h[k]]
      OBVIOUS
    <3> HIDE DEF h
    <3> QED BY <2>3, <3>1
  <2>5. \E f : Solves(f, n + 1)
    <3> HIDE DEF h, Solves
    <3> QED BY <2>4
  <2> HIDE DEF Solves
  <2> QED BY <2>5
<1>3. Len(p) \in T
  <2> HIDE DEF T
  <2> QED BY <1>1, <1>2, NumberInduction
<1>4. PICK g : Solves(g, Len(p))
  BY <1>3
<1>5. FramesEnded(p) = CHOOSE f : Solves(f, Len(p))
  BY DEF FramesEnded, EndedStep
<1> QED BY <1>4, <1>5

(* Any piece, and the frames that were written                             *)
AnyPiece == [frame : Frame(States), number : 1 .. 3, whole : BOOLEAN]
AnyFrame == Frame(States)

LEMMA EndedSteps ==
  ASSUME NEW p \in Seq(AnyPiece)
  PROVE  /\ FramesEnded(p)[0] = <<>>
         /\ \A k \in 1 .. Len(p) :
              FramesEnded(p)[k] = IF Complete(p[k]) THEN Append(FramesEnded(p)[k - 1], p[k].frame)
                                                    ELSE FramesEnded(p)[k - 1]
<1> DEFINE E == FramesEnded(p)
<1>1. Len(p) \in Nat
  BY LenProperties
<1>2. E = [k \in 0 .. Len(p) |-> EndedStep(p, E, k)]
  BY <1>1, EndedDef
<1> HIDE DEF E
<1>3. \A k \in 0 .. Len(p) : E[k] = EndedStep(p, E, k)
  BY <1>2
<1>4. 0 \in 0 .. Len(p) /\ \A k \in 1 .. Len(p) : k \in 0 .. Len(p) /\ k # 0
  BY <1>1
<1> QED BY <1>3, <1>4 DEF EndedStep, E

(* Induction over the pieces of a sequence                                 *)
LEMMA PieceInduction ==
  ASSUME NEW T, NEW n \in Nat, 0 \in T, \A k \in 1 .. n : k - 1 \in T => k \in T
  PROVE  \A k \in 0 .. n : k \in T
<1> DEFINE U == {k \in Nat : k <= n => k \in T}
<1>1. 0 \in U
  OBVIOUS
<1>2. ASSUME NEW k \in Nat, k \in U PROVE k + 1 \in U
  <2>1. k + 1 <= n => k + 1 \in 1 .. n /\ (k + 1) - 1 = k /\ k <= n
    OBVIOUS
  <2>2. k + 1 <= n => k + 1 \in T
    BY <1>2, <2>1
  <2> QED BY <2>2
<1>3. \A k \in Nat : k \in U
  <2> HIDE DEF U
  <2> QED BY <1>1, <1>2, NumberInduction
<1> QED BY <1>3

LEMMA EndedType ==
  ASSUME NEW p \in Seq(AnyPiece)
  PROVE  \A k \in 0 .. Len(p) : FramesEnded(p)[k] \in Seq(AnyFrame)
<1> DEFINE E == FramesEnded(p)
           T == {k \in 0 .. Len(p) : E[k] \in Seq(AnyFrame)}
<1>1. Len(p) \in Nat
  BY LenProperties
<1>2. /\ E[0] = <<>>
      /\ \A k \in 1 .. Len(p) : E[k] = IF Complete(p[k]) THEN Append(E[k - 1], p[k].frame)
                                                         ELSE E[k - 1]
  BY EndedSteps
<1> HIDE DEF E
<1>3. 0 \in T
  <2>1. <<>> \in Seq(AnyFrame)
    BY EmptySeq
  <2>2. E[0] \in Seq(AnyFrame)
    BY <1>2, <2>1
  <2> QED BY <1>1, <2>2
<1>4. ASSUME NEW k \in 1 .. Len(p), k - 1 \in T PROVE k \in T
  <2>1. p[k] \in AnyPiece
    BY ElementOfSeq
  <2>2. p[k].frame \in AnyFrame
    BY <2>1 DEF AnyPiece, AnyFrame
  <2>3. E[k - 1] \in Seq(AnyFrame)
    BY <1>4
  <2>4. Append(E[k - 1], p[k].frame) \in Seq(AnyFrame)
    BY <2>2, <2>3, AppendProperties
  <2>5. E[k] \in Seq(AnyFrame)
    BY <1>2, <2>3, <2>4
  <2> QED BY <1>1, <2>5
<1>5. \A k \in 0 .. Len(p) : k \in T
  <2> HIDE DEF T
  <2> QED BY <1>1, <1>3, <1>4, PieceInduction
<1> QED BY <1>5 DEF E

(* The frames that end in a front of a sequence only depend on that front. *)
LEMMA EndedSame ==
  ASSUME NEW p \in Seq(AnyPiece), NEW q \in Seq(AnyPiece), NEW n \in 0 .. Len(p), n <= Len(q),
         \A k \in 1 .. n : p[k] = q[k]
  PROVE  \A k \in 0 .. n : FramesEnded(p)[k] = FramesEnded(q)[k]
<1> DEFINE E == FramesEnded(p)
           F == FramesEnded(q)
           T == {k \in 0 .. n : E[k] = F[k]}
<1>1. Len(p) \in Nat /\ Len(q) \in Nat /\ n \in Nat
  BY LenProperties
<1>2. /\ E[0] = <<>>
      /\ \A k \in 1 .. Len(p) : E[k] = IF Complete(p[k]) THEN Append(E[k - 1], p[k].frame)
                                                         ELSE E[k - 1]
      /\ F[0] = <<>>
      /\ \A k \in 1 .. Len(q) : F[k] = IF Complete(q[k]) THEN Append(F[k - 1], q[k].frame)
                                                         ELSE F[k - 1]
  BY EndedSteps
<1> HIDE DEF E, F
<1>3. 0 \in T
  BY <1>1, <1>2
<1>4. ASSUME NEW k \in 1 .. n, k - 1 \in T PROVE k \in T
  <2>1. k \in 1 .. Len(p) /\ k \in 1 .. Len(q) /\ p[k] = q[k] /\ E[k - 1] = F[k - 1]
    BY <1>1, <1>4
  <2> QED BY <1>1, <1>2, <2>1, SMTT(30)
<1>5. \A k \in 0 .. n : k \in T
  <2> HIDE DEF T
  <2> QED BY <1>1, <1>3, <1>4, PieceInduction
<1> QED BY <1>5 DEF E, F

LEMMA EndedConcat ==
  ASSUME NEW p \in Seq(AnyPiece), NEW q \in Seq(AnyPiece)
  PROVE  \A k \in 0 .. Len(q) :
           FramesEnded(p \o q)[Len(p) + k] = FramesEnded(p)[Len(p)] \o FramesEnded(q)[k]
<1> DEFINE r == p \o q
           E == FramesEnded(p)[Len(p)]
           F == FramesEnded(q)
           G == FramesEnded(r)
           T == {k \in 0 .. Len(q) : G[Len(p) + k] = E \o F[k]}
<1>1. /\ Len(p) \in Nat /\ Len(q) \in Nat
      /\ r \in Seq(AnyPiece) /\ Len(r) = Len(p) + Len(q)
      /\ \A i \in 1 .. Len(p) + Len(q) : r[i] = IF i <= Len(p) THEN p[i] ELSE q[i - Len(p)]
  BY LenProperties, ConcatProperties
<1> HIDE DEF r
<1>2. /\ F[0] = <<>>
      /\ \A k \in 1 .. Len(q) : F[k] = IF Complete(q[k]) THEN Append(F[k - 1], q[k].frame)
                                                         ELSE F[k - 1]
      /\ \A k \in 1 .. Len(r) : G[k] = IF Complete(r[k]) THEN Append(G[k - 1], r[k].frame)
                                                         ELSE G[k - 1]
  BY <1>1, EndedSteps
<1>3. E \in Seq(AnyFrame) /\ \A k \in 0 .. Len(q) : F[k] \in Seq(AnyFrame)
  BY <1>1, EndedType
<1>4. G[Len(p)] = E
  <2>1. Len(p) \in 0 .. Len(p) /\ Len(p) <= Len(r) /\ \A k \in 1 .. Len(p) : p[k] = r[k]
    BY <1>1
  <2> QED BY <1>1, <2>1, EndedSame
<1> HIDE DEF E, F, G
<1>5. 0 \in T
  <2>1. E \o <<>> = E
    BY <1>3, ConcatEmptySeq
  <2>2. G[Len(p)] = E \o F[0]
    BY <1>2, <1>4, <2>1, Zenon
  <2>3. Len(p) + 0 = Len(p) /\ 0 \in 0 .. Len(q)
    BY <1>1
  <2>4. G[Len(p) + 0] = E \o F[0]
    BY <2>2, <2>3, Zenon
  <2> QED BY <2>3, <2>4
<1>6. ASSUME NEW k \in 1 .. Len(q), k - 1 \in T PROVE k \in T
  <2>1. /\ Len(p) + k \in 1 .. Len(r) /\ (Len(p) + k) - 1 = Len(p) + (k - 1)
        /\ r[Len(p) + k] = q[k]
    <3> DEFINE i == Len(p) + k
    <3>1. /\ i \in 1 .. Len(p) + Len(q) /\ ~(i <= Len(p)) /\ i - Len(p) = k
          /\ i - 1 = Len(p) + (k - 1)
      BY <1>1
    <3> HIDE DEF i
    <3>2. r[i] = q[k]
      BY <1>1, <3>1
    <3> QED BY <1>1, <3>1, <3>2 DEF i
  <2>2. G[Len(p) + (k - 1)] = E \o F[k - 1]
    BY <1>6
  <2>3. F[k - 1] \in Seq(AnyFrame) /\ k \in 0 .. Len(q)
    <3>1. k \in 0 .. Len(q) /\ k - 1 \in 0 .. Len(q)
      BY <1>1
    <3> QED BY <1>3, <3>1
  <2>4. G[Len(p) + k] = IF Complete(q[k]) THEN Append(E \o F[k - 1], q[k].frame)
                                          ELSE E \o F[k - 1]
    BY <1>2, <2>1, <2>2
  <2>5. q[k].frame \in AnyFrame
    <3>1. q[k] \in AnyPiece
      BY ElementOfSeq
    <3> QED BY <3>1 DEF AnyPiece, AnyFrame
  <2>6. Append(E \o F[k - 1], q[k].frame) = E \o Append(F[k - 1], q[k].frame)
    <3> DEFINE f == q[k].frame
               s == F[k - 1]
    <3>1. s \in Seq(AnyFrame) /\ f \in AnyFrame
      BY <2>3, <2>5
    <3> HIDE DEF f, s
    <3>2. <<f>> \in Seq(AnyFrame)
      BY <3>1
    <3>3. E \o s \in Seq(AnyFrame)
      BY <1>3, <3>1, ConcatProperties
    <3>4. Append(E \o s, f) = (E \o s) \o <<f>> /\ Append(s, f) = s \o <<f>>
      BY <3>1, <3>3, AppendIsConcat
    <3>5. (E \o s) \o <<f>> = E \o (s \o <<f>>)
      BY <1>3, <3>1, <3>2, ConcatAssociative, SMTT(30)
    <3> QED BY <3>4, <3>5 DEF f, s
  <2>7. G[Len(p) + k] = E \o F[k]
    BY <1>2, <2>4, <2>6
  <2> QED BY <2>3, <2>7
<1>7. \A k \in 0 .. Len(q) : k \in T
  <2> HIDE DEF T
  <2> QED BY <1>1, <1>5, <1>6, PieceInduction
<1> QED BY <1>7 DEF E, F, G, r

(* The frames that end earlier are the first of those that end later.      *)
LEMMA EndedPrefix ==
  ASSUME NEW p \in Seq(AnyPiece), NEW k \in 0 .. Len(p)
  PROVE  \A n \in k .. Len(p) :
           \E j \in 0 .. Len(FramesEnded(p)[n]) :
             FramesEnded(p)[k] = SubSeq(FramesEnded(p)[n], 1, j)
<1> DEFINE E == FramesEnded(p)
           Leads(n) == \E j \in 0 .. Len(E[n]) : E[k] = SubSeq(E[n], 1, j)
           T == {n \in 0 .. Len(p) : n >= k => Leads(n)}
<1>1. Len(p) \in Nat
  BY LenProperties
<1>2. /\ \A n \in 1 .. Len(p) : E[n] = IF Complete(p[n]) THEN Append(E[n - 1], p[n].frame)
                                                         ELSE E[n - 1]
      /\ \A n \in 0 .. Len(p) : E[n] \in Seq(AnyFrame)
  BY EndedSteps, EndedType
<1> HIDE DEF E
<1>3. Leads(k)
  <2>1. E[k] \in Seq(AnyFrame)
    BY <1>2
  <2>2. Len(E[k]) \in 0 .. Len(E[k]) /\ SubSeq(E[k], 1, Len(E[k])) = E[k]
    BY <2>1, SubSeqFull, LenProperties
  <2> QED BY <2>2
<1>4. 0 \in T
  BY <1>1, <1>3
<1>5. ASSUME NEW n \in 1 .. Len(p), n - 1 \in T PROVE n \in T
  <2> SUFFICES ASSUME n > k PROVE Leads(n)
    BY <1>1, <1>3
  <2>1. n - 1 \in 0 .. Len(p) /\ Leads(n - 1)
    BY <1>1, <1>5
  <2>2. PICK j \in 0 .. Len(E[n - 1]) : E[k] = SubSeq(E[n - 1], 1, j)
    BY <2>1
  <2>3. CASE E[n] = E[n - 1]
    BY <2>2, <2>3
  <2>4. CASE Complete(p[n]) /\ E[n] = Append(E[n - 1], p[n].frame)
    <3> DEFINE s == E[n - 1]
               f == p[n].frame
    <3>1. s \in Seq(AnyFrame) /\ f \in AnyFrame
      <4>1. p[n] \in AnyPiece
        BY ElementOfSeq
      <4> QED BY <4>1, <1>2, <2>1 DEF AnyPiece, AnyFrame
    <3> HIDE DEF s, f
    <3>2. /\ Append(s, f) \in Seq(AnyFrame) /\ Len(Append(s, f)) = Len(s) + 1
          /\ \A i \in 1 .. Len(s) : Append(s, f)[i] = s[i]
          /\ Len(s) \in Nat
      BY <3>1, AppendProperties, LenProperties
    <3>3. j \in Nat /\ j \in Int /\ 1 \in Int /\ j <= Len(s) /\ j <= Len(Append(s, f))
      BY <2>2, <3>2 DEF s
    <3>4. \A i \in 1 .. j : s[i] \in AnyFrame /\ Append(s, f)[i] = s[i]
      BY <3>1, <3>2, <3>3, ElementOfSeq
    <3>5. SubSeq(s, 1, j) = SubSeq(Append(s, f), 1, j)
      <4>1. /\ SubSeq(s, 1, j) \in Seq(AnyFrame)
            /\ Len(SubSeq(s, 1, j)) = IF 1 <= j THEN j - 1 + 1 ELSE 0
            /\ \A i \in 1 .. j - 1 + 1 : SubSeq(s, 1, j)[i] = s[1 + i - 1]
        BY <3>3, <3>4, SubSeqProperties
      <4>2. /\ SubSeq(Append(s, f), 1, j) \in Seq(AnyFrame)
            /\ Len(SubSeq(Append(s, f), 1, j)) = IF 1 <= j THEN j - 1 + 1 ELSE 0
            /\ \A i \in 1 .. j - 1 + 1 : SubSeq(Append(s, f), 1, j)[i] = Append(s, f)[1 + i - 1]
        <5>1. \A i \in 1 .. j : Append(s, f)[i] \in AnyFrame
          BY <3>4
        <5> QED BY <3>3, <5>1, SubSeqProperties
      <4>3. Len(SubSeq(s, 1, j)) = j /\ Len(SubSeq(Append(s, f), 1, j)) = j
        BY <3>3, <4>1, <4>2
      <4>4. \A i \in 1 .. j : SubSeq(s, 1, j)[i] = SubSeq(Append(s, f), 1, j)[i]
        <5>1. \A i \in 1 .. j : i \in 1 .. j - 1 + 1 /\ 1 + i - 1 = i
          BY <3>3
        <5> QED BY <3>4, <4>1, <4>2, <5>1
      <4> QED BY <4>1, <4>2, <4>3, <4>4, SeqEqual
    <3>6. j \in 0 .. Len(E[n]) /\ E[k] = SubSeq(E[n], 1, j)
      BY <2>2, <2>4, <3>3, <3>5 DEF s, f
    <3> QED BY <3>6
  <2> QED BY <1>2, <2>3, <2>4
<1>6. \A n \in 0 .. Len(p) : n \in T
  <2> HIDE DEF T
  <2> QED BY <1>1, <1>4, <1>5, PieceInduction
<1>7. \A n \in k .. Len(p) : n \in 0 .. Len(p) /\ n >= k
  BY <1>1
<1> QED BY <1>6, <1>7 DEF E

-----------------------------------------------------------------------------
(* How far a sequence can be read                                          *)

LEMMA ReadableIs ==
  ASSUME NEW p \in Seq(AnyPiece)
  PROVE  /\ Readable(p) \in 0 .. Len(p)
         /\ \A j \in 1 .. Readable(p) : Continues(p, j)
         /\ Readable(p) < Len(p) => ~Continues(p, Readable(p) + 1)
<1> DEFINE bad == {j \in DOMAIN p : ~Continues(p, j)}
<1>1. DOMAIN p = 1 .. Len(p) /\ Len(p) \in Nat
  BY LenProperties
<1>2. Readable(p) = IF bad = {} THEN Len(p) ELSE Min(bad) - 1
  BY DEF Readable
<1>3. CASE bad = {}
  BY <1>1, <1>2, <1>3
<1>4. CASE bad # {}
  <2> DEFINE m == Min(bad)
  <2>1. m \in bad /\ \A j \in bad : m <= j
    <3>1. bad \subseteq Nat
      BY <1>1
    <3> HIDE DEF bad
    <3>2. \E x \in bad : \A y \in bad : x <= y
      BY <3>1, <1>4, LeastNumber
    <3>3. m = CHOOSE x \in bad : \A y \in bad : x <= y
      BY DEF Min
    <3> HIDE DEF m
    <3> QED BY <3>2, <3>3
  <2>2. m \in 1 .. Len(p) /\ ~Continues(p, m)
    BY <1>1, <2>1
  <2>3. Readable(p) = m - 1
    BY <1>2, <1>4
  <2> HIDE DEF m
  <2>4. \A j \in 1 .. m - 1 : j \in 1 .. Len(p) /\ ~(m <= j)
    BY <1>1, <2>2
  <2>5. \A j \in 1 .. m - 1 : Continues(p, j)
    BY <1>1, <2>1, <2>4
  <2>6. (m - 1) + 1 = m /\ m - 1 \in 0 .. Len(p)
    BY <1>1, <2>2
  <2> QED BY <2>2, <2>3, <2>5, <2>6
<1> QED BY <1>3, <1>4

LEMMA ReadableUnique ==
  ASSUME NEW p \in Seq(AnyPiece), NEW r \in 0 .. Len(p), \A j \in 1 .. r : Continues(p, j),
         r < Len(p) => ~Continues(p, r + 1)
  PROVE  Readable(p) = r
<1> DEFINE q == Readable(p)
<1>1. /\ q \in 0 .. Len(p) /\ \A j \in 1 .. q : Continues(p, j)
      /\ q < Len(p) => ~Continues(p, q + 1)
      /\ Len(p) \in Nat
  BY ReadableIs, LenProperties
<1> HIDE DEF q
<1>2. CASE q < r
  <2>1. q + 1 \in 1 .. r /\ q < Len(p)
    BY <1>1, <1>2
  <2> QED BY <1>1, <2>1
<1>3. CASE r < q
  <2>1. r + 1 \in 1 .. q /\ r < Len(p)
    BY <1>1, <1>3
  <2> QED BY <1>1, <2>1
<1>4. q = r
  BY <1>1, <1>2, <1>3
<1> QED BY <1>4 DEF q

LEMMA AlignedIsWhole ==
  ASSUME NEW p \in Seq(AnyPiece)
  PROVE  /\ Aligned(p) <=> ~Torn(p)
         /\ Aligned(p) => Readable(p) = Len(p)
<1>1. /\ Readable(p) \in 0 .. Len(p) /\ \A j \in 1 .. Readable(p) : Continues(p, j)
      /\ Readable(p) < Len(p) => ~Continues(p, Readable(p) + 1)
      /\ Len(p) \in Nat
  BY ReadableIs, LenProperties
<1>2. CASE Readable(p) < Len(p)
  <2>1. Readable(p) + 1 \in 1 .. Len(p)
    BY <1>1, <1>2
  <2> QED BY <1>1, <1>2, <2>1 DEF Aligned, Torn
<1>3. CASE Readable(p) = Len(p)
  BY <1>1, <1>3 DEF Aligned, Torn, Last
<1> QED BY <1>1, <1>2, <1>3

(* Whether a piece continues only depends on it and the one before it.     *)
LEMMA ContinuesSame ==
  ASSUME NEW p, NEW q, NEW j \in Nat \ {0}, p[j] = q[j], j # 1 => p[j - 1] = q[j - 1]
  PROVE  Continues(p, j) <=> Continues(q, j)
BY DEF Continues

-----------------------------------------------------------------------------
(* What a sequence of pieces becomes                                       *)

LEMMA FramesInNothing == FramesIn(<<>>) = <<>> /\ ~Torn(<<>>) /\ Aligned(<<>>)
<1>1. <<>> \in Seq(AnyPiece) /\ Len(<<>>) = 0
  BY EmptySeq
<1>2. Aligned(<<>>)
  BY DEF Aligned
<1>3. Readable(<<>>) = 0 /\ ~Torn(<<>>)
  BY <1>1, <1>2, AlignedIsWhole
<1>4. FramesEnded(<<>>)[0] = <<>>
  BY <1>1, EndedSteps
<1> QED BY <1>2, <1>3, <1>4 DEF FramesIn

LEMMA FramesInType ==
  ASSUME NEW p \in Seq(AnyPiece)
  PROVE  FramesIn(p) \in Seq(AnyFrame)
BY ReadableIs, EndedType DEF FramesIn

LEMMA ConcatPieces ==
  ASSUME NEW p \in Seq(AnyPiece), NEW q \in Seq(AnyPiece)
  PROVE  /\ p \o q \in Seq(AnyPiece) /\ Len(p \o q) = Len(p) + Len(q)
         /\ Len(p) \in Nat /\ Len(q) \in Nat
         /\ \A j \in 1 .. Len(p) : (p \o q)[j] = p[j]
         /\ \A j \in 1 .. Len(q) : (p \o q)[Len(p) + j] = q[j]
<1> DEFINE r == p \o q
<1>1. /\ Len(p) \in Nat /\ Len(q) \in Nat
      /\ r \in Seq(AnyPiece) /\ Len(r) = Len(p) + Len(q)
      /\ \A i \in 1 .. Len(p) + Len(q) : r[i] = IF i <= Len(p) THEN p[i] ELSE q[i - Len(p)]
  BY LenProperties, ConcatProperties
<1> HIDE DEF r
<1>2. \A j \in 1 .. Len(p) : r[j] = p[j]
  BY <1>1
<1>3. ASSUME NEW j \in 1 .. Len(q) PROVE r[Len(p) + j] = q[j]
  <2> DEFINE i == Len(p) + j
  <2>1. i \in 1 .. Len(p) + Len(q) /\ ~(i <= Len(p)) /\ i - Len(p) = j
    BY <1>1
  <2> HIDE DEF i
  <2>2. r[i] = q[j]
    BY <1>1, <2>1
  <2> QED BY <2>2 DEF i
<1> QED BY <1>1, <1>2, <1>3 DEF r

(* Behind something torn, nothing is read that begins with a frame.        *)
LEMMA TornStays ==
  ASSUME NEW p \in Seq(AnyPiece), NEW q \in Seq(AnyPiece), Torn(p),
         q # <<>> => q[1].number = 1
  PROVE  Torn(p \o q) /\ FramesIn(p \o q) = FramesIn(p)
<1> DEFINE r == p \o q
           n == Readable(p)
<1>1. /\ r \in Seq(AnyPiece) /\ Len(r) = Len(p) + Len(q)
      /\ Len(p) \in Nat /\ Len(q) \in Nat
      /\ \A j \in 1 .. Len(p) : r[j] = p[j]
      /\ \A j \in 1 .. Len(q) : r[Len(p) + j] = q[j]
  BY ConcatPieces
<1>2. /\ n \in 0 .. Len(p) /\ \A j \in 1 .. n : Continues(p, j)
      /\ n < Len(p) => ~Continues(p, n + 1)
  BY ReadableIs
<1>3. CASE q = <<>>
  BY <1>3, ConcatEmptySeq
<1>4. CASE q # <<>>
  <2>1. Len(q) \in Nat \ {0} /\ q[1].number = 1 /\ r[Len(p) + 1] = q[1]
    <3>1. Len(q) \in Nat \ {0}
      BY <1>4, EmptySeq
    <3>2. 1 \in 1 .. Len(q)
      BY <3>1
    <3> QED BY <3>1, <3>2, <1>1, <1>4
  <2> HIDE DEF r, n
  <2>2. n < Len(r) /\ n \in 0 .. Len(r) /\ n + 1 \in Nat \ {0} /\ (n + 1) - 1 = n
    BY <1>1, <1>2, <2>1
  <2>3. \A j \in 1 .. n : Continues(r, j)
    <3> SUFFICES ASSUME NEW j \in 1 .. n PROVE Continues(r, j)
      OBVIOUS
    <3>1. j \in 1 .. Len(p) /\ j \in Nat \ {0} /\ (j # 1 => j - 1 \in 1 .. Len(p))
      BY <1>1, <1>2
    <3>2. r[j] = p[j] /\ (j # 1 => r[j - 1] = p[j - 1])
      BY <1>1, <3>1
    <3> QED BY <1>2, <3>1, <3>2, ContinuesSame
  <2>4. ~Continues(r, n + 1)
    <3>1. CASE n < Len(p)
      <4>1. r[n + 1] = p[n + 1] /\ (n + 1 # 1 => r[n] = p[n])
        BY <3>1, <1>1, <1>2
      <4> QED BY <3>1, <4>1, <1>2, <2>2, ContinuesSame
    <3>2. CASE n = Len(p)
      <4>1. p # <<>> /\ ~Complete(p[Len(p)])
        BY <3>2 DEF Torn, Last, n
      <4>2. Len(p) \in Nat \ {0} /\ Len(p) \in 1 .. Len(p)
        BY <4>1, EmptySeq
      <4>3. p[Len(p)] \in AnyPiece /\ r[n] = p[Len(p)]
        BY <3>2, <4>2, <1>1, ElementOfSeq
      <4>4. p[Len(p)].number \in 1 .. 3 /\ r[n + 1] = q[1] /\ n + 1 # 1
        BY <3>2, <2>1, <4>2, <4>3 DEF AnyPiece
      <4>5. r[n].number + 1 # 1
        BY <4>3, <4>4
      <4>6. r[n + 1] # Piece(r[n].frame, r[n].number + 1)
        BY <2>1, <4>4, <4>5 DEF Piece
      <4> QED BY <2>2, <4>1, <4>3, <4>4, <4>6 DEF Continues
    <3> QED BY <1>1, <1>2, <3>1, <3>2
  <2>5. Readable(r) = n
    BY <1>1, <2>2, <2>3, <2>4, ReadableUnique
  <2>6. FramesEnded(p)[n] = FramesEnded(r)[n]
    <3>1. n <= Len(r) /\ n \in 0 .. n /\ \A j \in 1 .. n : p[j] = r[j]
      BY <1>1, <1>2
    <3> QED BY <1>1, <1>2, <3>1, EndedSame
  <2> QED BY <2>2, <2>5, <2>6 DEF Torn, FramesIn, r, n
<1> QED BY <1>3, <1>4

(* The first k pieces of something whole go on where whole frames end; and *)
(* so do those that follow, unless they are cut.                           *)
LEMMA FrontRead ==
  ASSUME NEW p \in Seq(AnyPiece), Aligned(p), NEW q \in Seq(AnyPiece), Aligned(q),
         NEW c \in Seq(AnyPiece), NEW k \in 0 .. Len(q), k <= Len(c),
         \A j \in 1 .. k : c[j] = q[j],
         \/ Len(c) = k
         \/ ~c[k + 1].whole
  PROVE  /\ Readable(p \o c) = Len(p) + k
         /\ \E j \in 0 .. Len(FramesIn(q)) :
              FramesIn(p \o c) = FramesIn(p) \o SubSeq(FramesIn(q), 1, j)
         /\ k = Len(q) => FramesIn(p \o c) = FramesIn(p) \o FramesIn(q)
<1> DEFINE r == p \o c
           n == Len(p) + k
<1>1. /\ r \in Seq(AnyPiece) /\ Len(r) = Len(p) + Len(c)
      /\ Len(p) \in Nat /\ Len(c) \in Nat /\ Len(q) \in Nat /\ k \in Nat
      /\ \A j \in 1 .. Len(p) : r[j] = p[j]
      /\ \A j \in 1 .. Len(c) : r[Len(p) + j] = c[j]
  BY ConcatPieces, LenProperties
<1> HIDE DEF r
<1>2. \A j \in 1 .. Len(p) : Continues(r, j)
  <2> SUFFICES ASSUME NEW j \in 1 .. Len(p) PROVE Continues(r, j)
    OBVIOUS
  <2>1. j \in Nat \ {0} /\ r[j] = p[j] /\ (j # 1 => r[j - 1] = p[j - 1])
    BY <1>1
  <2>2. Continues(p, j)
    BY DEF Aligned
  <2> QED BY <2>1, <2>2, ContinuesSame
<1>3. ASSUME NEW i \in 1 .. k PROVE Continues(r, Len(p) + i)
  <2> DEFINE m == Len(p) + i
  <2>1. /\ i \in 1 .. Len(c) /\ m \in Nat \ {0} /\ i \in 1 .. Len(q) /\ i \in Nat \ {0}
        /\ m - 1 = Len(p) + (i - 1)
    BY <1>1
  <2>2. r[m] = q[i]
    BY <1>1, <2>1
  <2>3. Continues(q, i)
    BY <2>1 DEF Aligned
  <2>4. CASE i = 1
    <3>1. q[i].number = 1 /\ q[i].whole
      BY <2>3, <2>4 DEF Continues
    <3>2. m - 1 = Len(p) /\ (m # 1 => Len(p) \in 1 .. Len(p) /\ p # <<>>)
      BY <1>1, <2>4
    <3>3. m = 1 \/ Complete(r[m - 1])
      <4> HIDE DEF m
      <4>1. m # 1 => r[m - 1] = p[Len(p)] /\ Complete(p[Len(p)])
        BY <1>1, <3>2 DEF Aligned
      <4> QED BY <4>1
    <3> QED BY <2>2, <3>1, <3>3 DEF Continues
  <2>5. CASE i # 1
    <3>1. i - 1 \in 1 .. Len(c) /\ i - 1 \in 1 .. k /\ m # 1
      BY <2>1, <2>5, <1>1
    <3>2. r[m - 1] = q[i - 1]
      <4> DEFINE h == i - 1
      <4>1. h \in 1 .. Len(c) /\ h \in 1 .. k /\ m - 1 = Len(p) + h
        BY <2>1, <3>1
      <4> HIDE DEF h, m
      <4>2. r[m - 1] = q[h]
        BY <1>1, <4>1
      <4> QED BY <4>2 DEF h
    <3> QED BY <2>2, <2>3, <2>5, <3>1, <3>2 DEF Continues
  <2> QED BY <2>4, <2>5
<1>4. ASSUME n < Len(r) PROVE ~Continues(r, n + 1)
  <2>1. Len(c) # k /\ k + 1 \in 1 .. Len(c) /\ n + 1 = Len(p) + (k + 1)
    BY <1>1, <1>4
  <2>2. r[n + 1] = c[k + 1] /\ ~c[k + 1].whole
    <3> DEFINE i == k + 1
    <3>1. i \in 1 .. Len(c) /\ n + 1 = Len(p) + i
      BY <2>1
    <3> HIDE DEF i, n
    <3>2. r[n + 1] = c[i]
      BY <1>1, <3>1
    <3> QED BY <2>1, <3>2 DEF i
  <2> QED BY <2>2 DEF Continues
<1>5. Readable(r) = n
  <2>1. n \in 0 .. Len(r)
    BY <1>1
  <2>2. \A j \in 1 .. n : Continues(r, j)
    <3> SUFFICES ASSUME NEW j \in 1 .. n PROVE Continues(r, j)
      OBVIOUS
    <3>1. CASE j <= Len(p)
      BY <3>1, <1>1, <1>2
    <3>2. CASE ~(j <= Len(p))
      <4>1. j - Len(p) \in 1 .. k /\ Len(p) + (j - Len(p)) = j
        BY <3>2, <1>1
      <4> QED BY <4>1, <1>3
    <3> QED BY <3>1, <3>2
  <2> HIDE DEF n
  <2> QED BY <1>1, <1>4, <2>1, <2>2, ReadableUnique
<1> DEFINE E == FramesEnded(q)
<1>6. FramesEnded(r)[n] = FramesEnded(p)[Len(p)] \o E[k]
  <2>1. k \in 0 .. Len(c) /\ k \in 0 .. k
    BY <1>1
  <2>2. FramesEnded(r)[n] = FramesEnded(p)[Len(p)] \o FramesEnded(c)[k]
    BY <2>1, EndedConcat DEF r
  <2>3. FramesEnded(q)[k] = FramesEnded(c)[k]
    <3>1. \A j \in 1 .. k : q[j] = c[j]
      OBVIOUS
    <3> QED BY <2>1, <3>1, EndedSame
  <2> QED BY <2>2, <2>3
<1>7. FramesIn(p) = FramesEnded(p)[Len(p)] /\ FramesIn(q) = E[Len(q)]
  BY AlignedIsWhole DEF FramesIn
<1>8. FramesIn(r) = FramesIn(p) \o E[k]
  BY <1>5, <1>6, <1>7 DEF FramesIn
<1>9. \E j \in 0 .. Len(FramesIn(q)) : E[k] = SubSeq(FramesIn(q), 1, j)
  <2>1. Len(q) \in k .. Len(q)
    BY <1>1
  <2> QED BY <2>1, <1>7, EndedPrefix
<1> QED BY <1>5, <1>7, <1>8, <1>9 DEF r

-----------------------------------------------------------------------------
(* The steps of the log                                                    *)

LEMMA BufferIsPieces ==
  ASSUME NEW q \in Seq(BufferPiece)
  PROVE  /\ q \in Seq(AnyPiece)
         /\ Aligned(q) /\ q # <<>> => q[1].number = 1
<1>1. BufferPiece \subseteq AnyPiece
  BY DEF BufferPiece, AnyPiece
<1>2. q \in Seq(AnyPiece)
  BY <1>1, SeqMonotonic
<1>3. ASSUME Aligned(q), q # <<>> PROVE q[1].number = 1
  <2>1. 1 \in 1 .. Len(q)
    BY <1>3, EmptySeq
  <2>2. Continues(q, 1)
    BY <1>3, <2>1 DEF Aligned
  <2> QED BY <2>2 DEF Continues
<1> QED BY <1>2, <1>3

(* A frame is taken.                                                       *)
LEMMA FrameTaken ==
  ASSUME NEW q \in Seq(BufferPiece), Aligned(q), NEW f \in Frame(States)
  PROVE  FramesIn(q \o Whole(f)) = Append(FramesIn(q), f)
<1> DEFINE w == Whole(f)
           n == Pieces(f)
           E == FramesEnded(w)
<1>1. /\ w \in Seq(BufferPiece) /\ Len(w) = n /\ n \in {2, 3}
      /\ \A i \in 1 .. n : w[i] = Piece(f, i)
  BY WholeType DEF Pieces
<1>2. w \in Seq(AnyPiece) /\ q \in Seq(AnyPiece)
  BY <1>1, BufferIsPieces
<1>3. Aligned(w)
  <2>1. <<>> \in Seq(BufferPiece) /\ Aligned(<<>>)
    BY EmptySeq, FramesInNothing
  <2>2. Aligned(<<>> \o w)
    BY <2>1, WholeAligned
  <2> QED BY <1>1, <2>2, ConcatEmptySeq
<1> HIDE DEF w
<1>4. /\ E[0] = <<>>
      /\ \A k \in 1 .. n : E[k] = IF Complete(w[k]) THEN Append(E[k - 1], w[k].frame) ELSE E[k - 1]
  BY <1>1, <1>2, EndedSteps
<1>5. \A k \in 1 .. n : (Complete(w[k]) <=> k = n) /\ w[k].frame = f
  BY <1>1 DEF Complete, Piece
<1> HIDE DEF E
<1>6. E[n] = <<f>>
  <2>1. E[1] = <<>>
    <3>1. 1 \in 1 .. n /\ 1 # n /\ 1 - 1 = 0
      BY <1>1
    <3> QED BY <1>4, <1>5, <3>1
  <2>2. CASE n = 2
    <3>1. 2 \in 1 .. n /\ 2 - 1 = 1
      BY <2>2
    <3> QED BY <1>4, <1>5, <2>1, <2>2, <3>1
  <2>3. CASE n = 3
    <3>1. 2 \in 1 .. n /\ 2 - 1 = 1 /\ 2 # n
      BY <2>3
    <3>2. E[2] = <<>>
      BY <1>4, <1>5, <2>1, <3>1
    <3>3. 3 \in 1 .. n /\ 3 - 1 = 2
      BY <2>3
    <3> QED BY <1>4, <1>5, <2>3, <3>2, <3>3
  <2> QED BY <1>1, <2>2, <2>3
<1>7. FramesIn(w) = <<f>>
  BY <1>1, <1>2, <1>3, <1>6, AlignedIsWhole DEF FramesIn, E
<1>8. FramesIn(q \o w) = FramesIn(q) \o FramesIn(w)
  <2>1. Len(w) \in 0 .. Len(w) /\ Len(w) <= Len(w)
    BY <1>1
  <2> QED BY <1>2, <1>3, <2>1, FrontRead
<1>9. FramesIn(q) \in Seq(AnyFrame) /\ f \in AnyFrame
  BY <1>2, FramesInType DEF AnyFrame
<1> QED BY <1>7, <1>8, <1>9, AppendIsConcat DEF w

(* A buffer is put into the file.                                          *)
LEMMA BufferDelivered ==
  ASSUME NEW p \in Seq(AnyPiece), NEW q \in Seq(BufferPiece), Aligned(q)
  PROVE  /\ p \o q \in Seq(AnyPiece)
         /\ FramesIn(p \o q) = IF Torn(p) THEN FramesIn(p) ELSE FramesIn(p) \o FramesIn(q)
         /\ Torn(p \o q) <=> Torn(p)
<1>1. q \in Seq(AnyPiece) /\ (q # <<>> => q[1].number = 1)
  BY BufferIsPieces
<1>2. p \o q \in Seq(AnyPiece) /\ Len(q) \in Nat /\ Len(p) \in Nat /\ Len(p \o q) = Len(p) + Len(q)
  BY <1>1, ConcatPieces
<1>3. CASE Torn(p)
  BY <1>1, <1>2, <1>3, TornStays
<1>4. CASE ~Torn(p)
  <2>1. Aligned(p)
    BY <1>4, AlignedIsWhole
  <2>2. Len(q) \in 0 .. Len(q) /\ Len(q) <= Len(q)
    BY <1>2
  <2>3. /\ FramesIn(p \o q) = FramesIn(p) \o FramesIn(q)
        /\ Readable(p \o q) = Len(p) + Len(q)
    BY <1>1, <2>1, <2>2, FrontRead
  <2>4. \A j \in 1 .. Len(p \o q) : Continues(p \o q, j)
    BY <1>2, <2>3, ReadableIs
  <2>5. p \o q # <<>> => Complete((p \o q)[Len(p \o q)])
    <3>1. CASE q = <<>>
      <4>1. p \o q = p
        BY <3>1, ConcatEmptySeq
      <4> QED BY <4>1, <2>1 DEF Aligned
    <3>2. CASE q # <<>>
      <4>1. Len(q) \in 1 .. Len(q)
        BY <3>2, <1>1, EmptySeq
      <4>2. (p \o q)[Len(p) + Len(q)] = q[Len(q)]
        BY <4>1, <1>1, ConcatPieces
      <4> QED BY <3>2, <4>2, <1>2 DEF Aligned
    <3> QED BY <3>1, <3>2
  <2>6. Aligned(p \o q)
    BY <2>4, <2>5 DEF Aligned
  <2> QED BY <1>2, <1>4, <2>3, <2>6, AlignedIsWhole
<1> QED BY <1>3, <1>4

(* What a device takes of a sequence before it fails                       *)
LEMMA CutType ==
  ASSUME NEW q \in Seq(AnyPiece), NEW k \in 0 .. Len(q) - 1, NEW part \in BOOLEAN
  PROVE  LET c == Cut(q, k, part)
         IN  /\ c \in Seq(AnyPiece) /\ k <= Len(c) /\ k \in 0 .. Len(q)
             /\ \A j \in 1 .. k : c[j] = q[j]
             /\ Len(c) = k \/ (Len(c) = k + 1 /\ ~c[k + 1].whole)
             /\ c # <<>> => c[1].number = q[1].number
<1> DEFINE s == SubSeq(q, 1, k)
           t == [q[k + 1] EXCEPT !.whole = FALSE]
<1>1. Len(q) \in Nat /\ k \in Nat /\ k \in Int /\ 1 \in Int /\ k + 1 \in 1 .. Len(q)
  BY LenProperties
<1>2. \A i \in 1 .. k : q[i] \in AnyPiece
  BY <1>1, ElementOfSeq
<1>3. /\ s \in Seq(AnyPiece) /\ Len(s) = k /\ \A i \in 1 .. k : s[i] = q[i]
  <2>1. /\ s \in Seq(AnyPiece)
        /\ Len(s) = IF 1 <= k THEN k - 1 + 1 ELSE 0
        /\ \A i \in 1 .. k - 1 + 1 : s[i] = q[1 + i - 1]
    BY <1>1, <1>2, SubSeqProperties
  <2> HIDE DEF s
  <2>2. \A i \in 1 .. k : i \in 1 .. k - 1 + 1 /\ 1 + i - 1 = i
    BY <1>1
  <2> QED BY <1>1, <2>1, <2>2
<1>4. t \in AnyPiece /\ ~t.whole /\ t.number = q[k + 1].number
  <2>1. q[k + 1] \in AnyPiece
    BY <1>1, ElementOfSeq
  <2> QED BY <2>1 DEF AnyPiece
<1> HIDE DEF s, t
<1>5. CASE part
  <2>1. Cut(q, k, part) = Append(s, t)
    BY <1>5 DEF Cut, s, t
  <2>2. /\ Append(s, t) \in Seq(AnyPiece) /\ Len(Append(s, t)) = k + 1
        /\ \A i \in 1 .. k : Append(s, t)[i] = s[i]
        /\ Append(s, t)[k + 1] = t
    BY <1>3, <1>4, AppendProperties
  <2>3. Append(s, t)[1].number = q[1].number
    <3>1. CASE k = 0
      BY <3>1, <2>2, <1>4
    <3>2. CASE k # 0
      <4>1. 1 \in 1 .. k
        BY <3>2, <1>1
      <4> QED BY <4>1, <1>3, <2>2
    <3> QED BY <3>1, <3>2
  <2> QED BY <1>1, <1>3, <1>4, <2>1, <2>2, <2>3
<1>6. CASE ~part
  <2>1. Cut(q, k, part) = s
    BY <1>6 DEF Cut, s
  <2>2. s # <<>> => s[1].number = q[1].number
    <3>1. s # <<>> => 1 \in 1 .. k
      BY <1>3, <1>1, EmptySeq
    <3> QED BY <3>1, <1>3
  <2> QED BY <1>1, <1>3, <2>1, <2>2
<1> QED BY <1>5, <1>6

(* The device takes a part of a buffer.                                    *)
LEMMA BufferCut ==
  ASSUME NEW p \in Seq(AnyPiece), NEW q \in Seq(BufferPiece), Aligned(q),
         NEW k \in 0 .. Len(q) - 1, NEW part \in BOOLEAN
  PROVE  LET r == p \o Cut(q, k, part)
         IN  /\ r \in Seq(AnyPiece)
             /\ \E j \in 0 .. Len(FramesIn(q)) :
                  FramesIn(r) = IF Torn(p) THEN FramesIn(p)
                                           ELSE FramesIn(p) \o SubSeq(FramesIn(q), 1, j)
             /\ Torn(p) => Torn(r)
<1> DEFINE c == Cut(q, k, part)
<1>1. q \in Seq(AnyPiece) /\ (q # <<>> => q[1].number = 1)
  BY BufferIsPieces
<1>2. /\ c \in Seq(AnyPiece) /\ k <= Len(c) /\ k \in 0 .. Len(q)
      /\ \A j \in 1 .. k : c[j] = q[j]
      /\ Len(c) = k \/ (Len(c) = k + 1 /\ ~c[k + 1].whole)
      /\ c # <<>> => c[1].number = q[1].number
  BY <1>1, CutType
<1> HIDE DEF c
<1>3. q # <<>>
  BY <1>2
<1>4. p \o c \in Seq(AnyPiece)
  BY <1>2, ConcatPieces
<1>5. FramesIn(q) \in Seq(AnyFrame) /\ 0 \in 0 .. Len(FramesIn(q))
  <2>1. FramesIn(q) \in Seq(AnyFrame)
    BY <1>1, FramesInType
  <2> QED BY <2>1, LenProperties
<1>6. CASE Torn(p)
  <2>1. Torn(p \o c) /\ FramesIn(p \o c) = FramesIn(p)
    BY <1>1, <1>2, <1>3, <1>6, TornStays
  <2> QED BY <1>4, <1>5, <1>6, <2>1 DEF c
<1>7. CASE ~Torn(p)
  <2>1. Aligned(p)
    BY <1>7, AlignedIsWhole
  <2>2. \E j \in 0 .. Len(FramesIn(q)) :
          FramesIn(p \o c) = FramesIn(p) \o SubSeq(FramesIn(q), 1, j)
    BY <1>1, <1>2, <2>1, FrontRead
  <2> QED BY <1>4, <1>7, <2>2 DEF c
<1> QED BY <1>6, <1>7

(* The file loses its end.                                                 *)
LEMMA FileCut ==
  ASSUME NEW p \in Seq(AnyPiece), NEW k \in 0 .. Len(p) - 1, NEW part \in BOOLEAN
  PROVE  LET r == Cut(p, k, part)
         IN  /\ r \in Seq(AnyPiece)
             /\ \E j \in 0 .. Len(FramesIn(p)) : FramesIn(r) = SubSeq(FramesIn(p), 1, j)
<1> DEFINE c == Cut(p, k, part)
           n == Readable(p)
           m == IF n < k THEN n ELSE k
<1>1. /\ c \in Seq(AnyPiece) /\ k <= Len(c) /\ k \in 0 .. Len(p)
      /\ \A j \in 1 .. k : c[j] = p[j]
      /\ Len(c) = k \/ (Len(c) = k + 1 /\ ~c[k + 1].whole)
  BY CutType
<1>2. /\ n \in 0 .. Len(p) /\ \A j \in 1 .. n : Continues(p, j)
      /\ n < Len(p) => ~Continues(p, n + 1)
  BY ReadableIs
<1>3. Len(p) \in Nat /\ Len(c) \in Nat /\ k \in Nat /\ n \in Nat
  BY <1>1, <1>2, LenProperties
<1> HIDE DEF c, n
<1>4. \A j \in 1 .. k : Continues(c, j) <=> Continues(p, j)
  <2> SUFFICES ASSUME NEW j \in 1 .. k PROVE Continues(c, j) <=> Continues(p, j)
    OBVIOUS
  <2>1. j \in Nat \ {0} /\ (j # 1 => j - 1 \in 1 .. k)
    BY <1>3
  <2>2. c[j] = p[j] /\ (j # 1 => c[j - 1] = p[j - 1])
    BY <1>1, <2>1
  <2> QED BY <2>1, <2>2, ContinuesSame
<1>5. m \in 0 .. Len(c) /\ m \in 0 .. k /\ m <= n /\ m \in 0 .. Len(p) /\ m \in Nat
  BY <1>1, <1>3
<1>6. Readable(c) = m
  <2>1. \A j \in 1 .. m : Continues(c, j)
    <3>1. \A j \in 1 .. m : j \in 1 .. k /\ j \in 1 .. n
      BY <1>3, <1>5
    <3> QED BY <1>2, <1>4, <3>1
  <2>2. ASSUME m < Len(c) PROVE ~Continues(c, m + 1)
    <3>1. CASE n < k
      <4>1. n + 1 \in 1 .. k /\ n < Len(p)
        BY <3>1, <1>1, <1>3
      <4> QED BY <3>1, <4>1, <1>2, <1>4
    <3>2. CASE ~(n < k)
      <4>1. m = k /\ ~c[k + 1].whole
        BY <2>2, <3>2, <1>1, <1>3
      <4> QED BY <4>1 DEF Continues
    <3> QED BY <3>1, <3>2
  <2> HIDE DEF m
  <2> QED BY <1>1, <1>5, <2>1, <2>2, ReadableUnique
<1> HIDE DEF m
<1>7. FramesEnded(c)[m] = FramesEnded(p)[m]
  <2>1. m \in 0 .. m /\ m <= Len(p) /\ \A j \in 1 .. m : j \in 1 .. k
    BY <1>3, <1>5
  <2>2. \A j \in 1 .. m : c[j] = p[j]
    BY <1>1, <2>1
  <2> QED BY <1>1, <1>5, <2>1, <2>2, EndedSame
<1>8. \E j \in 0 .. Len(FramesEnded(p)[n]) : FramesEnded(p)[m] = SubSeq(FramesEnded(p)[n], 1, j)
  <2>1. n \in m .. Len(p)
    BY <1>2, <1>3, <1>5
  <2> QED BY <1>5, <2>1, EndedPrefix
<1>9. FramesIn(c) = FramesEnded(p)[m] /\ FramesIn(p) = FramesEnded(p)[n]
  BY <1>6, <1>7 DEF FramesIn, n
<1> QED BY <1>1, <1>8, <1>9 DEF c

-----------------------------------------------------------------------------
(* Every step of the recording library is one of the log, or none.         *)

FileInv == file \in Seq(AnyPiece)

Queue == [b \in Bufs |-> FramesIn(data[b])]

LEMMA BufferType ==
  ASSUME RecordInv, NEW b \in Bufs
  PROVE  data[b] \in Seq(BufferPiece) /\ Aligned(data[b]) /\ FramesIn(data[b]) \in Seq(AnyFrame)
<1>1. data[b] \in Seq(BufferPiece) /\ Aligned(data[b])
  BY DEF RecordInv, BuffersInv
<1> QED BY <1>1, BufferIsPieces, FramesInType

(* Only the frames of the buffers, the file and its end matter.            *)
LEMMA LogUnchanged ==
  ASSUME data' = data, file' = file
  PROVE  UNCHANGED Log!logVars
BY DEF Log!logVars

(* A frame that finds no room leaves the buffer as it was.                 *)
LEMMA NotTaken ==
  ASSUME RecordInv, NEW b \in Bufs, NEW f \in Frame(States), WriteFrame(b, f), ~Taken(b, f)
  PROVE  data' = data
<1>1. /\ data[b] \in Seq(BufferPiece) /\ Len(data[b]) <= size[b] /\ size[b] \in Nat
      /\ Pieces(f) \in {2, 3} /\ data \in [Bufs -> Seq(BufferPiece)]
  BY DEF RecordInv, BuffersInv, Pieces
<1>2. Fitting(b, f) = SubSeq(Whole(f), 1, Room(b)) /\ Room(b) \in 0 .. Pieces(f) - 1
  BY <1>1 DEF Fitting, Taken, Room
<1>3. Whole(f) \in Seq(BufferPiece) /\ Len(Whole(f)) = Pieces(f)
  BY WholeType
<1>4. Fitting(b, f) \in Seq(BufferPiece)
  BY <1>1, <1>2, <1>3
<1>5. RolledBack(b, data[b] \o Fitting(b, f)) = data[b]
  BY <1>1, <1>4 DEF RolledBack
<1> QED BY <1>1, <1>5 DEF WriteFrame

(* Writing a frame takes it or changes nothing.                            *)
LEMMA WriteTakes ==
  ASSUME RecordInv, NEW b \in Bufs, NEW f \in Frame(States), WriteFrame(b, f), file' = file
  PROVE  [Log!LogNext]_Log!logVars
<1>1. CASE ~Taken(b, f)
  BY <1>1, NotTaken, LogUnchanged
<1>2. CASE Taken(b, f)
  <2> DEFINE s == FramesIn(data[b])
  <2>1. data[b] \in Seq(BufferPiece) /\ Aligned(data[b]) /\ s \in Seq(AnyFrame)
    BY BufferType
  <2>2. data' = [data EXCEPT ![b] = data[b] \o Whole(f)] /\ data \in [Bufs -> Seq(BufferPiece)]
    BY <1>2 DEF WriteFrame, Fitting, RecordInv, BuffersInv
  <2>3. FramesIn(data[b] \o Whole(f)) = Append(s, f)
    BY <2>1, FrameTaken
  <2>4. data'[b] = data[b] \o Whole(f) /\ \A d \in Bufs : d # b => data'[d] = data[d]
    BY <2>2
  <2>5. Queue' = [Queue EXCEPT ![b] = Append(s, f)]
    BY <2>3, <2>4 DEF Queue
  <2>6. Queue[b] = s /\ Queue'[b] = Append(s, f)
    BY <2>3, <2>4 DEF Queue
  <2> HIDE DEF s
  <2>7. f \in AnyFrame
    BY DEF AnyFrame
  <2>8. Len(Append(s, f)) = Len(s) + 1 /\ Append(s, f)[Len(s) + 1] = f
    BY <2>1, <2>7, AppendProperties
  <2>9. Log!Take(b)
    <3>1. Len(Queue'[b]) = Len(Queue[b]) + 1
      BY <2>6, <2>8
    <3>2. Queue' = [Queue EXCEPT ![b] = Append(@, Queue'[b][Len(Queue'[b])])]
      BY <2>5, <2>6, <2>8
    <3> QED BY <3>1, <3>2 DEF Log!Take, Queue
  <2> QED BY <2>9 DEF Log!LogNext
<1> QED BY <1>1, <1>2

LEMMA LogInitial == RecordInit => Log!LogInit /\ FileInv
<1> SUFFICES ASSUME RecordInit PROVE Log!LogInit /\ FileInv
  OBVIOUS
<1>1. /\ data = [b \in Bufs |-> IF b = Main THEN Whole(Header) ELSE <<>>]
      /\ file = <<>>
  BY DEF RecordInit
<1>2. FramesIn(<<>>) = <<>> /\ ~Torn(<<>>) /\ <<>> \in Seq(AnyPiece)
  <2>1. <<>> \in Seq(AnyPiece)
    BY EmptySeq
  <2> QED BY <2>1, FramesInNothing, AlignedIsWhole
<1>3. FramesIn(Whole(Header)) = <<Header>>
  <2>1. <<>> \in Seq(BufferPiece) /\ Aligned(<<>>) /\ Header \in Frame(States)
    BY EmptySeq, FramesInNothing DEF Header, Frame
  <2>2. FramesIn(<<>> \o Whole(Header)) = Append(FramesIn(<<>>), Header)
    BY <2>1, FrameTaken
  <2>3. Whole(Header) \in Seq(BufferPiece)
    BY <2>1, WholeType
  <2>4. <<>> \o Whole(Header) = Whole(Header)
    BY <2>3, ConcatEmptySeq
  <2> QED BY <1>2, <2>2, <2>4
<1>4. [b \in Bufs |-> FramesIn(data[b])] = [b \in Bufs |-> IF b = Main THEN <<Header>> ELSE <<>>]
  BY <1>1, <1>2, <1>3
<1> QED BY <1>1, <1>2, <1>4 DEF Log!LogInit, FileInv

LEMMA ThreadLogs ==
  ASSUME RecordInv, NEW c \in Colls, PopTrace(c) \/ \E s \in States : PushTrace(c, s)
  PROVE  [Log!LogNext]_Log!logVars
<1>1. PICK time \in now .. now + 1 :
        /\ Call(c, time) /\ file' = file
        /\ \/ WriteNothing
           \/ /\ stack[c] # <<>>
              /\ WriteFrame(c, Event(ids[c], Last(stack[c]).state, Last(stack[c]).start, time))
  BY DEF PopTrace, PushTrace
<1>2. time \in Nat /\ c \in Bufs /\ ids[c] \in Nat
  BY <1>1, CallType
<1>3. CASE WriteNothing
  BY <1>1, <1>3, LogUnchanged DEF WriteNothing
<1>4. CASE /\ stack[c] # <<>>
           /\ WriteFrame(c, Event(ids[c], Last(stack[c]).state, Last(stack[c]).start, time))
  BY <1>1, <1>2, <1>4, StackEvent, WriteTakes
<1> QED BY <1>1, <1>3, <1>4

LEMMA DumpStartLogs ==
  ASSUME RecordInv, FileInv, NEW named \in BOOLEAN, DumpStart(named)
  PROVE  [Log!LogNext]_Log!logVars /\ FileInv'
<1>1. data' = data /\ file' = IF named THEN <<>> ELSE file
  BY DEF DumpStart
<1>2. <<>> \in Seq(AnyPiece) /\ FramesIn(<<>>) = <<>> /\ ~Torn(<<>>)
  <2>1. <<>> \in Seq(AnyPiece)
    BY EmptySeq
  <2> QED BY <2>1, FramesInNothing, AlignedIsWhole
<1>3. CASE named
  <2>1. FramesIn(file') = <<>> /\ Torn(file') = FALSE
    BY <1>1, <1>2, <1>3
  <2>2. Log!Reopen
    BY <1>1, <2>1 DEF Log!Reopen
  <2> QED BY <1>1, <1>2, <1>3, <2>2 DEF Log!LogNext, FileInv
<1>4. CASE ~named
  BY <1>1, <1>4, LogUnchanged DEF FileInv
<1> QED BY <1>3, <1>4

LEMMA DumpBufferLogs ==
  ASSUME RecordInv, FileInv, DumpBuffer
  PROVE  [Log!LogNext]_Log!logVars /\ FileInv'
<1> DEFINE b == dump.at
<1>1. b \in Bufs
  BY RecordAssumption DEF DumpBuffer, RecordInv, IdsInv, Bufs, Colls, Main
<1>2. /\ file' = file \o data[b] /\ data' = [data EXCEPT ![b] = <<>>]
      /\ data \in [Bufs -> Seq(BufferPiece)]
  BY DEF DumpBuffer, Emptied, RecordInv, BuffersInv
<1> HIDE DEF b
<1>3. data[b] \in Seq(BufferPiece) /\ Aligned(data[b])
  BY <1>1, BufferType
<1>4. /\ file' \in Seq(AnyPiece)
      /\ FramesIn(file') = IF Torn(file) THEN FramesIn(file) ELSE FramesIn(file) \o FramesIn(data[b])
      /\ Torn(file') <=> Torn(file)
  BY <1>2, <1>3, BufferDelivered DEF FileInv
<1>5. FramesIn(<<>>) = <<>>
  BY FramesInNothing
<1>6. data'[b] = <<>> /\ \A d \in Bufs : d # b => data'[d] = data[d]
  BY <1>1, <1>2
<1>7. Queue' = [Queue EXCEPT ![b] = <<>>] /\ Queue[b] = FramesIn(data[b])
  BY <1>1, <1>5, <1>6 DEF Queue
<1>8. Torn(file') = Torn(file)
  BY <1>4 DEF Torn
<1>9. Log!Deliver(b)
  BY <1>4, <1>7, <1>8 DEF Log!Deliver, Queue
<1> QED BY <1>1, <1>4, <1>9 DEF Log!LogNext, FileInv

LEMMA DumpFailsLogs ==
  ASSUME RecordInv, FileInv, DumpFails
  PROVE  [Log!LogNext]_Log!logVars /\ FileInv'
<1> DEFINE b == dump.at
<1>1. b \in Bufs
  BY RecordAssumption DEF DumpFails, RecordInv, IdsInv, Bufs, Colls, Main
<1>2. PICK k \in 0 .. Len(data[b]) - 1, part \in BOOLEAN :
        file' = file \o Cut(data[b], k, part) /\ data' = data
  BY DEF DumpFails
<1> HIDE DEF b
<1>3. data[b] \in Seq(BufferPiece) /\ Aligned(data[b])
  BY <1>1, BufferType
<1>4. /\ file' \in Seq(AnyPiece)
      /\ \E j \in 0 .. Len(FramesIn(data[b])) :
           FramesIn(file') = IF Torn(file) THEN FramesIn(file)
                             ELSE FramesIn(file) \o SubSeq(FramesIn(data[b]), 1, j)
      /\ Torn(file) => Torn(file')
  <2> DEFINE q == data[b]
             r == file \o Cut(q, k, part)
  <2>1. file \in Seq(AnyPiece) /\ q \in Seq(BufferPiece) /\ Aligned(q)
    BY <1>3 DEF FileInv
  <2>2. k \in 0 .. Len(q) - 1
    OBVIOUS
  <2> HIDE DEF q
  <2>3. /\ r \in Seq(AnyPiece)
        /\ \E j \in 0 .. Len(FramesIn(q)) :
             FramesIn(r) = IF Torn(file) THEN FramesIn(file)
                           ELSE FramesIn(file) \o SubSeq(FramesIn(q), 1, j)
        /\ Torn(file) => Torn(r)
    BY <2>1, <2>2, BufferCut
  <2>4. file' = r
    BY <1>2 DEF q
  <2> HIDE DEF r
  <2> QED BY <2>3, <2>4 DEF q
<1>5. Queue' = Queue /\ Queue[b] = FramesIn(data[b])
  BY <1>1, <1>2 DEF Queue
<1>6. Log!Fail(b)
  <2>1. PICK j \in 0 .. Len(FramesIn(data[b])) :
          FramesIn(file') = IF Torn(file) THEN FramesIn(file)
                            ELSE FramesIn(file) \o SubSeq(FramesIn(data[b]), 1, j)
    BY <1>4
  <2>2. Torn(file') = (Torn(file) \/ Torn(file')) /\ Torn(file') \in BOOLEAN
    BY <1>4 DEF Torn
  <2>3. \E cut \in BOOLEAN : Torn(file') = (Torn(file) \/ cut)
    BY <2>2
  <2> QED BY <1>5, <2>1, <2>3 DEF Log!Fail, Queue
<1> QED BY <1>1, <1>4, <1>6 DEF Log!LogNext, FileInv

LEMMA DumpEndLogs ==
  ASSUME RecordInv, FileInv, DumpEnd
  PROVE  [Log!LogNext]_Log!logVars /\ FileInv'
<1>1. data' = data
  BY DEF DumpEnd
<1>2. CASE file' = file
  BY <1>1, <1>2, LogUnchanged DEF FileInv
<1>3. CASE \E k \in Len(file) - MaxLoss .. Len(file) - 1, part \in BOOLEAN :
             k >= 0 /\ file' = Cut(file, k, part)
  <2>1. Len(file) \in Nat /\ MaxLoss \in Nat
    BY RecordAssumption, LenProperties DEF FileInv
  <2>2. PICK k \in 0 .. Len(file) - 1, part \in BOOLEAN : file' = Cut(file, k, part)
    BY <1>3, <2>1
  <2>3. /\ file' \in Seq(AnyPiece)
        /\ \E j \in 0 .. Len(FramesIn(file)) : FramesIn(file') = SubSeq(FramesIn(file), 1, j)
    BY <2>2, FileCut DEF FileInv
  <2>4. Torn(file') \in BOOLEAN
    BY DEF Torn
  <2>5. \E cut \in BOOLEAN : Torn(file') = cut
    BY <2>4
  <2>6. Log!LoseEnd
    BY <1>1, <2>3, <2>5 DEF Log!LoseEnd
  <2> QED BY <2>3, <2>6 DEF Log!LogNext, FileInv
<1> QED BY <1>2, <1>3 DEF DumpEnd

LEMMA StepLogs ==
  RecordInv /\ FileInv /\ [RecordNext]_recordVars => [Log!LogNext]_Log!logVars /\ FileInv'
<1> SUFFICES ASSUME RecordInv, FileInv, [RecordNext]_recordVars
             PROVE  [Log!LogNext]_Log!logVars /\ FileInv'
  OBVIOUS
<1>1. CASE MainStep
  BY <1>1, LogUnchanged DEF MainStep, FileInv
<1>2. CASE MainWrites
  <2>1. frames # <<>> /\ WriteFrame(Main, Head(frames)) /\ file' = file
    BY <1>2 DEF MainWrites
  <2>2. Head(frames) \in Frame(States) /\ Main \in Bufs
    BY <2>1, HeadTailProperties DEF RecordInv, ProgramInv, Bufs
  <2> QED BY <2>1, <2>2, WriteTakes DEF FileInv
<1>3. CASE \E c \in Colls : PopTrace(c) \/ \E s \in States : PushTrace(c, s)
  <2>1. file' = file
    BY <1>3 DEF PopTrace, PushTrace
  <2> QED BY <1>3, <2>1, ThreadLogs DEF FileInv
<1>4. CASE \E named \in BOOLEAN : DumpStart(named)
  BY <1>4, DumpStartLogs
<1>5. CASE DumpBuffer
  BY <1>5, DumpBufferLogs
<1>6. CASE DumpFails
  BY <1>6, DumpFailsLogs
<1>7. CASE DumpEnd
  BY <1>7, DumpEndLogs
<1>8. CASE UNCHANGED recordVars
  BY <1>8, LogUnchanged DEF recordVars, FileInv
<1> QED BY <1>1, <1>2, <1>3, <1>4, <1>5, <1>6, <1>7, <1>8 DEF RecordNext

(* The recording library implements the log: whatever the sizes of the     *)
(* buffers are, whatever the program writes and wherever the device fails, *)
(* a file that is read from its front holds whole frames that were taken,  *)
(* in the order they were.                                                 *)
THEOREM LogCorrect == RecordSpec => LogImplemented
<1>1. RecordInit => Log!LogInit /\ FileInv
  BY LogInitial
<1>2. RecordInv /\ FileInv /\ [RecordNext]_recordVars => [Log!LogNext]_Log!logVars /\ FileInv'
  BY StepLogs
<1> QED BY <1>1, <1>2, RecordInvariant, PTL DEF RecordSpec, LogImplemented, Log!LogSpec

=============================================================================
