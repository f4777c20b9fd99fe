---------------------------- MODULE TraceRecord ----------------------------
(***************************************************************************)
(* libaftermath-trace: a program records a trace in memory and dumps it.   *)
(*                                                                         *)
(* The trace has a buffer of its own, number 0, to which the main program  *)
(* writes the types, collections, hierarchies, mappings and descriptions,  *)
(* and one buffer for every event collection, in the order in which they   *)
(* were added.  A collection belongs to a thread, which keeps a stack of   *)
(* the states it is in and writes a state event whenever it enters or      *)
(* leaves one.  A frame is written piece by piece, its type ID first; a    *)
(* piece for which there is no room makes the whole frame fail, and the    *)
(* buffer returns to its former size.  The threads write concurrently,     *)
(* each to its own buffer, so that writing a frame is one step; a dump     *)
(* takes place while none of them writes.                                  *)
(*                                                                         *)
(* A piece takes one unit of a buffer.  Bounds: MaxColls collections,      *)
(* MaxTime time steps, the calls and dumps of a scenario, and MaxFaults    *)
(* failures of the device or of memory, which lose at most MaxLoss pieces  *)
(* when a file is closed.                                                  *)
(***************************************************************************)
EXTENDS TraceFrames, FiniteSets, SequencesExt

CONSTANTS
  States,    \* states of the threads
  Scenarios, \* what the program does: a script for the main program, which is
             \* a sequence of operations that create a collection ("new"), do
             \* so with an ID of their own ("add"), write frames ("write"), or
             \* map each collection to the root of the hierarchy 1 ("map");
             \* the sizes of the buffers, the calls of each thread, the dumps
  Depth,     \* max_entries of a state stack
  IdLimit,   \* am_event_collection_id_t is calculated modulo IdLimit
  MaxColls, MaxTime, MaxFaults, MaxLoss

VARIABLES
  size,     \* [Bufs -> Nat]
  data,     \* [Bufs -> Seq(piece)]: the used part of a write buffer
  ids,      \* collections: the IDs, in the order of the list
  highest,  \* highest_collection_id
  script,   \* what is left for the main program to do
  frames,   \* frames left of the operation the main program is at
  stack,    \* [Colls -> Seq([state, start])]
  now,      \* the last timestamp taken
  dump,     \* the dump under way, or NoDump
  file,     \* the pieces in the file
  result,   \* of the last dump: "none", "ok" or "failed"
  dumps, calls,  \* the dumps, and the calls of each thread, that are left
  faults,        \* so far
  inside,   \* history: [Colls -> Seq(States)]: the states the thread is in
  past,     \* history: [Colls -> Seq(States or None)]: the state per time step
  taken,    \* history: [Bufs -> Seq(frame)]: the frames written successfully
  lost,     \* history: collections one of whose events could not be written
  astray,   \* history: collections whose stack differs from the thread's
  spoiled   \* history: something that was dumped is not, or not whole, in the file

recordVars ==
  <<size, data, ids, highest, script, frames, stack, now, dump, file,
    result, dumps, calls, faults, inside, past, taken, lost, astray, spoiled>>

Main == 0
Colls == 1 .. MaxColls
Bufs == {Main} \cup Colls
None == "none"

Operation ==
  [op : {"new", "map"}] \cup [op : {"add"}, id : Nat] \cup [op : {"write"}, frames : Seq(Frame(States))]

ASSUME RecordAssumption ==
  /\ Depth \in Nat /\ IdLimit \in Nat \ {0} /\ None \notin States
  /\ \A s \in {MaxColls, MaxTime, MaxFaults, MaxLoss} : s \in Nat
  /\ \A s \in Scenarios :
       /\ s.script \in Seq(Operation)
       /\ s.sizes \in [0 .. MaxColls -> Nat] /\ s.sizes[0] >= 2
       /\ s.calls \in [1 .. MaxColls -> Nat] /\ s.dumps \in Nat

(***************************************************************************)
(* Frames                                                                  *)
(***************************************************************************)
(* The pieces of a frame: the type ID and the fields (the header has no    *)
(* type ID); the fields of frames that are not torn apart by a property    *)
(* are taken together.                                                     *)
Pieces(f) == IF f.type = "event" THEN 3 ELSE 2

Piece(f, i) == [frame |-> f, number |-> i, whole |-> TRUE]
Whole(f) == [i \in 1 .. Pieces(f) |-> Piece(f, i)]

(* The frames at the front of a sequence of pieces (FramesEnded[k]: those  *)
(* that end within the first k pieces), and whether something that is no   *)
(* frame follows them                                                      *)
Complete(piece) == piece.number = Pieces(piece.frame)
Continues(pieces, j) ==
  /\ pieces[j].whole
  /\ IF j = 1 \/ Complete(pieces[j - 1])
       THEN pieces[j].number = 1
       ELSE pieces[j] = Piece(pieces[j - 1].frame, pieces[j - 1].number + 1)
Readable(pieces) ==
  LET bad == {j \in DOMAIN pieces : ~Continues(pieces, j)}
  IN  IF bad = {} THEN Len(pieces) ELSE Min(bad) - 1
FramesEnded(pieces) ==
  LET ended[k \in 0 .. Len(pieces)] ==
        IF k = 0 THEN <<>>
        ELSE IF Complete(pieces[k]) THEN Append(ended[k - 1], pieces[k].frame)
        ELSE ended[k - 1]
  IN  ended
FramesIn(pieces) == FramesEnded(pieces)[Readable(pieces)]
Torn(pieces) ==
  Readable(pieces) < Len(pieces) \/ (pieces # <<>> /\ ~Complete(Last(pieces)))

(***************************************************************************)
(* Writing a frame                                                         *)
(***************************************************************************)
(* The pieces for which there is room are written; when one is left, the   *)
(* frame is rolled back.                                                   *)
Room(b) == size[b] - Len(data[b])
(* Mutant: any room will do.                                               *)
TakenUnchecked(b, f) == Room(b) > 0
Taken(b, f) == Pieces(f) <= Room(b)
Fitting(b, f) == IF Taken(b, f) THEN Whole(f) ELSE SubSeq(Whole(f), 1, Room(b))
(* Mutant: the pieces written stay.                                        *)
NotRolledBack(b, pieces) == pieces
RolledBack(b, pieces) == SubSeq(pieces, 1, Len(data[b]))

WriteFrame(b, f) ==
  LET used == data[b] \o Fitting(b, f)
  IN  /\ data' = [data EXCEPT ![b] = IF Taken(b, f) THEN used ELSE RolledBack(b, used)]
      /\ taken' = IF Taken(b, f) THEN [taken EXCEPT ![b] = Append(@, f)] ELSE taken
      /\ lost' = IF Taken(b, f) THEN lost ELSE lost \cup {b}

WriteNothing == UNCHANGED <<data, taken, lost>>

(***************************************************************************)
(* The main program                                                        *)
(***************************************************************************)
(* am_buffered_trace_add_collection                                        *)
AddCollection(id) ==
  /\ ids' = Append(ids, id)
  /\ highest' = IF id > highest THEN id ELSE highest

(* Mutant: the IDs are counted.                                            *)
NewIdByLength == Len(ids)
NewId == IF ids = <<>> THEN 0 ELSE (highest + 1) % IdLimit

Create(id) ==
  /\ Len(ids) < MaxColls
  /\ AddCollection(id)
  /\ frames' = <<Collection(id)>>
  /\ UNCHANGED faults

(* The next operation.  Creating a collection may fail for want of memory; *)
(* its frame is not written then.                                          *)
MainStep ==
  /\ script # <<>> /\ frames = <<>> /\ dump.at = -1
  /\ script' = Tail(script)
  /\ LET next == Head(script)
     IN  \/ /\ next.op = "write"
            /\ frames' = next.frames
            /\ UNCHANGED <<ids, highest, faults>>
         \/ /\ next.op = "map"
            /\ frames' = [i \in DOMAIN ids |-> Mapping(ids[i], 1, 1, 0, MaxTime)]
            /\ UNCHANGED <<ids, highest, faults>>
         \/ next.op = "new" /\ Create(NewId)
         \/ next.op = "add" /\ Create(next.id)
         \/ /\ next.op \in {"new", "add"} /\ faults < MaxFaults
            /\ faults' = faults + 1
            /\ UNCHANGED <<ids, highest, frames>>
  /\ UNCHANGED <<size, data, stack, now, dump, file, result, dumps, calls, inside, past, taken,
                 lost, astray, spoiled>>

(* The rest of a hierarchy is not written when one of its frames fails.    *)
MainWrites ==
  /\ frames # <<>>
  /\ WriteFrame(Main, Head(frames))
  /\ frames' = IF Taken(Main, Head(frames)) THEN Tail(frames) ELSE <<>>
  /\ UNCHANGED <<size, ids, highest, script, stack, now, dump, file, result, dumps, calls,
                 faults, inside, past, astray, spoiled>>

(***************************************************************************)
(* The threads                                                             *)
(***************************************************************************)
Innermost(c) == IF inside[c] = <<>> THEN None ELSE Last(inside[c])

(* A thread calls the state stack, at a time that has not gone back.       *)
Call(c, time) ==
  /\ c <= Len(ids) /\ dump.at = -1
  /\ calls[c] > 0
  /\ calls' = [calls EXCEPT ![c] = @ - 1]
  /\ time \in {now, now + 1} /\ time <= MaxTime
  /\ now' = time
  /\ past' = [d \in Colls |-> past[d] \o [t \in 1 .. time - now |-> Innermost(d)]]

(* am_state_stack_push_trace: pushes the state, then writes the event of   *)
(* the state below.                                                        *)
PushTrace(c, s) ==
  \E time \in now .. now + 1 :
    /\ Call(c, time)
    /\ inside' = [inside EXCEPT ![c] = Append(@, s)]
    /\ \/ /\ Len(stack[c]) >= Depth
          /\ astray' = astray \cup {c}
          /\ WriteNothing
          /\ UNCHANGED stack
       \/ /\ Len(stack[c]) < Depth
          /\ stack' = [stack EXCEPT ![c] = Append(@, [state |-> s, start |-> time])]
          /\ IF stack[c] = <<>>
               THEN WriteNothing
               ELSE LET below == Last(stack[c])
                    IN  WriteFrame(c, Event(ids[c], below.state, below.start, time))
          /\ UNCHANGED astray
    /\ UNCHANGED <<size, ids, highest, script, frames, dump, file, result, dumps, faults, spoiled>>

(* am_state_stack_try_pop: the state below goes on from now.               *)
(* Mutant: the state below keeps its start.                                *)
PoppedOnly(s, tsc) == Front(s)
Popped(s, tsc) ==
  LET rest == Front(s)
  IN  IF rest = <<>> THEN rest ELSE [rest EXCEPT ![Len(rest)].start = tsc]

(* am_state_stack_pop_trace and try_pop_trace: writes the event of the     *)
(* state on top, then pops it, unless the event finds no room; with an     *)
(* empty stack nothing happens.                                            *)
PopTrace(c) ==
  \E time \in now .. now + 1 :
    /\ Call(c, time)
    /\ inside[c] # <<>>
    /\ inside' = [inside EXCEPT ![c] = Front(@)]
    /\ \/ /\ stack[c] = <<>>
          /\ WriteNothing
          /\ UNCHANGED <<stack, astray>>
       \/ /\ stack[c] # <<>>
          /\ LET top == Last(stack[c])
                 event == Event(ids[c], top.state, top.start, time)
             IN  /\ WriteFrame(c, event)
                 /\ stack' = IF Taken(c, event) THEN [stack EXCEPT ![c] = Popped(@, time)]
                                                ELSE stack
                 /\ astray' = IF Taken(c, event) THEN astray ELSE astray \cup {c}
    /\ UNCHANGED <<size, ids, highest, script, frames, dump, file, result, dumps, faults, spoiled>>

(***************************************************************************)
(* Dumping                                                                 *)
(***************************************************************************)
NoDump == [at |-> -1, named |-> FALSE]
Ended(r) == result' = r /\ dump' = NoDump

(* am_buffered_trace_dump opens the named file and empties it, dump_fp     *)
(* goes on in a file the program has opened.                               *)
DumpStart(named) ==
  /\ dump.at = -1 /\ frames = <<>>
  /\ dumps > 0
  /\ dumps' = dumps - 1
  /\ dump' = [at |-> Main, named |-> named]
  /\ file' = IF named THEN <<>> ELSE file
  /\ result' = None
  /\ spoiled' = (spoiled \/ (named /\ file # <<>>))
  /\ UNCHANGED <<size, data, ids, highest, script, frames, stack, now, calls, faults,
                 inside, past, taken, lost, astray>>

(* am_write_buffer_dump_fp: the buffer is empty once it is written.        *)
(* Mutant: what was dumped stays in the buffer.                            *)
NotEmptied(b) == data
Emptied(b) == [data EXCEPT ![b] = <<>>]

DumpBuffer ==
  /\ dump.at \in 0 .. Len(ids)
  /\ file' = file \o data[dump.at]
  /\ data' = Emptied(dump.at)
  /\ dump' = [dump EXCEPT !.at = @ + 1]
  /\ UNCHANGED <<size, ids, highest, script, frames, stack, now, result, dumps, calls,
                 faults, inside, past, taken, lost, astray, spoiled>>

(* The front of a sequence of pieces, the last perhaps in part             *)
Cut(pieces, k, part) ==
  IF part THEN Append(SubSeq(pieces, 1, k), [pieces[k + 1] EXCEPT !.whole = FALSE])
          ELSE SubSeq(pieces, 1, k)

(* The device takes a part of the buffer; the dump ends.                   *)
DumpFails ==
  /\ dump.at \in 0 .. Len(ids) /\ faults < MaxFaults
  /\ \E k \in 0 .. Len(data[dump.at]) - 1, part \in BOOLEAN :
       file' = file \o Cut(data[dump.at], k, part)
  /\ faults' = faults + 1
  /\ spoiled' = TRUE
  /\ Ended("failed")
  /\ UNCHANGED <<size, data, ids, highest, script, frames, stack, now, dumps, calls,
                 inside, past, taken, lost, astray>>

(* The file is closed by am_buffered_trace_dump, which does not look       *)
(* whether that succeeds.                                                  *)
DumpEnd ==
  /\ dump.at = Len(ids) + 1
  /\ \/ UNCHANGED <<file, faults, spoiled>>
     \/ /\ dump.named /\ faults < MaxFaults
        /\ \E k \in Len(file) - MaxLoss .. Len(file) - 1, part \in BOOLEAN :
             k >= 0 /\ file' = Cut(file, k, part)
        /\ faults' = faults + 1
        /\ spoiled' = TRUE
  /\ Ended("ok")
  /\ UNCHANGED <<size, data, ids, highest, script, frames, stack, now, dumps, calls,
                 inside, past, taken, lost, astray>>

(***************************************************************************)
(* am_buffered_trace_init writes the header.                               *)
(***************************************************************************)
RecordInit ==
  /\ \E s \in Scenarios :
       script = s.script /\ size = s.sizes /\ calls = s.calls /\ dumps = s.dumps
  /\ data = [b \in Bufs |-> IF b = Main THEN Whole(Header) ELSE <<>>]
  /\ ids = <<>> /\ highest = 0
  /\ frames = <<>>
  /\ stack = [c \in Colls |-> <<>>]
  /\ now = 0
  /\ dump = NoDump /\ file = <<>> /\ result = None
  /\ faults = 0
  /\ inside = [c \in Colls |-> <<>>] /\ past = [c \in Colls |-> <<>>]
  /\ taken = [b \in Bufs |-> IF b = Main THEN <<Header>> ELSE <<>>]
  /\ lost = {} /\ astray = {} /\ spoiled = FALSE

RecordNext ==
  \/ MainStep
  \/ MainWrites
  \/ \E c \in Colls : PopTrace(c) \/ \E s \in States : PushTrace(c, s)
  \/ \E named \in BOOLEAN : DumpStart(named)
  \/ DumpBuffer
  \/ DumpFails
  \/ DumpEnd

-----------------------------------------------------------------------------
(***************************************************************************)
(* Properties                                                              *)
(***************************************************************************)
(* Type correctness of the buffers and the positions in them.              *)
RecordTypeOK ==
  /\ \A b \in Bufs : Len(data[b]) \in 0 .. size[b]
  /\ \A c \in Colls : Len(stack[c]) <= Depth
  /\ dump.at \in -1 .. Len(ids) + 1

(* A buffer never holds a part of a frame, whatever was written to it and  *)
(* however small it is: a write that finds no room is undone               *)
(* (am_write_buffer, WriteToBufferFunction).                               *)
BuffersWhole == \A b \in Bufs : ~Torn(data[b])

(* An event says what state its thread was in, at every moment of its      *)
(* interval, unless the stack of the collection once failed to follow the  *)
(* thread: a push with a full stack, or a pop whose event found no room    *)
(* (am_state_stack_push_trace, pop_trace, try_pop).  An event that is lost *)
(* when a state is entered does not disturb the later ones.                *)
Faithful ==
  \A c \in Colls \ astray : \A i \in DOMAIN taken[c] :
    LET e == taken[c][i]
    IN  e.id = ids[c] /\ \A t \in e.start + 1 .. e.end : past[c][t] = e.state

(* Every moment that a thread spent in a state which it has since left or  *)
(* covered by another is in exactly one event, in none if one was lost,    *)
(* and in none if the thread was in no state.                              *)
Tiled ==
  \A c \in Colls \ astray :
    \A t \in 1 .. (IF stack[c] = <<>> THEN Len(past[c]) ELSE Last(stack[c]).start) :
      LET covering == {i \in DOMAIN taken[c] : t \in taken[c][i].start + 1 .. taken[c][i].end}
      IN  /\ Cardinality(covering) <= 1
          /\ covering = {} => c \in lost \/ past[c][t] = None

(* A dump that reports success has put every frame that was taken into the *)
(* file, those of each buffer in their order, the header first, unless an  *)
(* earlier dump failed or was overwritten, or closing the file failed      *)
(* (am_buffered_trace_dump_fp).                                            *)
Origin(f) == IF f.type = "event" THEN {c \in 1 .. Len(ids) : ids[c] = f.id} ELSE {Main}
AllInFile ==
  /\ ~Torn(file')
  /\ FramesIn(file')[1] = Header
  /\ \A b \in 0 .. Len(ids) :
       SelectSeq(FramesIn(file'), LAMBDA f : b \in Origin(f)) = taken[b]
DumpComplete == [][DumpEnd /\ ~spoiled' => AllInFile]_recordVars

(* Such a dump can be loaded: every frame makes sense after those before   *)
(* it, as the loader demands (TraceFrames), and has a type that was given  *)
(* its default number; provided that the main program found room for all   *)
(* of its frames.  What a thread has lost does not matter.                 *)
Loadable(fs) ==
  \A i \in 2 .. Len(fs) :
    /\ Sensible(fs, i)
    /\ fs[i].type # "type_id" =>
         Earlier(fs, i, TypeId(fs[i].type, DefaultId(fs[i].type)))
DumpLoads == [][DumpEnd /\ ~spoiled' /\ Main \notin lost => Loadable(FramesIn(file'))]_recordVars

(* Every collection made by am_buffered_trace_new_collection has an ID of  *)
(* its own, as long as the IDs do not overflow.                            *)
IdsUnique ==
  [][Len(ids') > Len(ids) /\ Head(script).op = "new" /\ highest + 1 < IdLimit
     => Last(ids') \notin Range(ids)]_recordVars

(* The pieces in buffers and file behave as whole frames.                  *)
Log == INSTANCE TraceLog
         WITH queue <- [b \in Bufs |-> FramesIn(data[b])],
              file <- FramesIn(file), torn <- Torn(file)
LogImplemented == Log!LogSpec

RecordSpec == RecordInit /\ [][RecordNext]_recordVars

(* A buffer stays within its size and holds whole frames only.             *)
BuffersOK == RecordTypeOK /\ BuffersWhole

(* The state events of a thread tell the states it was in: each moment in  *)
(* one event, and that of the right state.                                 *)
StatesTold == Faithful /\ Tiled

(* A dump that reports success holds everything that was recorded, in an   *)
(* order that the loader accepts.                                          *)
DumpRight == DumpComplete /\ DumpLoads
=============================================================================
