------------------------------ MODULE TraceLog ------------------------------
(***************************************************************************)
(* What the recording library promises about the frames a program hands    *)
(* it: a frame is taken whole or not at all, every buffer keeps its frames *)
(* in the order they were taken, and a file receives the frames of a       *)
(* buffer together, in that order.  A device that fails may leave the      *)
(* beginning of a buffer in the file, the last frame cut; the buffer keeps *)
(* its frames then.  TraceRecord implements this with bytes.               *)
(***************************************************************************)
EXTENDS Integers, Sequences

CONSTANTS
  Bufs,    \* the buffers of the trace, Main is the trace-wide one
  Main,
  Header   \* the file header, the first content of Main

VARIABLES
  queue,   \* [Bufs -> sequences of frames]: taken, not yet in a file
  file,    \* the whole frames at the front of the file
  torn     \* the front of the file is followed by a cut frame

logVars == <<queue, file, torn>>

LogInit ==
  /\ queue = [b \in Bufs |-> IF b = Main THEN <<Header>> ELSE <<>>]
  /\ file = <<>>
  /\ torn = FALSE

\* A frame is taken.
Take(b) ==
  /\ Len(queue'[b]) = Len(queue[b]) + 1
  /\ queue' = [queue EXCEPT ![b] = Append(@, queue'[b][Len(queue'[b])])]
  /\ UNCHANGED <<file, torn>>

\* The file is opened anew.
Reopen ==
  /\ file' = <<>>
  /\ torn' = FALSE
  /\ UNCHANGED queue

\* All frames of a buffer go to the file; behind a cut frame they are lost.
Deliver(b) ==
  /\ file' = IF torn THEN file ELSE file \o queue[b]
  /\ queue' = [queue EXCEPT ![b] = <<>>]
  /\ UNCHANGED torn

\* The device fails within a buffer: some of its frames are in the file.
Fail(b) ==
  /\ \E k \in 0..Len(queue[b]), cut \in BOOLEAN :
       /\ file' = IF torn THEN file ELSE file \o SubSeq(queue[b], 1, k)
       /\ torn' = (torn \/ cut)
  /\ UNCHANGED queue

\* The device fails when the file is closed: its end is lost.
LoseEnd ==
  /\ \E k \in 0..Len(file), cut \in BOOLEAN :
       /\ file' = SubSeq(file, 1, k)
       /\ torn' = cut
  /\ UNCHANGED queue

LogNext ==
  \/ \E b \in Bufs : Take(b) \/ Deliver(b) \/ Fail(b)
  \/ Reopen
  \/ LoseEnd

LogSpec == LogInit /\ [][LogNext]_logVars
=============================================================================
