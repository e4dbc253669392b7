------------------------------ MODULE FrameFifo ------------------------------
(***************************************************************************)
(* What a frame buffer promises its one source and its one sink            *)
(* (IAVFrameSinkBuffer and IAVFrameSourceBuffer,                           *)
(* src/src/ffmpegAVFrameBufferInterfaces.h): a first-in first-out stream   *)
(* of frames, bounded by the capacity the buffer was made with, that       *)
(* nothing follows the end of file into.                                   *)
(***************************************************************************)
EXTENDS Integers, SequencesExt

CONSTANTS Frame, Null   \* Null, as a member of the stream, is the end of file

VARIABLES fifo,         \* the stream: pushed and not yet popped, oldest first
          ended,        \* the end of file has been pushed
          room          \* capacity(): 0 if the buffer is dynamically sized

vars == <<fifo, ended, room>>

Init == fifo = <<>> /\ ended = FALSE /\ room \in Nat

Put(x) ==
  /\ ~ended
  /\ room = 0 \/ Len(fifo) < room
  /\ fifo' = Append(fifo, x)
  /\ ended' = (x = Null)
  /\ UNCHANGED room

\* A buffer may keep showing an end of file that was popped.
Take ==
  /\ fifo # <<>>
  /\ fifo' = Tail(fifo) \/ (fifo = <<Null>> /\ fifo' = fifo)
  /\ UNCHANGED <<ended, room>>

\* The source takes back what it pushed last.
TakeBack ==
  /\ fifo # <<>>
  /\ fifo' = Front(fifo)
  /\ ended' = FALSE
  /\ UNCHANGED room

Reset ==
  /\ fifo' = <<>>
  /\ ended' = FALSE
  /\ UNCHANGED room

Next == (\E x \in Frame \cup {Null} : Put(x)) \/ Take \/ TakeBack \/ Reset

Spec == Init /\ [][Next]_vars
=============================================================================
