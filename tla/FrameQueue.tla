----------------------------- MODULE FrameQueue -----------------------------
(***************************************************************************)
(* The data of an ffmpeg::AVFrameQueue (src/src/ffmpegAVFrameQueue.h) and  *)
(* the critical section of each of its methods, as functions of a queue.   *)
(*                                                                         *)
(* A queue is a ring of slots, que, with a write and a read position.  The *)
(* std::vector iterators wr and rd are 1-based indices here.  The content  *)
(* of an AVFrame is abstracted to its identity; an unreferenced AVFrame    *)
(* and the null AVFrame* are Null, and pushing Null pushes the end of      *)
(* file, as in the code.                                                   *)
(*                                                                         *)
(* AVFrameQueue (threads, mutex, condition variables) and                  *)
(* AVFrameDoubleBuffer (two such queues without locks) are built on this   *)
(* module.                                                                 *)
(***************************************************************************)
EXTENDS Integers, SequencesExt

CONSTANTS Frame,   \* the frames that may travel through a queue
          Null     \* the null AVFrame*, and the content of an unreferenced one

ASSUME NullAssumption == Null \notin Frame

Slot == [frame : Frame \cup {Null}, eof : BOOLEAN, populated : BOOLEAN]

VacantSlot == [frame |-> Null, eof |-> FALSE, populated |-> FALSE]

\* A slot that holds the frame x, or the end of file.
Holding(x) == [frame |-> x, eof |-> x = Null, populated |-> TRUE]

Queue == [que : Seq(Slot), wr : Nat, rd : Nat, dynamic : BOOLEAN, killnow : BOOLEAN]

\* AVFrameQueue(N): one slot, then N - 1 more; N = 0 makes a dynamic queue.
NewQueue(N) ==
  [que |-> [i \in 1..(IF N = 0 THEN 1 ELSE N) |-> VacantSlot],
   wr |-> 1, rd |-> 1, dynamic |-> N = 0, killnow |-> FALSE]

-----------------------------------------------------------------------------
(* Positions. *)

Size(q) == Len(q.que)

\* Mutant: the iterator runs off the end of the ring.
AfterPastEnd(q, i) == i + 1

\* if (++it == que.end()) it = que.begin()
After(q, i) == IF i = Size(q) THEN 1 ELSE i + 1

\* ((it == que.begin()) ? que.end() : it) - 1
Before(q, i) == IF i = 1 THEN Size(q) ELSE i - 1

\* (wr > que.begin()) ? wr - 1 : que.begin()
LastPushed(q) == IF q.wr > 1 THEN q.wr - 1 ELSE 1

-----------------------------------------------------------------------------
(* Queries. *)

IsEmpty(q) == ~q.que[q.rd].populated

IsFull(q) == ~q.dynamic /\ q.que[q.wr].populated

ReadyToPush(q) == q.dynamic \/ ~q.que[q.wr].populated

ReadyToPop(q) == q.que[q.rd].populated

AtEof(q) == ~IsEmpty(q) /\ q.que[q.rd].eof

HasEof(q) == ~IsEmpty(q) /\ q.que[q.wr].eof

Capacity(q) == IF q.dynamic THEN 0 ELSE Size(q)

\* What pop delivers and peekToPop shows: Null stands for the end of file.
Oldest(q) == q.que[q.rd].frame

-----------------------------------------------------------------------------
(* Updates.  Each gives the queue its new slots and its new positions. *)

WithRing(q, slots, w, r) == [q EXCEPT !.que = slots, !.wr = w, !.rd = r]

\* Mutant: expand() leaves the read position where it is.
ExpandKeepsRd(q) ==
  LET at == IF q.que[q.wr].populated /\ q.wr = 1 THEN Size(q) + 1 ELSE q.wr
  IN WithRing(q, InsertAt(q.que, at, VacantSlot), at, q.rd)

\* expand(): a vacant slot at the write position, read position kept on its slot.
Expand(q) ==
  LET caughtUp == q.que[q.wr].populated
      at == IF caughtUp /\ q.wr = 1 THEN Size(q) + 1 ELSE q.wr
      shift == IF caughtUp THEN q.wr > 1 ELSE q.rd > q.wr
  IN WithRing(q, InsertAt(q.que, at, VacantSlot), at, IF shift THEN q.rd + 1 ELSE q.rd)

\* The slot at wr takes the frame x, or the end of file, and wr moves on.
Fill(q, x) ==
  WithRing(q, [q.que EXCEPT ![q.wr] = Holding(x)], After(q, q.wr), q.rd)

\* Mutant: peekToPush() hands out the slot without expanding.
MakeNoRoom(q) == q

\* peekToPush(): room for one more frame at wr, made if need be.
MakeRoom(q) == IF q.que[q.wr].populated THEN Expand(q) ELSE q

\* push_threadunsafe(frame)
Push(q, x) == Fill(MakeRoom(q), x)

\* mark_populated_threadunsafe(): f is what the caller put in the frame that
\* peekToPush() returned; the slot's eof flag is not touched.
MarkPopulated(q, f) ==
  WithRing(q, [q.que EXCEPT ![q.wr] = [frame |-> f, eof |-> @.eof, populated |-> TRUE]],
           After(q, q.wr), q.rd)

\* Mutant: pop() does not mark the slot as vacant.
PopKeepsSlot(q) == WithRing(q, q.que, q.wr, After(q, q.rd))

\* pop_threadunsafe(): the slot of an end of file stays populated.
Pop(q) ==
  WithRing(q, IF q.que[q.rd].eof THEN q.que ELSE [q.que EXCEPT ![q.rd] = VacantSlot],
           q.wr, After(q, q.rd))

\* The slot at i is vacated and is the next one to be written.
Retract(q, i) == WithRing(q, [q.que EXCEPT ![i] = VacantSlot], i, q.rd)

PopLastPushed(q) == IF IsEmpty(q) THEN q ELSE Retract(q, LastPushed(q))

Clear(q) == [WithRing(q, [i \in 1..Size(q) |-> VacantSlot], 1, 1) EXCEPT !.killnow = FALSE]

\* What kill() does to the queue itself.
Killed(q) == [q EXCEPT !.killnow = TRUE]

\* Mutant: clrEof() vacates the slot but does not step back to it.
ClrEofKeepsWr(q) ==
  LET last == Before(q, q.wr)
  IN IF q.que[last].populated /\ q.que[last].eof
     THEN WithRing(q, [q.que EXCEPT ![last] = VacantSlot], q.wr, q.rd) ELSE q

ClrEof(q) ==
  LET last == Before(q, q.wr)
  IN IF q.que[last].populated /\ q.que[last].eof THEN Retract(q, last) ELSE q

-----------------------------------------------------------------------------
(* The ring as its clients see it. *)

\* The number of frames, the end of file included, between rd and wr.
Count(q) ==
  IF q.rd < q.wr THEN q.wr - q.rd
  ELSE IF q.rd > q.wr THEN Size(q) - q.rd + q.wr
  ELSE IF q.que[q.rd].populated THEN Size(q) ELSE 0

\* The position of the k-th of them.
At(q, k) == IF q.rd + k - 1 <= Size(q) THEN q.rd + k - 1 ELSE q.rd + k - 1 - Size(q)

\* What the queue holds, oldest first.
Contents(q) == [k \in 1..Count(q) |-> q.que[At(q, k)].frame]

\* The newest thing pushed since the queue was last cleared is the end of file.
Ended(q) == q.que[Before(q, q.wr)].eof

\* ... and it has been popped: its slot is behind rd, and still populated.
Drained(q) == Ended(q) /\ Count(q) = 0

-----------------------------------------------------------------------------
(* A well-formed queue. *)

\* i is a position from rd up to wr.
Between(q, i) ==
  \/ q.rd < q.wr /\ q.rd <= i /\ i < q.wr
  \/ q.rd > q.wr /\ (q.rd <= i \/ i < q.wr)
  \/ q.rd = q.wr /\ q.que[q.rd].populated

\* The populated slots are the ones from rd up to wr and, in a queue whose end
\* of file was popped, the slot of that end of file, right behind wr.
RingContiguous(q) ==
  \A i \in DOMAIN q.que :
    q.que[i].populated <=> \/ Between(q, i)
                           \/ q.rd = q.wr /\ i = Before(q, q.wr) /\ q.que[i].eof

\* Only a populated slot holds anything: an end of file, or a frame.
SlotsClean(q) ==
  \A i \in DOMAIN q.que :
    LET s == q.que[i]
    IN /\ s.eof => s.populated /\ s.frame = Null
       /\ ~s.eof => (s.populated <=> s.frame \in Frame) /\ (~s.populated => s.frame = Null)

\* Nothing was pushed behind an end of file.
EofIsLast(q) == \A i \in DOMAIN q.que : q.que[i].eof => i = Before(q, q.wr)

QueueTypeOK(q) == q \in Queue /\ q.wr \in DOMAIN q.que /\ q.rd \in DOMAIN q.que

QueueOK(q) == QueueTypeOK(q) /\ RingContiguous(q) /\ SlotsClean(q) /\ EofIsLast(q)
=============================================================================
