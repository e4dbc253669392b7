------------------------- MODULE AVFrameDoubleBuffer -------------------------
(***************************************************************************)
(* AVFrameDoubleBufferMT (src/src/ffmpegAVFrameDoubleBuffer.h): two        *)
(* AVFrameQueueST.  The writer, ReaderMT's worker thread, pushes to the    *)
(* one called rcvr; the reader pops from the one called sndr; when rcvr    *)
(* has filled up and sndr is empty, one of the two threads swaps them.     *)
(*                                                                         *)
(* The mutex is not held throughout a call.  push() and pop() check rcvr   *)
(* or sndr under the mutex, release it and are then "inside" the inner     *)
(* queue.  They take the mutex again to see whether a swap is due, release *)
(* it, and are then "swapping": swap() takes it a third time.              *)
(*                                                                         *)
(* The iterators rcvr and sndr are read without the mutex by a thread that *)
(* goes inside: it gets what they were when it left the mutex, or what     *)
(* they have become.  An inner queue has no locks: its operations are one  *)
(* step here, and Exclusive says when two threads keep out of each other's *)
(* way.  The buffer has no slaves and no callbacks.                        *)
(***************************************************************************)
EXTENDS FrameQueue, FiniteSets

CONSTANTS Writer, Reader,  \* the threads that push and that pop
          Owner,           \* the thread that kills and clears
          Methods,         \* the methods that the three call
          Capacities,      \* the values of the constructor's N
          MaxSlots         \* bound on how far a dynamic buffer grows

ASSUME ThreadAssumption == Writer # Reader /\ Writer # Owner /\ Reader # Owner

ASSUME CapacityAssumption == Capacities \subseteq Nat /\ MaxSlots \in Nat

Thread == {Writer, Reader, Owner}

VARIABLES buffers,   \* the two queues
          rcvr,      \* the index of the one that receives
          killnow,
          pc,        \* where each thread is
          call,      \* the call each thread is in, NoCall if none
          via,       \* the buffer a thread that is inside went for (1 if it is not)
          peeked,    \* the writer holds the AVFrame* of a peekToPush()
          overtaken  \* history: the reason for a swap was gone before the swap:
                 \* the other thread decided on one too, or popLastPushed()

vars == <<buffers, rcvr, killnow, pc, call, via, peeked, overtaken>>

sndr == 3 - rcvr
Rcvr == buffers[rcvr]
Sndr == buffers[sndr]

-----------------------------------------------------------------------------
(* The calls. *)

PushCalls == {"push", "peekToPush", "markPopulated", "blockTillReadyToPush"}
PopCalls == {"pop", "peekToPop", "blockTillReadyToPop"}

Call == [op : PushCalls \cup PopCalls, arg : Frame \cup {Null}, timed : BOOLEAN]

NoCall == [op |-> "pop", arg |-> Null, timed |-> FALSE]

MutexFree == \A t \in Thread : pc[t] # "blocking"

Enter(t) == pc[t] = "idle" /\ MutexFree

\* A timed pop() does not look at killnow while it waits.
Ready(c) ==
  \/ killnow /\ ~(c.op = "pop" /\ c.timed)
  \/ IF c.op \in PushCalls THEN ~IsFull(Rcvr) ELSE ~IsEmpty(Sndr)

\* cv_swap.notify_one(), by a thread that goes to the place "to".
NotifyOne(t, to) ==
  \/ /\ \A u \in Thread : pc[u] # "waiting"
     /\ pc' = [pc EXCEPT ![t] = to]
  \/ \E u \in Thread : pc[u] = "waiting" /\ pc' = [pc EXCEPT ![t] = to, ![u] = "woken"]

Return(t) ==
  /\ pc' = [pc EXCEPT ![t] = "idle"]
  /\ call' = [call EXCEPT ![t] = NoCall]

-----------------------------------------------------------------------------
(* A call, from the moment the thread owns the mutex until it releases it. *)

\* push() and pop() leave the mutex and go for the inner queue.
GoInside(t, c) ==
  /\ c.op \in {"push", "markPopulated", "pop"}
  /\ pc' = [pc EXCEPT ![t] = "inside"]
  /\ call' = [call EXCEPT ![t] = c]
  /\ via' = [via EXCEPT ![t] = IF c.op = "pop" THEN sndr ELSE rcvr]
  /\ UNCHANGED <<buffers, peeked>>

DoPeekToPush(t, c) ==
  /\ c.op = "peekToPush"
  /\ IF Rcvr.killnow THEN UNCHANGED <<buffers, peeked>>
     ELSE buffers' = [buffers EXCEPT ![rcvr] = MakeRoom(@)] /\ peeked' = TRUE
  /\ Return(t)
  /\ UNCHANGED via

DoBlockTillReady(t, c) ==
  /\ c.op \in {"blockTillReadyToPush", "blockTillReadyToPop"}
  /\ Return(t)
  /\ UNCHANGED <<buffers, via, peeked>>

\* The inner queue's peekToPop() waits too; it is never given up on.
DoPeekToPop(t, c) ==
  /\ c.op = "peekToPop"
  /\ ReadyToPop(Sndr) \/ Sndr.killnow
  /\ Return(t)
  /\ UNCHANGED <<buffers, via, peeked>>

ReturnKilled(t, c) ==
  /\ Return(t)
  /\ peeked' = (peeked /\ t # Writer)
  /\ UNCHANGED <<buffers, via>>

Attempt(t, c) ==
  /\ \/ Ready(c) /\ (IF killnow THEN c.op \notin {"peekToPop"} /\ ReturnKilled(t, c)
                     ELSE GoInside(t, c) \/ DoPeekToPush(t, c) \/ DoBlockTillReady(t, c))
     \/ Ready(c) /\ DoPeekToPop(t, c)
     \/ /\ ~Ready(c)
        /\ pc' = [pc EXCEPT ![t] = "blocking"]
        /\ call' = [call EXCEPT ![t] = c]
        /\ UNCHANGED <<buffers, via, peeked>>
  /\ UNCHANGED <<rcvr, killnow, overtaken>>

-----------------------------------------------------------------------------
(* Inside an inner queue, which waits in turn until it is ready or killed. *)

\* What the inner push(frame), push() or pop() does to the queue b.
Inner(b, c) ==
  IF b.killnow THEN b
  ELSE CASE c.op = "push" -> Push(b, c.arg)
         [] c.op = "markPopulated" -> MarkPopulated(b, c.arg)
         [] c.op = "pop" -> Pop(b)

\* The inner push() throws "Already populated.", past the swapper.
Throws(b, c) == ~b.killnow /\ c.op = "markPopulated" /\ b.que[b.wr].populated

Inside(t) ==
  LET c == call[t] IN
  \E i \in {via[t], IF c.op = "pop" THEN sndr ELSE rcvr} :
    /\ pc[t] = "inside"
    /\ buffers[i].killnow \/ (IF c.op = "pop" THEN ReadyToPop(buffers[i]) ELSE ReadyToPush(buffers[i]))
    /\ IF Throws(buffers[i], c) THEN UNCHANGED buffers /\ Return(t)
       ELSE /\ buffers' = [buffers EXCEPT ![i] = Inner(@, c)]
            /\ pc' = [pc EXCEPT ![t] = "swapper"]
            /\ UNCHANGED call
    /\ peeked' = (peeked /\ c.op # "markPopulated")
    /\ via' = [via EXCEPT ![t] = 1]
    /\ UNCHANGED <<rcvr, killnow, overtaken>>

\* A timed push() looks at killnow after it has left the mutex, and goes home.
PushTooLate(t) ==
  /\ pc[t] = "inside"
  /\ call[t].op = "push" /\ call[t].timed
  /\ killnow
  /\ Return(t)
  /\ via' = [via EXCEPT ![t] = 1]
  /\ UNCHANGED <<buffers, rcvr, killnow, peeked, overtaken>>

SwapPending == \E t \in Thread : pc[t] = "swapping"

\* Mutant: the swappers do not look whether sndr is empty.
SwapDueRegardless == HasEof(Rcvr) \/ IsFull(Rcvr)

SwapDue == (HasEof(Rcvr) \/ IsFull(Rcvr)) /\ IsEmpty(Sndr)

\* Mutant: pop() has no swapper.
SwapperOfPush(t) ==
  /\ pc[t] = "swapper"
  /\ MutexFree
  /\ IF SwapDue /\ t = Writer
     THEN /\ pc' = [pc EXCEPT ![t] = "swapping"]
          /\ overtaken' = (overtaken \/ SwapPending)
          /\ UNCHANGED call
     ELSE Return(t) /\ UNCHANGED overtaken
  /\ UNCHANGED <<buffers, rcvr, killnow, via, peeked>>

\* push_swapper() and pop_swapper().
Swapper(t) ==
  /\ pc[t] = "swapper"
  /\ MutexFree
  /\ IF SwapDue
     THEN /\ pc' = [pc EXCEPT ![t] = "swapping"]
          /\ overtaken' = (overtaken \/ SwapPending)
          /\ UNCHANGED call
     ELSE Return(t) /\ UNCHANGED overtaken
  /\ UNCHANGED <<buffers, rcvr, killnow, via, peeked>>

\* Mutant: rcvr is cleared before it becomes sndr.
SwapClearsFirst(t) ==
  /\ pc[t] = "swapping"
  /\ MutexFree
  /\ rcvr' = sndr
  /\ buffers' = [buffers EXCEPT ![rcvr] = Clear(@)]
  /\ NotifyOne(t, "idle")
  /\ call' = [call EXCEPT ![t] = NoCall]
  /\ UNCHANGED <<killnow, via, peeked, overtaken>>

\* Mutant: swap() notifies no one.
SwapSilently(t) ==
  /\ pc[t] = "swapping"
  /\ MutexFree
  /\ rcvr' = sndr
  /\ buffers' = [buffers EXCEPT ![sndr] = Clear(@)]
  /\ Return(t)
  /\ UNCHANGED <<killnow, via, peeked, overtaken>>

\* swap()
Swap(t) ==
  /\ pc[t] = "swapping"
  /\ MutexFree
  /\ rcvr' = sndr
  /\ buffers' = [buffers EXCEPT ![sndr] = Clear(@)]
  /\ NotifyOne(t, "idle")
  /\ call' = [call EXCEPT ![t] = NoCall]
  /\ UNCHANGED <<killnow, via, peeked, overtaken>>

-----------------------------------------------------------------------------
(* The writer.  It pushes nothing after the end of file until the buffer   *)
(* is cleared, and push() only completes a peekToPush().                   *)

MayPush ==
  /\ Enter(Writer)
  /\ ~Ended(Rcvr) /\ ~Ended(Sndr)
  /\ Rcvr.dynamic => Size(MakeRoom(Rcvr)) <= MaxSlots

WriterWaits(c) ==
  /\ MayPush
  /\ c.op \in PushCalls \cap Methods
  /\ c.timed => c.op \in {"push", "blockTillReadyToPush"} /\ "timed" \in Methods
  /\ c.op \notin {"push", "markPopulated"} => c.arg = Null
  /\ c.op = "markPopulated" <=> peeked
  /\ c.op = "markPopulated" => c.arg # Null
  /\ Attempt(Writer, c)

\* tryToPush() calls the inner push() under the mutex, and no swapper.
TryToPush(x) ==
  /\ "tryToPush" \in Methods
  /\ MayPush
  /\ ~peeked
  /\ ~IsFull(Rcvr)
  /\ buffers' = [buffers EXCEPT ![rcvr] = Inner(@, [op |-> "push", arg |-> x, timed |-> FALSE])]
  /\ UNCHANGED <<rcvr, killnow, pc, call, via, peeked, overtaken>>

WriterPopLastPushed ==
  /\ "popLastPushed" \in Methods
  /\ Enter(Writer)
  /\ ~peeked
  /\ Size(Rcvr) = 1 \/ Rcvr.wr > 1
  /\ buffers' = [buffers EXCEPT ![rcvr] = PopLastPushed(@)]
  /\ overtaken' = (overtaken \/ SwapPending)
  /\ UNCHANGED <<rcvr, killnow, pc, call, via, peeked>>

-----------------------------------------------------------------------------
(* The reader. *)

ReaderWaits(c) ==
  /\ Enter(Reader)
  /\ c.op \in PopCalls \cap Methods
  /\ c.arg = Null
  /\ c.timed => c.op \in {"pop", "blockTillReadyToPop"} /\ "timed" \in Methods
  /\ Attempt(Reader, c)

\* tryToPop() calls the inner tryToPop() under the mutex, and no swapper.
TryToPop ==
  /\ "tryToPop" \in Methods
  /\ Enter(Reader)
  /\ ReadyToPop(Sndr)
  /\ buffers' = [buffers EXCEPT ![sndr] = Pop(@)]
  /\ UNCHANGED <<rcvr, killnow, pc, call, via, peeked, overtaken>>

-----------------------------------------------------------------------------
(* cv_swap. *)

Block(t) ==
  /\ pc[t] = "blocking"
  /\ pc' = [pc EXCEPT ![t] = "waiting"]
  /\ UNCHANGED <<buffers, rcvr, killnow, call, via, peeked, overtaken>>

Resume(t) == pc[t] = "woken" /\ MutexFree /\ Attempt(t, call[t])

\* wait_for() gives up at rel_time, unless the predicate holds by then.
Expire(t) ==
  /\ pc[t] = "woken"
  /\ call[t].timed
  /\ MutexFree
  /\ ~Ready(call[t])
  /\ Return(t)
  /\ UNCHANGED <<buffers, rcvr, killnow, via, peeked, overtaken>>

\* A wait may end without a notification, and at rel_time.
Wakeup(t) ==
  /\ pc[t] = "waiting"
  /\ pc' = [pc EXCEPT ![t] = "woken"]
  /\ UNCHANGED <<buffers, rcvr, killnow, call, via, peeked, overtaken>>

-----------------------------------------------------------------------------
(* The owner. *)

\* kill() stores killnow, kills both inner queues, then notifies: no mutex.
Kill ==
  /\ "kill" \in Methods
  /\ pc[Owner] = "idle"
  /\ killnow' = TRUE
  /\ pc' = [pc EXCEPT ![Owner] = "kill_1"]
  /\ UNCHANGED <<buffers, rcvr, call, via, peeked, overtaken>>

KillBuffer(i) ==
  /\ pc[Owner] = IF i = 1 THEN "kill_1" ELSE "kill_2"
  /\ buffers' = [buffers EXCEPT ![i] = Killed(@)]
  /\ pc' = [pc EXCEPT ![Owner] = IF i = 1 THEN "kill_2" ELSE "kill_notify"]
  /\ UNCHANGED <<rcvr, killnow, call, via, peeked, overtaken>>

KillNotify ==
  /\ pc[Owner] = "kill_notify"
  /\ pc' = [t \in Thread |-> IF t = Owner THEN "idle"
                             ELSE IF pc[t] = "waiting" THEN "woken" ELSE pc[t]]
  /\ UNCHANGED <<buffers, rcvr, killnow, call, via, peeked, overtaken>>

\* The owner clears while neither end is in the buffer.
Quiet == (\A t \in Thread : pc[t] = "idle") /\ ~peeked

\* clear(), clearRcvr() and clearSndr()
OwnerClear(method, which) ==
  /\ method \in Methods
  /\ Quiet
  /\ buffers' = [i \in 1..2 |-> IF i \in which THEN Clear(buffers[i]) ELSE buffers[i]]
  /\ killnow' = FALSE
  /\ UNCHANGED <<rcvr, pc, call, via, peeked, overtaken>>

\* An end of file is taken back before it is popped.
OwnerClrEof ==
  /\ "clrEof" \in Methods
  /\ Quiet
  /\ \A i \in 1..2 : ~Drained(buffers[i])
  /\ buffers' = [i \in 1..2 |-> ClrEof(buffers[i])]
  /\ UNCHANGED <<rcvr, killnow, pc, call, via, peeked, overtaken>>

-----------------------------------------------------------------------------
(* The specification. *)

Init ==
  /\ \E N \in Capacities : buffers = [i \in 1..2 |-> NewQueue(N)]
  /\ rcvr = 1
  /\ killnow = FALSE
  /\ pc = [t \in Thread |-> "idle"]
  /\ call = [t \in Thread |-> NoCall]
  /\ via = [t \in Thread |-> 1]
  /\ peeked = FALSE
  /\ overtaken = FALSE

WriterStep == (\E c \in Call : WriterWaits(c)) \/ (\E x \in Frame \cup {Null} : TryToPush(x))
                \/ WriterPopLastPushed

ReaderStep == (\E c \in Call : ReaderWaits(c)) \/ TryToPop

CallStep(t) == Block(t) \/ Resume(t) \/ Expire(t) \/ Wakeup(t)
                 \/ Inside(t) \/ PushTooLate(t) \/ Swapper(t) \/ Swap(t)

OwnerStep == Kill \/ (\E i \in 1..2 : KillBuffer(i)) \/ KillNotify
               \/ OwnerClear("clear", 1..2) \/ OwnerClear("clearRcvr", {rcvr})
               \/ OwnerClear("clearSndr", {sndr}) \/ OwnerClrEof

Next == WriterStep \/ ReaderStep \/ OwnerStep \/ \E t \in {Writer, Reader} : CallStep(t)

Spec == Init /\ [][Next]_vars

\* A thread that can run does; the reader goes on popping.
Fairness ==
  /\ \A t \in {Writer, Reader} :
       WF_vars(Block(t)) /\ SF_vars(Resume(t)) /\ WF_vars(Inside(t))
       /\ SF_vars(Swapper(t)) /\ SF_vars(Swap(t))
  /\ \A i \in 1..2 : WF_vars(KillBuffer(i))
  /\ WF_vars(KillNotify)
  /\ SF_vars(\E c \in Call : c.op = "pop" /\ ReaderWaits(c))

FairSpec == Spec /\ Fairness

-----------------------------------------------------------------------------
(* Properties. *)

Places == {"idle", "blocking", "waiting", "woken", "inside", "swapper", "swapping",
           "kill_1", "kill_2", "kill_notify"}

TypeOK ==
  /\ \A i \in 1..2 : QueueTypeOK(buffers[i])
  /\ rcvr \in 1..2
  /\ pc \in [Thread -> Places]
  /\ call \in [Thread -> Call]
  /\ via \in [Thread -> 1..2]
  /\ {killnow, peeked, overtaken} \subseteq BOOLEAN

\* Until a swap is overtaken, only one thread is ever about to swap, it swaps in a
\* full receiver for an empty sender, and the other is not inside a queue.
Exclusive ==
  \A t \in {Writer, Reader} :
    pc[t] = "swapping" /\ ~overtaken =>
      /\ IsEmpty(Sndr)
      /\ \A u \in Thread \ {t} : pc[u] # "inside"

Fifo == INSTANCE FrameFifo WITH
          fifo <- Contents(Sndr) \o Contents(Rcvr),
          ended <- Ended(Sndr) \/ Ended(Rcvr),
          room <- 2 * Capacity(Rcvr)

\* clearRcvr() and clearSndr() drop a part of the stream.
DropsPart == \E part \in {Contents(Sndr), Contents(Rcvr)} :
               (Contents(Sndr) \o Contents(Rcvr))' = part

FifoStep ==
  \/ overtaken'
  \/ UNCHANGED rcvr /\ ((\E x \in Frame \cup {Null} : Fifo!Put(x)) \/ Fifo!Take \/ Fifo!TakeBack)
  \/ Quiet /\ (Fifo!Reset \/ DropsPart)
  \/ UNCHANGED Fifo!vars

\* Until a swap is overtaken, the writer and the reader see one first-in first-out
\* stream through both queues: a swap changes nothing of it, and only the owner,
\* with both ends out of the buffer, drops more than the last element.
FifoUntilOvertaken == Fifo!Init /\ [][FifoStep]_vars

\* The writer and the reader never wait for each other.
NoMutualWait == ~(pc[Writer] = "waiting" /\ pc[Reader] = "waiting" /\ ~Ready(call[Writer])
                    /\ ~Ready(call[Reader]))

\* A writer blocked in push() on a full receiver gets its room, as long as the
\* reader goes on popping, nobody kills the buffer and no swap is overtaken.
PushReturns ==
  pc[Writer] = "waiting" /\ call[Writer].op = "push"
    ~> pc[Writer] \in {"inside", "idle"} \/ killnow \/ overtaken

\* A swap finds the sender empty: it takes no frame from the reader.
SwapFindsSndrEmpty == \A t \in {Writer, Reader} : pc[t] = "swapping" => IsEmpty(Sndr)
=============================================================================
