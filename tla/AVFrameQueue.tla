---------------------------- MODULE AVFrameQueue ----------------------------
(***************************************************************************)
(* AVFrameQueueMT: one AVFrameQueue shared by the thread that is its       *)
(* source, the thread that is its sink, and the thread that owns both and  *)
(* kills, clears and restarts the queue (src/src/ffmpegAVFrameQueue.h).    *)
(*                                                                         *)
(* Every method runs under the mutex, so a method that does not wait is    *)
(* one step.  A method that waits evaluates its predicate under the mutex; *)
(* if it fails the thread is "blocking", mutex still held, until it is     *)
(* "waiting" on the condition variable, which releases the mutex.  The two *)
(* are apart because kill() takes no mutex: it can store killnow and       *)
(* notify between them.  A "woken" thread needs the mutex to look at its   *)
(* predicate again.                                                        *)
(***************************************************************************)
EXTENDS FrameQueue, FiniteSets

CONSTANTS Source,       \* the thread that pushes
          Sink,         \* the thread that pops
          Owner,        \* the thread that kills and clears
          Capacities,   \* the values of the constructor's N
          MaxSlots      \* bound on how far a dynamic queue grows

ASSUME ThreadAssumption == Source # Sink /\ Source # Owner /\ Sink # Owner

ASSUME CapacityAssumption == Capacities \subseteq Nat /\ MaxSlots \in Nat

Thread == {Source, Sink, Owner}

VARIABLES q,      \* the queue
          pc,     \* where each thread is
          call,   \* the call each thread waits in, NoCall if it does not wait
          held    \* the threads that hold the AVFrame* of a peekToPush/peekToPop

vars == <<q, pc, call, held>>

-----------------------------------------------------------------------------
(* The calls.  "arg" is the frame pushed; a timed call has a rel_time. *)

PushCalls == {"push", "peekToPush", "markPopulated", "blockTillReadyToPush"}
PopCalls == {"pop", "peekToPop", "blockTillReadyToPop"}

Call == [op : PushCalls \cup PopCalls, arg : Frame \cup {Null}, timed : BOOLEAN]

NoCall == [op |-> "pop", arg |-> Null, timed |-> FALSE]

\* The condition variable a call waits on, named by its waiters' calls.
cv_rx == PushCalls
cv_tx == PopCalls

MutexFree == \A t \in Thread : pc[t] # "blocking"

Waiters(cv) == {t \in Thread : pc[t] = "waiting" /\ call[t].op \in cv}

Ready(c) == q.killnow \/ IF c.op \in PushCalls THEN ReadyToPush(q) ELSE ReadyToPop(q)

\* pc once t is where "to" says and notify_one(cv) has woken a waiter, if any.
NotifyOne(cv, t, to) ==
  \/ /\ Waiters(cv) = {}
     /\ pc' = [pc EXCEPT ![t] = to]
  \/ \E w \in Waiters(cv) : pc' = [pc EXCEPT ![t] = to, ![w] = "woken"]

NotifyAll(cv, t, to) ==
  pc' = [u \in Thread |-> IF u = t THEN to
                          ELSE IF u \in Waiters(cv) THEN "woken" ELSE pc[u]]

\* t returns, having notified no one.
Return(t) == pc' = [pc EXCEPT ![t] = "idle"]

Forget(t) == call' = [call EXCEPT ![t] = NoCall]

-----------------------------------------------------------------------------
(* What a call does once its predicate holds. *)

DoPush(t, c) ==
  /\ c.op = "push"
  /\ q' = Push(q, c.arg)
  /\ NotifyOne(cv_tx, t, "idle")
  /\ UNCHANGED held

DoPeekToPush(t, c) ==
  /\ c.op = "peekToPush"
  /\ q' = MakeRoom(q)
  /\ held' = held \cup {t}
  /\ Return(t)

\* Mutant: push() completes a transaction without waking the sink.
DoMarkPopulatedSilently(t, c) ==
  /\ c.op = "markPopulated"
  /\ q' = MarkPopulated(q, c.arg)
  /\ held' = held \ {t}
  /\ Return(t)

DoMarkPopulated(t, c) ==
  /\ c.op = "markPopulated"
  /\ q' = MarkPopulated(q, c.arg)
  /\ held' = held \ {t}
  /\ NotifyOne(cv_tx, t, "idle")

\* Mutant: pop() does not wake the source.
DoPopSilently(t, c) ==
  /\ c.op = "pop"
  /\ q' = Pop(q)
  /\ held' = held \ {t}
  /\ Return(t)

DoPop(t, c) ==
  /\ c.op = "pop"
  /\ q' = Pop(q)
  /\ held' = held \ {t}
  /\ NotifyOne(cv_rx, t, "idle")

\* peekToPop() shows no end of file: it returns null for it.
DoPeekToPop(t, c) ==
  /\ c.op = "peekToPop"
  /\ held' = IF AtEof(q) THEN held ELSE held \cup {t}
  /\ Return(t)
  /\ UNCHANGED q

DoBlockTillReady(t, c) ==
  /\ c.op \in {"blockTillReadyToPush", "blockTillReadyToPop"}
  /\ Return(t)
  /\ UNCHANGED <<q, held>>

\* A killed call returns and leaves the queue as it is.
ReturnKilled(t) ==
  /\ held' = held \ {t}
  /\ Return(t)
  /\ UNCHANGED q

\* The body of a call from the moment the thread owns the mutex.
Attempt(t, c) ==
  \/ /\ ~q.killnow
     /\ Ready(c)
     /\ \/ DoPush(t, c) \/ DoPeekToPush(t, c) \/ DoMarkPopulated(t, c)
        \/ DoPop(t, c) \/ DoPeekToPop(t, c) \/ DoBlockTillReady(t, c)
     /\ Forget(t)
  \/ /\ q.killnow
     /\ ReturnKilled(t)
     /\ Forget(t)
  \/ /\ ~Ready(c)
     /\ pc' = [pc EXCEPT ![t] = "blocking"]
     /\ call' = [call EXCEPT ![t] = c]
     /\ UNCHANGED <<q, held>>

Enter(t) == pc[t] = "idle" /\ MutexFree

-----------------------------------------------------------------------------
(* The source.  It pushes nothing after the end of file until the queue is *)
(* cleared, and push() only completes a peekToPush().                      *)

MayPush ==
  /\ Enter(Source)
  /\ ~Ended(q)
  /\ q.dynamic => Size(MakeRoom(q)) <= MaxSlots

SourceWaits(c) ==
  /\ MayPush
  /\ c.op \in PushCalls
  /\ c.timed => c.op \in {"push", "blockTillReadyToPush"}
  /\ c.op \notin {"push", "markPopulated"} => c.arg = Null
  /\ c.op = "markPopulated" <=> Source \in held
  /\ c.op = "markPopulated" => c.arg # Null
  /\ Attempt(Source, c)

TryToPush(x) ==
  /\ MayPush
  /\ Source \notin held
  /\ ReadyToPush(q)
  /\ q' = Push(q, x)
  /\ NotifyOne(cv_tx, Source, "idle")
  /\ UNCHANGED <<call, held>>

\* Used on what was just pushed, before the sink has a hold of it.
SourcePopLastPushed ==
  /\ Enter(Source)
  /\ held = {}
  /\ Size(q) = 1 \/ q.wr > 1
  /\ ~Drained(q)
  /\ q' = PopLastPushed(q)
  /\ UNCHANGED <<pc, call, held>>

-----------------------------------------------------------------------------
(* The sink.  A frame it peeked at is the one it pops next. *)

SinkWaits(c) ==
  /\ Enter(Sink)
  /\ c.op \in PopCalls
  /\ c.arg = Null
  /\ c.timed => c.op \in {"pop", "blockTillReadyToPop"}
  /\ Sink \in held => c.op = "pop"
  /\ Attempt(Sink, c)

TryToPop ==
  /\ Enter(Sink)
  /\ ReadyToPop(q)
  /\ q' = Pop(q)
  /\ held' = held \ {Sink}
  /\ NotifyOne(cv_rx, Sink, "idle")
  /\ UNCHANGED call

-----------------------------------------------------------------------------
(* The condition variables. *)

Block(t) ==
  /\ pc[t] = "blocking"
  /\ pc' = [pc EXCEPT ![t] = "waiting"]
  /\ UNCHANGED <<q, call, held>>

Resume(t) ==
  /\ pc[t] = "woken"
  /\ MutexFree
  /\ Attempt(t, call[t])

\* wait_for() gives up at rel_time, unless the predicate holds by then.
Expire(t) ==
  /\ pc[t] = "woken"
  /\ call[t].timed
  /\ MutexFree
  /\ ~Ready(call[t])
  /\ Return(t)
  /\ Forget(t)
  /\ UNCHANGED <<q, held>>

\* A wait may end without a notification, and at rel_time.
Wakeup(t) ==
  /\ pc[t] = "waiting"
  /\ pc' = [pc EXCEPT ![t] = "woken"]
  /\ UNCHANGED <<q, call, held>>

-----------------------------------------------------------------------------
(* The owner. *)

\* kill() stores killnow, then notifies cv_rx and cv_tx, all without the mutex.
Kill ==
  /\ pc[Owner] = "idle"
  /\ q' = Killed(q)
  /\ pc' = [pc EXCEPT ![Owner] = "killing_rx"]
  /\ UNCHANGED <<call, held>>

KillNotifyRx ==
  /\ pc[Owner] = "killing_rx"
  /\ NotifyAll(cv_rx, Owner, "killing_tx")
  /\ UNCHANGED <<q, call, held>>

KillNotifyTx ==
  /\ pc[Owner] = "killing_tx"
  /\ NotifyAll(cv_tx, Owner, "idle")
  /\ UNCHANGED <<q, call, held>>

\* The owner clears the queue while neither end is inside it.
OwnerClear ==
  /\ \A t \in Thread : pc[t] = "idle"
  /\ held = {}
  /\ q' = Clear(q)
  /\ UNCHANGED <<pc, call, held>>

\* ... and takes back an end of file that was not popped yet.
OwnerClrEof ==
  /\ Enter(Owner)
  /\ ~Drained(q)
  /\ held = {}
  /\ q' = ClrEof(q)
  /\ UNCHANGED <<pc, call, held>>

-----------------------------------------------------------------------------
(* The specification. *)

Init ==
  /\ \E N \in Capacities : q = NewQueue(N)
  /\ pc = [t \in Thread |-> "idle"]
  /\ call = [t \in Thread |-> NoCall]
  /\ held = {}

SourceStep == (\E c \in Call : SourceWaits(c)) \/ (\E x \in Frame \cup {Null} : TryToPush(x))
                \/ SourcePopLastPushed

SinkStep == (\E c \in Call : SinkWaits(c)) \/ TryToPop

WaitStep(t) == Block(t) \/ Resume(t) \/ Expire(t) \/ Wakeup(t)

OwnerStep == Kill \/ KillNotifyRx \/ KillNotifyTx \/ OwnerClear \/ OwnerClrEof

Next == SourceStep \/ SinkStep \/ OwnerStep \/ \E t \in {Source, Sink} : WaitStep(t)

Spec == Init /\ [][Next]_vars

\* A thread that can run does, notifications included; the sink goes on popping
\* (Reader::get_frame, src/src/ffmpegReader.h), however often it peeks between.
Fairness ==
  /\ \A t \in {Source, Sink} : WF_vars(Block(t)) /\ SF_vars(Resume(t))
  /\ WF_vars(KillNotifyRx) /\ WF_vars(KillNotifyTx)
  /\ SF_vars(\E c \in Call : c.op = "pop" /\ SinkWaits(c))

FairSpec == Spec /\ Fairness

-----------------------------------------------------------------------------
(* Properties. *)

TypeOK ==
  /\ QueueTypeOK(q)
  /\ pc \in [Thread -> {"idle", "blocking", "waiting", "woken", "killing_rx", "killing_tx"}]
  /\ call \in [Thread -> Call]
  /\ held \subseteq {Source, Sink}

\* The populated slots are the ones from rd up to wr, whatever the source, the
\* sink, clear, clrEof and expansion did, and possibly the slot of an end of
\* file that was popped, right behind wr: push never overwrites a frame that
\* was not popped, pop never delivers a slot twice, and capacity is never lost.
Contiguous == RingContiguous(q) /\ SlotsClean(q) /\ EofIsLast(q)

\* push() finds the slot that peekToPush() returned still vacant, so it never
\* throws "Already populated." at the thread that completes a transaction.
NeverAlreadyPopulated == Source \in held => ~q.que[q.wr].populated

\* notify_one loses no wake-up: a thread asleep on a condition variable whose
\* queue is ready for it is there only while the mutex holder or a notification
\* in flight is about to reach it.
NoLostWakeup ==
  /\ pc[Source] = "waiting" => ~ReadyToPush(q)
  /\ pc[Sink] = "waiting" => ~ReadyToPop(q)

\* The frame that peekToPop() showed stays the next one until the sink pops it,
\* though the source pushes, and expands a dynamic queue, meanwhile.
KeepsPeeked == Sink \in held \cap held' => ReadyToPop(q)' /\ Oldest(q)' = Oldest(q)

PeekedFrameStays == [][KeepsPeeked]_vars

\* Source and sink see a bounded first-in first-out stream.
Fifo == INSTANCE FrameFifo WITH fifo <- Contents(q), ended <- Ended(q), room <- Capacity(q)

FifoSpec == Fifo!Spec

\* hasEof(): "true if buffer contains EOF".
HasEofTellsEof == HasEof(q) <=> \E k \in DOMAIN Contents(q) : Contents(q)[k] = Null

\* A source blocked in push() on a full queue gets its slot, as long as the
\* sink goes on popping and nobody kills the queue.
PushReturns ==
  pc[Source] = "waiting" /\ call[Source].op = "push" ~> pc[Source] = "idle" \/ q.killnow
=============================================================================
