------------------------- MODULE AVFrameQueueProofs -------------------------
(***************************************************************************)
(* AVFrameQueue is correct for every set of frames and every capacity.     *)
(*                                                                         *)
(* The invariants follow from IInv, which adds to them what holds in the   *)
(* middle of a call: what a thread that waits waits for, that it found its *)
(* predicate false, and that a frame which was peeked at is still there.   *)
(***************************************************************************)
EXTENDS AVFrameQueue, FrameQueueProofs

Calling(t) == pc[t] \in {"blocking", "waiting", "woken"}

\* A thread that is inside a call is inside one that it may make.
CallsOK ==
  /\ pc[Owner] \in {"idle", "killing_rx", "killing_tx"}
  /\ \A t \in {Source, Sink} : pc[t] = "idle" \/ Calling(t)
  /\ Calling(Source) => /\ call[Source].op \in PushCalls
                        /\ ~Ended(q)
                        /\ call[Source].op = "markPopulated" <=> Source \in held
                        /\ call[Source].op = "markPopulated" => call[Source].arg # Null
  /\ Calling(Sink) => call[Sink].op \in PopCalls

\* The slot a thread has peeked at is still the one it is about to use.
PeeksOK ==
  /\ Source \in held => ~q.que[q.wr].populated
  /\ Sink \in held => ReadyToPop(q)

\* A thread goes to sleep, and sleeps on, only if it cannot proceed.
AsleepOK ==
  /\ pc[Source] \in {"blocking", "waiting"} => ~ReadyToPush(q)
  /\ pc[Sink] \in {"blocking", "waiting"} => ~ReadyToPop(q)

IInv == TypeOK /\ Contiguous /\ CallsOK /\ PeeksOK /\ AsleepOK

-----------------------------------------------------------------------------
(* What a step does to the stream. *)

\* What the sink sees of a step of the source.
LEMMA SinkSees ==
  ASSUME NEW a, NEW b, NEW x \in Frame \cup {Null}, QueueOK(a),
         Appends(a, b, x) \/ Keeps(a, b)
  PROVE  /\ ReadyToPop(a) => ReadyToPop(b) /\ Oldest(b) = Oldest(a)
         /\ Keeps(a, b) => (ReadyToPop(b) <=> ReadyToPop(a))
<1>1. QueueOK(b)
  BY DEF Appends, Keeps
<1>2. (ReadyToPop(a) <=> Contents(a) # <<>>) /\ (ReadyToPop(b) <=> Contents(b) # <<>>)
  BY <1>1, ReadyIsNonEmpty
<1>3. Contents(a) \in Seq(Frame \cup {Null})
  BY ContentsSeq DEF QueueOK
<1>4. Keeps(a, b) => (ReadyToPop(b) <=> ReadyToPop(a))
  BY <1>2 DEF Keeps
<1>5. ASSUME ReadyToPop(a) PROVE ReadyToPop(b) /\ Oldest(b) = Oldest(a)
  <2>1. Oldest(a) = Head(Contents(a)) /\ Contents(a) # <<>>
    BY <1>5, ContentsPop
  <2>2. Contents(b) # <<>> /\ Head(Contents(b)) = Head(Contents(a))
    <3>1. CASE Contents(b) = Contents(a)
      BY <2>1, <3>1
    <3>2. CASE Contents(b) = Append(Contents(a), x)
      <4>1. Head(Append(Contents(a), x)) = Head(Contents(a))
        BY <1>3, <2>1, HeadTailAppend
      <4>2. Append(Contents(a), x) # <<>>
        <5> DEFINE c == Contents(a)
        <5> HIDE DEF c
        <5>1. c \in Seq(Frame \cup {Null}) /\ Len(c) \in Nat
          BY <1>3, LenProperties DEF c
        <5>2. Len(Append(c, x)) = Len(c) + 1
          BY <5>1
        <5>3. Append(c, x) # <<>>
          BY <5>1, <5>2
        <5> QED BY <5>3 DEF c
      <4> QED BY <3>2, <4>1, <4>2
    <3> QED BY <3>1, <3>2 DEF Appends, Keeps
  <2>3. ReadyToPop(b)
    BY <1>2, <2>2
  <2>4. Oldest(b) = Head(Contents(b))
    BY <1>1, <2>3, ContentsPop
  <2> QED BY <2>1, <2>2, <2>3, <2>4
<1> QED BY <1>4, <1>5

-----------------------------------------------------------------------------
(* What becomes of the invariant when one thread moves. *)

Places == {"idle", "blocking", "waiting", "woken", "killing_rx", "killing_tx"}

\* t is where it was, or has been woken.
Stays(t) == pc'[t] = pc[t] \/ (pc[t] = "waiting" /\ pc'[t] = "woken")

LEMMA IInvQueueOK ==
  ASSUME IInv
  PROVE  QueueOK(q) /\ q.dynamic \in BOOLEAN /\ q.killnow \in BOOLEAN
BY QueueFacts DEF IInv, TypeOK, Contiguous, QueueOK

LEMMA QueueOKPrime ==
  ASSUME QueueOK(q')
  PROVE  QueueTypeOK(q)' /\ Contiguous'
BY DEF QueueOK, Contiguous, QueueTypeOK, RingContiguous, SlotsClean, EofIsLast, Between, Before, Size

\* The source has finished a call.
LEMMA SourceDone ==
  ASSUME IInv, QueueOK(q'),
         pc' \in [Thread -> Places], pc'[Source] = "idle", pc'[Owner] = pc[Owner], Stays(Sink),
         call' \in [Thread -> Call], call'[Sink] = call[Sink],
         held' \subseteq {Source, Sink}, Sink \in held' <=> Sink \in held,
         Source \in held' => ~q'.que[q'.wr].populated,
         Sink \in held => ReadyToPop(q'),
         pc'[Sink] \in {"blocking", "waiting"} => ~ReadyToPop(q')
  PROVE  IInv'
<1>1. TypeOK' /\ Contiguous'
  BY QueueOKPrime DEF TypeOK, Places
<1>2. CallsOK'
  BY ThreadAssumption DEF CallsOK, Calling, IInv, Stays
<1>3. PeeksOK'
  BY DEF PeeksOK, ReadyToPop
<1>4. AsleepOK'
  BY DEF AsleepOK, ReadyToPop
<1> QED BY <1>1, <1>2, <1>3, <1>4 DEF IInv

\* The sink has finished a call.
LEMMA SinkDone ==
  ASSUME IInv, QueueOK(q'), Ended(q') <=> Ended(q),
         pc' \in [Thread -> Places], pc'[Sink] = "idle", pc'[Owner] = pc[Owner], Stays(Source),
         call' \in [Thread -> Call], call'[Source] = call[Source],
         held' \subseteq {Source, Sink}, Source \in held' <=> Source \in held,
         Source \in held => ~q'.que[q'.wr].populated,
         Sink \in held' => ReadyToPop(q'),
         pc'[Source] \in {"blocking", "waiting"} => ~ReadyToPush(q')
  PROVE  IInv'
<1>1. TypeOK' /\ Contiguous'
  BY QueueOKPrime DEF TypeOK, Places
<1>2. CallsOK'
  <2>1. Ended(q)' <=> Ended(q)
    BY DEF Ended, Before, Size
  <2> QED BY <2>1, ThreadAssumption DEF CallsOK, Calling, IInv, Stays
<1>3. PeeksOK'
  BY DEF PeeksOK, ReadyToPop
<1>4. AsleepOK'
  BY DEF AsleepOK, ReadyToPush
<1> QED BY <1>1, <1>2, <1>3, <1>4 DEF IInv

\* notify_one wakes the one thread that can be asleep on the variable.
LEMMA NotifyTx ==
  ASSUME IInv, pc[Source] # "waiting", NotifyOne(cv_tx, Source, "idle")
  PROVE  /\ pc' \in [Thread -> Places] /\ pc'[Source] = "idle" /\ pc'[Owner] = pc[Owner]
         /\ Stays(Sink) /\ pc'[Sink] # "waiting"
<1>1. pc \in [Thread -> Places] /\ Source \in Thread /\ Sink \in Thread /\ Owner \in Thread
  BY DEF IInv, TypeOK, Places, Thread
<1>2. \A t \in Waiters(cv_tx) : t = Sink /\ pc[t] = "waiting"
  BY DEF Waiters, Thread, IInv, CallsOK
<1>3. pc[Sink] = "waiting" => Sink \in Waiters(cv_tx)
  BY <1>1 DEF Waiters, IInv, CallsOK, Calling, cv_tx
<1>4. CASE Waiters(cv_tx) = {} /\ pc' = [pc EXCEPT ![Source] = "idle"]
  BY <1>1, <1>3, <1>4, ThreadAssumption DEF Places, Stays
<1>5. CASE Sink \in Waiters(cv_tx) /\ pc' = [pc EXCEPT ![Source] = "idle", ![Sink] = "woken"]
  BY <1>1, <1>2, <1>5, ThreadAssumption DEF Places, Stays
<1> QED BY <1>2, <1>4, <1>5 DEF NotifyOne

LEMMA NotifyRx ==
  ASSUME IInv, pc[Sink] # "waiting", NotifyOne(cv_rx, Sink, "idle")
  PROVE  /\ pc' \in [Thread -> Places] /\ pc'[Sink] = "idle" /\ pc'[Owner] = pc[Owner]
         /\ Stays(Source) /\ pc'[Source] # "waiting"
<1>1. pc \in [Thread -> Places] /\ Source \in Thread /\ Sink \in Thread /\ Owner \in Thread
  BY DEF IInv, TypeOK, Places, Thread
<1>2. \A t \in Waiters(cv_rx) : t = Source /\ pc[t] = "waiting"
  BY DEF Waiters, Thread, IInv, CallsOK
<1>3. pc[Source] = "waiting" => Source \in Waiters(cv_rx)
  BY <1>1 DEF Waiters, IInv, CallsOK, Calling, cv_rx
<1>4. CASE Waiters(cv_rx) = {} /\ pc' = [pc EXCEPT ![Sink] = "idle"]
  BY <1>1, <1>3, <1>4, ThreadAssumption DEF Places, Stays
<1>5. CASE Source \in Waiters(cv_rx) /\ pc' = [pc EXCEPT ![Sink] = "idle", ![Source] = "woken"]
  BY <1>1, <1>2, <1>5, ThreadAssumption DEF Places, Stays
<1> QED BY <1>2, <1>4, <1>5 DEF NotifyOne

-----------------------------------------------------------------------------
(* The source's calls. *)

\* The source may begin, or go on with, the call c.
SourceAt(c) ==
  /\ pc[Source] \in {"idle", "woken"}
  /\ MutexFree
  /\ ~Ended(q)
  /\ c.op \in PushCalls
  /\ c.op = "markPopulated" <=> Source \in held
  /\ c.op = "markPopulated" => c.arg # Null

SourceEffect == Keeps(q, q') \/ \E x \in Frame \cup {Null} : Appends(q, q', x)

LEMMA SourcePushes ==
  ASSUME IInv, NEW x \in Frame \cup {Null}, pc[Source] # "waiting", MutexFree, Source \notin held,
         Appends(q, q', x), NotifyOne(cv_tx, Source, "idle"), held' = held,
         call' \in [Thread -> Call], call'[Sink] = call[Sink]
  PROVE  IInv'
<1>1. /\ pc' \in [Thread -> Places] /\ pc'[Source] = "idle" /\ pc'[Owner] = pc[Owner]
      /\ Stays(Sink) /\ pc'[Sink] # "waiting"
  BY NotifyTx
<1>2. pc'[Sink] # "blocking"
  BY <1>1 DEF MutexFree, Thread, Stays
<1>3. Sink \in held => ReadyToPop(q')
  BY IInvQueueOK, SinkSees DEF IInv, PeeksOK
<1> QED BY <1>1, <1>2, <1>3, SourceDone DEF Appends, IInv, TypeOK

LEMMA SourceAttempt ==
  ASSUME IInv, NEW c \in Call, SourceAt(c), Attempt(Source, c)
  PROVE  IInv' /\ SourceEffect
<1>1. QueueOK(q) /\ c.arg \in Frame \cup {Null} /\ pc \in [Thread -> Places] /\ pc[Sink] # "blocking"
  BY IInvQueueOK DEF IInv, TypeOK, Call, Places, SourceAt, MutexFree, Thread
<1>2. /\ Source \in Thread /\ Sink \in Thread /\ Owner \in Thread
      /\ Source # Sink /\ Source # Owner /\ Sink # Owner
      /\ call \in [Thread -> Call] /\ held \subseteq {Source, Sink}
  BY ThreadAssumption DEF Thread, IInv, TypeOK
<1>3. NoCall \in Call
  BY DEF NoCall, Call, PushCalls, PopCalls
<1>4. CASE ~q.killnow /\ Ready(c) /\ Forget(Source)
  <2>1. ReadyToPush(q)
    BY <1>4 DEF Ready, SourceAt
  <2>2. call' \in [Thread -> Call] /\ call'[Sink] = call[Sink]
    BY <1>2, <1>3, <1>4 DEF Forget
  <2>3. CASE DoPush(Source, c)
    <3>1. Appends(q, q', c.arg)
      BY <1>1, <2>1, <2>3, PushAppends DEF DoPush, SourceAt
    <3>2. Source \notin held /\ pc[Source] # "waiting" /\ MutexFree
      BY <2>3 DEF DoPush, SourceAt
    <3>3. NotifyOne(cv_tx, Source, "idle") /\ held' = held
      BY <2>3 DEF DoPush
    <3>4. IInv'
      BY <1>1, <2>2, <3>1, <3>2, <3>3, SourcePushes
    <3> QED BY <1>1, <3>1, <3>4 DEF SourceEffect
  <2>4. CASE DoPeekToPush(Source, c)
    <3>1. Keeps(q, q') /\ ~q'.que[q'.wr].populated
      BY <1>1, <2>1, <2>4, MakeRoomKeeps DEF DoPeekToPush, SourceAt
    <3>2. /\ pc' \in [Thread -> Places] /\ pc'[Source] = "idle" /\ pc'[Owner] = pc[Owner]
          /\ Stays(Sink) /\ pc'[Sink] = pc[Sink]
      BY <1>1, <1>2, <2>4 DEF DoPeekToPush, Return, Stays, Places
    <3>3. held' \subseteq {Source, Sink} /\ (Sink \in held' <=> Sink \in held)
      BY <1>2, <2>4 DEF DoPeekToPush
    <3>4. ReadyToPop(q') <=> ReadyToPop(q)
      BY <1>1, <3>1, SinkSees
    <3>5. Sink \in held => ReadyToPop(q')
      BY <3>4 DEF IInv, PeeksOK
    <3>6. pc'[Sink] \in {"blocking", "waiting"} => ~ReadyToPop(q')
      BY <3>2, <3>4 DEF IInv, AsleepOK
    <3> QED BY <2>2, <3>1, <3>2, <3>3, <3>5, <3>6, SourceDone DEF SourceEffect, Keeps
  <2>5. CASE DoMarkPopulated(Source, c)
    <3>1. c.arg \in Frame /\ Source \in held /\ c.op = "markPopulated"
      BY <1>1, <2>5 DEF DoMarkPopulated, SourceAt
    <3>2. Appends(q, q', c.arg)
      BY <1>1, <2>1, <2>5, <3>1, MarkAppends DEF DoMarkPopulated, SourceAt, IInv, PeeksOK
    <3>3. /\ pc' \in [Thread -> Places] /\ pc'[Source] = "idle" /\ pc'[Owner] = pc[Owner]
          /\ Stays(Sink) /\ pc'[Sink] # "waiting"
      BY <2>5, NotifyTx DEF DoMarkPopulated, SourceAt
    <3>4. held' \subseteq {Source, Sink} /\ (Sink \in held' <=> Sink \in held) /\ Source \notin held'
      BY <1>2, <2>5 DEF DoMarkPopulated
    <3>5. Sink \in held => ReadyToPop(q')
      BY <1>1, <3>2, SinkSees DEF IInv, PeeksOK
    <3>6. pc'[Sink] \notin {"blocking", "waiting"}
      BY <1>1, <3>3 DEF Stays
    <3> QED BY <1>1, <2>2, <3>2, <3>3, <3>4, <3>5, <3>6, SourceDone DEF SourceEffect, Appends
  <2>6. CASE DoBlockTillReady(Source, c)
    <3>1. q' = q /\ held' = held /\ Source \notin held
      BY <2>6 DEF DoBlockTillReady, SourceAt
    <3>2. /\ pc' \in [Thread -> Places] /\ pc'[Source] = "idle" /\ pc'[Owner] = pc[Owner]
          /\ Stays(Sink) /\ pc'[Sink] = pc[Sink]
      BY <1>1, <1>2, <2>6 DEF DoBlockTillReady, Return, Stays, Places
    <3> QED BY <1>1, <1>2, <2>2, <3>1, <3>2, SourceDone DEF SourceEffect, Keeps, IInv, PeeksOK, AsleepOK
  <2>7. ~DoPop(Source, c) /\ ~DoPeekToPop(Source, c)
    BY DEF DoPop, DoPeekToPop, SourceAt, PushCalls
  <2> QED BY <1>4, <2>3, <2>4, <2>5, <2>6, <2>7 DEF Attempt
<1>5. CASE ReturnKilled(Source) /\ Forget(Source)
  <2>1. call' \in [Thread -> Call] /\ call'[Sink] = call[Sink]
    BY <1>2, <1>3, <1>5 DEF Forget
  <2>2. q' = q /\ held' = held \ {Source}
    BY <1>5 DEF ReturnKilled
  <2>3. /\ pc' \in [Thread -> Places] /\ pc'[Source] = "idle" /\ pc'[Owner] = pc[Owner]
        /\ Stays(Sink) /\ pc'[Sink] = pc[Sink]
    BY <1>1, <1>2, <1>5 DEF ReturnKilled, Return, Stays, Places
  <2> QED BY <1>1, <1>2, <2>1, <2>2, <2>3, SourceDone DEF SourceEffect, Keeps, IInv, PeeksOK, AsleepOK
<1>6. CASE /\ ~Ready(c)
           /\ pc' = [pc EXCEPT ![Source] = "blocking"]
           /\ call' = [call EXCEPT ![Source] = c]
           /\ UNCHANGED <<q, held>>
  <2>1. call' \in [Thread -> Call] /\ call'[Sink] = call[Sink] /\ call'[Source] = c
    BY <1>2, <1>6
  <2>2. /\ pc' \in [Thread -> Places] /\ pc'[Source] = "blocking" /\ pc'[Owner] = pc[Owner]
        /\ pc'[Sink] = pc[Sink]
    BY <1>1, <1>2, <1>6 DEF Places
  <2>3. ~ReadyToPush(q)
    BY <1>6 DEF Ready, SourceAt
  <2>4. q' = q /\ held' = held
    BY <1>6
  <2>5. TypeOK' /\ Contiguous'
    BY <1>1, <1>2, <2>1, <2>2, <2>4 DEF IInv, TypeOK, Contiguous, Places
  <2>6. CallsOK'
    BY <2>1, <2>2, <2>4 DEF CallsOK, Calling, IInv, SourceAt
  <2>7. PeeksOK' /\ AsleepOK'
    BY <2>2, <2>3, <2>4 DEF PeeksOK, AsleepOK, IInv
  <2> QED BY <1>1, <2>4, <2>5, <2>6, <2>7 DEF IInv, SourceEffect, Keeps
<1> QED BY <1>4, <1>5, <1>6 DEF Attempt

-----------------------------------------------------------------------------
(* The sink's calls. *)

\* The sink may begin, or go on with, the call c.
SinkAt(c) ==
  /\ pc[Sink] \in {"idle", "woken"}
  /\ MutexFree
  /\ c.op \in PopCalls

SinkEffect == q' = q \/ (Takes(q, q') /\ Sink \notin held')

LEMMA PopKeepsRoom ==
  ASSUME NEW a, QueueOK(a), ~a.que[a.wr].populated
  PROVE  ~Pop(a).que[Pop(a).wr].populated
<1> DEFINE p == Pop(a)
<1>1. QueueTypeOK(a) /\ a.wr \in 1..Size(a)
  BY QueueFacts DEF QueueOK
<1>2. p.wr = a.wr /\ \A j \in 1..Size(a) :
        p.que[j] = IF j = a.rd /\ ~a.que[j].eof THEN VacantSlot ELSE a.que[j]
  BY <1>1, PopShape
<1> HIDE DEF p
<1>3. ~p.que[p.wr].populated
  BY <1>1, <1>2, SlotFields
<1> QED BY <1>3 DEF p

LEMMA SinkPops ==
  ASSUME IInv, pc[Sink] # "waiting", MutexFree, ReadyToPop(q), q' = Pop(q),
         NotifyOne(cv_rx, Sink, "idle"), held' = held \ {Sink},
         call' \in [Thread -> Call], call'[Source] = call[Source]
  PROVE  IInv' /\ SinkEffect
<1>1. /\ pc' \in [Thread -> Places] /\ pc'[Sink] = "idle" /\ pc'[Owner] = pc[Owner]
      /\ Stays(Source) /\ pc'[Source] # "waiting"
  BY NotifyRx
<1>2. pc'[Source] # "blocking"
  BY <1>1 DEF MutexFree, Thread, Stays
<1>3. Takes(q, q')
  BY IInvQueueOK, PopTakes
<1>4. Source \in held => ~q'.que[q'.wr].populated
  BY IInvQueueOK, PopKeepsRoom DEF IInv, PeeksOK
<1>5. held' \subseteq {Source, Sink} /\ Sink \notin held' /\ (Source \in held' <=> Source \in held)
  BY ThreadAssumption DEF IInv, TypeOK
<1>6. IInv'
  BY <1>1, <1>2, <1>3, <1>4, <1>5, SinkDone DEF Takes
<1> QED BY <1>3, <1>5, <1>6 DEF SinkEffect

LEMMA SinkAttempt ==
  ASSUME IInv, NEW c \in Call, SinkAt(c), Attempt(Sink, c)
  PROVE  IInv' /\ SinkEffect
<1>1. QueueOK(q) /\ pc \in [Thread -> Places] /\ pc[Source] # "blocking"
  BY IInvQueueOK DEF IInv, TypeOK, Places, SinkAt, MutexFree, Thread
<1>2. /\ Source \in Thread /\ Sink \in Thread /\ Owner \in Thread
      /\ Source # Sink /\ Source # Owner /\ Sink # Owner
      /\ call \in [Thread -> Call] /\ held \subseteq {Source, Sink}
  BY ThreadAssumption DEF Thread, IInv, TypeOK
<1>3. NoCall \in Call
  BY DEF NoCall, Call, PushCalls, PopCalls
<1>4. ASSUME q' = q, Return(Sink), Forget(Sink),
             held' \subseteq {Source, Sink}, Source \in held' <=> Source \in held,
             Sink \in held' => ReadyToPop(q)
      PROVE  IInv' /\ SinkEffect
  <2>1. call' \in [Thread -> Call] /\ call'[Source] = call[Source]
    BY <1>2, <1>3, <1>4 DEF Forget
  <2>2. /\ pc' \in [Thread -> Places] /\ pc'[Sink] = "idle" /\ pc'[Owner] = pc[Owner]
        /\ Stays(Source) /\ pc'[Source] = pc[Source]
    BY <1>1, <1>2, <1>4 DEF Return, Stays, Places
  <2> QED BY <1>1, <1>2, <1>4, <2>1, <2>2, SinkDone DEF SinkEffect, IInv, PeeksOK, AsleepOK
<1>5. CASE ~q.killnow /\ Ready(c) /\ Forget(Sink)
  <2>1. ReadyToPop(q)
    BY <1>5 DEF Ready, SinkAt, PushCalls, PopCalls
  <2>2. call' \in [Thread -> Call] /\ call'[Source] = call[Source]
    BY <1>2, <1>3, <1>5 DEF Forget
  <2>3. CASE DoPop(Sink, c)
    BY <2>1, <2>2, <2>3, SinkPops DEF DoPop, SinkAt
  <2>4. CASE DoPeekToPop(Sink, c)
    <3>1. q' = q /\ Return(Sink) /\ held' \subseteq {Source, Sink} /\ (Source \in held' <=> Source \in held)
      BY <1>2, <2>4 DEF DoPeekToPop
    <3> QED BY <1>4, <1>5, <2>1, <3>1
  <2>5. CASE DoBlockTillReady(Sink, c)
    BY <1>2, <1>4, <1>5, <2>1, <2>5 DEF DoBlockTillReady
  <2>6. ~DoPush(Sink, c) /\ ~DoPeekToPush(Sink, c) /\ ~DoMarkPopulated(Sink, c)
    BY DEF DoPush, DoPeekToPush, DoMarkPopulated, SinkAt, PopCalls
  <2> QED BY <1>5, <2>3, <2>4, <2>5, <2>6 DEF Attempt
<1>6. CASE ReturnKilled(Sink) /\ Forget(Sink)
  BY <1>2, <1>4, <1>6 DEF ReturnKilled
<1>7. CASE /\ ~Ready(c)
           /\ pc' = [pc EXCEPT ![Sink] = "blocking"]
           /\ call' = [call EXCEPT ![Sink] = c]
           /\ UNCHANGED <<q, held>>
  <2>1. call' \in [Thread -> Call] /\ call'[Source] = call[Source] /\ call'[Sink] = c
    BY <1>2, <1>7
  <2>2. /\ pc' \in [Thread -> Places] /\ pc'[Sink] = "blocking" /\ pc'[Owner] = pc[Owner]
        /\ pc'[Source] = pc[Source]
    BY <1>1, <1>2, <1>7 DEF Places
  <2>3. ~ReadyToPop(q)
    BY <1>7 DEF Ready, SinkAt, PushCalls, PopCalls
  <2>4. q' = q /\ held' = held
    BY <1>7
  <2>5. TypeOK' /\ Contiguous'
    BY <1>1, <1>2, <2>1, <2>2, <2>4 DEF IInv, TypeOK, Contiguous, Places
  <2>6. CallsOK'
    BY <2>1, <2>2, <2>4 DEF CallsOK, Calling, IInv, SinkAt
  <2>7. PeeksOK' /\ AsleepOK'
    BY <2>2, <2>3, <2>4 DEF PeeksOK, AsleepOK, IInv
  <2> QED BY <1>1, <2>4, <2>5, <2>6, <2>7 DEF IInv, SinkEffect
<1> QED BY <1>5, <1>6, <1>7 DEF Attempt

-----------------------------------------------------------------------------
(* Every step keeps the invariant, and does one thing to the stream. *)

StepEffect == SourceEffect \/ Takes(q, q') \/ TakesBack(q, q') \/ Empties(q, q')

\* A step after which what the sink peeked at is where it was.
Good == IInv' /\ StepEffect /\ KeepsPeeked

LEMMA PeekFacts ==
  /\ ReadyToPop(q)' <=> ReadyToPop(q')
  /\ Oldest(q)' = Oldest(q')
BY DEF ReadyToPop, Oldest

LEMMA InitIInv == Init => IInv
<1> SUFFICES ASSUME Init PROVE IInv
  OBVIOUS
<1> USE DEF Init
<1>1. PICK N \in Nat : q = NewQueue(N)
  BY CapacityAssumption
<1>2. QueueOK(q)
  BY <1>1, NewQueueOK
<1>3. NoCall \in Call
  BY DEF NoCall, Call, PushCalls, PopCalls
<1>4. TypeOK /\ Contiguous
  BY <1>2, <1>3 DEF TypeOK, Contiguous, QueueOK
<1>5. CallsOK /\ PeeksOK /\ AsleepOK
  BY DEF CallsOK, Calling, PeeksOK, AsleepOK, Thread
<1> QED BY <1>4, <1>5 DEF IInv

LEMMA SourceIsGood ==
  ASSUME IInv, IInv', SourceEffect
  PROVE  Good
<1>1. ASSUME Sink \in held PROVE ReadyToPop(q') /\ Oldest(q') = Oldest(q)
  <2>1. QueueOK(q) /\ ReadyToPop(q)
    BY <1>1, IInvQueueOK DEF IInv, PeeksOK
  <2>2. PICK x \in Frame \cup {Null} : Keeps(q, q') \/ Appends(q, q', x)
    BY DEF SourceEffect
  <2> QED BY <2>1, <2>2, SinkSees
<1> QED BY <1>1, PeekFacts DEF Good, StepEffect, KeepsPeeked

LEMMA SinkIsGood ==
  ASSUME IInv, IInv', SinkEffect
  PROVE  Good
<1>1. CASE q' = q
  <2>1. Keeps(q, q')
    BY <1>1, IInvQueueOK DEF Keeps
  <2> QED BY <2>1, SourceIsGood DEF SourceEffect
<1>2. CASE Takes(q, q') /\ Sink \notin held'
  BY <1>2 DEF Good, StepEffect, KeepsPeeked
<1> QED BY <1>1, <1>2 DEF SinkEffect

\* A thread moves on inside its call, or out of it, and the queue is untouched.
LEMMA QueueUntouched ==
  ASSUME IInv, q' = q, held' = held,
         pc' \in [Thread -> Places], pc'[Owner] \in {"idle", "killing_rx", "killing_tx"},
         call' \in [Thread -> Call],
         \A t \in {Source, Sink} :
           /\ pc'[t] \in {"idle", "blocking", "waiting", "woken"}
           /\ pc'[t] \in {"blocking", "waiting"} => pc[t] \in {"blocking", "waiting"}
           /\ pc'[t] # "idle" => pc[t] # "idle" /\ call'[t] = call[t]
  PROVE  Good
<1>1. TypeOK' /\ Contiguous'
  BY DEF IInv, TypeOK, Contiguous, Places
<1>2. CallsOK'
  BY DEF IInv, CallsOK, Calling
<1>3. PeeksOK' /\ AsleepOK'
  BY DEF IInv, PeeksOK, AsleepOK
<1>4. IInv'
  BY <1>1, <1>2, <1>3 DEF IInv
<1> QED BY <1>4, SinkIsGood DEF SinkEffect

\* Everyone is out of the queue, or holds nothing of it.
LEMMA WaitStepGood ==
  ASSUME IInv, NEW t \in {Source, Sink}, WaitStep(t)
  PROVE  Good
<1>1. /\ Source \in Thread /\ Sink \in Thread /\ Owner \in Thread
      /\ Source # Sink /\ Source # Owner /\ Sink # Owner
      /\ call \in [Thread -> Call] /\ pc \in [Thread -> Places]
  BY ThreadAssumption DEF Thread, IInv, TypeOK, Places
<1>2. NoCall \in Call
  BY DEF NoCall, Call, PushCalls, PopCalls
<1>3. CallsOK
  BY DEF IInv
<1>4. CASE Block(t)
  BY <1>1, <1>3, <1>4, QueueUntouched DEF Block, CallsOK, Calling, Places
<1>5. CASE Wakeup(t)
  BY <1>1, <1>3, <1>5, QueueUntouched DEF Wakeup, CallsOK, Calling, Places
<1>6. CASE Expire(t)
  BY <1>1, <1>2, <1>3, <1>6, QueueUntouched
  DEF Expire, Return, Forget, CallsOK, Calling, Places
<1>7. CASE Resume(t)
  <2>1. call[t] \in Call /\ pc[t] = "woken" /\ MutexFree /\ Attempt(t, call[t])
    BY <1>1, <1>7 DEF Resume
  <2>2. CASE t = Source
    <3>1. SourceAt(call[t])
      BY <1>3, <2>1, <2>2 DEF SourceAt, CallsOK, Calling
    <3> QED BY <2>1, <2>2, <3>1, SourceAttempt, SourceIsGood
  <2>3. CASE t = Sink
    <3>1. SinkAt(call[t])
      BY <1>3, <2>1, <2>3 DEF SinkAt, CallsOK, Calling
    <3> QED BY <2>1, <2>3, <3>1, SinkAttempt, SinkIsGood
  <2> QED BY <2>2, <2>3
<1> QED BY <1>4, <1>5, <1>6, <1>7 DEF WaitStep

\* A step between calls that changes the queue while nothing of it is peeked at.
LEMMA BetweenCalls ==
  ASSUME IInv, held = {}, UNCHANGED <<pc, call, held>>, QueueOK(q'),
         Calling(Source) => (Ended(q') <=> Ended(q)),
         pc[Source] \in {"blocking", "waiting"} => ~ReadyToPush(q'),
         pc[Sink] \in {"blocking", "waiting"} => ~ReadyToPop(q')
  PROVE  IInv' /\ KeepsPeeked
<1>1. TypeOK' /\ Contiguous'
  BY QueueOKPrime DEF IInv, TypeOK
<1>2. Ended(q)' <=> Ended(q')
  BY DEF Ended, Before, Size
<1>3. CallsOK'
  BY <1>2 DEF IInv, CallsOK, Calling
<1>4. PeeksOK' /\ AsleepOK'
  BY DEF PeeksOK, AsleepOK, ReadyToPush, ReadyToPop
<1> QED BY <1>1, <1>3, <1>4 DEF IInv, KeepsPeeked

\* What was pushed last is taken back: nobody is asleep on what that changes.
LEMMA TakingBackIsGood ==
  ASSUME IInv, held = {}, UNCHANGED <<pc, call, held>>, MutexFree, ~Drained(q),
         \/ q' = ClrEof(q)
         \/ q' = PopLastPushed(q) /\ (Size(q) = 1 \/ q.wr > 1) /\ pc[Source] = "idle"
  PROVE  Good
<1>1. QueueOK(q)
  BY IInvQueueOK
<1>2. q' = q \/ (TakesBack(q, q') /\ ReadyToPop(q))
  BY <1>1, TakingBack
<1>3. CASE q' = q
  <2>1. IInv'
    BY <1>1, <1>3, BetweenCalls DEF IInv, AsleepOK
  <2> QED BY <1>3, <2>1, SinkIsGood DEF SinkEffect
<1>4. CASE q' # q /\ TakesBack(q, q') /\ ReadyToPop(q)
  <2>1. pc[Sink] \notin {"blocking", "waiting"}
    BY <1>4 DEF IInv, AsleepOK
  <2>2. ~Calling(Source)
    <3>1. ~Ended(q) => ClrEof(q) = q
      BY DEF ClrEof, Ended
    <3> QED BY <1>4, <3>1 DEF IInv, CallsOK, Calling
  <2>3. IInv' /\ KeepsPeeked
    BY <1>4, <2>1, <2>2, BetweenCalls DEF TakesBack, Calling
  <2> QED BY <1>4, <2>3 DEF Good, StepEffect
<1> QED BY <1>2, <1>3, <1>4

LEMMA SourceStepGood ==
  ASSUME IInv, SourceStep
  PROVE  Good
<1>1. ASSUME NEW c \in Call, SourceWaits(c) PROVE Good
  <2>1. SourceAt(c) /\ Attempt(Source, c)
    BY <1>1 DEF SourceWaits, MayPush, Enter, SourceAt
  <2> QED BY <2>1, SourceAttempt, SourceIsGood
<1>2. ASSUME NEW x \in Frame \cup {Null}, TryToPush(x) PROVE Good
  <2>1. Appends(q, q', x)
    BY <1>2, IInvQueueOK, PushAppends DEF TryToPush, MayPush
  <2>2. IInv'
    BY <1>2, <2>1, SourcePushes DEF TryToPush, MayPush, Enter, IInv, TypeOK
  <2> QED BY <2>1, <2>2, SourceIsGood DEF SourceEffect
<1>3. CASE SourcePopLastPushed
  BY <1>3, TakingBackIsGood DEF SourcePopLastPushed, Enter
<1> QED BY <1>1, <1>2, <1>3 DEF SourceStep

LEMMA SinkStepGood ==
  ASSUME IInv, SinkStep
  PROVE  Good
<1>1. ASSUME NEW c \in Call, SinkWaits(c) PROVE Good
  <2>1. SinkAt(c) /\ Attempt(Sink, c)
    BY <1>1 DEF SinkWaits, Enter, SinkAt
  <2> QED BY <2>1, SinkAttempt, SinkIsGood
<1>2. CASE TryToPop
  <2>1. IInv' /\ SinkEffect
    BY <1>2, SinkPops DEF TryToPop, Enter, IInv, TypeOK
  <2> QED BY <2>1, SinkIsGood
<1> QED BY <1>1, <1>2 DEF SinkStep

LEMMA OwnerStepGood ==
  ASSUME IInv, OwnerStep
  PROVE  Good
<1>1. /\ Source \in Thread /\ Sink \in Thread /\ Owner \in Thread
      /\ Source # Sink /\ Source # Owner /\ Sink # Owner
      /\ call \in [Thread -> Call] /\ pc \in [Thread -> Places]
  BY ThreadAssumption DEF Thread, IInv, TypeOK, Places
<1>2. CallsOK
  BY DEF IInv
<1>3. CASE Kill
  <2>1. q' = Killed(q) /\ QueueOK(q)
    BY <1>3, IInvQueueOK DEF Kill
  <2>2. /\ QueueOK(q') /\ (Ended(q') <=> Ended(q)) /\ (ReadyToPop(q') <=> ReadyToPop(q))
        /\ (ReadyToPush(q') <=> ReadyToPush(q)) /\ q'.que[q'.wr] = q.que[q.wr]
    BY <2>1, KilledOK
  <2>3. /\ pc' \in [Thread -> Places] /\ pc'[Owner] = "killing_rx"
        /\ pc'[Source] = pc[Source] /\ pc'[Sink] = pc[Sink]
    BY <1>1, <1>3 DEF Kill, Places
  <2>4. call' = call /\ held' = held
    BY <1>3 DEF Kill
  <2>5. TypeOK' /\ Contiguous'
    BY <2>2, <2>3, <2>4, QueueOKPrime DEF IInv, TypeOK, Places
  <2>6. Ended(q)' <=> Ended(q')
    BY DEF Ended, Before, Size
  <2>7. CallsOK'
    BY <2>2, <2>3, <2>4, <2>6 DEF IInv, CallsOK, Calling
  <2>8. PeeksOK' /\ AsleepOK'
    BY <2>2, <2>3, <2>4 DEF IInv, PeeksOK, AsleepOK, ReadyToPush, ReadyToPop
  <2>9. IInv' /\ Keeps(q, q')
    BY <2>1, <2>5, <2>7, <2>8, KillKeeps DEF IInv
  <2> QED BY <2>9, SourceIsGood DEF SourceEffect
<1>4. CASE KillNotifyRx
  BY <1>1, <1>2, <1>4, QueueUntouched DEF KillNotifyRx, NotifyAll, Waiters, CallsOK, Calling, Places
<1>5. CASE KillNotifyTx
  BY <1>1, <1>2, <1>5, QueueUntouched DEF KillNotifyTx, NotifyAll, Waiters, CallsOK, Calling, Places
<1>6. CASE OwnerClear
  <2>1. Empties(q, q')
    BY <1>6, IInvQueueOK, ClearEmpties DEF OwnerClear
  <2>2. pc[Source] = "idle" /\ pc[Sink] = "idle"
    BY <1>1, <1>6 DEF OwnerClear
  <2>3. IInv' /\ KeepsPeeked
    BY <1>6, <2>1, <2>2, BetweenCalls DEF OwnerClear, Calling, Empties
  <2> QED BY <2>1, <2>3 DEF Good, StepEffect
<1>7. CASE OwnerClrEof
  BY <1>7, TakingBackIsGood DEF OwnerClrEof, Enter
<1> QED BY <1>3, <1>4, <1>5, <1>6, <1>7 DEF OwnerStep

LEMMA NextGood ==
  ASSUME IInv, [Next]_vars
  PROVE  Good
<1>1. CASE UNCHANGED vars
  <2>1. IInv'
    BY <1>1 DEF vars, IInv, TypeOK, Contiguous, CallsOK, PeeksOK, AsleepOK, Calling
  <2> QED BY <1>1, <2>1, SinkIsGood DEF SinkEffect, vars
<1>2. CASE Next
  BY <1>2, SourceStepGood, SinkStepGood, OwnerStepGood, WaitStepGood DEF Next
<1> QED BY <1>1, <1>2

-----------------------------------------------------------------------------
(* The theorems. *)

LEMMA Invariance == Spec => []IInv
<1>1. IInv /\ [Next]_vars => IInv'
  BY NextGood DEF Good
<1> QED BY InitIInv, <1>1, PTL DEF Spec

\* The variables keep their types (AVFrameQueue, for every N it is made with).
THEOREM TypeCorrect == Spec => []TypeOK
BY Invariance, PTL DEF IInv

\* The ring stays contiguous: no frame is overwritten before it is popped, none
\* is delivered twice, and no slot is lost (push_threadunsafe, pop_threadunsafe,
\* expand, popLastPushed, clear and clrEof, in any order that two threads make).
THEOREM RingStaysContiguous == Spec => []Contiguous
BY Invariance, PTL DEF IInv

\* The slot peekToPush() returned is vacant until push() completes it.
THEOREM PeekedSlotStaysVacant == Spec => []NeverAlreadyPopulated
<1>1. IInv => NeverAlreadyPopulated
  BY DEF IInv, PeeksOK, NeverAlreadyPopulated
<1> QED BY <1>1, Invariance, PTL

\* Every notification between push and pop finds its sleeper: no thread is left
\* asleep on a queue that became ready for it.
THEOREM WakeupsArrive == Spec => []NoLostWakeup
<1>1. IInv => NoLostWakeup
  BY DEF IInv, AsleepOK, NoLostWakeup
<1> QED BY <1>1, Invariance, PTL

\* What peekToPop() showed is what pop() delivers, whatever happens between.
THEOREM PeekIsStable == Spec => PeekedFrameStays
<1>1. IInv /\ [Next]_vars => [KeepsPeeked]_vars
  BY NextGood DEF Good
<1> QED BY <1>1, Invariance, PTL DEF Spec, PeekedFrameStays

LEMMA ContentsPrime ==
  /\ Contents(q)' = Contents(q') /\ Capacity(q)' = Capacity(q')
  /\ Ended(q)' = Ended(q')
BY DEF Contents, Count, At, Capacity, Ended, Before, Size

\* The queue implements the bounded stream that its interfaces promise.
THEOREM ImplementsFifo == Spec => FifoSpec
<1>1. Init => Fifo!Init
  <2> SUFFICES ASSUME Init PROVE Fifo!Init
    OBVIOUS
  <2>1. PICK N \in Nat : q = NewQueue(N)
    BY CapacityAssumption DEF Init
  <2>2. QueueOK(q) /\ ~Ended(q) /\ Count(q) = 0
    BY <2>1, NewQueueOK
  <2>3. Contents(q) = <<>>
    BY <2>2, ContentsEmpty DEF QueueOK
  <2>4. Ended(q) = FALSE /\ Capacity(q) \in Nat
    BY <2>2, EndedBoolean
  <2> QED BY <2>3, <2>4 DEF Fifo!Init
<1>2. IInv /\ [Next]_vars => [Fifo!Next]_(Fifo!vars)
  <2> SUFFICES ASSUME IInv, [Next]_vars PROVE [Fifo!Next]_(Fifo!vars)
    OBVIOUS
  <2>1. StepEffect /\ QueueOK(q)
    BY NextGood, IInvQueueOK DEF Good
  <2>2. Ended(q) \in BOOLEAN
    BY <2>1, EndedBoolean
  <2>3. ASSUME QueueOK(q') PROVE Ended(q') \in BOOLEAN
    BY <2>3, EndedBoolean
  <2>4. CASE Keeps(q, q')
    <3>1. Ended(q') = Ended(q)
      BY <2>2, <2>3, <2>4 DEF Keeps
    <3> QED BY <2>4, <3>1, ContentsPrime DEF Keeps, Fifo!vars
  <2>5. ASSUME NEW x \in Frame \cup {Null}, Appends(q, q', x) PROVE Fifo!Put(x)
    <3>1. Ended(q') = (x = Null)
      BY <2>3, <2>5 DEF Appends
    <3> QED BY <2>5, <3>1, ContentsPrime DEF Appends, Fifo!Put
  <2>6. CASE Takes(q, q')
    <3>1. Ended(q') = Ended(q)
      BY <2>2, <2>3, <2>6 DEF Takes
    <3>2. Fifo!Take
      BY <2>6, <3>1, ContentsPrime DEF Takes, Fifo!Take
    <3> QED BY <3>2 DEF Fifo!Next
  <2>7. CASE TakesBack(q, q')
    <3>1. Ended(q') = FALSE
      BY <2>3, <2>7 DEF TakesBack
    <3>2. Fifo!TakeBack
      BY <2>7, <3>1, ContentsPrime DEF TakesBack, Fifo!TakeBack, Front, Fifo!Front
    <3> QED BY <3>2 DEF Fifo!Next
  <2>8. CASE Empties(q, q')
    <3>1. Ended(q') = FALSE
      BY <2>3, <2>8 DEF Empties
    <3>2. Fifo!Reset
      BY <2>8, <3>1, ContentsPrime DEF Empties, Fifo!Reset
    <3> QED BY <3>2 DEF Fifo!Next
  <2> QED BY <2>1, <2>4, <2>5, <2>6, <2>7, <2>8 DEF StepEffect, SourceEffect, Fifo!Next
<1> QED BY <1>1, <1>2, Invariance, PTL DEF Spec, FifoSpec, Fifo!Spec

=============================================================================
