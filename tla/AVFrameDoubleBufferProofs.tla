---------------------- MODULE AVFrameDoubleBufferProofs ----------------------
(***************************************************************************)
(* Until a swap is overtaken, the two queues of AVFrameDoubleBuffer are    *)
(* one first-in first-out stream, whatever the frames, the capacities and  *)
(* the methods that the three threads use.                                 *)
(*                                                                         *)
(* The argument: a thread goes inside a queue only if no swap is due, and  *)
(* none becomes due before it comes out, because it is the only one who    *)
(* could fill the receiver, or empty the sender.  A thread that decides on *)
(* a swap finds a full receiver and an empty sender, and the other one     *)
(* cannot change either, or pass either, before the swap is done.          *)
(*                                                                         *)
(* That the two threads never wait for each other holds beyond: whoever    *)
(* makes a swap due is on its way to its swapper, unless it called one of  *)
(* the methods that run none.                                              *)
(***************************************************************************)
EXTENDS AVFrameDoubleBuffer, FrameQueueProofs

Called == {"blocking", "waiting", "woken", "inside"}

\* The two queues have their types; whoever is in a call is in one it may make.
Typed == TypeOK /\ buffers \in [1..2 -> Queue]

CallsOK ==
  /\ pc[Owner] \in {"idle", "kill_1", "kill_2", "kill_notify"}
  /\ \A t \in {Writer, Reader} : pc[t] \in Called \cup {"idle", "swapper", "swapping"}
  /\ pc[Writer] \in Called =>
       /\ call[Writer].op \in PushCalls
       /\ call[Writer].op = "markPopulated" => call[Writer].arg # Null
  /\ call[Reader].op \in PopCalls
  /\ \A t \in {Writer, Reader} :
       pc[t] = "inside" => call[t].op \in {"push", "markPopulated", "pop"}

\* The two queues, and their ends of file.
QueuesOK ==
  /\ \A i \in 1..2 : QueueOK(buffers[i])
  /\ Capacity(Sndr) = Capacity(Rcvr)
  /\ Ended(Rcvr) => Contents(Rcvr) # <<>>
  /\ Ended(Sndr) => Contents(Rcvr) = <<>>
  /\ pc[Writer] \in Called => ~Ended(Rcvr) /\ ~Ended(Sndr)

\* Who is inside, or about to swap.
PlacesOK ==
  /\ pc[Writer] = "inside" => ~IsFull(Rcvr) /\ via[Writer] = rcvr
  /\ pc[Reader] = "inside" => Contents(Sndr) # <<>> /\ via[Reader] = sndr
  /\ ~(pc[Writer] = "swapping" /\ pc[Reader] = "swapping")
  /\ (\E t \in {Writer, Reader} : pc[t] = "swapping") =>
       /\ Contents(Sndr) = <<>>
       /\ IsFull(Rcvr) \/ Ended(Rcvr)
       /\ pc[Writer] # "inside" /\ pc[Reader] # "inside"

IInv == Typed /\ CallsOK /\ (~overtaken => QueuesOK /\ PlacesOK)

-----------------------------------------------------------------------------
(* Types. *)

\* Every update of a queue gives a queue.
LEMMA UpdatesTyped ==
  ASSUME NEW q, QueueTypeOK(q)
  PROVE  /\ QueueTypeOK(MakeRoom(q)) /\ QueueTypeOK(Pop(q)) /\ QueueTypeOK(PopLastPushed(q))
         /\ QueueTypeOK(Clear(q)) /\ QueueTypeOK(Killed(q)) /\ QueueTypeOK(ClrEof(q))
         /\ \A x \in Frame \cup {Null} : QueueTypeOK(Push(q, x)) /\ QueueTypeOK(MarkPopulated(q, x))
<1>1. /\ Size(q) \in Nat \ {0} /\ DOMAIN q.que = 1..Size(q)
      /\ q.wr \in 1..Size(q) /\ q.rd \in 1..Size(q)
      /\ \A j \in 1..Size(q) : q.que[j] \in Slot
      /\ \A j \in 1..Size(q) : After(q, j) \in 1..Size(q) /\ Before(q, j) \in 1..Size(q)
  BY QueueFacts
<1>2. QueueTypeOK(MakeRoom(q))
  BY ExpandShape DEF MakeRoom
<1>3. \A x \in Frame \cup {Null} : QueueTypeOK(Push(q, x))
  <2> DEFINE m == MakeRoom(q)
  <2> HIDE DEF m
  <2>1. \A x \in Frame \cup {Null} : QueueTypeOK(Fill(m, x))
    BY <1>2, FillShape DEF m
  <2> QED BY <2>1 DEF Push, m
<1>4. \A j \in 1..Size(q) : QueueTypeOK(Retract(q, j))
  BY RetractShape
<1>5. LastPushed(q) \in 1..Size(q) /\ Before(q, q.wr) \in 1..Size(q)
  <2>1. Before(q, q.wr) \in 1..Size(q)
    BY <1>1
  <2>2. q.wr \in 1..Size(q) /\ Size(q) \in Nat \ {0}
    BY <1>1
  <2>3. LastPushed(q) \in 1..Size(q)
    BY <2>2 DEF LastPushed
  <2> QED BY <2>1, <2>3
<1>6. QueueTypeOK(PopLastPushed(q)) /\ QueueTypeOK(ClrEof(q))
  BY <1>4, <1>5 DEF PopLastPushed, ClrEof
<1>7. ASSUME NEW x \in Frame \cup {Null} PROVE QueueTypeOK(MarkPopulated(q, x))
  <2> DEFINE i == q.wr
             e == [frame |-> x, eof |-> q.que[i].eof, populated |-> TRUE]
             w == After(q, i)
             r == q.rd
  <2>1. e \in Slot /\ w \in 1..Size(q) /\ i \in 1..Size(q) /\ r \in 1..Size(q)
    BY <1>1 DEF Slot
  <2>2. [q.que EXCEPT ![i] = e] = [q.que EXCEPT ![q.wr] = [frame |-> x, eof |-> @.eof, populated |-> TRUE]]
    OBVIOUS
  <2>3. MarkPopulated(q, x) = WithRing(q, [q.que EXCEPT ![i] = e], w, r)
    BY <2>2 DEF MarkPopulated
  <2> HIDE DEF e, w, i, r
  <2> QED BY <2>1, <2>3, SlotPut
<1>8. QueueTypeOK(Clear(q))
  <2> DEFINE s == [j \in 1..Size(q) |-> VacantSlot]
             p == WithRing(q, s, 1, 1)
  <2>1. s \in Seq(Slot) /\ Len(s) = Size(q)
    <3>1. Size(q) \in Nat \ {0}
      BY <1>1
    <3> QED BY <3>1, SlotFields
  <2>2. 1 \in 1..Len(s)
    BY <1>1, <2>1
  <2> HIDE DEF s
  <2>3. QueueTypeOK(p)
    BY <2>1, <2>2, RingFields
  <2>4. Clear(q) = [p EXCEPT !.killnow = FALSE]
    BY DEF Clear, s
  <2> HIDE DEF p
  <2>5. Clear(q) \in Queue /\ Clear(q).que = p.que /\ Clear(q).wr = p.wr /\ Clear(q).rd = p.rd
    BY <2>3, <2>4 DEF QueueTypeOK, Queue
  <2> QED BY <2>3, <2>5 DEF QueueTypeOK
<1> QED BY <1>2, <1>3, <1>6, <1>7, <1>8, PopShape, KilledShape

\* One of the buffers is put, the other stays.
LEMMA OnePut ==
  ASSUME DOMAIN buffers = 1..2, NEW i \in 1..2, NEW q, buffers' = [buffers EXCEPT ![i] = q]
  PROVE  /\ DOMAIN buffers' = 1..2
         /\ \A j \in 1..2 : buffers'[j] = IF j = i THEN q ELSE buffers[j]
OBVIOUS

\* A queue one step later.
LEMMA Primes ==
  /\ Rcvr' = buffers'[rcvr'] /\ Sndr' = buffers'[sndr'] /\ sndr' = 3 - rcvr'
  /\ \A i \in 1..2 : /\ QueueTypeOK(buffers[i])' <=> QueueTypeOK(buffers'[i])
                     /\ QueueOK(buffers[i])' <=> QueueOK(buffers'[i])
  /\ IsFull(Rcvr)' <=> IsFull(Rcvr') /\ Ended(Rcvr)' = Ended(Rcvr')
  /\ Ended(Sndr)' = Ended(Sndr')
  /\ Contents(Rcvr)' = Contents(Rcvr') /\ Contents(Sndr)' = Contents(Sndr')
  /\ Capacity(Rcvr)' = Capacity(Rcvr') /\ Capacity(Sndr)' = Capacity(Sndr')
<1>1. Rcvr' = buffers'[rcvr'] /\ Sndr' = buffers'[sndr'] /\ sndr' = 3 - rcvr'
  BY DEF Rcvr, Sndr, sndr
<1>2. \A i \in 1..2 : /\ QueueTypeOK(buffers[i])' <=> QueueTypeOK(buffers'[i])
                      /\ QueueOK(buffers[i])' <=> QueueOK(buffers'[i])
  BY DEF QueueOK, QueueTypeOK, RingContiguous, SlotsClean, EofIsLast, Between, Before, Size
<1>3. IsFull(Rcvr)' <=> IsFull(Rcvr')
  BY DEF IsFull
<1>4. Ended(Rcvr)' = Ended(Rcvr') /\ Ended(Sndr)' = Ended(Sndr')
  BY DEF Ended, Before, Size
<1>5. Contents(Rcvr)' = Contents(Rcvr') /\ Contents(Sndr)' = Contents(Sndr')
  BY DEF Contents, Count, At, Size
<1>6. Capacity(Rcvr)' = Capacity(Rcvr') /\ Capacity(Sndr)' = Capacity(Sndr')
  BY DEF Capacity, Size
<1> QED BY <1>1, <1>2, <1>3, <1>4, <1>5, <1>6

LEMMA TypedPrime ==
  ASSUME buffers' \in [1..2 -> Queue], \A i \in 1..2 : QueueTypeOK(buffers'[i]),
         rcvr' \in 1..2, pc' \in [Thread -> Places], call' \in [Thread -> Call],
         via' \in [Thread -> 1..2], killnow' \in BOOLEAN, peeked' \in BOOLEAN,
         overtaken' \in BOOLEAN
  PROVE  Typed'
BY Primes DEF Typed, TypeOK

LEMMA InnerTyped ==
  ASSUME NEW b, QueueTypeOK(b), NEW c \in Call, c.op \in {"push", "markPopulated", "pop"}
  PROVE  QueueTypeOK(Inner(b, c))
<1>1. c.arg \in Frame \cup {Null}
  BY DEF Call
<1>2. Inner(b, c) \in {b, Push(b, c.arg), MarkPopulated(b, c.arg), Pop(b)}
  BY DEF Inner
<1> QED BY <1>1, <1>2, UpdatesTyped

LEMMA Threads ==
  /\ Writer \in Thread /\ Reader \in Thread /\ Owner \in Thread
  /\ Writer # Reader /\ Writer # Owner /\ Reader # Owner
  /\ Thread = {Writer, Reader, Owner}
BY ThreadAssumption DEF Thread

\* The thread t may make the call c.
MayCall(t, c) ==
  \/ t = Writer /\ c.op \in PushCalls /\ (c.op = "markPopulated" => c.arg # Null)
  \/ t = Reader /\ c.op \in PopCalls

\* t goes on to the place "to" with the call c, and the other threads stay or are woken.
Moves(t, to, c) ==
  /\ pc' \in [Thread -> Places] /\ call' \in [Thread -> Call]
  /\ pc'[t] = to /\ call'[t] = c
  /\ \A u \in Thread \ {t} : /\ call'[u] = call[u]
                             /\ pc'[u] = pc[u] \/ (pc[u] = "waiting" /\ pc'[u] = "woken")

LEMMA CallsMoved ==
  ASSUME Typed, CallsOK, NEW t \in {Writer, Reader}, NEW c \in Call, NEW to, Moves(t, to, c),
         to \in Called \cup {"idle", "swapper", "swapping"},
         to \in Called => MayCall(t, c),
         to = "inside" => c.op \in {"push", "markPopulated", "pop"},
         t = Reader => c.op \in PopCalls
  PROVE  CallsOK'
<1>1. /\ pc'[t] = to /\ call'[t] = c
      /\ \A u \in Thread \ {t} :
           call'[u] = call[u] /\ (pc'[u] = pc[u] \/ (pc[u] = "waiting" /\ pc'[u] = "woken"))
  BY DEF Moves
<1>2. pc'[Owner] \in {"idle", "kill_1", "kill_2", "kill_notify"}
  BY <1>1, Threads DEF CallsOK
<1>3. \A u \in {Writer, Reader} : pc'[u] \in Called \cup {"idle", "swapper", "swapping"}
  BY <1>1, Threads DEF CallsOK, Called
<1>4. pc'[Writer] \in Called =>
        call'[Writer].op \in PushCalls /\ (call'[Writer].op = "markPopulated" => call'[Writer].arg # Null)
  <2>1. CASE t = Writer
    BY <1>1, <2>1, Threads DEF MayCall
  <2>2. CASE t # Writer
    BY <1>1, <2>2, Threads DEF CallsOK, Called
  <2> QED BY <2>1, <2>2
<1>5. call'[Reader].op \in PopCalls
  BY <1>1, Threads DEF CallsOK
<1>6. \A u \in {Writer, Reader} : pc'[u] = "inside" => call'[u].op \in {"push", "markPopulated", "pop"}
  BY <1>1, Threads DEF CallsOK
<1> QED BY <1>2, <1>3, <1>4, <1>5, <1>6 DEF CallsOK

LEMMA CallsStay ==
  ASSUME Typed, CallsOK, call' = call, pc' \in [Thread -> Places],
         pc'[Owner] \in {"idle", "kill_1", "kill_2", "kill_notify"},
         \A t \in {Writer, Reader} : pc'[t] = pc[t] \/ (pc[t] = "waiting" /\ pc'[t] = "woken")
  PROVE  CallsOK'
BY Threads DEF CallsOK, Called

\* Only the queue i changes, to q.
Puts(i, q) == buffers' = [buffers EXCEPT ![i] = q]

LEMMA TypesOf ==
  ASSUME Typed
  PROVE  /\ rcvr \in 1..2 /\ sndr \in 1..2 /\ sndr # rcvr /\ 3 - sndr = rcvr
         /\ pc \in [Thread -> Places] /\ call \in [Thread -> Call] /\ via \in [Thread -> 1..2]
         /\ killnow \in BOOLEAN /\ peeked \in BOOLEAN /\ overtaken \in BOOLEAN
         /\ DOMAIN buffers = 1..2 /\ buffers \in [1..2 -> Queue]
         /\ \A i \in 1..2 : QueueTypeOK(buffers[i])
BY DEF Typed, TypeOK, sndr

LEMMA BuffersTyped ==
  ASSUME Typed,
         \/ buffers' = buffers
         \/ \E i \in 1..2 : \E q : QueueTypeOK(q) /\ Puts(i, q)
  PROVE  buffers' \in [1..2 -> Queue] /\ \A i \in 1..2 : QueueTypeOK(buffers'[i])
<1>1. CASE buffers' = buffers
  BY <1>1, TypesOf
<1>2. ASSUME NEW i \in 1..2, NEW q, QueueTypeOK(q), Puts(i, q)
      PROVE  buffers' \in [1..2 -> Queue] /\ \A j \in 1..2 : QueueTypeOK(buffers'[j])
  <2>1. q \in Queue
    BY <1>2 DEF QueueTypeOK
  <2>2. buffers' \in [1..2 -> Queue]
    BY <1>2, <2>1, TypesOf DEF Puts
  <2> QED BY <1>2, <2>2, TypesOf, OnePut DEF Puts
<1> QED BY <1>1, <1>2

LEMMA NoCallTyped == NoCall \in Call /\ NoCall.op \in PopCalls
BY DEF NoCall, Call, PushCalls, PopCalls

\* What becomes of the thread t that owns the mutex and attempts the call c.
GoesHome(t) == Moves(t, "idle", NoCall) /\ via' = via

MakesRoom(t) == t = Writer /\ ~IsFull(Rcvr) /\ Puts(rcvr, MakeRoom(Rcvr))

GoesIn(t, c) ==
  /\ Moves(t, "inside", c)
  /\ c.op \in {"push", "markPopulated", "pop"}
  /\ via' \in [Thread -> 1..2] /\ \A u \in Thread \ {t} : via'[u] = via[u]
  /\ t = Writer => ~IsFull(Rcvr) /\ via'[t] = rcvr
  /\ t = Reader => ~IsEmpty(Sndr) /\ via'[t] = sndr
  /\ buffers' = buffers

Outcome(t, c) ==
  \/ GoesHome(t) /\ (buffers' = buffers \/ MakesRoom(t))
  \/ Moves(t, "blocking", c) /\ via' = via /\ buffers' = buffers
  \/ GoesIn(t, c)

LEMMA Attempted ==
  ASSUME Typed, NEW t \in {Writer, Reader}, NEW c \in Call, MayCall(t, c), Attempt(t, c)
  PROVE  /\ Outcome(t, c)
         /\ rcvr' = rcvr /\ killnow' = killnow /\ overtaken' = overtaken /\ peeked' \in BOOLEAN
<1>1. /\ t \in Thread /\ pc \in [Thread -> Places] /\ call \in [Thread -> Call]
      /\ via \in [Thread -> 1..2] /\ rcvr \in 1..2 /\ sndr \in 1..2 /\ peeked \in BOOLEAN
      /\ Writer # Reader
  BY Threads, TypesOf
<1>2. rcvr' = rcvr /\ killnow' = killnow /\ overtaken' = overtaken
  BY DEF Attempt
<1>3. Return(t) => Moves(t, "idle", NoCall)
  BY <1>1, NoCallTyped DEF Return, Moves, Places
<1>4. CASE ReturnKilled(t, c)
  BY <1>1, <1>2, <1>3, <1>4 DEF ReturnKilled, Outcome, GoesHome
<1>5. CASE DoBlockTillReady(t, c)
  BY <1>1, <1>2, <1>3, <1>5 DEF DoBlockTillReady, Outcome, GoesHome
<1>6. CASE DoPeekToPop(t, c)
  BY <1>1, <1>2, <1>3, <1>6 DEF DoPeekToPop, Outcome, GoesHome
<1>7. CASE ~killnow /\ Ready(c) /\ DoPeekToPush(t, c)
  <2>1. t = Writer /\ ~IsFull(Rcvr)
    BY <1>7 DEF DoPeekToPush, MayCall, Ready, PopCalls, PushCalls
  <2>2. buffers' = buffers \/ Puts(rcvr, MakeRoom(Rcvr))
    BY <1>7 DEF DoPeekToPush, Puts, Rcvr
  <2> QED BY <1>1, <1>2, <1>3, <1>7, <2>1, <2>2 DEF DoPeekToPush, Outcome, GoesHome, MakesRoom
<1>8. CASE ~killnow /\ Ready(c) /\ GoInside(t, c)
  <2>1. Moves(t, "inside", c)
    BY <1>1, <1>8 DEF GoInside, Moves, Places
  <2>2. via' \in [Thread -> 1..2] /\ \A u \in Thread \ {t} : via'[u] = via[u]
    BY <1>1, <1>8 DEF GoInside
  <2>3. t = Writer => ~IsFull(Rcvr) /\ via'[t] = rcvr
    BY <1>1, <1>8 DEF GoInside, MayCall, Ready, PushCalls
  <2>4. t = Reader => ~IsEmpty(Sndr) /\ via'[t] = sndr
    BY <1>1, <1>8 DEF GoInside, MayCall, Ready, PushCalls, PopCalls
  <2> QED BY <1>1, <1>2, <1>8, <2>1, <2>2, <2>3, <2>4 DEF GoInside, Outcome, GoesIn
<1>9. CASE /\ pc' = [pc EXCEPT ![t] = "blocking"]
           /\ call' = [call EXCEPT ![t] = c]
           /\ UNCHANGED <<buffers, via, peeked>>
  <2>1. Moves(t, "blocking", c)
    BY <1>1, <1>9 DEF Moves, Places
  <2> QED BY <1>1, <1>2, <1>9, <2>1 DEF Outcome
<1> QED BY <1>4, <1>5, <1>6, <1>7, <1>8, <1>9 DEF Attempt

LEMMA AttemptBasics ==
  ASSUME Typed, CallsOK, NEW t \in {Writer, Reader}, NEW c \in Call, MayCall(t, c), Attempt(t, c)
  PROVE  Typed' /\ CallsOK'
<1>1. /\ Outcome(t, c)
      /\ rcvr' = rcvr /\ killnow' = killnow /\ overtaken' = overtaken /\ peeked' \in BOOLEAN
  BY Attempted
<1>2. \/ buffers' = buffers
      \/ \E i \in 1..2 : \E q : QueueTypeOK(q) /\ Puts(i, q)
  BY <1>1, TypesOf, UpdatesTyped DEF Outcome, GoesIn, MakesRoom, Rcvr
<1>3. /\ pc' \in [Thread -> Places] /\ call' \in [Thread -> Call]
      /\ via' \in [Thread -> 1..2]
  BY <1>1, TypesOf DEF Outcome, GoesIn, GoesHome, Moves
<1>4. Typed'
  BY <1>1, <1>2, <1>3, BuffersTyped, TypedPrime, TypesOf
<1>5. t = Reader => c.op \in PopCalls
  BY Threads DEF MayCall
<1>6. ASSUME GoesHome(t) PROVE CallsOK'
  BY <1>6, CallsMoved, NoCallTyped DEF GoesHome, Called
<1>7. ASSUME Moves(t, "blocking", c) PROVE CallsOK'
  BY <1>5, <1>7, CallsMoved DEF Called
<1>8. ASSUME GoesIn(t, c) PROVE CallsOK'
  BY <1>5, <1>8, CallsMoved DEF GoesIn, Called
<1> QED BY <1>1, <1>4, <1>6, <1>7, <1>8 DEF Outcome

-----------------------------------------------------------------------------
(* The steps of a thread that is in a call. *)

\* t moves on without touching the queues.
Advances(t) ==
  /\ UNCHANGED <<buffers, rcvr, overtaken>>
  /\ via' \in [Thread -> 1..2] /\ \A u \in Thread \ {t} : via'[u] = via[u]
  /\ \/ Moves(t, "idle", NoCall)
     \/ pc[t] = "inside" /\ Moves(t, "swapper", call[t])
     \/ pc[t] = "blocking" /\ Moves(t, "waiting", call[t])
     \/ pc[t] = "waiting" /\ Moves(t, "woken", call[t])

\* t does its work inside a queue.
Works(t) ==
  /\ UNCHANGED <<rcvr, overtaken>>
  /\ via' \in [Thread -> 1..2] /\ \A u \in Thread \ {t} : via'[u] = via[u]
  /\ pc[t] = "inside" /\ Moves(t, "swapper", call[t])
  /\ \E i \in {via[t], IF call[t].op = "pop" THEN sndr ELSE rcvr} :
       /\ i \in 1..2 /\ ~buffers[i].killnow
       /\ IF call[t].op = "pop" THEN ReadyToPop(buffers[i]) ELSE ReadyToPush(buffers[i])
       /\ ~Throws(buffers[i], call[t])
       /\ Puts(i, Inner(buffers[i], call[t]))

DecidesToSwap(t) ==
  /\ SwapDue
  /\ pc[t] = "swapper" /\ Moves(t, "swapping", call[t])
  /\ overtaken' = (overtaken \/ SwapPending)
  /\ UNCHANGED <<buffers, rcvr, via>>

Swaps(t) ==
  /\ pc[t] = "swapping" /\ Moves(t, "idle", NoCall)
  /\ rcvr' = sndr
  /\ Puts(sndr, Clear(Sndr))
  /\ UNCHANGED <<via, overtaken>>

\* t has been woken, and attempts its call again.
Resumes(t) ==
  /\ pc[t] = "woken" /\ MayCall(t, call[t]) /\ Outcome(t, call[t])
  /\ UNCHANGED <<rcvr, overtaken>>

LEMMA CallSteps ==
  ASSUME Typed, CallsOK, NEW t \in {Writer, Reader}, CallStep(t)
  PROVE  /\ Advances(t) \/ Works(t) \/ DecidesToSwap(t) \/ Swaps(t) \/ Resumes(t)
         /\ killnow' = killnow /\ peeked' \in BOOLEAN
<1>1. /\ t \in Thread /\ pc \in [Thread -> Places] /\ call \in [Thread -> Call]
      /\ via \in [Thread -> 1..2] /\ rcvr \in 1..2 /\ sndr \in 1..2 /\ peeked \in BOOLEAN
  BY Threads, TypesOf
<1>2. Return(t) => Moves(t, "idle", NoCall)
  BY <1>1, NoCallTyped DEF Return, Moves, Places
<1>3. CASE Block(t)
  BY <1>1, <1>3 DEF Block, Advances, Moves, Places
<1>4. CASE Resume(t)
  <2>1. call[t] \in Call /\ MayCall(t, call[t]) /\ pc[t] = "woken" /\ Attempt(t, call[t])
    BY <1>1, <1>4 DEF Resume, MayCall, CallsOK, Called
  <2>2. /\ Outcome(t, call[t])
        /\ rcvr' = rcvr /\ killnow' = killnow /\ overtaken' = overtaken /\ peeked' \in BOOLEAN
    BY <2>1, Attempted
  <2> QED BY <2>1, <2>2 DEF Resumes
<1>5. CASE Expire(t)
  BY <1>1, <1>2, <1>5 DEF Expire, Advances
<1>6. CASE Wakeup(t)
  BY <1>1, <1>6 DEF Wakeup, Advances, Moves, Places
<1>7. CASE Inside(t)
  <2> DEFINE c == call[t]
  <2>1. PICK i \in {via[t], IF c.op = "pop" THEN sndr ELSE rcvr} :
          /\ pc[t] = "inside"
          /\ buffers[i].killnow \/ (IF c.op = "pop" THEN ReadyToPop(buffers[i]) ELSE ReadyToPush(buffers[i]))
          /\ IF Throws(buffers[i], c) THEN UNCHANGED buffers /\ Return(t)
             ELSE /\ buffers' = [buffers EXCEPT ![i] = Inner(@, c)]
                  /\ pc' = [pc EXCEPT ![t] = "swapper"]
                  /\ UNCHANGED call
    BY <1>7 DEF Inside
  <2>2. via' \in [Thread -> 1..2] /\ \A u \in Thread \ {t} : via'[u] = via[u]
    BY <1>1, <1>7 DEF Inside
  <2>3. UNCHANGED <<rcvr, killnow, overtaken>> /\ peeked' \in BOOLEAN
    BY <1>1, <1>7 DEF Inside
  <2>4. i \in 1..2 /\ c \in Call
    BY <1>1, <2>1
  <2>5. CASE Throws(buffers[i], c)
    BY <1>2, <2>1, <2>2, <2>3, <2>5 DEF Advances
  <2>6. CASE ~Throws(buffers[i], c)
    <3>1. Moves(t, "swapper", c) /\ Puts(i, Inner(buffers[i], c))
      BY <1>1, <2>1, <2>4, <2>6 DEF Moves, Puts, Places
    <3>2. CASE buffers[i].killnow
      <4>1. buffers' = buffers
        BY <3>1, <3>2, <2>4, TypesOf DEF Inner, Puts, Typed
      <4> QED BY <2>1, <2>2, <2>3, <3>1, <4>1 DEF Advances
    <3>3. CASE ~buffers[i].killnow
      BY <2>1, <2>2, <2>3, <2>4, <2>6, <3>1, <3>3 DEF Works
    <3> QED BY <3>2, <3>3
  <2> QED BY <2>5, <2>6
<1>8. CASE PushTooLate(t)
  BY <1>1, <1>2, <1>8 DEF PushTooLate, Advances
<1>9. CASE Swapper(t)
  <2>1. CASE SwapDue
    <3>1. pc[t] = "swapper" /\ Moves(t, "swapping", call[t])
      BY <1>1, <1>9, <2>1 DEF Swapper, Moves, Places
    <3> QED BY <1>1, <1>9, <2>1, <3>1 DEF Swapper, DecidesToSwap
  <2>2. CASE ~SwapDue
    BY <1>1, <1>2, <1>9, <2>2 DEF Swapper, Advances
  <2> QED BY <2>1, <2>2
<1>10. CASE Swap(t)
  <2>1. Moves(t, "idle", NoCall)
    BY <1>1, <1>10, NoCallTyped DEF Swap, NotifyOne, Moves, Places
  <2> QED BY <1>1, <1>10, <2>1 DEF Swap, Swaps, Puts, Sndr
<1> QED BY <1>3, <1>4, <1>5, <1>6, <1>7, <1>8, <1>9, <1>10 DEF CallStep

LEMMA CallBasics ==
  ASSUME Typed, CallsOK, NEW t \in {Writer, Reader}, CallStep(t)
  PROVE  Typed' /\ CallsOK'
<1>1. /\ Advances(t) \/ Works(t) \/ DecidesToSwap(t) \/ Swaps(t) \/ Resumes(t)
      /\ killnow' \in BOOLEAN /\ peeked' \in BOOLEAN
  BY CallSteps, TypesOf
<1>2. t \in Thread /\ call[t] \in Call /\ (t = Reader => call[t].op \in PopCalls)
  BY Threads, TypesOf DEF CallsOK
<1>3. \/ buffers' = buffers
      \/ \E i \in 1..2 : \E q : QueueTypeOK(q) /\ Puts(i, q)
  <2>1. CASE Works(t)
    <3>1. PICK i \in 1..2 : Puts(i, Inner(buffers[i], call[t]))
      BY <2>1, TypesOf DEF Works
    <3>2. QueueTypeOK(Inner(buffers[i], call[t]))
      BY <1>2, <2>1, InnerTyped, TypesOf DEF Works, CallsOK
    <3> QED BY <3>1, <3>2
  <2>2. CASE Swaps(t)
    <3>1. QueueTypeOK(Clear(Sndr)) /\ Puts(sndr, Clear(Sndr)) /\ sndr \in 1..2
      BY <2>2, UpdatesTyped, TypesOf DEF Swaps, Sndr
    <3> QED BY <3>1
  <2>3. CASE Resumes(t)
    BY <2>3, UpdatesTyped, TypesOf DEF Resumes, Outcome, GoesIn, MakesRoom, Rcvr
  <2> QED BY <1>1, <2>1, <2>2, <2>3 DEF Advances, DecidesToSwap
<1>4. /\ rcvr' \in 1..2 /\ overtaken' \in BOOLEAN
      /\ pc' \in [Thread -> Places] /\ call' \in [Thread -> Call] /\ via' \in [Thread -> 1..2]
  BY <1>1, TypesOf DEF Advances, Works, DecidesToSwap, Swaps, Resumes, Outcome, GoesIn, GoesHome,
     Moves, SwapPending
<1>5. Typed'
  BY <1>1, <1>3, <1>4, BuffersTyped, TypedPrime
<1>6. ASSUME Moves(t, "idle", NoCall) PROVE CallsOK'
  BY <1>6, CallsMoved, NoCallTyped DEF Called
<1>7. ASSUME NEW to \in {"waiting", "woken", "swapper", "swapping", "blocking", "inside"},
             Moves(t, to, call[t]), to \in Called => MayCall(t, call[t]),
             to = "inside" => call[t].op \in {"push", "markPopulated", "pop"}
      PROVE  CallsOK'
  BY <1>2, <1>7, CallsMoved DEF Called
<1>8. CASE Advances(t)
  <2>1. pc[t] \in Called => MayCall(t, call[t])
    BY DEF CallsOK, MayCall
  <2> QED BY <1>5, <1>6, <1>7, <1>8, <2>1 DEF Advances, Called
<1>9. CASE Works(t) \/ DecidesToSwap(t) \/ Swaps(t)
  BY <1>5, <1>6, <1>7, <1>9 DEF Works, DecidesToSwap, Swaps, Called
<1>10. CASE Resumes(t)
  BY <1>5, <1>6, <1>7, <1>10 DEF Resumes, Outcome, GoesIn, GoesHome, Called
<1> QED BY <1>1, <1>8, <1>9, <1>10

LEMMA Basics ==
  ASSUME Typed, CallsOK, [Next]_vars
  PROVE  Typed' /\ CallsOK'
<1>1. /\ pc \in [Thread -> Places] /\ call \in [Thread -> Call] /\ via \in [Thread -> 1..2]
      /\ rcvr \in 1..2 /\ sndr \in 1..2
      /\ killnow \in BOOLEAN /\ peeked \in BOOLEAN /\ overtaken \in BOOLEAN
      /\ \A i \in 1..2 : QueueTypeOK(buffers[i])
  BY TypesOf
<1>2. ASSUME buffers' \in [1..2 -> Queue], \A i \in 1..2 : QueueTypeOK(buffers'[i]),
             UNCHANGED <<rcvr, pc, call, via, peeked>>, killnow' \in BOOLEAN, overtaken' \in BOOLEAN
      PROVE  Typed' /\ CallsOK'
  BY <1>1, <1>2, TypedPrime DEF CallsOK
<1>3. ASSUME NEW i \in 1..2, NEW q, QueueTypeOK(q), Puts(i, q),
             UNCHANGED <<rcvr, pc, call, via, peeked>>, killnow' \in BOOLEAN, overtaken' \in BOOLEAN
      PROVE  Typed' /\ CallsOK'
  BY <1>2, <1>3, BuffersTyped
<1>4. CASE UNCHANGED vars
  BY <1>1, <1>2, <1>4, BuffersTyped DEF vars
<1>5. ASSUME NEW c \in Call, WriterWaits(c) PROVE Typed' /\ CallsOK'
  <2>1. MayCall(Writer, c) /\ Attempt(Writer, c)
    BY <1>5 DEF WriterWaits, MayCall
  <2> QED BY <2>1, AttemptBasics
<1>6. ASSUME NEW c \in Call, ReaderWaits(c) PROVE Typed' /\ CallsOK'
  <2>1. MayCall(Reader, c) /\ Attempt(Reader, c)
    BY <1>6 DEF ReaderWaits, MayCall
  <2> QED BY <2>1, AttemptBasics
<1>7. ASSUME NEW x \in Frame \cup {Null}, TryToPush(x) PROVE Typed' /\ CallsOK'
  <2> DEFINE c == [op |-> "push", arg |-> x, timed |-> FALSE]
  <2>1. c \in Call /\ c.op = "push"
    BY DEF Call, PushCalls
  <2>2. QueueTypeOK(Inner(Rcvr, c)) /\ Puts(rcvr, Inner(Rcvr, c))
    BY <1>1, <1>7, <2>1, InnerTyped DEF TryToPush, Puts, Rcvr
  <2> QED BY <1>1, <1>3, <1>7, <2>2 DEF TryToPush
<1>8. CASE WriterPopLastPushed
  <2>1. QueueTypeOK(PopLastPushed(Rcvr)) /\ Puts(rcvr, PopLastPushed(Rcvr))
    BY <1>1, <1>8, UpdatesTyped DEF WriterPopLastPushed, Puts, Rcvr
  <2>2. overtaken' \in BOOLEAN
    BY <1>1, <1>8 DEF WriterPopLastPushed, SwapPending
  <2> QED BY <1>1, <1>3, <1>8, <2>1, <2>2 DEF WriterPopLastPushed
<1>9. CASE TryToPop
  <2>1. QueueTypeOK(Pop(Sndr)) /\ Puts(sndr, Pop(Sndr))
    BY <1>1, <1>9, UpdatesTyped DEF TryToPop, Puts, Sndr
  <2> QED BY <1>1, <1>3, <1>9, <2>1 DEF TryToPop
<1>10. ASSUME pc'[Owner] \in {"idle", "kill_1", "kill_2", "kill_notify"},
              pc' \in [Thread -> Places],
              \A t \in {Writer, Reader} : pc'[t] = pc[t] \/ (pc[t] = "waiting" /\ pc'[t] = "woken"),
              UNCHANGED <<rcvr, call, via, peeked, overtaken>>, killnow' \in BOOLEAN,
              \/ buffers' = buffers
              \/ \E i \in 1..2 : \E q : QueueTypeOK(q) /\ Puts(i, q)
       PROVE  Typed' /\ CallsOK'
  BY <1>1, <1>10, BuffersTyped, TypedPrime, CallsStay
<1>11. CASE Kill
  BY <1>1, <1>10, <1>11, Threads DEF Kill, Places
<1>12. ASSUME NEW i \in 1..2, KillBuffer(i) PROVE Typed' /\ CallsOK'
  <2>1. QueueTypeOK(Killed(buffers[i])) /\ Puts(i, Killed(buffers[i]))
    BY <1>1, <1>12, UpdatesTyped DEF KillBuffer, Puts
  <2> QED BY <1>1, <1>10, <1>12, <2>1, Threads DEF KillBuffer, Places
<1>13. CASE KillNotify
  BY <1>1, <1>10, <1>13, Threads DEF KillNotify, Places
<1>14. ASSUME NEW method, NEW which, OwnerClear(method, which) PROVE Typed' /\ CallsOK'
  <2>1. \A i \in 1..2 : QueueTypeOK(buffers'[i]) /\ buffers'[i] \in Queue
    BY <1>1, <1>14, UpdatesTyped DEF OwnerClear, QueueTypeOK
  <2>2. buffers' \in [1..2 -> Queue]
    BY <1>14, <2>1 DEF OwnerClear
  <2> QED BY <1>1, <1>2, <1>14, <2>1, <2>2 DEF OwnerClear
<1>15. CASE OwnerClrEof
  <2>1. \A i \in 1..2 : QueueTypeOK(buffers'[i]) /\ buffers'[i] \in Queue
    BY <1>1, <1>15, UpdatesTyped DEF OwnerClrEof, QueueTypeOK
  <2>2. buffers' \in [1..2 -> Queue]
    BY <1>15, <2>1 DEF OwnerClrEof
  <2> QED BY <1>1, <1>2, <1>15, <2>1, <2>2 DEF OwnerClrEof
<1> QED BY <1>4, <1>5, <1>6, <1>7, <1>8, <1>9, <1>11, <1>12, <1>13, <1>14, <1>15, CallBasics
        DEF Next, WriterStep, ReaderStep, OwnerStep

-----------------------------------------------------------------------------
(* What a step does to the stream through the two queues. *)

Kept ==
  rcvr' = rcvr /\ Keeps(Rcvr, buffers'[rcvr]) /\ Keeps(Sndr, buffers'[sndr])

Pushed(x) ==
  /\ rcvr' = rcvr /\ Appends(Rcvr, buffers'[rcvr], x) /\ Keeps(Sndr, buffers'[sndr])
  /\ ~Ended(Sndr)

Popped ==
  rcvr' = rcvr /\ Keeps(Rcvr, buffers'[rcvr]) /\ Takes(Sndr, buffers'[sndr])

TookBack ==
  /\ rcvr' = rcvr
  /\ \/ TakesBack(Rcvr, buffers'[rcvr]) /\ Keeps(Sndr, buffers'[sndr])
     \/ Ended(Sndr) /\ Keeps(Rcvr, buffers'[rcvr]) /\ TakesBack(Sndr, buffers'[sndr])

Cleared ==
  /\ Quiet /\ rcvr' = rcvr
  /\ \/ Empties(Rcvr, buffers'[rcvr]) /\ Empties(Sndr, buffers'[sndr])
     \/ Empties(Rcvr, buffers'[rcvr]) /\ Keeps(Sndr, buffers'[sndr])
     \/ Keeps(Rcvr, buffers'[rcvr]) /\ Empties(Sndr, buffers'[sndr])

Swapped ==
  /\ rcvr' = sndr /\ Keeps(Rcvr, buffers'[rcvr]) /\ Empties(Sndr, buffers'[sndr])
  /\ Contents(Sndr) = <<>> /\ (IsFull(Rcvr) \/ Ended(Rcvr))

StreamStep ==
  Kept \/ (\E x \in Frame \cup {Null} : Pushed(x)) \/ Popped \/ TookBack \/ Cleared \/ Swapped

LEMMA BothOK ==
  ASSUME Typed, QueuesOK
  PROVE  /\ QueueOK(Rcvr) /\ QueueOK(Sndr)
         /\ Keeps(Rcvr, Rcvr) /\ Keeps(Sndr, Sndr)
         /\ IsEmpty(Sndr) <=> Contents(Sndr) = <<>>
         /\ HasEof(Rcvr) => Ended(Rcvr)
         /\ IsFull(Rcvr) => Contents(Rcvr) # <<>>
BY TypesOf, StreamQueries DEF QueuesOK, Rcvr, Sndr, Keeps

LEMMA FullKept ==
  ASSUME NEW a, NEW b, QueueOK(a), Keeps(a, b)
  PROVE  IsFull(b) <=> IsFull(a)
BY StreamQueries DEF Keeps

\* The queues stay as they should be.
LEMMA QueuesKept ==
  ASSUME Typed, Typed', QueuesOK, StreamStep,
         pc'[Writer] \in Called => ~Ended(Rcvr) /\ ~Ended(Sndr) /\ (Kept \/ Popped \/ Swapped)
  PROVE  QueuesOK'
<1> DEFINE r == buffers'[rcvr]
           s == buffers'[sndr]
<1>1. rcvr \in 1..2 /\ sndr \in 1..2 /\ sndr # rcvr /\ 3 - sndr = rcvr /\ 3 - rcvr = sndr
  BY TypesOf DEF sndr
<1>2. QueueOK(r) /\ QueueOK(s) /\ Capacity(r) = Capacity(s)
  BY DEF StreamStep, Kept, Pushed, Popped, TookBack, Cleared, Swapped, Keeps, Appends, Takes,
         TakesBack, Empties, QueuesOK
<1>3. \A i \in 1..2 : QueueOK(buffers'[i])
  BY <1>1, <1>2
<1>4. CASE rcvr' = rcvr
  <2>1. Rcvr' = r /\ Sndr' = s
    BY <1>1, <1>4, Primes DEF sndr
  <2>2. Ended(r) => Contents(r) # <<>>
    <3>1. ASSUME NEW x, Pushed(x) PROVE Contents(r) # <<>>
      <4>1. Contents(r) = Append(Contents(Rcvr), x) /\ Contents(Rcvr) \in Seq(Frame \cup {Null})
        BY <3>1, BothOK, StreamQueries DEF Pushed, Appends
      <4> DEFINE c == Contents(Rcvr)
      <4>2. c \in Seq(Frame \cup {Null}) /\ Contents(r) = Append(c, x)
        BY <4>1
      <4> HIDE DEF c
      <4>3. Len(c) \in Nat /\ Len(Append(c, x)) = Len(c) + 1
        BY <4>2
      <4>4. Append(c, x) # <<>>
        BY <4>3
      <4> QED BY <4>2, <4>4
    <3>2. CASE ~\E x : Pushed(x)
      BY <1>1, <1>4, <3>2 DEF StreamStep, Kept, Popped, TookBack, Cleared, Swapped, Keeps, Takes,
         TakesBack, Empties, QueuesOK
    <3> QED BY <3>1, <3>2
  <2>3. Ended(s) => Contents(r) = <<>>
    BY <1>1, <1>4 DEF StreamStep, Kept, Pushed, Popped, TookBack, Cleared, Swapped, Keeps, Appends,
       Takes, TakesBack, Empties, QueuesOK
  <2>4. pc'[Writer] \in Called => ~Ended(r) /\ ~Ended(s)
    BY <1>1, <1>4 DEF Kept, Popped, Swapped, Keeps, Takes
  <2> QED BY <1>2, <1>3, <2>1, <2>2, <2>3, <2>4, Primes DEF QueuesOK
<1>5. CASE Swapped
  <2>1. Rcvr' = s /\ Sndr' = r
    BY <1>1, <1>5, Primes DEF Swapped
  <2> QED BY <1>2, <1>3, <1>5, <2>1, Primes DEF QueuesOK, Swapped, Keeps, Empties
<1> QED BY <1>4, <1>5 DEF StreamStep, Kept, Pushed, Popped, TookBack, Cleared

\* Both threads stay where they are, or are out of the queues.
LEMMA PlacesMoved ==
  ASSUME Typed, QueuesOK, PlacesOK, Kept,
         \A t \in {Writer, Reader} :
           \/ pc'[t] = pc[t] /\ via'[t] = via[t]
           \/ pc'[t] \in {"idle", "blocking", "waiting", "woken", "swapper"}
  PROVE  PlacesOK'
<1>1. rcvr \in 1..2 /\ sndr \in 1..2 /\ 3 - rcvr = sndr
  BY TypesOf DEF sndr
<1>2. rcvr' = rcvr /\ sndr' = sndr /\ Rcvr' = buffers'[rcvr] /\ Sndr' = buffers'[sndr]
  BY <1>1, Primes DEF Kept
<1>3. /\ IsFull(Rcvr)' <=> IsFull(Rcvr)
      /\ Contents(Sndr)' = Contents(Sndr)
      /\ Ended(Rcvr)' <=> Ended(Rcvr)
  BY <1>2, BothOK, FullKept, Primes DEF Kept, Keeps
<1> QED BY <1>2, <1>3 DEF PlacesOK

\* Nobody is about to swap.
LEMMA PlacesFree ==
  ASSUME Typed, rcvr' = rcvr,
         \A t \in {Writer, Reader} : pc'[t] # "swapping",
         pc'[Writer] = "inside" => ~IsFull(buffers'[rcvr]) /\ via'[Writer] = rcvr,
         pc'[Reader] = "inside" => Contents(buffers'[sndr]) # <<>> /\ via'[Reader] = sndr
  PROVE  PlacesOK'
<1>1. rcvr' = rcvr /\ sndr' = sndr /\ Rcvr' = buffers'[rcvr] /\ Sndr' = buffers'[sndr]
  BY Primes DEF sndr
<1> QED BY <1>1, Primes DEF PlacesOK

\* A thread that is about to swap shuts both queues.
LEMMA SwappingShuts ==
  ASSUME Typed, PlacesOK,
         (~IsFull(Rcvr) /\ ~Ended(Rcvr)) \/ Contents(Sndr) # <<>>
  PROVE  \A t \in {Writer, Reader} : pc[t] # "swapping"
BY DEF PlacesOK

-----------------------------------------------------------------------------
(* Every step keeps the invariant, as long as no swap is overtaken. *)

Good == StreamStep /\ QueuesOK' /\ PlacesOK'

Both == Typed /\ CallsOK /\ QueuesOK /\ PlacesOK

\* A put on one queue, seen from both.
LEMMA PutOne ==
  ASSUME Typed
  PROVE  /\ \A q : Puts(rcvr, q) => buffers'[rcvr] = q /\ buffers'[sndr] = Sndr
         /\ \A q : Puts(sndr, q) => buffers'[sndr] = q /\ buffers'[rcvr] = Rcvr
         /\ buffers' = buffers => buffers'[rcvr] = Rcvr /\ buffers'[sndr] = Sndr
BY TypesOf DEF Puts, Rcvr, Sndr

LEMMA OutcomeGood ==
  ASSUME Both, Typed', NEW t \in {Writer, Reader}, NEW c \in Call, Outcome(t, c), rcvr' = rcvr,
         t = Writer => ~Ended(Rcvr) /\ ~Ended(Sndr)
  PROVE  Good
<1>1. /\ Typed /\ QueuesOK /\ PlacesOK /\ t \in Thread /\ QueueOK(Rcvr) /\ QueueOK(Sndr)
      /\ Writer \in Thread /\ Reader \in Thread /\ Writer # Reader
      /\ Keeps(Rcvr, Rcvr) /\ Keeps(Sndr, Sndr)
  BY BothOK, Threads DEF Both
<1>2. Kept
  <2>1. CASE buffers' = buffers
    BY <1>1, <2>1, PutOne DEF Kept
  <2>2. CASE MakesRoom(t)
    <3>1. ReadyToPush(Rcvr) /\ ~Ended(Rcvr)
      BY <1>1, <2>2, StreamQueries DEF MakesRoom
    <3>2. Keeps(Rcvr, MakeRoom(Rcvr))
      BY <1>1, <3>1, MakeRoomKeeps
    <3> QED BY <1>1, <2>2, <3>2, PutOne DEF Kept, MakesRoom
  <2> QED BY <2>1, <2>2 DEF Outcome, GoesIn
<1>3. pc'[Writer] \in Called => ~Ended(Rcvr) /\ ~Ended(Sndr)
  <2>1. CASE t = Writer
    BY <2>1
  <2>2. CASE t = Reader
    BY <1>1, <2>2 DEF Outcome, GoesHome, GoesIn, Moves, QueuesOK, Called
  <2> QED BY <2>1, <2>2
<1>4. QueuesOK'
  BY <1>1, <1>2, <1>3, QueuesKept DEF StreamStep
<1>5. CASE GoesIn(t, c)
  <2>1. buffers'[rcvr] = Rcvr /\ buffers'[sndr] = Sndr
    BY <1>1, <1>5, PutOne DEF GoesIn
  <2>2. \A u \in {Writer, Reader} : pc[u] # "swapping"
    <3>1. (~IsFull(Rcvr) /\ ~Ended(Rcvr)) \/ Contents(Sndr) # <<>>
      BY <1>1, <1>5, BothOK DEF GoesIn
    <3> QED BY <1>1, <3>1, SwappingShuts
  <2>3. \A u \in {Writer, Reader} : pc'[u] # "swapping"
    BY <1>1, <1>5, <2>2 DEF GoesIn, Moves
  <2>4. pc'[Writer] = "inside" => ~IsFull(buffers'[rcvr]) /\ via'[Writer] = rcvr
    BY <1>1, <1>5, <2>1 DEF GoesIn, Moves, PlacesOK
  <2>5. pc'[Reader] = "inside" => Contents(buffers'[sndr]) # <<>> /\ via'[Reader] = sndr
    BY <1>1, <1>5, <2>1, BothOK DEF GoesIn, Moves, PlacesOK
  <2>6. PlacesOK'
    BY <1>1, <2>3, <2>4, <2>5, PlacesFree
  <2> QED BY <1>2, <1>4, <2>6 DEF Good, StreamStep
<1>6. CASE ~GoesIn(t, c)
  <2>1. \A u \in {Writer, Reader} :
          \/ pc'[u] = pc[u] /\ via'[u] = via[u]
          \/ pc'[u] \in {"idle", "blocking", "waiting", "woken", "swapper"}
    BY <1>1, <1>6 DEF Outcome, GoesHome, Moves
  <2>2. PlacesOK'
    BY <1>1, <1>2, <2>1, PlacesMoved
  <2> QED BY <1>2, <1>4, <2>2 DEF Good, StreamStep
<1> QED BY <1>5, <1>6

LEMMA AdvancesGood ==
  ASSUME Both, Typed', NEW t \in {Writer, Reader}, Advances(t)
  PROVE  Good
<1>1. /\ Typed /\ QueuesOK /\ PlacesOK /\ t \in Thread
      /\ Writer \in Thread /\ Reader \in Thread /\ Writer # Reader
      /\ Keeps(Rcvr, Rcvr) /\ Keeps(Sndr, Sndr)
  BY BothOK, Threads DEF Both
<1>2. Kept
  BY <1>1, PutOne DEF Kept, Advances
<1>3. pc'[Writer] \in Called => pc[Writer] \in Called
  BY <1>1 DEF Advances, Moves, Called
<1>4. QueuesOK'
  BY <1>1, <1>2, <1>3, QueuesKept DEF StreamStep, QueuesOK
<1>5. \A u \in {Writer, Reader} :
        \/ pc'[u] = pc[u] /\ via'[u] = via[u]
        \/ pc'[u] \in {"idle", "blocking", "waiting", "woken", "swapper"}
  BY <1>1 DEF Advances, Moves
<1>6. PlacesOK'
  BY <1>1, <1>2, <1>5, PlacesMoved
<1> QED BY <1>2, <1>4, <1>6 DEF Good, StreamStep

LEMMA WorksGood ==
  ASSUME Both, Typed', NEW t \in {Writer, Reader}, Works(t)
  PROVE  Good
<1> DEFINE c == call[t]
<1>1. /\ Typed /\ CallsOK /\ QueuesOK /\ PlacesOK /\ t \in Thread /\ QueueOK(Rcvr) /\ QueueOK(Sndr)
      /\ Writer \in Thread /\ Reader \in Thread /\ Writer # Reader
      /\ Keeps(Rcvr, Rcvr) /\ Keeps(Sndr, Sndr)
      /\ c \in Call /\ c.op \in {"push", "markPopulated", "pop"} /\ c.arg \in Frame \cup {Null}
      /\ rcvr' = rcvr
  BY BothOK, Threads, TypesOf DEF Both, Works, CallsOK, Call
<1>2. \A u \in {Writer, Reader} : pc[u] # "swapping"
  BY <1>1 DEF PlacesOK, Works
<1>3. \A u \in {Writer, Reader} : pc'[u] # "swapping"
  BY <1>1, <1>2 DEF Works, Moves
<1>4. CASE t = Writer
  <2>1. c.op \in {"push", "markPopulated"} /\ (c.op = "markPopulated" => c.arg \in Frame)
    BY <1>1, <1>4 DEF CallsOK, Called, Works, PushCalls
  <2>2. ~IsFull(Rcvr) /\ via[t] = rcvr /\ ~Ended(Rcvr) /\ ~Ended(Sndr)
    BY <1>1, <1>4 DEF PlacesOK, QueuesOK, Works, Called
  <2>3. ReadyToPush(Rcvr)
    BY <1>1, <2>2, StreamQueries
  <2>4. ~Rcvr.killnow /\ ~Throws(Rcvr, c) /\ Puts(rcvr, Inner(Rcvr, c))
    BY <2>1, <2>2 DEF Works, Rcvr
  <2>5. Appends(Rcvr, Inner(Rcvr, c), c.arg)
    <3>1. CASE c.op = "push"
      <4>1. Inner(Rcvr, c) = Push(Rcvr, c.arg)
        BY <2>4, <3>1 DEF Inner
      <4> QED BY <1>1, <2>2, <2>3, <4>1, PushAppends
    <3>2. CASE c.op = "markPopulated"
      <4>1. Inner(Rcvr, c) = MarkPopulated(Rcvr, c.arg)
        BY <2>4, <3>2 DEF Inner
      <4>2. ~Rcvr.que[Rcvr.wr].populated
        BY <2>4, <3>2 DEF Throws
      <4> QED BY <1>1, <2>1, <2>2, <2>3, <3>2, <4>1, <4>2, MarkAppends
    <3> QED BY <2>1, <3>1, <3>2
  <2>6. Pushed(c.arg)
    BY <1>1, <2>2, <2>4, <2>5, PutOne DEF Pushed
  <2>7. pc'[Writer] \notin Called
    BY <1>1, <1>4 DEF Works, Moves, Called
  <2>8. QueuesOK'
    BY <1>1, <2>6, <2>7, QueuesKept DEF StreamStep
  <2>9. pc'[Reader] = "inside" => Contents(buffers'[sndr]) # <<>> /\ via'[Reader] = sndr
    <3>1. buffers'[sndr] = Sndr
      BY <1>1, <2>4, PutOne
    <3>2. via'[Reader] = via[Reader] /\ (pc'[Reader] = "inside" => pc[Reader] = "inside")
      BY <1>1, <1>4 DEF Works, Moves
    <3> QED BY <1>1, <3>1, <3>2 DEF PlacesOK
  <2>10. PlacesOK'
    BY <1>1, <1>3, <2>7, <2>9, PlacesFree DEF Called
  <2> QED BY <1>1, <2>6, <2>8, <2>10 DEF Good, StreamStep
<1>5. CASE t = Reader
  <2>1. c.op = "pop"
    BY <1>1, <1>5 DEF CallsOK, PopCalls
  <2>2. Contents(Sndr) # <<>> /\ via[t] = sndr
    BY <1>1, <1>5 DEF PlacesOK, Works
  <2>3. ReadyToPop(Sndr)
    BY <1>1, <2>2, ReadyIsNonEmpty
  <2>4. ~Sndr.killnow /\ Puts(sndr, Inner(Sndr, c))
    BY <2>1, <2>2 DEF Works, Sndr
  <2>5. Inner(Sndr, c) = Pop(Sndr)
    BY <2>1, <2>4 DEF Inner
  <2>6. Takes(Sndr, Inner(Sndr, c))
    BY <1>1, <2>3, <2>5, PopTakes
  <2>7. Popped
    BY <1>1, <2>4, <2>6, PutOne DEF Popped
  <2>8. pc'[Reader] = "swapper" /\ via'[Writer] = via[Writer]
        /\ (pc'[Writer] \in Called => pc[Writer] \in Called)
        /\ (pc'[Writer] = "inside" => pc[Writer] = "inside")
    BY <1>1, <1>5 DEF Works, Moves, Called
  <2>9. QueuesOK'
    BY <1>1, <2>7, <2>8, QueuesKept DEF StreamStep, QueuesOK
  <2>10. buffers'[rcvr] = Rcvr
    BY <1>1, <2>4, PutOne
  <2>11. PlacesOK'
    BY <1>1, <1>3, <2>8, <2>10, PlacesFree DEF PlacesOK
  <2> QED BY <2>7, <2>9, <2>11 DEF Good, StreamStep
<1> QED BY <1>4, <1>5

LEMMA DecidesGood ==
  ASSUME Both, Typed', NEW t \in {Writer, Reader}, DecidesToSwap(t), ~overtaken'
  PROVE  Good
<1>1. /\ Typed /\ QueuesOK /\ PlacesOK /\ t \in Thread
      /\ Writer \in Thread /\ Reader \in Thread /\ Writer # Reader
      /\ Keeps(Rcvr, Rcvr) /\ Keeps(Sndr, Sndr)
  BY BothOK, Threads DEF Both
<1>2. Kept
  BY <1>1, PutOne DEF Kept, DecidesToSwap
<1>3. pc'[Writer] \in Called => pc[Writer] \in Called
  BY <1>1 DEF DecidesToSwap, Moves, Called
<1>4. QueuesOK'
  BY <1>1, <1>2, <1>3, QueuesKept DEF StreamStep, QueuesOK
<1>5. \A u \in {Writer, Reader} : pc[u] # "swapping"
  BY <1>1 DEF DecidesToSwap, SwapPending
<1>6. Contents(Sndr) = <<>> /\ (IsFull(Rcvr) \/ Ended(Rcvr))
  BY <1>1, BothOK DEF DecidesToSwap, SwapDue
<1>7. pc[Writer] # "inside" /\ pc[Reader] # "inside"
  BY <1>1, <1>6 DEF PlacesOK, QueuesOK, Called
<1>8. /\ pc'[Writer] # "inside" /\ pc'[Reader] # "inside"
      /\ ~(pc'[Writer] = "swapping" /\ pc'[Reader] = "swapping")
  BY <1>1, <1>5, <1>7 DEF DecidesToSwap, Moves
<1>9. rcvr' = rcvr /\ sndr' = sndr /\ Rcvr' = Rcvr /\ Sndr' = Sndr
  BY <1>1, PutOne, Primes DEF DecidesToSwap, sndr
<1>10. Contents(Sndr)' = <<>> /\ (IsFull(Rcvr)' \/ Ended(Rcvr)')
  BY <1>6, <1>9, Primes
<1>11. PlacesOK'
  BY <1>8, <1>10 DEF PlacesOK
<1> QED BY <1>2, <1>4, <1>11 DEF Good, StreamStep

LEMMA SwapsGood ==
  ASSUME Both, Typed', NEW t \in {Writer, Reader}, Swaps(t)
  PROVE  Good
<1>1. /\ Typed /\ QueuesOK /\ PlacesOK /\ t \in Thread /\ QueueOK(Sndr)
      /\ Writer \in Thread /\ Reader \in Thread /\ Writer # Reader
      /\ Keeps(Rcvr, Rcvr)
  BY BothOK, Threads DEF Both
<1>2. Contents(Sndr) = <<>> /\ (IsFull(Rcvr) \/ Ended(Rcvr)) /\ pc[Writer] # "inside" /\ pc[Reader] # "inside"
  BY <1>1 DEF PlacesOK, Swaps
<1>3. Swapped
  BY <1>1, <1>2, PutOne, ClearEmpties DEF Swapped, Swaps
<1>4. ~Ended(Sndr)
  BY <1>1, <1>2, BothOK DEF QueuesOK
<1>5. pc'[Writer] \in Called => pc[Writer] \in Called
  BY <1>1 DEF Swaps, Moves, Called
<1>6. QueuesOK'
  BY <1>1, <1>3, <1>5, QueuesKept DEF StreamStep, QueuesOK
<1>7. \A u \in {Writer, Reader} : pc'[u] # "inside" /\ pc'[u] # "swapping"
  BY <1>1, <1>2 DEF Swaps, Moves, PlacesOK
<1>8. PlacesOK'
  BY <1>7 DEF PlacesOK
<1> QED BY <1>3, <1>6, <1>8 DEF Good, StreamStep

LEMMA CallStepGood ==
  ASSUME Both, Typed', NEW t \in {Writer, Reader}, CallStep(t), ~overtaken'
  PROVE  Good
<1>1. CASE Resumes(t)
  <2>1. call[t] \in Call /\ Outcome(t, call[t]) /\ rcvr' = rcvr
    BY <1>1, Threads, TypesOf DEF Resumes, Both
  <2>2. t = Writer => ~Ended(Rcvr) /\ ~Ended(Sndr)
    BY <1>1 DEF Resumes, Both, QueuesOK, Called
  <2> QED BY <2>1, <2>2, OutcomeGood
<1> QED BY <1>1, CallSteps, AdvancesGood, WorksGood, DecidesGood, SwapsGood DEF Both

LEMMA WriterStepGood ==
  ASSUME Both, Typed', WriterStep, ~overtaken'
  PROVE  Good
<1>1. /\ Typed /\ CallsOK /\ QueuesOK /\ PlacesOK /\ QueueOK(Rcvr) /\ QueueOK(Sndr)
      /\ Writer \in Thread /\ Reader \in Thread /\ Writer # Reader
      /\ Keeps(Rcvr, Rcvr) /\ Keeps(Sndr, Sndr)
  BY BothOK, Threads DEF Both
<1>2. ASSUME NEW c \in Call, WriterWaits(c) PROVE Good
  <2>1. MayCall(Writer, c) /\ Attempt(Writer, c) /\ ~Ended(Rcvr) /\ ~Ended(Sndr)
    BY <1>2 DEF WriterWaits, MayCall, MayPush
  <2>2. Outcome(Writer, c) /\ rcvr' = rcvr
    BY <1>1, <2>1, Attempted
  <2> QED BY <2>1, <2>2, OutcomeGood
<1>3. ASSUME UNCHANGED <<rcvr, pc, via>>, pc[Writer] = "idle", Puts(rcvr, buffers'[rcvr]),
             \A t \in {Writer, Reader} : pc[t] # "swapping"
      PROVE  PlacesOK'
  <2>1. buffers'[sndr] = Sndr
    BY <1>1, <1>3, PutOne
  <2>2. pc'[Reader] = "inside" => Contents(buffers'[sndr]) # <<>> /\ via'[Reader] = sndr
    BY <1>1, <1>3, <2>1 DEF PlacesOK
  <2> QED BY <1>1, <1>3, <2>2, PlacesFree
<1>4. ASSUME NEW x \in Frame \cup {Null}, TryToPush(x) PROVE Good
  <2> DEFINE c == [op |-> "push", arg |-> x, timed |-> FALSE]
  <2>1. /\ ~IsFull(Rcvr) /\ ~Ended(Rcvr) /\ ~Ended(Sndr) /\ pc[Writer] = "idle"
        /\ UNCHANGED <<rcvr, pc, via>>
    BY <1>4 DEF TryToPush, MayPush, Enter
  <2>2. Puts(rcvr, Inner(Rcvr, c))
    BY <1>4 DEF TryToPush, Puts, Rcvr
  <2>3. buffers'[rcvr] = Inner(Rcvr, c) /\ buffers'[sndr] = Sndr
    BY <1>1, <2>2, PutOne
  <2>4. Inner(Rcvr, c) = Rcvr \/ Inner(Rcvr, c) = Push(Rcvr, x)
    BY DEF Inner
  <2>5. Kept \/ Pushed(x)
    <3>1. ReadyToPush(Rcvr)
      BY <1>1, <2>1, StreamQueries
    <3>2. Appends(Rcvr, Push(Rcvr, x), x)
      BY <1>1, <2>1, <3>1, PushAppends
    <3> QED BY <1>1, <2>1, <2>3, <2>4, <3>2 DEF Kept, Pushed
  <2>6. pc'[Writer] \notin Called
    BY <2>1 DEF Called
  <2>7. QueuesOK'
    BY <1>1, <2>5, <2>6, QueuesKept DEF StreamStep
  <2>8. PlacesOK'
    BY <1>1, <1>3, <2>1, <2>2, <2>3, SwappingShuts
  <2> QED BY <2>5, <2>7, <2>8 DEF Good, StreamStep
<1>5. CASE WriterPopLastPushed
  <2>1. /\ pc[Writer] = "idle" /\ UNCHANGED <<rcvr, pc, via>>
        /\ Puts(rcvr, PopLastPushed(Rcvr)) /\ (Size(Rcvr) = 1 \/ Rcvr.wr > 1)
    BY <1>5 DEF WriterPopLastPushed, Enter, Puts, Rcvr
  <2>2. \A t \in {Writer, Reader} : pc[t] # "swapping"
    BY <1>1, <1>5 DEF WriterPopLastPushed, SwapPending
  <2>3. buffers'[rcvr] = PopLastPushed(Rcvr) /\ buffers'[sndr] = Sndr
    BY <1>1, <2>1, PutOne
  <2>4. ~Drained(Rcvr)
    BY <1>1, StreamQueries DEF QueuesOK
  <2>5. PopLastPushed(Rcvr) = Rcvr \/ TakesBack(Rcvr, PopLastPushed(Rcvr))
    BY <1>1, <2>1, <2>4, TakingBack
  <2>6. Kept \/ TookBack
    BY <1>1, <2>1, <2>3, <2>5 DEF Kept, TookBack
  <2>7. pc'[Writer] \notin Called
    BY <2>1 DEF Called
  <2>8. QueuesOK'
    BY <1>1, <2>6, <2>7, QueuesKept DEF StreamStep
  <2>9. PlacesOK'
    BY <1>3, <2>1, <2>2, <2>3
  <2> QED BY <2>6, <2>8, <2>9 DEF Good, StreamStep
<1> QED BY <1>2, <1>4, <1>5 DEF WriterStep

LEMMA ReaderStepGood ==
  ASSUME Both, Typed', ReaderStep
  PROVE  Good
<1>1. /\ Typed /\ CallsOK /\ QueuesOK /\ PlacesOK /\ QueueOK(Rcvr) /\ QueueOK(Sndr)
      /\ Writer \in Thread /\ Reader \in Thread /\ Writer # Reader
      /\ Keeps(Rcvr, Rcvr) /\ Keeps(Sndr, Sndr)
  BY BothOK, Threads DEF Both
<1>2. ASSUME NEW c \in Call, ReaderWaits(c) PROVE Good
  <2>1. MayCall(Reader, c) /\ Attempt(Reader, c)
    BY <1>2 DEF ReaderWaits, MayCall
  <2>2. Outcome(Reader, c) /\ rcvr' = rcvr
    BY <1>1, <2>1, Attempted
  <2> QED BY <1>1, <2>2, OutcomeGood
<1>3. CASE TryToPop
  <2>1. /\ pc[Reader] = "idle" /\ UNCHANGED <<rcvr, pc, via>> /\ ReadyToPop(Sndr)
        /\ Puts(sndr, Pop(Sndr))
    BY <1>3 DEF TryToPop, Enter, Puts, Sndr
  <2>2. Contents(Sndr) # <<>> /\ Takes(Sndr, Pop(Sndr))
    BY <1>1, <2>1, ReadyIsNonEmpty, PopTakes
  <2>3. buffers'[sndr] = Pop(Sndr) /\ buffers'[rcvr] = Rcvr
    BY <1>1, <2>1, PutOne
  <2>4. Popped
    BY <1>1, <2>1, <2>2, <2>3 DEF Popped
  <2>5. QueuesOK'
    BY <1>1, <2>1, <2>4, QueuesKept DEF StreamStep, QueuesOK
  <2>6. \A t \in {Writer, Reader} : pc[t] # "swapping"
    BY <1>1, <2>2, SwappingShuts
  <2>7. PlacesOK'
    BY <1>1, <2>1, <2>3, <2>6, PlacesFree DEF PlacesOK
  <2> QED BY <2>4, <2>5, <2>7 DEF Good, StreamStep
<1> QED BY <1>2, <1>3 DEF ReaderStep

LEMMA OwnerStepGood ==
  ASSUME Both, Typed', OwnerStep
  PROVE  Good
<1>1. /\ Typed /\ CallsOK /\ QueuesOK /\ PlacesOK /\ QueueOK(Rcvr) /\ QueueOK(Sndr)
      /\ Writer \in Thread /\ Reader \in Thread /\ Writer # Owner /\ Reader # Owner
      /\ Keeps(Rcvr, Rcvr) /\ Keeps(Sndr, Sndr)
      /\ rcvr \in 1..2 /\ sndr \in 1..2 /\ sndr # rcvr /\ pc \in [Thread -> Places]
  BY BothOK, Threads, TypesOf DEF Both
<1>2. ASSUME Kept, \A t \in {Writer, Reader} : pc'[t] = pc[t] \/ (pc[t] = "waiting" /\ pc'[t] = "woken"),
             UNCHANGED via
      PROVE  Good
  <2>1. QueuesOK'
    BY <1>1, <1>2, QueuesKept DEF StreamStep, QueuesOK, Called
  <2>2. PlacesOK'
    BY <1>1, <1>2, PlacesMoved
  <2> QED BY <1>2, <2>1, <2>2 DEF Good, StreamStep
<1>3. CASE Kill
  <2>1. Kept
    BY <1>1, <1>3, PutOne DEF Kill, Kept
  <2> QED BY <1>1, <1>2, <1>3, <2>1 DEF Kill
<1>4. ASSUME NEW i \in 1..2, KillBuffer(i) PROVE Good
  <2>1. Puts(i, Killed(buffers[i])) /\ rcvr' = rcvr
    BY <1>4 DEF KillBuffer, Puts
  <2>2. Keeps(Rcvr, Killed(Rcvr)) /\ Keeps(Sndr, Killed(Sndr))
    BY <1>1, KillKeeps
  <2>3. i = rcvr \/ i = sndr
    BY <1>1 DEF sndr
  <2>4. Kept
    BY <1>1, <2>1, <2>2, <2>3, PutOne DEF Kept, Rcvr, Sndr
  <2> QED BY <1>1, <1>2, <1>4, <2>4 DEF KillBuffer
<1>5. CASE KillNotify
  <2>1. Kept
    BY <1>1, <1>5, PutOne DEF KillNotify, Kept
  <2>2. \A t \in {Writer, Reader} : pc'[t] = pc[t] \/ (pc[t] = "waiting" /\ pc'[t] = "woken")
    BY <1>1, <1>5 DEF KillNotify
  <2> QED BY <1>2, <1>5, <2>1, <2>2 DEF KillNotify
<1>6. ASSUME Quiet, Kept \/ TookBack \/ Cleared, UNCHANGED <<pc, via>> PROVE Good
  <2>1. pc'[Writer] = "idle" /\ pc'[Reader] = "idle"
    BY <1>1, <1>6 DEF Quiet
  <2>2. QueuesOK'
    BY <1>1, <1>6, <2>1, QueuesKept DEF StreamStep, Called
  <2>3. PlacesOK'
    BY <2>1 DEF PlacesOK
  <2> QED BY <1>6, <2>2, <2>3 DEF Good, StreamStep
<1>7. ASSUME NEW method, NEW which, OwnerClear(method, which), which \in {1..2, {rcvr}, {sndr}}
      PROVE  Good
  <2>1. /\ buffers'[rcvr] = IF rcvr \in which THEN Clear(Rcvr) ELSE Rcvr
        /\ buffers'[sndr] = IF sndr \in which THEN Clear(Sndr) ELSE Sndr
        /\ Quiet /\ UNCHANGED <<rcvr, pc, via>>
    BY <1>1, <1>7 DEF OwnerClear, Rcvr, Sndr
  <2>2. Empties(Rcvr, Clear(Rcvr)) /\ Empties(Sndr, Clear(Sndr))
    BY <1>1, ClearEmpties
  <2>3. Cleared
    BY <1>1, <1>7, <2>1, <2>2 DEF Cleared
  <2> QED BY <1>6, <2>1, <2>3
<1>8. CASE OwnerClrEof
  <2>1. /\ buffers'[rcvr] = ClrEof(Rcvr) /\ buffers'[sndr] = ClrEof(Sndr)
        /\ ~Drained(Rcvr) /\ ~Drained(Sndr)
        /\ Quiet /\ UNCHANGED <<rcvr, pc, via>>
    BY <1>1, <1>8 DEF OwnerClrEof, Rcvr, Sndr
  <2>2. /\ ClrEof(Rcvr) = Rcvr \/ (TakesBack(Rcvr, ClrEof(Rcvr)) /\ Ended(Rcvr))
        /\ ClrEof(Sndr) = Sndr \/ (TakesBack(Sndr, ClrEof(Sndr)) /\ Ended(Sndr))
    <3>1. \A q : QueueOK(q) /\ ~Drained(q) => ClrEof(q) = q \/ (TakesBack(q, ClrEof(q)) /\ Ended(q))
      <4>1. \A q : ~Ended(q) => ClrEof(q) = q
        BY DEF ClrEof, Ended
      <4> QED BY <4>1, TakingBack
    <3> QED BY <1>1, <2>1, <3>1
  <2>3. ~(Ended(Rcvr) /\ Ended(Sndr))
    BY <1>1 DEF QueuesOK
  <2>4. Kept \/ TookBack
    BY <1>1, <2>1, <2>2, <2>3 DEF Kept, TookBack
  <2> QED BY <1>6, <2>1, <2>4
<1> QED BY <1>3, <1>4, <1>5, <1>7, <1>8 DEF OwnerStep

LEMMA StaysOvertaken ==
  ASSUME Typed, CallsOK, [Next]_vars, overtaken
  PROVE  overtaken'
<1>1. ASSUME NEW t \in {Writer, Reader}, CallStep(t) PROVE overtaken'
  BY <1>1, CallSteps DEF Advances, Works, DecidesToSwap, Swaps, Resumes
<1> QED BY <1>1 DEF Next, vars, WriterStep, ReaderStep, OwnerStep, WriterWaits, ReaderWaits, Attempt,
     TryToPush, WriterPopLastPushed, TryToPop, Kill, KillBuffer, KillNotify, OwnerClear, OwnerClrEof

LEMMA NextGood ==
  ASSUME IInv, [Next]_vars
  PROVE  IInv' /\ (~overtaken' => StreamStep)
<1>1. Typed /\ CallsOK /\ Typed' /\ CallsOK'
  BY Basics DEF IInv
<1>2. ASSUME ~overtaken' PROVE Good
  <2>1. Both
    BY <1>1, <1>2, StaysOvertaken DEF IInv, Both
  <2>2. CASE UNCHANGED vars
    <3>1. Kept
      BY <2>1, <2>2, PutOne, BothOK DEF Kept, vars, Both
    <3>2. QueuesOK'
      BY <1>1, <2>1, <2>2, <3>1, QueuesKept DEF StreamStep, vars, QueuesOK, Both
    <3>3. PlacesOK'
      BY <2>1, <2>2, <3>1, PlacesMoved DEF vars, Both
    <3> QED BY <3>1, <3>2, <3>3 DEF Good, StreamStep
  <2>3. CASE Next
    BY <1>1, <1>2, <2>1, <2>3, WriterStepGood, ReaderStepGood, OwnerStepGood, CallStepGood DEF Next
  <2> QED BY <2>2, <2>3
<1> QED BY <1>1, <1>2 DEF IInv, Good

LEMMA InitIInv == Init => IInv
<1> SUFFICES ASSUME Init PROVE IInv
  OBVIOUS
<1>1. PICK N \in Nat : buffers = [i \in 1..2 |-> NewQueue(N)]
  BY CapacityAssumption DEF Init
<1>2. QueueOK(NewQueue(N)) /\ ~Ended(NewQueue(N)) /\ Count(NewQueue(N)) = 0
  BY NewQueueOK
<1>3. Contents(NewQueue(N)) = <<>> /\ NewQueue(N) \in Queue
  BY <1>2, ContentsEmpty DEF QueueOK, QueueTypeOK
<1>4. rcvr = 1 /\ sndr = 2 /\ Rcvr = NewQueue(N) /\ Sndr = NewQueue(N)
  BY <1>1 DEF Init, Rcvr, Sndr, sndr
<1>5. Typed
  <2>1. buffers \in [1..2 -> Queue] /\ \A i \in 1..2 : QueueTypeOK(buffers[i])
    BY <1>1, <1>2, <1>3 DEF QueueOK
  <2>2. pc \in [Thread -> Places] /\ call \in [Thread -> Call] /\ via \in [Thread -> 1..2]
    BY NoCallTyped DEF Init, Places
  <2>3. rcvr \in 1..2
    BY <1>4
  <2>4. killnow = FALSE /\ peeked = FALSE /\ overtaken = FALSE
    BY DEF Init
  <2>5. killnow \in BOOLEAN /\ peeked \in BOOLEAN /\ overtaken \in BOOLEAN
    BY <2>4
  <2> QED BY <2>1, <2>2, <2>3, <2>5 DEF Typed, TypeOK
<1>6. CallsOK
  BY Threads, NoCallTyped DEF Init, CallsOK, Called
<1>7. QueuesOK
  BY <1>1, <1>2, <1>3, <1>4, Threads DEF Init, QueuesOK, Called
<1>8. PlacesOK
  BY Threads DEF Init, PlacesOK
<1> QED BY <1>5, <1>6, <1>7, <1>8 DEF IInv

LEMMA Invariance == Spec => []IInv
<1>1. IInv /\ [Next]_vars => IInv'
  BY NextGood
<1> QED BY InitIInv, <1>1, PTL DEF Spec

-----------------------------------------------------------------------------
(* The two queues, one behind the other. *)

LEMMA JoinedAppend ==
  ASSUME NEW S, NEW s \in Seq(S), NEW r \in Seq(S), NEW x \in S
  PROVE  s \o Append(r, x) = Append(s \o r, x)
<1>1. Append(r, x) = r \o <<x>> /\ s \o r \in Seq(S) /\ <<x>> \in Seq(S)
  BY AppendIsConcat, ConcatProperties
<1>2. Append(s \o r, x) = (s \o r) \o <<x>>
  BY <1>1, AppendIsConcat
<1> QED BY <1>1, <1>2, ConcatAssociative

LEMMA JoinedTail ==
  ASSUME NEW S, NEW s \in Seq(S), NEW r \in Seq(S), s # <<>>
  PROVE  s \o r # <<>> /\ Tail(s \o r) = Tail(s) \o r
<1> DEFINE c == s \o r
           a == Tail(s)
           b == Tail(c)
           d == a \o r
<1>1. /\ c \in Seq(S) /\ Len(c) = Len(s) + Len(r) /\ Len(s) \in Nat \ {0} /\ Len(r) \in Nat
      /\ \A i \in 1..(Len(s) + Len(r)) : c[i] = IF i <= Len(s) THEN s[i] ELSE r[i - Len(s)]
  BY ConcatProperties, EmptySeq, LenProperties
<1>2. c # <<>>
  BY <1>1
<1>3. a \in Seq(S) /\ Len(a) = Len(s) - 1 /\ \A i \in 1..Len(a) : a[i] = s[i + 1]
  BY HeadTailProperties
<1> HIDE DEF c
<1>4. b \in Seq(S) /\ Len(b) = Len(c) - 1 /\ \A i \in 1..Len(b) : b[i] = c[i + 1]
  BY <1>1, <1>2, HeadTailProperties
<1> HIDE DEF a, b
<1>5. /\ d \in Seq(S) /\ Len(d) = Len(a) + Len(r)
      /\ \A i \in 1..(Len(a) + Len(r)) : d[i] = IF i <= Len(a) THEN a[i] ELSE r[i - Len(a)]
  BY <1>3, ConcatProperties
<1> HIDE DEF d
<1>6. Len(b) = Len(d)
  BY <1>1, <1>3, <1>4, <1>5
<1>7. \A i \in 1..Len(b) : b[i] = d[i]
  <2> SUFFICES ASSUME NEW i \in 1..Len(b) PROVE b[i] = d[i]
    OBVIOUS
  <2>1. b[i] = c[i + 1] /\ i + 1 \in 1..(Len(s) + Len(r)) /\ i \in 1..(Len(a) + Len(r))
    BY <1>1, <1>3, <1>4
  <2>2. CASE i <= Len(a)
    BY <1>1, <1>3, <1>5, <2>1, <2>2
  <2>3. CASE ~(i <= Len(a))
    <3>1. b[i] = r[i + 1 - Len(s)] /\ d[i] = r[i - Len(a)]
      BY <1>1, <1>3, <1>5, <2>1, <2>3
    <3>2. i + 1 - Len(s) = i - Len(a)
      BY <1>1, <1>3
    <3> QED BY <3>1, <3>2
  <2> QED BY <2>2, <2>3
<1>8. b = d
  BY <1>4, <1>5, <1>6, <1>7, SeqEqual
<1> QED BY <1>2, <1>8 DEF a, b, c, d

LEMMA JoinedFront ==
  ASSUME NEW S, NEW s \in Seq(S), NEW r \in Seq(S), r # <<>>
  PROVE  s \o r # <<>> /\ Front(s \o r) = s \o Front(r)
<1> DEFINE c == s \o r
           f == SubSeq(r, 1, Len(r) - 1)
           x == r[Len(r)]
<1>1. Len(s) \in Nat /\ Len(r) \in Nat \ {0} /\ \A i \in 1..Len(r) : r[i] \in S
  BY EmptySeq, LenProperties, ElementOfSeq
<1>2. f \in Seq(S) /\ x \in S /\ Len(f) = Len(r) - 1
  <2>1. 1 \in Int /\ Len(r) - 1 \in Int /\ \A i \in 1..(Len(r) - 1) : r[i] \in S
    BY <1>1
  <2>2. f \in Seq(S) /\ Len(f) = IF 1 <= Len(r) - 1 THEN Len(r) - 1 - 1 + 1 ELSE 0
    BY <2>1, SubSeqProperties
  <2>3. Len(f) = Len(r) - 1
    <3> DEFINE n == Len(r)
               m == Len(f)
    <3>1. n \in Nat \ {0} /\ m = IF 1 <= n - 1 THEN n - 1 - 1 + 1 ELSE 0
      BY <1>1, <2>2
    <3> HIDE DEF n, m
    <3>2. m = n - 1
      BY <3>1
    <3> QED BY <3>2 DEF n, m
  <2>4. x \in S
    BY <1>1
  <2> QED BY <2>2, <2>3, <2>4
<1>3. r = f \o <<x>> /\ <<x>> \in Seq(S)
  <2>1. SubSeq(r, 1, Len(r)) = SubSeq(r, 1, Len(r) - 1) \o <<r[Len(r)]>>
    BY <1>1, SubSeqRecursiveSecond
  <2> QED BY <1>2, <2>1, SubSeqFull
<1> HIDE DEF f, x
<1>4. c = (s \o f) \o <<x>> /\ s \o f \in Seq(S) /\ Len(s \o f) = Len(s) + Len(f)
  BY <1>2, <1>3, ConcatAssociative, ConcatProperties
<1>5. c \in Seq(S) /\ Len(c) = Len(s \o f) + 1
  BY <1>1, <1>2, <1>4, ConcatProperties
<1> DEFINE g == s \o f
<1> HIDE DEF c, g
<1>6. c = g \o <<x>> /\ g \in Seq(S) /\ Len(c) = Len(g) + 1
  BY <1>4, <1>5 DEF g
<1>7. Len(g) \in Nat
  BY <1>6, LenProperties
<1>8. SubSeq(c, 1, Len(g)) = g
  <2> DEFINE h == SubSeq(c, 1, Len(g))
  <2>1. \A i \in 1..Len(g) : c[i] \in S
    BY <1>5, <1>6, <1>7, ElementOfSeq
  <2>2. h \in Seq(S) /\ Len(h) = Len(g) /\ \A i \in 1..Len(g) : h[i] = c[i]
    BY <1>7, <2>1, SubSeqProperties
  <2> HIDE DEF h
  <2>3. \A i \in 1..Len(g) : c[i] = g[i]
    <3>1. Len(<<x>>) = 1
      OBVIOUS
    <3> QED BY <1>3, <1>6, <1>7, <3>1, ConcatProperties
  <2>4. h = g
    BY <1>6, <2>2, <2>3, SeqEqual
  <2> QED BY <2>4 DEF h
<1>9. Front(c) = SubSeq(c, 1, Len(c) - 1) /\ Len(c) - 1 = Len(g)
  BY <1>6, <1>7 DEF Front
<1>10. Front(r) = f
  BY DEF Front, f
<1>11. c # <<>>
  BY <1>6, <1>7
<1> QED BY <1>8, <1>9, <1>10, <1>11 DEF c, g

LEMMA NullIsEnd ==
  ASSUME NEW q, QueueOK(q), Contents(q) = <<Null>>
  PROVE  Ended(q)
<1>1. /\ Size(q) \in Nat \ {0} /\ DOMAIN q.que = 1..Size(q) /\ q.wr \in 1..Size(q) /\ q.rd \in 1..Size(q)
  BY QueueFacts DEF QueueOK
<1>2. Contents(q) # <<>> /\ Contents(q)[1] = Null /\ Len(Contents(q)) = 1
  <2> DEFINE c == Contents(q)
  <2>1. c = <<Null>>
    OBVIOUS
  <2> HIDE DEF c
  <2>2. c # <<>> /\ c[1] = Null /\ Len(c) = 1
    BY <2>1
  <2> QED BY <2>2 DEF c
<1>3. Count(q) = 1 /\ Contents(q)[1] = q.que[At(q, 1)].frame
  <2>1. /\ Len(Contents(q)) = Count(q)
        /\ \A k \in 1..Count(q) : Contents(q)[k] = q.que[At(q, k)].frame
    BY ContentsSeq DEF QueueOK
  <2> QED BY <1>2, <2>1
<1>4. At(q, 1) = q.rd
  BY <1>1 DEF At
<1>5. q.que[q.rd].populated /\ q.que[q.rd].frame = Null
  BY <1>2, <1>3, <1>4, ReadyIsNonEmpty DEF ReadyToPop
<1>6. q.que[q.rd].eof
  BY <1>1, <1>5, NullAssumption DEF QueueOK, SlotsClean
<1> QED BY <1>1, <1>6 DEF QueueOK, EofIsLast, Ended

LEMMA StreamIsFifo ==
  ASSUME Typed, QueuesOK, StreamStep
  PROVE  FifoStep
<1> DEFINE S == Frame \cup {Null}
           r == Contents(Rcvr)
           s == Contents(Sndr)
           r2 == Contents(buffers'[rcvr])
           s2 == Contents(buffers'[sndr])
<1>1. /\ QueueOK(Rcvr) /\ QueueOK(Sndr) /\ rcvr \in 1..2 /\ sndr \in 1..2 /\ 3 - sndr = rcvr
      /\ 3 - rcvr = sndr /\ sndr # rcvr
  BY BothOK, TypesOf DEF sndr
<1>2. r \in Seq(S) /\ s \in Seq(S)
  BY <1>1, StreamQueries
<1>3. /\ Capacity(Sndr) = Capacity(Rcvr) /\ Capacity(Rcvr) \in Nat
      /\ Ended(Rcvr) => r # <<>>
      /\ Ended(Sndr) => r = <<>>
      /\ Ended(Rcvr) \in BOOLEAN /\ Ended(Sndr) \in BOOLEAN
  BY <1>1, EndedBoolean DEF QueuesOK
<1>4. /\ Ended(buffers'[rcvr]) \in BOOLEAN /\ Ended(buffers'[sndr]) \in BOOLEAN
      /\ Capacity(buffers'[rcvr]) = Capacity(Rcvr) /\ Capacity(buffers'[sndr]) = Capacity(Rcvr)
  <2>1. QueueOK(buffers'[rcvr]) /\ QueueOK(buffers'[sndr])
    BY DEF StreamStep, Kept, Pushed, Popped, TookBack, Cleared, Swapped, Keeps, Appends, Takes,
           TakesBack, Empties
  <2>2. Capacity(buffers'[rcvr]) = Capacity(Rcvr) /\ Capacity(buffers'[sndr]) = Capacity(Sndr)
    BY DEF StreamStep, Kept, Pushed, Popped, TookBack, Cleared, Swapped, Keeps, Appends, Takes,
           TakesBack, Empties
  <2> QED BY <1>3, <2>1, <2>2, EndedBoolean
<1>5. ASSUME rcvr' = rcvr
      PROVE  /\ (Contents(Sndr) \o Contents(Rcvr))' = s2 \o r2
             /\ (Ended(Sndr) \/ Ended(Rcvr))' = (Ended(buffers'[sndr]) \/ Ended(buffers'[rcvr]))
             /\ (2 * Capacity(Rcvr))' = 2 * Capacity(Rcvr)
  <2>1. Rcvr' = buffers'[rcvr] /\ Sndr' = buffers'[sndr]
    BY <1>1, <1>5, Primes DEF sndr
  <2> QED BY <1>4, <2>1, Primes
<1>6. CASE Kept
  <2>1. s2 = s /\ r2 = r /\ Ended(buffers'[sndr]) = Ended(Sndr) /\ Ended(buffers'[rcvr]) = Ended(Rcvr)
    BY <1>3, <1>4, <1>6 DEF Kept, Keeps
  <2>2. UNCHANGED Fifo!vars
    BY <1>5, <1>6, <2>1 DEF Kept, Fifo!vars
  <2> QED BY <2>2 DEF FifoStep
<1>7. ASSUME NEW x \in S, Pushed(x) PROVE FifoStep
  <2>1. s2 = s /\ r2 = Append(r, x) /\ rcvr' = rcvr
    BY <1>7 DEF Pushed, Keeps, Appends
  <2>2. s2 \o r2 = Append(s \o r, x)
    BY <1>2, <2>1, JoinedAppend
  <2>3. ~(Ended(Sndr) \/ Ended(Rcvr))
    BY <1>7 DEF Pushed, Appends
  <2>4. (Ended(buffers'[sndr]) \/ Ended(buffers'[rcvr])) = (x = Null)
    BY <1>3, <1>4, <1>7 DEF Pushed, Keeps, Appends
  <2>5. 2 * Capacity(Rcvr) = 0 \/ Len(s \o r) < 2 * Capacity(Rcvr)
    <3>1. Len(s \o r) = Len(s) + Len(r) /\ Len(s) \in Nat /\ Len(r) \in Nat
      BY <1>2, ConcatProperties, LenProperties
    <3>2. Capacity(Rcvr) # 0 => Len(s) <= Capacity(Rcvr) /\ Len(r) < Capacity(Rcvr)
      BY <1>1, <1>3, <1>7, StreamQueries DEF Pushed, Appends
    <3> QED BY <1>3, <3>1, <3>2
  <2>6. Fifo!Put(x)
    BY <1>5, <2>1, <2>2, <2>3, <2>4, <2>5 DEF Fifo!Put
  <2> QED BY <2>1, <2>6 DEF FifoStep
<1>8. CASE Popped
  <2>1. r2 = r /\ rcvr' = rcvr /\ s # <<>>
    BY <1>8 DEF Popped, Keeps, Takes
  <2>2. (Ended(buffers'[sndr]) \/ Ended(buffers'[rcvr])) = (Ended(Sndr) \/ Ended(Rcvr))
    BY <1>3, <1>4, <1>8 DEF Popped, Keeps, Takes
  <2>3. s \o r # <<>> /\ Tail(s \o r) = Tail(s) \o r
    BY <1>2, <2>1, JoinedTail
  <2>4. s2 \o r2 = Tail(s \o r) \/ (s \o r = <<Null>> /\ s2 \o r2 = s \o r)
    <3>1. CASE s2 = Tail(s)
      BY <2>1, <2>3, <3>1
    <3>2. CASE s = <<Null>> /\ s2 = s
      <4>1. r = <<>>
        BY <1>1, <1>3, <3>2, NullIsEnd
      <4> HIDE DEF r, s, s2, r2
      <4>2. s \o r = s
        BY <1>2, <4>1, ConcatEmptySeq
      <4> QED BY <2>1, <3>2, <4>2
    <3> QED BY <1>8, <3>1, <3>2 DEF Popped, Takes
  <2>5. Fifo!Take
    BY <1>5, <2>1, <2>2, <2>3, <2>4 DEF Fifo!Take
  <2> QED BY <2>1, <2>5 DEF FifoStep
<1>9. CASE TookBack
  <2>1. rcvr' = rcvr
    BY <1>9 DEF TookBack
  <2>2. s \o r # <<>> /\ s2 \o r2 = Front(s \o r) /\ ~Ended(buffers'[sndr]) /\ ~Ended(buffers'[rcvr])
    <3>1. CASE TakesBack(Rcvr, buffers'[rcvr]) /\ Keeps(Sndr, buffers'[sndr])
      <4>1. r # <<>> /\ r2 = Front(r) /\ s2 = s /\ ~Ended(buffers'[rcvr])
        BY <3>1 DEF TakesBack, Keeps
      <4>2. ~Ended(buffers'[sndr])
        BY <1>3, <3>1, <4>1 DEF Keeps
      <4> QED BY <1>2, <4>1, <4>2, JoinedFront
    <3>2. CASE Ended(Sndr) /\ Keeps(Rcvr, buffers'[rcvr]) /\ TakesBack(Sndr, buffers'[sndr])
      <4>1. s # <<>> /\ s2 = Front(s) /\ r2 = r /\ r = <<>> /\ ~Ended(buffers'[sndr])
        BY <1>3, <3>2 DEF TakesBack, Keeps
      <4>2. ~Ended(buffers'[rcvr])
        BY <1>3, <3>2, <4>1 DEF Keeps
      <4>3. Front(s) \in Seq(S)
        <5>1. QueueOK(buffers'[sndr])
          BY <3>2 DEF TakesBack
        <5>2. s2 \in Seq(S)
          BY <5>1, StreamQueries
        <5> QED BY <4>1, <5>2
      <4>4. s \o r = s /\ Front(s) \o r = Front(s)
        <5> HIDE DEF r, s, s2, r2
        <5> QED BY <1>2, <4>1, <4>3, ConcatEmptySeq
      <4> QED BY <4>1, <4>2, <4>4
    <3> QED BY <1>9, <3>1, <3>2 DEF TookBack
  <2>3. (Ended(buffers'[sndr]) \/ Ended(buffers'[rcvr])) = FALSE
    BY <2>2
  <2>4. Fifo!Front(s \o r) = Front(s \o r)
    BY DEF Front, Fifo!Front
  <2>5. Fifo!TakeBack
    BY <1>5, <2>1, <2>2, <2>3, <2>4 DEF Fifo!TakeBack
  <2> QED BY <2>1, <2>5 DEF FifoStep
<1>10. CASE Cleared
  <2>1. rcvr' = rcvr /\ Quiet
    BY <1>10 DEF Cleared
  <2>2. CASE Empties(Rcvr, buffers'[rcvr]) /\ Empties(Sndr, buffers'[sndr])
    <3>1. r2 = <<>> /\ s2 = <<>>
      BY <2>2 DEF Empties
    <3>2. s2 \o r2 = <<>>
      <4> HIDE DEF r2, s2
      <4> QED BY <3>1, EmptySeq, ConcatEmptySeq
    <3>3. (Ended(buffers'[sndr]) \/ Ended(buffers'[rcvr])) = FALSE
      BY <1>4, <2>2 DEF Empties
    <3>4. Fifo!Reset
      BY <1>5, <2>1, <3>2, <3>3 DEF Fifo!Reset
    <3> QED BY <2>1, <3>4 DEF FifoStep
  <2>3. CASE Empties(Rcvr, buffers'[rcvr]) /\ Keeps(Sndr, buffers'[sndr])
    <3>1. r2 = <<>> /\ s2 = s
      BY <2>3 DEF Empties, Keeps
    <3>2. s2 \o r2 = s
      <4> HIDE DEF r, s, s2, r2
      <4> QED BY <1>2, <3>1, ConcatEmptySeq
    <3> QED BY <1>5, <2>1, <3>2 DEF FifoStep, DropsPart
  <2>4. CASE Keeps(Rcvr, buffers'[rcvr]) /\ Empties(Sndr, buffers'[sndr])
    <3>1. r2 = r /\ s2 = <<>>
      BY <2>4 DEF Empties, Keeps
    <3>2. s2 \o r2 = r
      <4> HIDE DEF r, s, s2, r2
      <4> QED BY <1>2, <3>1, ConcatEmptySeq
    <3> QED BY <1>5, <2>1, <3>2 DEF FifoStep, DropsPart
  <2> QED BY <1>10, <2>2, <2>3, <2>4 DEF Cleared
<1>11. CASE Swapped
  <2>1. r2 = r /\ s2 = <<>> /\ s = <<>> /\ ~Ended(buffers'[sndr])
    BY <1>11 DEF Swapped, Keeps, Empties
  <2>2. ~Ended(Sndr) /\ Ended(buffers'[rcvr]) = Ended(Rcvr)
    BY <1>3, <1>4, <1>11, BothOK DEF Swapped, Keeps
  <2>3. Rcvr' = buffers'[sndr] /\ Sndr' = buffers'[rcvr]
    BY <1>1, <1>11, Primes DEF Swapped
  <2>4. r2 \o s2 = r /\ s \o r = r
    <3> HIDE DEF r, s, s2, r2
    <3> QED BY <1>2, <2>1, ConcatEmptySeq
  <2>5. /\ (Contents(Sndr) \o Contents(Rcvr))' = s \o r
        /\ (Ended(Sndr) \/ Ended(Rcvr))' = (Ended(Sndr) \/ Ended(Rcvr))
        /\ (2 * Capacity(Rcvr))' = 2 * Capacity(Rcvr)
    BY <1>3, <1>4, <2>1, <2>2, <2>3, <2>4, Primes
  <2>6. UNCHANGED Fifo!vars
    BY <2>5 DEF Fifo!vars
  <2> QED BY <2>6 DEF FifoStep
<1> QED BY <1>6, <1>7, <1>8, <1>9, <1>10, <1>11 DEF StreamStep

-----------------------------------------------------------------------------
(* The theorems. *)

\* The variables keep their types (AVFrameDoubleBufferMT, for every N it is made
\* with), whether or not swaps are overtaken.
THEOREM TypeCorrect == Spec => []TypeOK
BY Invariance, PTL DEF IInv, Typed

\* Until a swap is overtaken, the thread that has decided on one is alone and finds
\* the sender empty (push_swapper, pop_swapper and swap, with the mutex released
\* between them, whatever the other thread calls).
THEOREM SwapsAreExclusive == Spec => []Exclusive
<1>1. IInv => Exclusive
  <2> SUFFICES ASSUME IInv, NEW t \in {Writer, Reader}, pc[t] = "swapping", ~overtaken
               PROVE  IsEmpty(Sndr) /\ \A u \in Thread \ {t} : pc[u] # "inside"
    BY DEF Exclusive
  <2>1. Contents(Sndr) = <<>> /\ pc[Writer] # "inside" /\ pc[Reader] # "inside" /\ Typed /\ QueuesOK
    BY DEF IInv, PlacesOK
  <2>2. pc[Owner] # "inside"
    BY DEF IInv, CallsOK
  <2> QED BY <2>1, <2>2, BothOK, Threads
<1> QED BY <1>1, Invariance, PTL

\* Until a swap is overtaken, the two queues are one first-in first-out stream
\* between the writer and the reader: what push() and pop() do to either queue, and
\* what swap() does to both, are steps of that stream.
THEOREM StreamUntilOvertaken == Spec => FifoUntilOvertaken
<1>1. Init => Fifo!Init
  <2> SUFFICES ASSUME Init PROVE Fifo!Init
    OBVIOUS
  <2>1. PICK N \in Nat : buffers = [i \in 1..2 |-> NewQueue(N)]
    BY CapacityAssumption DEF Init
  <2>2. QueueOK(NewQueue(N)) /\ ~Ended(NewQueue(N)) /\ Count(NewQueue(N)) = 0
    BY NewQueueOK
  <2>3. Rcvr = NewQueue(N) /\ Sndr = NewQueue(N)
    BY <2>1 DEF Init, Rcvr, Sndr, sndr
  <2>4. Contents(NewQueue(N)) = <<>>
    BY <2>2, ContentsEmpty DEF QueueOK
  <2>5. Contents(Sndr) \o Contents(Rcvr) = <<>>
    <3>1. <<>> \o <<>> = <<>>
      BY EmptySeq, ConcatEmptySeq
    <3> QED BY <2>3, <2>4, <3>1
  <2>6. (Ended(Sndr) \/ Ended(Rcvr)) = FALSE
    BY <2>2, <2>3
  <2>7. 2 * Capacity(Rcvr) \in Nat
    <3>1. Capacity(Rcvr) \in Nat
      BY <2>2, <2>3, EndedBoolean
    <3> QED BY <3>1
  <2> QED BY <2>5, <2>6, <2>7 DEF Fifo!Init
<1>2. IInv /\ [Next]_vars => [FifoStep]_vars
  <2> SUFFICES ASSUME IInv, [Next]_vars, ~overtaken' PROVE FifoStep
    BY DEF FifoStep
  <2>1. Typed /\ QueuesOK /\ StreamStep
    BY NextGood, StaysOvertaken DEF IInv
  <2> QED BY <2>1, StreamIsFifo
<1> QED BY <1>1, <1>2, Invariance, PTL DEF Spec, FifoUntilOvertaken

-----------------------------------------------------------------------------
(* The writer and the reader do not wait for each other, overtaken or not. *)

\* A swap that is due is one that somebody is about to see to: the thread that
\* filled the receiver, or emptied the sender, runs its swapper before it goes home.
SwapComes ==
  ~killnow /\ IsFull(Rcvr) /\ IsEmpty(Sndr) =>
    \E t \in {Writer, Reader} : pc[t] \in {"swapper", "swapping"}

\* The methods that change a queue under the mutex and run no swapper afterwards,
\* although they may make a swap due.
NoSwapper == {"tryToPush", "tryToPop", "clearSndr"}

\* Nothing becomes due, and whoever is to see to a swap still is.
LEMMA StillComes ==
  ASSUME SwapComes, rcvr' = rcvr, ~killnow' => ~killnow,
         IsFull(buffers'[rcvr]) => IsFull(Rcvr),
         IsEmpty(buffers'[sndr]) => IsEmpty(Sndr),
         \A t \in {Writer, Reader} :
           pc[t] \in {"swapper", "swapping"} => pc'[t] \in {"swapper", "swapping"}
  PROVE  SwapComes'
<1>1. Rcvr' = buffers'[rcvr] /\ Sndr' = buffers'[sndr]
  BY Primes DEF sndr
<1> QED BY <1>1 DEF SwapComes, IsFull, IsEmpty

LEMMA NotFullNow ==
  ASSUME ~IsFull(buffers'[rcvr'])
  PROVE  SwapComes'
BY Primes DEF SwapComes, IsFull

\* Room is made in a queue that is not full, and there is room in a queue that was
\* cleared, or lost its last element.
LEMMA RoomLeft ==
  ASSUME NEW q, QueueTypeOK(q)
  PROVE  /\ ~IsFull(q) => ~IsFull(MakeRoom(q))
         /\ ~IsFull(Clear(q))
         /\ IsFull(PopLastPushed(q)) => IsFull(q)
         /\ IsFull(Killed(q)) <=> IsFull(q)
         /\ IsEmpty(Killed(q)) <=> IsEmpty(q)
<1>1. /\ Size(q) \in Nat \ {0} /\ q.wr \in 1..Size(q) /\ q \in Queue
  BY QueueFacts DEF QueueTypeOK
<1>2. ~IsFull(q) => ~IsFull(MakeRoom(q))
  <2>1. MakeRoom(q) = q \/ MakeRoom(q).dynamic = q.dynamic
    BY ExpandShape DEF MakeRoom
  <2>2. q.que[q.wr].populated \/ MakeRoom(q) = q
    BY DEF MakeRoom
  <2> QED BY <2>1, <2>2 DEF IsFull
<1>3. ~IsFull(Clear(q))
  <2> DEFINE s == [i \in 1..Size(q) |-> VacantSlot]
             p == WithRing(q, s, 1, 1)
  <2>1. s \in Seq(Slot) /\ Len(s) = Size(q) /\ s[1] = VacantSlot
    BY <1>1, SlotFields
  <2>2. 1 \in 1..Len(s)
    BY <1>1, <2>1
  <2>3. Clear(q) = [p EXCEPT !.killnow = FALSE]
    BY DEF Clear
  <2> HIDE DEF s
  <2>4. QueueTypeOK(p) /\ p.que = s /\ p.wr = 1
    BY <2>1, <2>2, RingFields
  <2> HIDE DEF p
  <2>5. Clear(q).que = s /\ Clear(q).wr = 1
    BY <2>3, <2>4 DEF QueueTypeOK, Queue
  <2> QED BY <2>1, <2>5, SlotFields DEF IsFull
<1>4. IsFull(PopLastPushed(q)) => IsFull(q)
  <2>1. LastPushed(q) \in 1..Size(q)
    BY <1>1 DEF LastPushed
  <2>2. CASE ~IsEmpty(q)
    <3> DEFINE i == LastPushed(q)
               p == Retract(q, i)
    <3>1. i \in 1..Size(q)
      BY <2>1
    <3> HIDE DEF i
    <3>2. p.wr = i /\ p.que[i] = VacantSlot
      BY <3>1, RetractShape
    <3> HIDE DEF p
    <3>3. ~IsFull(p)
      BY <3>2, SlotFields DEF IsFull
    <3> QED BY <2>2, <3>3 DEF PopLastPushed, p, i
  <2> QED BY <2>2 DEF PopLastPushed
<1>5. (IsFull(Killed(q)) <=> IsFull(q)) /\ (IsEmpty(Killed(q)) <=> IsEmpty(q))
  BY <1>1 DEF Killed, IsFull, IsEmpty, Queue
<1> QED BY <1>2, <1>3, <1>4, <1>5


\* An end of file is not behind anything: the writer pushes nothing after it, and
\* while it is in the sender there is room in the receiver, so that no swap becomes
\* due when it is taken back.
EofLast ==
  /\ pc[Writer] \in Called => ~Ended(Rcvr) /\ ~Ended(Sndr)
  /\ pc[Writer] = "inside" => via[Writer] = rcvr \/ ~IsFull(Rcvr)
  /\ Ended(Sndr) => ~IsFull(Rcvr)

\* Nothing is pushed.
LEMMA StaysLast ==
  ASSUME Typed, EofLast, rcvr' = rcvr,
         Ended(buffers'[rcvr]) => Ended(Rcvr), Ended(buffers'[sndr]) => Ended(Sndr),
         IsFull(buffers'[rcvr]) => IsFull(Rcvr),
         pc'[Writer] \in Called => pc[Writer] \in Called,
         pc'[Writer] = "inside" => (pc[Writer] = "inside" /\ via'[Writer] = via[Writer])
                                     \/ via'[Writer] = rcvr
  PROVE  EofLast'
<1>1. Rcvr' = buffers'[rcvr] /\ Sndr' = buffers'[sndr]
  BY Primes DEF sndr
<1>2. pc'[Writer] \in Called => ~Ended(Rcvr') /\ ~Ended(Sndr')
  BY <1>1 DEF EofLast
<1>3. pc'[Writer] = "inside" => via'[Writer] = rcvr' \/ ~IsFull(Rcvr')
  BY <1>1 DEF EofLast
<1>4. Ended(Sndr') => ~IsFull(Rcvr')
  BY <1>1 DEF EofLast
<1> QED BY <1>2, <1>3, <1>4 DEF EofLast, Ended, IsFull

\* The receiver has room, and the writer is not in a call, or nothing has ended.
LEMMA RoomFirst ==
  ASSUME ~IsFull(buffers'[rcvr']),
         pc'[Writer] \in Called => ~Ended(buffers'[rcvr']) /\ ~Ended(buffers'[3 - rcvr'])
  PROVE  EofLast'
<1>1. Rcvr' = buffers'[rcvr'] /\ Sndr' = buffers'[3 - rcvr']
  BY Primes
<1> QED BY <1>1 DEF EofLast, Ended, IsFull

\* What a step does to the end of file of a queue.
LEMMA EofLeft ==
  ASSUME NEW q, QueueTypeOK(q)
  PROVE  /\ ~Ended(Clear(q))
         /\ Ended(Pop(q)) => Ended(q)
         /\ IsFull(Pop(q)) => IsFull(q)
         /\ Ended(Killed(q)) <=> Ended(q)
         /\ IsFull(ClrEof(q)) => IsFull(q)
         /\ ClrEof(q) # q => Ended(q)
<1>1. /\ Size(q) \in Nat \ {0} /\ q.wr \in 1..Size(q) /\ q.rd \in 1..Size(q) /\ q \in Queue
      /\ q.que \in Seq(Slot) /\ Size(q) = Len(q.que)
  BY QueueFacts DEF QueueTypeOK, Queue, Size
<1>2. Before(q, q.wr) \in 1..Size(q)
  BY <1>1 DEF Before
<1>3. ~Ended(Clear(q))
  <2> DEFINE s == [i \in 1..Size(q) |-> VacantSlot]
             p == WithRing(q, s, 1, 1)
  <2>1. s \in Seq(Slot) /\ Len(s) = Size(q) /\ \A i \in 1..Size(q) : s[i] = VacantSlot
    BY <1>1, SlotFields
  <2>2. 1 \in 1..Len(s)
    BY <1>1, <2>1
  <2>3. Clear(q) = [p EXCEPT !.killnow = FALSE]
    BY DEF Clear
  <2> HIDE DEF s
  <2>4. QueueTypeOK(p) /\ p.que = s /\ p.wr = 1
    BY <2>1, <2>2, RingFields
  <2> HIDE DEF p
  <2>5. Clear(q).que = s /\ Clear(q).wr = 1
    BY <2>3, <2>4 DEF QueueTypeOK, Queue
  <2>6. Before(Clear(q), 1) = Size(q)
    BY <2>1, <2>5 DEF Before, Size
  <2> QED BY <1>1, <2>1, <2>5, <2>6, SlotFields DEF Ended
<1>4. (Ended(Pop(q)) => Ended(q)) /\ (IsFull(Pop(q)) => IsFull(q))
  <2> DEFINE p == Pop(q)
  <2>1. /\ Size(p) = Size(q) /\ p.wr = q.wr /\ p.dynamic = q.dynamic
        /\ \A j \in 1..Size(q) :
             p.que[j] = IF j = q.rd /\ ~q.que[j].eof THEN VacantSlot ELSE q.que[j]
    BY PopShape
  <2> HIDE DEF p
  <2>2. Before(p, p.wr) = Before(q, q.wr)
    BY <2>1 DEF Before
  <2>3. \A j \in 1..Size(q) :
          (p.que[j].eof => q.que[j].eof) /\ (p.que[j].populated => q.que[j].populated)
    BY <2>1, SlotFields
  <2>4. Ended(p) => Ended(q)
    BY <1>2, <2>2, <2>3 DEF Ended
  <2>5. IsFull(p) => IsFull(q)
    BY <1>1, <2>1, <2>3 DEF IsFull
  <2> QED BY <2>4, <2>5 DEF p
<1>5. Ended(Killed(q)) <=> Ended(q)
  BY <1>1 DEF Killed, Ended, Before, Size, Queue
<1>6. (IsFull(ClrEof(q)) => IsFull(q)) /\ (ClrEof(q) # q => Ended(q))
  <2> DEFINE i == Before(q, q.wr)
             p == Retract(q, i)
  <2>1. i \in 1..Size(q)
    BY <1>2
  <2> HIDE DEF i
  <2>2. p.wr = i /\ p.que[i] = VacantSlot
    BY <2>1, RetractShape
  <2> HIDE DEF p
  <2>3. ~IsFull(p)
    BY <2>2, SlotFields DEF IsFull
  <2>4. ClrEof(q) = p \/ ClrEof(q) = q
    BY DEF ClrEof, p, i
  <2>5. ClrEof(q) # q => q.que[i].eof
    BY DEF ClrEof, p, i
  <2> QED BY <2>3, <2>4, <2>5 DEF Ended, i
<1> QED BY <1>3, <1>4, <1>5, <1>6

\* A thread that owns the mutex and attempts a call makes no swap due.
LEMMA AttemptComes ==
  ASSUME Typed, CallsOK, SwapComes, NEW t \in {Writer, Reader}, NEW c \in Call, MayCall(t, c),
         Outcome(t, c), rcvr' = rcvr, killnow' = killnow, pc[t] \in {"idle", "woken"}
  PROVE  SwapComes'
<1>1. \A u \in {Writer, Reader} :
        pc[u] \in {"swapper", "swapping"} => pc'[u] \in {"swapper", "swapping"}
  BY Threads DEF Outcome, GoesHome, GoesIn, Moves
<1>2. CASE buffers' = buffers
  BY <1>1, <1>2, StillComes DEF Rcvr, Sndr
<1>3. CASE MakesRoom(t)
  <2>1. buffers'[rcvr] = MakeRoom(Rcvr)
    BY <1>3, TypesOf, OnePut DEF MakesRoom, Puts
  <2>2. ~IsFull(MakeRoom(Rcvr))
    BY <1>3, TypesOf, RoomLeft DEF MakesRoom, Rcvr
  <2> QED BY <2>1, <2>2, NotFullNow
<1> QED BY <1>2, <1>3 DEF Outcome, GoesIn

\* Neither does a thread that goes on with its call: it runs its swapper first.
LEMMA CallStepComes ==
  ASSUME Typed, CallsOK, SwapComes, NEW t \in {Writer, Reader}, CallStep(t)
  PROVE  SwapComes'
<1>1. /\ Advances(t) \/ Works(t) \/ DecidesToSwap(t) \/ Swaps(t) \/ Resumes(t)
      /\ killnow' = killnow
  BY CallSteps
<1>2. t \in Thread /\ call[t] \in Call
  BY Threads, TypesOf
<1>3. CASE Works(t)
  <2>1. pc'[t] = "swapper"
    BY <1>3 DEF Works, Moves
  <2> QED BY <2>1 DEF SwapComes
<1>4. CASE DecidesToSwap(t)
  <2>1. pc'[t] = "swapping"
    BY <1>4 DEF DecidesToSwap, Moves
  <2> QED BY <2>1 DEF SwapComes
<1>5. CASE Swaps(t)
  <2>1. rcvr' = sndr /\ buffers'[sndr] = Clear(Sndr)
    BY <1>5, TypesOf, OnePut DEF Swaps, Puts
  <2>2. ~IsFull(Clear(Sndr))
    BY TypesOf, RoomLeft DEF Sndr
  <2> QED BY <2>1, <2>2, NotFullNow
<1>6. CASE Resumes(t)
  BY <1>1, <1>2, <1>6, AttemptComes DEF Resumes
<1>7. CASE Advances(t) /\ ~Swapper(t)
  <2>1. UNCHANGED <<buffers, rcvr>>
    BY <1>7 DEF Advances
  <2>2. pc[t] \notin {"swapper", "swapping"} \/ pc'[t] \in {"swapper", "swapping"}
    <3>1. CASE Block(t) \/ Resume(t) \/ Expire(t) \/ Wakeup(t) \/ Inside(t) \/ PushTooLate(t)
      BY <3>1 DEF Block, Resume, Expire, Wakeup, Inside, PushTooLate
    <3>2. CASE Swap(t)
      <4>1. rcvr' = sndr
        BY <3>2 DEF Swap
      <4> QED BY <2>1, <4>1, TypesOf
    <3> QED BY <1>7, <3>1, <3>2 DEF CallStep
  <2>3. \A u \in {Writer, Reader} :
          pc[u] \in {"swapper", "swapping"} => pc'[u] \in {"swapper", "swapping"}
    BY <1>7, <2>2, Threads DEF Advances, Moves
  <2> QED BY <1>1, <2>1, <2>3, StillComes DEF Rcvr, Sndr
<1>8. CASE Advances(t) /\ Swapper(t)
  <2>1. UNCHANGED <<buffers, rcvr>>
    BY <1>8 DEF Advances
  <2>2. Rcvr' = Rcvr /\ Sndr' = Sndr
    BY <2>1 DEF Rcvr, Sndr, sndr
  <2>3. CASE SwapDue
    <3>1. pc'[t] = "swapping"
      BY <1>2, <1>8, <2>3, TypesOf DEF Swapper
    <3> QED BY <3>1 DEF SwapComes
  <2>4. CASE ~SwapDue
    BY <2>2, <2>4 DEF SwapDue, SwapComes, IsFull, IsEmpty
  <2> QED BY <2>3, <2>4
<1> QED BY <1>1, <1>3, <1>4, <1>5, <1>6, <1>7, <1>8

\* An attempt and the rest of a call leave the end of file last.
LEMMA AttemptLast ==
  ASSUME Typed, EofLast, NEW t \in {Writer, Reader}, NEW c \in Call,
         Outcome(t, c), rcvr' = rcvr,
         t = Writer => ~Ended(Rcvr) /\ ~Ended(Sndr), pc[t] # "inside"
  PROVE  EofLast'
<1>1. CASE t = Writer
  <2>1. /\ buffers' = buffers \/ (pc'[Writer] = "idle" /\ MakesRoom(t))
        /\ pc'[Writer] = "inside" => via'[Writer] = rcvr
    BY <1>1 DEF Outcome, GoesHome, GoesIn, Moves
  <2>2. CASE buffers' = buffers
    <3>1. Rcvr' = Rcvr /\ Sndr' = Sndr
      BY <2>2 DEF Rcvr, Sndr, sndr
    <3> QED BY <1>1, <2>1, <3>1 DEF EofLast, Ended, IsFull
  <2>3. CASE pc'[Writer] = "idle" /\ MakesRoom(t)
    <3>1. buffers'[rcvr] = MakeRoom(Rcvr)
      BY <2>3, TypesOf, OnePut DEF MakesRoom, Puts
    <3>2. ~IsFull(MakeRoom(Rcvr))
      BY <2>3, TypesOf, RoomLeft DEF MakesRoom, Rcvr
    <3> QED BY <2>3, <3>1, <3>2, RoomFirst DEF Called
  <2> QED BY <2>1, <2>2, <2>3
<1>2. CASE t = Reader
  <2>1. buffers' = buffers
    BY <1>2, Threads DEF Outcome, GoesIn, MakesRoom
  <2>2. /\ pc'[Writer] = pc[Writer] \/ (pc[Writer] = "waiting" /\ pc'[Writer] = "woken")
        /\ via'[Writer] = via[Writer]
    BY <1>2, Threads DEF Outcome, GoesHome, GoesIn, Moves
  <2> QED BY <2>1, <2>2, StaysLast DEF Called, Rcvr, Sndr
<1> QED BY <1>1, <1>2

LEMMA CallStepLast ==
  ASSUME Typed, CallsOK, EofLast, NEW t \in {Writer, Reader}, CallStep(t)
  PROVE  EofLast'
<1>1. Advances(t) \/ Works(t) \/ DecidesToSwap(t) \/ Swaps(t) \/ Resumes(t)
  BY CallSteps
<1>2. /\ t \in Thread /\ call[t] \in Call
      /\ rcvr \in 1..2 /\ sndr \in 1..2 /\ sndr # rcvr /\ DOMAIN buffers = 1..2
      /\ QueueTypeOK(Rcvr) /\ QueueTypeOK(Sndr) /\ via \in [Thread -> 1..2]
  BY Threads, TypesOf DEF Rcvr, Sndr
<1>3. CASE Advances(t) \/ DecidesToSwap(t)
  <2>1. buffers' = buffers /\ rcvr' = rcvr
    BY <1>3 DEF Advances, DecidesToSwap
  <2>2. /\ pc'[Writer] \in Called => pc[Writer] \in Called
        /\ pc'[Writer] = "inside" => pc[Writer] = "inside" /\ via'[Writer] = via[Writer]
    BY <1>3, Threads DEF Advances, DecidesToSwap, Moves, Called
  <2> QED BY <2>1, <2>2, StaysLast DEF Rcvr, Sndr
<1>4. CASE Works(t)
  <2>1. PICK i \in {via[t], IF call[t].op = "pop" THEN sndr ELSE rcvr} :
             i \in 1..2 /\ ~buffers[i].killnow /\ Puts(i, Inner(buffers[i], call[t]))
    BY <1>4 DEF Works
  <2>2. \A j \in 1..2 : buffers'[j] = IF j = i THEN Inner(buffers[i], call[t]) ELSE buffers[j]
    BY <1>2, <2>1, OnePut DEF Puts
  <2>3. CASE t = Writer
    <3>1. pc[Writer] = "inside" /\ pc'[Writer] = "swapper" /\ rcvr' = rcvr
      BY <1>4, <2>3 DEF Works, Moves
    <3>2. ~Ended(Sndr) /\ (via[Writer] = rcvr \/ ~IsFull(Rcvr))
      BY <3>1 DEF EofLast, Called
    <3>3. Rcvr' = buffers'[rcvr] /\ Sndr' = buffers'[sndr]
      BY <3>1, Primes DEF sndr
    <3>4. CASE i = rcvr
      <4>1. buffers'[sndr] = Sndr
        BY <1>2, <2>2, <3>4 DEF Sndr
      <4> QED BY <3>1, <3>2, <3>3, <4>1 DEF EofLast, Ended, IsFull, Called
    <3>5. CASE i # rcvr
      <4>1. buffers'[rcvr] = Rcvr
        BY <1>2, <2>2, <3>5 DEF Rcvr
      <4>2. ~IsFull(Rcvr)
        <5>1. call[Writer].op # "pop"
          BY <3>1 DEF CallsOK, Called, PushCalls
        <5>2. i = via[Writer]
          BY <2>1, <2>3, <3>5, <5>1
        <5> QED BY <3>2, <3>5, <5>2
      <4> QED BY <3>1, <4>1, <4>2, RoomFirst DEF Called
    <3> QED BY <3>4, <3>5
  <2>4. CASE t = Reader
    <3>1. /\ rcvr' = rcvr /\ via'[Writer] = via[Writer]
          /\ pc'[Writer] = pc[Writer] \/ (pc[Writer] = "waiting" /\ pc'[Writer] = "woken")
          /\ pc[Reader] = "inside"
      BY <1>4, <2>4, Threads DEF Works, Moves
    <3>2. Inner(buffers[i], call[t]) = Pop(buffers[i])
      <4>1. call[t].op = "pop"
        BY <2>4, <3>1 DEF CallsOK, PopCalls
      <4> QED BY <2>1, <4>1 DEF Inner
    <3>3. /\ Ended(Pop(Rcvr)) => Ended(Rcvr)
          /\ IsFull(Pop(Rcvr)) => IsFull(Rcvr)
          /\ Ended(Pop(Sndr)) => Ended(Sndr)
      BY <1>2, EofLeft
    <3>4. buffers'[rcvr] \in {Rcvr, Pop(Rcvr)} /\ buffers'[sndr] \in {Sndr, Pop(Sndr)}
      BY <1>2, <2>2, <3>2 DEF Rcvr, Sndr
    <3>5. Ended(buffers'[rcvr]) => Ended(Rcvr)
      BY <3>3, <3>4
    <3>6. Ended(buffers'[sndr]) => Ended(Sndr)
      BY <3>3, <3>4
    <3>7. IsFull(buffers'[rcvr]) => IsFull(Rcvr)
      BY <3>3, <3>4
    <3> QED BY <3>1, <3>5, <3>6, <3>7, StaysLast DEF Called
  <2> QED BY <2>3, <2>4
<1>5. CASE Swaps(t)
  <2>1. rcvr' = sndr /\ buffers'[sndr] = Clear(Sndr) /\ buffers'[rcvr] = Rcvr
    BY <1>2, <1>5, OnePut DEF Swaps, Puts, Rcvr
  <2>2. ~IsFull(Clear(Sndr)) /\ ~Ended(Clear(Sndr))
    BY <1>2, RoomLeft, EofLeft
  <2>3. pc'[Writer] \in Called => pc[Writer] \in Called
    BY <1>5, Threads DEF Swaps, Moves, Called
  <2>4. 3 - rcvr' = rcvr
    BY <2>1, <1>2 DEF sndr
  <2>5. pc'[Writer] \in Called => ~Ended(buffers'[rcvr']) /\ ~Ended(buffers'[3 - rcvr'])
    BY <2>1, <2>2, <2>3, <2>4 DEF EofLast
  <2> QED BY <2>1, <2>2, <2>5, RoomFirst
<1>6. CASE Resumes(t)
  <2>1. pc[t] = "woken" /\ Outcome(t, call[t]) /\ rcvr' = rcvr
    BY <1>6 DEF Resumes
  <2>2. t = Writer => ~Ended(Rcvr) /\ ~Ended(Sndr)
    BY <2>1 DEF EofLast, Called
  <2> QED BY <1>2, <2>1, <2>2, AttemptLast
<1> QED BY <1>1, <1>3, <1>4, <1>5, <1>6

\* The end of file stays the last thing pushed.
LEMMA NextLast ==
  ASSUME Typed, CallsOK, EofLast, [Next]_vars
  PROVE  EofLast'
<1>1. /\ rcvr \in 1..2 /\ sndr \in 1..2 /\ sndr # rcvr /\ DOMAIN buffers = 1..2
      /\ QueueTypeOK(Rcvr) /\ QueueTypeOK(Sndr) /\ sndr = 3 - rcvr
  BY TypesOf DEF Rcvr, Sndr, sndr
<1>2. CASE UNCHANGED vars
  BY <1>2, StaysLast DEF vars, Rcvr, Sndr
<1>3. ASSUME NEW c \in Call, WriterWaits(c) PROVE EofLast'
  <2>1. MayCall(Writer, c) /\ Attempt(Writer, c) /\ pc[Writer] = "idle"
        /\ ~Ended(Rcvr) /\ ~Ended(Sndr)
    BY <1>3 DEF WriterWaits, MayCall, MayPush, Enter
  <2> QED BY <2>1, AttemptLast, Attempted
<1>4. ASSUME NEW c \in Call, ReaderWaits(c) PROVE EofLast'
  <2>1. MayCall(Reader, c) /\ Attempt(Reader, c) /\ pc[Reader] = "idle"
    BY <1>4 DEF ReaderWaits, MayCall, Enter
  <2> QED BY <2>1, AttemptLast, Attempted, Threads
<1>5. ASSUME NEW x \in Frame \cup {Null}, TryToPush(x) PROVE EofLast'
  <2>1. /\ pc' = pc /\ rcvr' = rcvr /\ pc[Writer] = "idle" /\ ~Ended(Sndr)
        /\ buffers'[sndr] = Sndr
    BY <1>1, <1>5 DEF TryToPush, MayPush, Enter, Sndr
  <2>2. Rcvr' = buffers'[rcvr] /\ Sndr' = buffers'[sndr]
    BY <2>1, Primes DEF sndr
  <2> QED BY <2>1, <2>2 DEF EofLast, Ended, IsFull, Called
<1>6. CASE WriterPopLastPushed
  <2>1. /\ pc' = pc /\ rcvr' = rcvr /\ pc[Writer] = "idle"
        /\ buffers'[sndr] = Sndr /\ buffers'[rcvr] = PopLastPushed(Rcvr)
    BY <1>1, <1>6 DEF WriterPopLastPushed, Enter, Sndr, Rcvr
  <2>2. Rcvr' = buffers'[rcvr] /\ Sndr' = buffers'[sndr]
    BY <2>1, Primes DEF sndr
  <2>3. IsFull(PopLastPushed(Rcvr)) => IsFull(Rcvr)
    BY <1>1, RoomLeft
  <2> QED BY <2>1, <2>2, <2>3 DEF EofLast, Ended, IsFull, Called
<1>7. CASE TryToPop
  <2>1. /\ UNCHANGED <<pc, rcvr, via>>
        /\ buffers'[sndr] = Pop(Sndr) /\ buffers'[rcvr] = Rcvr
    BY <1>1, <1>7 DEF TryToPop, Sndr, Rcvr
  <2>2. Ended(Pop(Sndr)) => Ended(Sndr)
    BY <1>1, EofLeft
  <2> QED BY <2>1, <2>2, StaysLast
<1>8. CASE Kill
  <2>1. /\ UNCHANGED <<buffers, rcvr, via>> /\ pc'[Writer] = pc[Writer]
    BY <1>8, Threads DEF Kill
  <2> QED BY <2>1, StaysLast DEF Rcvr, Sndr
<1>9. ASSUME NEW i \in 1..2, KillBuffer(i) PROVE EofLast'
  <2>1. /\ UNCHANGED <<rcvr, via>> /\ Puts(i, Killed(buffers[i])) /\ pc'[Writer] = pc[Writer]
    BY <1>9, Threads, TypesOf DEF KillBuffer, Puts
  <2>2. \A j \in 1..2 : buffers'[j] = IF j = i THEN Killed(buffers[i]) ELSE buffers[j]
    BY <1>1, <2>1, OnePut DEF Puts
  <2>3. buffers'[rcvr] \in {Rcvr, Killed(Rcvr)} /\ buffers'[sndr] \in {Sndr, Killed(Sndr)}
    BY <1>1, <2>2 DEF Rcvr, Sndr
  <2>4. /\ IsFull(Killed(Rcvr)) <=> IsFull(Rcvr)
        /\ Ended(Killed(Rcvr)) <=> Ended(Rcvr)
        /\ Ended(Killed(Sndr)) <=> Ended(Sndr)
    BY <1>1, RoomLeft, EofLeft
  <2>5. Ended(buffers'[rcvr]) => Ended(Rcvr)
    BY <2>3, <2>4
  <2>6. Ended(buffers'[sndr]) => Ended(Sndr)
    BY <2>3, <2>4
  <2>7. IsFull(buffers'[rcvr]) => IsFull(Rcvr)
    BY <2>3, <2>4
  <2> QED BY <2>1, <2>5, <2>6, <2>7, StaysLast
<1>10. CASE KillNotify
  <2>1. /\ UNCHANGED <<buffers, rcvr, via>>
        /\ pc'[Writer] = pc[Writer] \/ (pc[Writer] = "waiting" /\ pc'[Writer] = "woken")
    BY <1>10, Threads DEF KillNotify
  <2> QED BY <2>1, StaysLast DEF Called, Rcvr, Sndr
<1>11. ASSUME NEW method, NEW which, which \in {1..2, {rcvr}, {sndr}}, OwnerClear(method, which)
       PROVE  EofLast'
  <2>1. UNCHANGED <<pc, rcvr, via>>
    BY <1>11 DEF OwnerClear
  <2>2. buffers'[rcvr] \in {Rcvr, Clear(Rcvr)} /\ buffers'[sndr] \in {Sndr, Clear(Sndr)}
    BY <1>1, <1>11 DEF OwnerClear, Rcvr, Sndr
  <2>3. ~IsFull(Clear(Rcvr)) /\ ~Ended(Clear(Rcvr)) /\ ~Ended(Clear(Sndr))
    BY <1>1, RoomLeft, EofLeft
  <2>4. Ended(buffers'[rcvr]) => Ended(Rcvr)
    BY <2>2, <2>3
  <2>5. Ended(buffers'[sndr]) => Ended(Sndr)
    BY <2>2, <2>3
  <2>6. IsFull(buffers'[rcvr]) => IsFull(Rcvr)
    BY <2>2, <2>3
  <2> QED BY <2>1, <2>4, <2>5, <2>6, StaysLast
<1>12. CASE OwnerClrEof
  <2>1. /\ UNCHANGED <<pc, rcvr>> /\ pc[Writer] = "idle"
        /\ buffers'[rcvr] = ClrEof(Rcvr) /\ buffers'[sndr] = ClrEof(Sndr)
    BY <1>1, <1>12, Threads DEF OwnerClrEof, Quiet, Rcvr, Sndr
  <2>2. Rcvr' = buffers'[rcvr] /\ Sndr' = buffers'[sndr]
    BY <2>1, Primes DEF sndr
  <2>3. IsFull(ClrEof(Rcvr)) => IsFull(Rcvr)
    BY <1>1, EofLeft
  <2>4. Ended(ClrEof(Sndr)) => Ended(Sndr)
    <3>1. CASE ClrEof(Sndr) = Sndr
      BY <3>1
    <3>2. CASE ClrEof(Sndr) # Sndr
      BY <1>1, <3>2, EofLeft
    <3> QED BY <3>1, <3>2
  <2> QED BY <2>1, <2>2, <2>3, <2>4 DEF EofLast, Ended, IsFull, Called
<1> QED BY <1>2, <1>3, <1>4, <1>5, <1>6, <1>7, <1>8, <1>9, <1>10, <1>11, <1>12, CallStepLast
        DEF Next, WriterStep, ReaderStep, OwnerStep

\* No step makes a swap due that nobody sees to.
LEMMA NextComes ==
  ASSUME Typed, CallsOK, EofLast, SwapComes, [Next]_vars, Methods \cap NoSwapper = {}
  PROVE  SwapComes'
<1>1. /\ rcvr \in 1..2 /\ sndr \in 1..2 /\ sndr # rcvr /\ DOMAIN buffers = 1..2
      /\ QueueTypeOK(Rcvr) /\ QueueTypeOK(Sndr)
  BY TypesOf DEF Rcvr, Sndr
<1>2. "tryToPush" \notin Methods /\ "tryToPop" \notin Methods /\ "clearSndr" \notin Methods
  BY DEF NoSwapper
<1>3. CASE UNCHANGED vars
  BY <1>3, StillComes DEF vars, Rcvr, Sndr
<1>4. ASSUME NEW c \in Call, WriterWaits(c) PROVE SwapComes'
  <2>1. MayCall(Writer, c) /\ Attempt(Writer, c) /\ pc[Writer] = "idle"
    BY <1>4 DEF WriterWaits, MayCall, MayPush, Enter
  <2> QED BY <2>1, AttemptComes, Attempted
<1>5. ASSUME NEW c \in Call, ReaderWaits(c) PROVE SwapComes'
  <2>1. MayCall(Reader, c) /\ Attempt(Reader, c) /\ pc[Reader] = "idle"
    BY <1>5 DEF ReaderWaits, MayCall, Enter
  <2> QED BY <2>1, AttemptComes, Attempted
<1>6. CASE WriterPopLastPushed
  <2>1. UNCHANGED <<rcvr, killnow, pc>> /\ Puts(rcvr, PopLastPushed(Rcvr))
    BY <1>6 DEF WriterPopLastPushed, Puts, Rcvr
  <2>2. buffers'[rcvr] = PopLastPushed(Rcvr) /\ buffers'[sndr] = Sndr
    BY <1>1, <2>1, OnePut DEF Puts, Sndr
  <2> QED BY <1>1, <2>1, <2>2, RoomLeft, StillComes
<1>7. CASE Kill
  <2>1. killnow' = TRUE
    BY <1>7 DEF Kill
  <2> QED BY <2>1 DEF SwapComes
<1>8. ASSUME NEW i \in 1..2, KillBuffer(i) PROVE SwapComes'
  <2>1. UNCHANGED <<rcvr, killnow>> /\ Puts(i, Killed(buffers[i]))
    BY <1>8 DEF KillBuffer, Puts
  <2>2. \A j \in 1..2 : buffers'[j] = IF j = i THEN Killed(buffers[i]) ELSE buffers[j]
    BY <1>1, <2>1, OnePut DEF Puts
  <2>3. buffers'[rcvr] \in {Rcvr, Killed(Rcvr)} /\ buffers'[sndr] \in {Sndr, Killed(Sndr)}
    BY <1>1, <2>2 DEF Rcvr, Sndr
  <2>4. \A u \in {Writer, Reader} : pc'[u] = pc[u]
    BY <1>8, Threads, TypesOf DEF KillBuffer
  <2>5. (IsFull(Killed(Rcvr)) <=> IsFull(Rcvr)) /\ (IsEmpty(Killed(Sndr)) <=> IsEmpty(Sndr))
    BY <1>1, RoomLeft
  <2>6. IsFull(buffers'[rcvr]) => IsFull(Rcvr)
    BY <2>3, <2>5
  <2>7. IsEmpty(buffers'[sndr]) => IsEmpty(Sndr)
    BY <2>3, <2>5
  <2> QED BY <2>1, <2>4, <2>6, <2>7, StillComes
<1>9. CASE KillNotify
  <2>1. UNCHANGED <<buffers, rcvr, killnow>>
    BY <1>9 DEF KillNotify
  <2>2. \A u \in {Writer, Reader} : pc[u] \in {"swapper", "swapping"} => pc'[u] = pc[u]
    BY <1>9, Threads DEF KillNotify
  <2> QED BY <2>1, <2>2, StillComes DEF Rcvr, Sndr
<1>10. CASE OwnerClear("clear", 1..2) \/ OwnerClear("clearRcvr", {rcvr})
  <2>1. rcvr' = rcvr /\ buffers'[rcvr] = Clear(Rcvr)
    BY <1>1, <1>10 DEF OwnerClear, Rcvr
  <2> QED BY <1>1, <2>1, RoomLeft, NotFullNow
<1>11. CASE OwnerClrEof
  <2>1. /\ UNCHANGED <<pc, rcvr, killnow>>
        /\ buffers'[rcvr] = ClrEof(Rcvr) /\ buffers'[sndr] = ClrEof(Sndr)
    BY <1>1, <1>11 DEF OwnerClrEof, Rcvr, Sndr
  <2>2. IsFull(ClrEof(Rcvr)) => IsFull(Rcvr)
    BY <1>1, EofLeft
  <2>3. CASE ClrEof(Sndr) = Sndr
    BY <2>1, <2>2, <2>3, StillComes
  <2>4. CASE ClrEof(Sndr) # Sndr
    <3>1. ~IsFull(Rcvr)
      BY <1>1, <2>4, EofLeft DEF EofLast
    <3> QED BY <2>1, <2>2, <3>1, NotFullNow
  <2> QED BY <2>3, <2>4
<1> QED BY <1>2, <1>3, <1>4, <1>5, <1>6, <1>7, <1>8, <1>9, <1>10, <1>11, CallStepComes
        DEF Next, WriterStep, ReaderStep, OwnerStep, TryToPush, TryToPop, OwnerClear

\* The writer and the reader never wait for each other (AVFrameDoubleBufferMT's
\* cv_swap), whatever the capacity, even after a swap was overtaken and while the
\* buffer is killed and cleared: of two threads that wait, neither ready, one has
\* left a due swap behind it, and none leaves before its swapper.  The methods of
\* NoSwapper are the exception: each of them can leave the two waiting.  clrEof()
\* runs no swapper either, but it never makes a swap due.
THEOREM NobodyWaitsForBoth ==
  ASSUME Methods \cap NoSwapper = {}
  PROVE  Spec => []NoMutualWait
<1>1. Init => SwapComes /\ EofLast
  <2> SUFFICES ASSUME Init PROVE SwapComes /\ EofLast
    OBVIOUS
  <2>1. PICK N \in Nat : buffers = [i \in 1..2 |-> NewQueue(N)]
    BY CapacityAssumption DEF Init
  <2>2. Rcvr = NewQueue(N)
    BY <2>1 DEF Init, Rcvr
  <2>3. ~IsFull(NewQueue(N))
    BY SlotFields DEF NewQueue, IsFull
  <2>4. pc[Writer] = "idle"
    BY Threads DEF Init
  <2> QED BY <2>2, <2>3, <2>4 DEF SwapComes, EofLast, Called
<1>2. IInv /\ EofLast /\ SwapComes /\ [Next]_vars => EofLast' /\ SwapComes'
  BY NextComes, NextLast DEF IInv
<1>3. IInv /\ SwapComes => NoMutualWait
  <2> SUFFICES ASSUME IInv, SwapComes, pc[Writer] = "waiting", pc[Reader] = "waiting",
                      ~Ready(call[Writer]), ~Ready(call[Reader])
               PROVE  FALSE
    BY DEF NoMutualWait
  <2>1. call[Writer].op \in PushCalls /\ call[Reader].op \in PopCalls
    BY DEF IInv, CallsOK, Called
  <2>2. ~killnow /\ IsFull(Rcvr)
    BY <2>1 DEF Ready, PushCalls
  <2>3. IsEmpty(Sndr)
    BY <2>1, <2>2 DEF Ready, PushCalls, PopCalls
  <2> QED BY <2>2, <2>3 DEF SwapComes
<1> QED BY <1>1, <1>2, <1>3, Invariance, PTL DEF Spec

=============================================================================
