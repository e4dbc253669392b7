------------------------- MODULE ReaderThreadProofs -------------------------
(***************************************************************************)
(* The handshake of ReaderMT's two threads keeps what it is for, whatever  *)
(* the size of the buffer, the delay of the decoder and the number of      *)
(* seeks: the worker rests while the user has the file, nothing stale is   *)
(* left, and nobody sleeps for what is already so.                         *)
(*                                                                         *)
(* The argument: status is PAUSED or IDLE only while the worker is not in  *)
(* the middle of a packet, only the worker makes it so, and once it is so  *)
(* only resume() makes it ACTIVE again; so what pause() has seen stays     *)
(* true until the user resumes.                                            *)
(***************************************************************************)
EXTENDS ReaderThread, SequenceTheorems, TLAPS

\* Frames of the last packet may be left only here.
Pushing == {"reading", "blocking", "buffer_asleep", "buffer_woken"}

\* The call that the user is in is the one it says.
TaskInv ==
  /\ user \in {"init", "init_asleep", "init_woken"} => task = "activate"
  /\ user = "join" => task = "stop"
  /\ /\ user \in {"pause", "kill_notify", "request", "rest_asleep", "rest_woken", "quiet"}
     /\ task = "seek"
     => position < MaxSeeks
  /\ user \in {"news", "news_blocking", "news_asleep", "news_woken"} => task = "read"

\* At rest means at rest, and it lasts until the user resumes the worker.
RestInv ==
  ~Restarted =>
    /\ starts = 0 => status = "INIT" /\ worker = "none" /\ user = "idle"
    /\ worker = "starting" => status = "INIT"
    /\ status = "INIT" => starts = 0 \/ user \in {"init", "init_asleep", "init_woken"}
    /\ status \in {"PAUSED", "IDLE"} => ~Reading
    /\ user \in {"quiet", "resume", "join"} => status \in {"PAUSED", "IDLE"}
    /\ user = "resuming" => status = "PAUSED"

\* A worker that is asleep, and a user that is, have nothing to wake up for.
WaitInv ==
  /\ NobodyForgotten
  /\ status = "INIT" => worker \in {"none", "starting"}
  /\ worker \in {"none", "starting"} => ~atEnd
  /\ atEnd /\ status = "ACTIVE" /\ worker \notin Pushing =>
       user \notin {"rest_asleep", "rest_woken"}

\* Frames on their way are as fresh as the ones in the buffer.
FreshBuffer == \A i \in DOMAIN buffer : buffer[i].decoded = position
FreshTodo == \A i \in DOMAIN todo : todo[i].decoded = position

FrameInv ==
  /\ worker \notin Pushing => todo = <<>>
  /\ worker \in {"blocking", "buffer_asleep", "buffer_woken"} => todo # <<>>
  /\ ~Restarted => FreshBuffer /\ FreshTodo

IInv == TypeOK /\ TaskInv /\ RestInv /\ WaitInv /\ FrameInv

-----------------------------------------------------------------------------
(* What a packet does. *)

LEMMA ReadPacketFacts ==
  ASSUME TypeOK, ReadPacket
  PROVE  /\ todo' \in Seq(Frames) /\ \A i \in DOMAIN todo' : todo'[i].decoded = position
         /\ decoder' \in Seq(0..MaxSeeks) /\ Len(decoder') <= Delay
         /\ atEnd' \in BOOLEAN
<1> DEFINE frames == Append(decoder, position)
<1>1. frames \in Seq(0..MaxSeeks) /\ Len(frames) = Len(decoder) + 1
  BY DEF TypeOK
<1>2. Delay \in Nat
  BY BoundsAssumption
<1>3. ASSUME NEW s \in Seq(0..MaxSeeks)
      PROVE  /\ Decoded(s) \in Seq(Frames)
             /\ \A i \in DOMAIN Decoded(s) : Decoded(s)[i].decoded = position
  <2>1. DOMAIN s = 1..Len(s) /\ Len(s) \in Nat
    BY <1>3
  <2>2. \A i \in 1..Len(s) : s[i] \in 0..MaxSeeks
    BY <1>3, ElementOfSeq
  <2>3. Decoded(s) \in [1..Len(s) -> Frames]
    BY <2>1, <2>2 DEF Decoded, Frames, TypeOK
  <2>4. Decoded(s) \in Seq(Frames)
    BY <2>1, <2>3, SeqDef
  <2> QED BY <2>1, <2>4 DEF Decoded
<1>4. CASE /\ \E n \in (Len(decoder) + 1 - Delay)..(Len(decoder) + 1) :
                /\ n >= 0
                /\ todo' = Decoded(SubSeq(frames, 1, n))
                /\ decoder' = SubSeq(frames, n + 1, Len(frames))
           /\ UNCHANGED atEnd
  <2>1. PICK n \in (Len(decoder) + 1 - Delay)..(Len(decoder) + 1) :
                /\ n >= 0
                /\ todo' = Decoded(SubSeq(frames, 1, n))
                /\ decoder' = SubSeq(frames, n + 1, Len(frames))
    BY <1>4
  <2>2. Len(decoder) \in Nat /\ n \in 0..Len(frames) /\ Len(frames) - n <= Delay
    BY <1>1, <1>2, <2>1 DEF TypeOK
  <2> HIDE DEF frames
  <2>3. \A i \in 1..Len(frames) : frames[i] \in 0..MaxSeeks
    BY <1>1, ElementOfSeq
  <2>4. /\ 1 \in Int /\ n \in Int /\ n + 1 \in Int /\ Len(frames) \in Int
        /\ \A i \in 1..n : i \in 1..Len(frames)
        /\ \A i \in (n + 1)..Len(frames) : i \in 1..Len(frames)
    BY <1>1, <2>2
  <2>5. SubSeq(frames, 1, n) \in Seq(0..MaxSeeks)
    BY <2>3, <2>4, SubSeqProperties
  <2>6. /\ SubSeq(frames, n + 1, Len(frames)) \in Seq(0..MaxSeeks)
        /\ Len(SubSeq(frames, n + 1, Len(frames))) =
             IF n + 1 <= Len(frames) THEN Len(frames) - (n + 1) + 1 ELSE 0
    BY <2>3, <2>4, SubSeqProperties
  <2>7. Len(SubSeq(frames, n + 1, Len(frames))) <= Delay
    BY <1>1, <1>2, <2>2, <2>6
  <2>8. atEnd' \in BOOLEAN
    BY <1>4 DEF TypeOK
  <2> QED BY <1>3, <2>1, <2>5, <2>6, <2>7, <2>8
<1>5. CASE todo' = Decoded(frames) /\ decoder' = <<>> /\ atEnd' = TRUE
  <2>1. decoder' \in Seq(0..MaxSeeks) /\ Len(decoder') <= Delay
    BY <1>2, <1>5
  <2> HIDE DEF frames
  <2> QED BY <1>1, <1>3, <1>5, <2>1
<1> QED BY <1>4, <1>5 DEF ReadPacket

\* A push takes the first of the frames on their way, and nothing else.
LEMMA DeliverFacts ==
  ASSUME TypeOK, Deliver, todo # <<>>
  PROVE  /\ worker' \in {"reading", "blocking"}
         /\ worker' = "blocking" => todo' # <<>>
         /\ todo' \in Seq(Frames) /\ buffer' \in Seq(Frames) /\ Len(buffer') <= Room
         /\ \A i \in DOMAIN todo' : \E j \in DOMAIN todo : todo'[i] = todo[j]
         /\ \A i \in DOMAIN buffer' :
               \/ i \in DOMAIN buffer /\ buffer'[i] = buffer[i]
               \/ buffer'[i] = todo[1] /\ 1 \in DOMAIN todo
<1>1. todo \in Seq(Frames) /\ buffer \in Seq(Frames) /\ Len(buffer) <= Room /\ Room \in Nat
  BY BoundsAssumption DEF TypeOK
<1>2. /\ Tail(todo) \in Seq(Frames) /\ Head(todo) = todo[1] /\ todo[1] \in Frames
      /\ 1 \in DOMAIN todo
      /\ \A i \in DOMAIN Tail(todo) : i + 1 \in DOMAIN todo /\ Tail(todo)[i] = todo[i + 1]
  BY <1>1
<1>3. /\ Append(buffer, todo[1]) \in Seq(Frames)
      /\ Len(Append(buffer, todo[1])) = Len(buffer) + 1
      /\ \A i \in DOMAIN Append(buffer, todo[1]) :
            \/ i \in DOMAIN buffer /\ Append(buffer, todo[1])[i] = buffer[i]
            \/ Append(buffer, todo[1])[i] = todo[1]
  BY <1>1, <1>2, AppendProperties
<1>4. CASE bufferKilled /\ worker' = "reading" /\ todo' = Tail(todo) /\ UNCHANGED buffer
  BY <1>1, <1>2, <1>4
<1>5. CASE /\ Len(buffer) < Room /\ worker' = "reading" /\ todo' = Tail(todo)
           /\ buffer' = Append(buffer, Head(todo))
  BY <1>1, <1>2, <1>3, <1>5
<1>6. CASE worker' = "blocking" /\ UNCHANGED <<todo, buffer>>
  BY <1>1, <1>6
<1>7. \/ bufferKilled /\ worker' = "reading" /\ todo' = Tail(todo) /\ UNCHANGED buffer
      \/ /\ Len(buffer) < Room /\ worker' = "reading" /\ todo' = Tail(todo)
         /\ buffer' = Append(buffer, Head(todo))
      \/ worker' = "blocking" /\ UNCHANGED <<todo, buffer>>
  BY DEF Deliver
<1> QED BY <1>4, <1>5, <1>6, <1>7

-----------------------------------------------------------------------------
(* A step keeps the invariant, part by part. *)

LEMMA TypeStep ==
  ASSUME TypeOK, TaskInv, FrameInv, [Next]_vars
  PROVE  TypeOK'
<1> USE DEF threadVars, fileVars, bufferVars
<1>1. CASE WorkerStarts
  BY BoundsAssumption, <1>1
    DEF WorkerStarts, NotifyUser, UserWoken, TypeOK, Statuses, WorkerPlaces, UserPlaces,
        Tasks
<1>2. CASE LoopEnds
  BY BoundsAssumption, <1>2 DEF LoopEnds, TypeOK, Statuses, WorkerPlaces, UserPlaces, Tasks
<1>3. CASE LoopRests
  BY BoundsAssumption, <1>3 DEF LoopRests, TypeOK, Statuses, WorkerPlaces, UserPlaces, Tasks
<1>4. CASE LoopPauses
  BY BoundsAssumption, <1>4
    DEF LoopPauses, NotifyUser, UserWoken, TypeOK, Statuses, WorkerPlaces, UserPlaces,
        Tasks
<1>5. CASE LoopIdles
  BY BoundsAssumption, <1>5 DEF LoopIdles, TypeOK, Statuses, WorkerPlaces, UserPlaces, Tasks
<1>6. CASE LoopReads
  BY <1>6, ReadPacketFacts DEF LoopReads, TypeOK, Statuses, WorkerPlaces, UserPlaces, Tasks
<1>7. CASE WorkerPushes
  BY <1>7, DeliverFacts
    DEF WorkerPushes, FrameInv, Pushing, TypeOK, Statuses, WorkerPlaces, UserPlaces, Tasks
<1>8. CASE WorkerBlocks
  BY BoundsAssumption, <1>8
    DEF WorkerBlocks, TypeOK, Statuses, WorkerPlaces, UserPlaces, Tasks
<1>9. CASE WorkerHasRead
  BY BoundsAssumption, <1>9
    DEF WorkerHasRead, TypeOK, Statuses, WorkerPlaces, UserPlaces, Tasks
<1>10. CASE WorkerNotifies
  BY BoundsAssumption, <1>10
    DEF WorkerNotifies, NotifyUser, UserWoken, TypeOK, Statuses, WorkerPlaces, UserPlaces,
        Tasks
<1>11. CASE WorkerRelocks
  BY BoundsAssumption, <1>11
    DEF WorkerRelocks, TypeOK, Statuses, WorkerPlaces, UserPlaces, Tasks
<1>12. CASE WorkerWakes
  BY BoundsAssumption, <1>12
    DEF WorkerWakes, TypeOK, Statuses, WorkerPlaces, UserPlaces, Tasks
<1>13. CASE Activate
  <2>1. starts' \in 0..MaxStarts
    BY <1>13, BoundsAssumption DEF Activate, TypeOK
  <2> QED BY <1>13, <2>1 DEF Activate, TypeOK, Statuses, WorkerPlaces, UserPlaces, Tasks
<1>14. CASE Begin("seek")
  BY BoundsAssumption, <1>14
    DEF Begin, Running, TypeOK, Statuses, WorkerPlaces, UserPlaces, Tasks
<1>15. CASE Begin("stop")
  BY BoundsAssumption, <1>15
    DEF Begin, Running, TypeOK, Statuses, WorkerPlaces, UserPlaces, Tasks
<1>16. CASE BeginFlush
  BY BoundsAssumption, <1>16
    DEF BeginFlush, Begin, Running, TypeOK, Statuses, WorkerPlaces, UserPlaces, Tasks
<1>17. CASE FlushPaused
  <2>1. <<>> \in Seq(Frames) /\ Len(<<>>) <= Room
    BY BoundsAssumption
  <2> QED BY <1>17, <2>1, BoundsAssumption
    DEF FlushPaused, Running, ClearBuffer, TypeOK, Statuses, WorkerPlaces, UserPlaces,
        Tasks
<1>18. CASE Pop
  <2>1. Tail(buffer) \in Seq(Frames) /\ Len(Tail(buffer)) <= Room
    BY <1>18, BoundsAssumption DEF Pop, TypeOK
  <2> QED BY <1>18, <2>1 DEF Pop, Running, TypeOK, Statuses, WorkerPlaces, UserPlaces, Tasks
<1>19. CASE ReadNextPacket
  BY BoundsAssumption, <1>19
    DEF ReadNextPacket, Running, TypeOK, Statuses, WorkerPlaces, UserPlaces, Tasks
<1>20. CASE WaitTillInitialized
  BY BoundsAssumption, <1>20
    DEF WaitTillInitialized, TypeOK, Statuses, WorkerPlaces, UserPlaces, Tasks
<1>21. CASE SkipPause
  BY BoundsAssumption, <1>21
    DEF SkipPause, TypeOK, Statuses, WorkerPlaces, UserPlaces, Tasks
<1>22. CASE PauseKills
  BY BoundsAssumption, <1>22
    DEF PauseKills, TypeOK, Statuses, WorkerPlaces, UserPlaces, Tasks
<1>23. CASE PauseKillNotifies
  BY BoundsAssumption, <1>23
    DEF PauseKillNotifies, TypeOK, Statuses, WorkerPlaces, UserPlaces, Tasks
<1>24. CASE RequestPause
  BY BoundsAssumption, <1>24
    DEF RequestPause, NotifyWorker, TypeOK, Statuses, WorkerPlaces, UserPlaces, Tasks
<1>25. CASE WaitTillAtRest
  BY BoundsAssumption, <1>25
    DEF WaitTillAtRest, TypeOK, Statuses, WorkerPlaces, UserPlaces, Tasks
<1>26. CASE Reposition
  <2>1. /\ <<>> \in Seq(Frames) /\ Len(<<>>) <= Room
        /\ <<>> \in Seq(0..MaxSeeks) /\ Len(<<>>) <= Delay
    BY BoundsAssumption
  <2>2. /\ buffer' = <<>> /\ (decoder' = <<>> \/ decoder' = decoder)
        /\ position' = position + 1 /\ position < MaxSeeks /\ user' = "resume"
    BY <1>26 DEF Reposition, ClearBuffer, TaskInv
  <2>3. /\ buffer' \in Seq(Frames) /\ Len(buffer') <= Room
        /\ decoder' \in Seq(0..MaxSeeks) /\ Len(decoder') <= Delay
    BY <2>1, <2>2 DEF TypeOK
  <2>4. position' \in 0..MaxSeeks /\ user' \in UserPlaces
    BY <2>2, BoundsAssumption DEF TypeOK, UserPlaces
  <2>5. atEnd' \in BOOLEAN /\ bufferKilled' \in BOOLEAN
    BY <1>26 DEF Reposition, ClearBuffer
  <2> QED BY <1>26, <2>3, <2>4, <2>5 DEF Reposition, TypeOK
<1>27. CASE Flush
  <2>1. <<>> \in Seq(Frames) /\ Len(<<>>) <= Room
    BY BoundsAssumption
  <2> QED BY <1>27, <2>1, BoundsAssumption
    DEF Flush, ClearBuffer, TypeOK, Statuses, WorkerPlaces, UserPlaces, Tasks
<1>28. CASE Resume
  <2>1. buffer' = buffer \/ buffer' = <<>>
    BY <1>28 DEF Resume, ClearBuffer
  <2>2. <<>> \in Seq(Frames) /\ Len(<<>>) <= Room
    BY BoundsAssumption
  <2>3. buffer' \in Seq(Frames) /\ Len(buffer') <= Room
    BY <2>1, <2>2 DEF TypeOK
  <2>4. task' \in Tasks /\ user' \in UserPlaces /\ bufferKilled' \in BOOLEAN
    BY <1>28 DEF Resume, ClearBuffer, TypeOK, Tasks, UserPlaces
  <2> QED BY <1>28, <2>3, <2>4 DEF Resume, TypeOK
<1>29. CASE SetActive
  BY BoundsAssumption, <1>29
    DEF SetActive, NotifyWorker, TypeOK, Statuses, WorkerPlaces, UserPlaces, Tasks
<1>30. CASE Terminate
  BY BoundsAssumption, <1>30
    DEF Terminate, NotifyWorker, TypeOK, Statuses, WorkerPlaces, UserPlaces, Tasks
<1>31. CASE Join
  <2>1. <<>> \in Seq(Frames) /\ Len(<<>>) <= Room /\ <<>> \in Seq(0..MaxSeeks) /\ Len(<<>>) <= Delay
    BY BoundsAssumption
  <2> QED BY <1>31, <2>1, BoundsAssumption
    DEF Join, ClearBuffer, TypeOK, Statuses, WorkerPlaces, UserPlaces, Tasks
<1>32. CASE LookForNews
  BY BoundsAssumption, <1>32
    DEF LookForNews, TypeOK, Statuses, WorkerPlaces, UserPlaces, Tasks
<1>33. CASE FallAsleep
  BY BoundsAssumption, <1>33
    DEF FallAsleep, TypeOK, Statuses, WorkerPlaces, UserPlaces, Tasks
<1>34. CASE GetNews
  BY BoundsAssumption, <1>34 DEF GetNews, TypeOK, Statuses, WorkerPlaces, UserPlaces, Tasks
<1>35. CASE Spurious
  BY BoundsAssumption, <1>35
    DEF Spurious, NotifyUser, UserWoken, UserAsleep, TypeOK, Statuses, WorkerPlaces,
        UserPlaces, Tasks
<1>36. CASE UNCHANGED vars
  BY BoundsAssumption, <1>36 DEF vars, TypeOK, Statuses, WorkerPlaces, UserPlaces, Tasks
<1> QED BY <1>1, <1>2, <1>3, <1>4, <1>5, <1>6, <1>7, <1>8, <1>9, <1>10, <1>11, <1>12,
     <1>13, <1>14, <1>15, <1>16, <1>17, <1>18, <1>19, <1>20, <1>21, <1>22, <1>23,
     <1>24, <1>25, <1>26, <1>27, <1>28, <1>29, <1>30, <1>31, <1>32, <1>33, <1>34,
     <1>35, <1>36
  DEF Next, WorkerStep, Calls, PauseStep, QuietStep, NewsStep

LEMMA TaskStep ==
  ASSUME TaskInv, [Next]_vars
  PROVE  TaskInv'
<1> USE DEF threadVars, fileVars, bufferVars
<1>1. CASE WorkerStarts
  BY <1>1 DEF WorkerStarts, NotifyUser, UserWoken, TaskInv
<1>2. CASE LoopEnds
  BY <1>2 DEF LoopEnds, TaskInv
<1>3. CASE LoopRests
  BY <1>3 DEF LoopRests, TaskInv
<1>4. CASE LoopPauses
  BY <1>4 DEF LoopPauses, NotifyUser, UserWoken, TaskInv
<1>5. CASE LoopIdles
  BY <1>5 DEF LoopIdles, TaskInv
<1>6. CASE LoopReads
  BY <1>6 DEF LoopReads, ReadPacket, TaskInv
<1>7. CASE WorkerPushes
  BY <1>7 DEF WorkerPushes, Deliver, TaskInv
<1>8. CASE WorkerBlocks
  BY <1>8 DEF WorkerBlocks, TaskInv
<1>9. CASE WorkerHasRead
  BY <1>9 DEF WorkerHasRead, TaskInv
<1>10. CASE WorkerNotifies
  BY <1>10 DEF WorkerNotifies, NotifyUser, UserWoken, TaskInv
<1>11. CASE WorkerRelocks
  BY <1>11 DEF WorkerRelocks, TaskInv
<1>12. CASE WorkerWakes
  BY <1>12 DEF WorkerWakes, TaskInv
<1>13. CASE Activate
  BY <1>13 DEF Activate, TaskInv
<1>14. CASE Begin("seek")
  BY <1>14 DEF Begin, Running, TaskInv
<1>15. CASE Begin("stop")
  BY <1>15 DEF Begin, Running, TaskInv
<1>16. CASE BeginFlush
  BY <1>16 DEF BeginFlush, Begin, Running, TaskInv
<1>17. CASE FlushPaused
  BY <1>17 DEF FlushPaused, Running, ClearBuffer, TaskInv
<1>18. CASE Pop
  BY <1>18 DEF Pop, Running, TaskInv
<1>19. CASE ReadNextPacket
  BY <1>19 DEF ReadNextPacket, Running, TaskInv
<1>20. CASE WaitTillInitialized
  BY <1>20 DEF WaitTillInitialized, TaskInv
<1>21. CASE SkipPause
  BY <1>21 DEF SkipPause, TaskInv
<1>22. CASE PauseKills
  BY <1>22 DEF PauseKills, TaskInv
<1>23. CASE PauseKillNotifies
  BY <1>23 DEF PauseKillNotifies, TaskInv
<1>24. CASE RequestPause
  BY <1>24 DEF RequestPause, NotifyWorker, TaskInv
<1>25. CASE WaitTillAtRest
  BY <1>25 DEF WaitTillAtRest, TaskInv
<1>26. CASE Reposition
  BY <1>26 DEF Reposition, ClearBuffer, TaskInv
<1>27. CASE Flush
  BY <1>27 DEF Flush, ClearBuffer, TaskInv
<1>28. CASE Resume
  BY <1>28 DEF Resume, ClearBuffer, TaskInv
<1>29. CASE SetActive
  BY <1>29 DEF SetActive, NotifyWorker, TaskInv
<1>30. CASE Terminate
  BY <1>30 DEF Terminate, NotifyWorker, TaskInv
<1>31. CASE Join
  BY <1>31 DEF Join, ClearBuffer, TaskInv
<1>32. CASE LookForNews
  BY <1>32 DEF LookForNews, TaskInv
<1>33. CASE FallAsleep
  BY <1>33 DEF FallAsleep, TaskInv
<1>34. CASE GetNews
  BY <1>34 DEF GetNews, TaskInv
<1>35. CASE Spurious
  BY <1>35 DEF Spurious, NotifyUser, UserWoken, UserAsleep, TaskInv
<1>36. CASE UNCHANGED vars
  BY <1>36 DEF vars, TaskInv
<1> QED BY <1>1, <1>2, <1>3, <1>4, <1>5, <1>6, <1>7, <1>8, <1>9, <1>10, <1>11, <1>12,
     <1>13, <1>14, <1>15, <1>16, <1>17, <1>18, <1>19, <1>20, <1>21, <1>22, <1>23,
     <1>24, <1>25, <1>26, <1>27, <1>28, <1>29, <1>30, <1>31, <1>32, <1>33, <1>34,
     <1>35, <1>36
  DEF Next, WorkerStep, Calls, PauseStep, QuietStep, NewsStep

LEMMA RestStep ==
  ASSUME TypeOK, TaskInv, RestInv, [Next]_vars
  PROVE  RestInv'
<1> USE DEF threadVars, fileVars, bufferVars
<1>1. CASE WorkerStarts
  BY <1>1 DEF WorkerStarts, NotifyUser, UserWoken, RestInv, Restarted, Reading, TypeOK
<1>2. CASE LoopEnds
  BY <1>2 DEF LoopEnds, RestInv, Restarted, Reading, TypeOK
<1>3. CASE LoopRests
  BY <1>3 DEF LoopRests, RestInv, Restarted, Reading, TypeOK
<1>4. CASE LoopPauses
  BY <1>4 DEF LoopPauses, NotifyUser, UserWoken, RestInv, Restarted, Reading, TypeOK
<1>5. CASE LoopIdles
  BY <1>5 DEF LoopIdles, RestInv, Restarted, Reading, TypeOK
<1>6. CASE LoopReads
  BY <1>6 DEF LoopReads, ReadPacket, RestInv, Restarted, Reading, TypeOK
<1>7. CASE WorkerPushes
  BY <1>7 DEF WorkerPushes, Deliver, RestInv, Restarted, Reading
<1>8. CASE WorkerBlocks
  BY <1>8 DEF WorkerBlocks, RestInv, Restarted, Reading, TypeOK
<1>9. CASE WorkerHasRead
  BY <1>9 DEF WorkerHasRead, RestInv, Restarted, Reading, TypeOK
<1>10. CASE WorkerNotifies
  BY <1>10 DEF WorkerNotifies, NotifyUser, UserWoken, RestInv, Restarted, Reading, TypeOK
<1>11. CASE WorkerRelocks
  BY <1>11 DEF WorkerRelocks, RestInv, Restarted, Reading, TypeOK
<1>12. CASE WorkerWakes
  BY <1>12 DEF WorkerWakes, RestInv, Restarted, Reading, TypeOK
<1>13. CASE Activate
  BY <1>13 DEF Activate, RestInv, Restarted, Reading, TypeOK
<1>14. CASE Begin("seek")
  BY <1>14 DEF Begin, Running, RestInv, Restarted, Reading, TypeOK
<1>15. CASE Begin("stop")
  BY <1>15 DEF Begin, Running, RestInv, Restarted, Reading, TypeOK
<1>16. CASE BeginFlush
  BY <1>16 DEF BeginFlush, Begin, Running, RestInv, Restarted, Reading, TypeOK
<1>17. CASE FlushPaused
  BY <1>17 DEF FlushPaused, Running, ClearBuffer, RestInv, Restarted, Reading, TypeOK
<1>18. CASE Pop
  BY <1>18 DEF Pop, Running, RestInv, Restarted, Reading, TypeOK
<1>19. CASE ReadNextPacket
  BY <1>19 DEF ReadNextPacket, Running, RestInv, Restarted, Reading, TypeOK
<1>20. CASE WaitTillInitialized
  BY <1>20 DEF WaitTillInitialized, RestInv, Restarted, Reading, TypeOK
<1>21. CASE SkipPause
  BY <1>21 DEF SkipPause, RestInv, Restarted, Reading, TypeOK
<1>22. CASE PauseKills
  BY <1>22 DEF PauseKills, RestInv, Restarted, Reading, TypeOK
<1>23. CASE PauseKillNotifies
  BY <1>23 DEF PauseKillNotifies, RestInv, Restarted, Reading, TypeOK
<1>24. CASE RequestPause
  BY <1>24 DEF RequestPause, NotifyWorker, RestInv, Restarted, Reading, TypeOK
<1>25. CASE WaitTillAtRest
  BY <1>25 DEF WaitTillAtRest, RestInv, Restarted, Reading, TypeOK
<1>26. CASE Reposition
  BY <1>26 DEF Reposition, ClearBuffer, RestInv, Restarted, Reading, TypeOK
<1>27. CASE Flush
  BY <1>27 DEF Flush, ClearBuffer, RestInv, Restarted, Reading, TypeOK
<1>28. CASE Resume
  BY <1>28 DEF Resume, ClearBuffer, RestInv, Restarted, Reading, TypeOK
<1>29. CASE SetActive
  BY <1>29 DEF SetActive, NotifyWorker, RestInv, Restarted, Reading, TypeOK
<1>30. CASE Terminate
  BY <1>30 DEF Terminate, NotifyWorker, RestInv, Restarted, Reading, TypeOK
<1>31. CASE Join
  BY <1>31 DEF Join, ClearBuffer, RestInv, Restarted, Reading, TypeOK
<1>32. CASE LookForNews
  BY <1>32 DEF LookForNews, RestInv, Restarted, Reading, TypeOK
<1>33. CASE FallAsleep
  BY <1>33 DEF FallAsleep, RestInv, Restarted, Reading, TypeOK
<1>34. CASE GetNews
  BY <1>34 DEF GetNews, RestInv, Restarted, Reading, TypeOK
<1>35. CASE Spurious
  BY <1>35
    DEF Spurious, NotifyUser, UserWoken, UserAsleep, RestInv, Restarted, Reading, TypeOK
<1>36. CASE UNCHANGED vars
  BY <1>36 DEF vars, RestInv, Restarted, Reading, TypeOK
<1> QED BY <1>1, <1>2, <1>3, <1>4, <1>5, <1>6, <1>7, <1>8, <1>9, <1>10, <1>11, <1>12,
     <1>13, <1>14, <1>15, <1>16, <1>17, <1>18, <1>19, <1>20, <1>21, <1>22, <1>23,
     <1>24, <1>25, <1>26, <1>27, <1>28, <1>29, <1>30, <1>31, <1>32, <1>33, <1>34,
     <1>35, <1>36
  DEF Next, WorkerStep, Calls, PauseStep, QuietStep, NewsStep

LEMMA WaitStep ==
  ASSUME TypeOK, WaitInv, [Next]_vars
  PROVE  WaitInv'
<1> USE DEF threadVars, fileVars, bufferVars
<1>1. CASE WorkerStarts
  BY <1>1 DEF WorkerStarts, NotifyUser, UserWoken, WaitInv, NobodyForgotten, Pushing
<1>2. CASE LoopEnds
  BY <1>2 DEF LoopEnds, WaitInv, NobodyForgotten, Pushing
<1>3. CASE LoopRests
  BY <1>3 DEF LoopRests, WaitInv, NobodyForgotten, Pushing
<1>4. CASE LoopPauses
  BY <1>4 DEF LoopPauses, NotifyUser, UserWoken, WaitInv, NobodyForgotten, Pushing
<1>5. CASE LoopIdles
  BY <1>5 DEF LoopIdles, WaitInv, NobodyForgotten, Pushing
<1>6. CASE LoopReads
  BY <1>6 DEF LoopReads, ReadPacket, WaitInv, NobodyForgotten, Pushing
<1>7. CASE WorkerPushes
  BY <1>7 DEF WorkerPushes, Deliver, WaitInv, NobodyForgotten, Pushing
<1>8. CASE WorkerBlocks
  BY <1>8 DEF WorkerBlocks, WaitInv, NobodyForgotten, Pushing
<1>9. CASE WorkerHasRead
  BY <1>9 DEF WorkerHasRead, WaitInv, NobodyForgotten, Pushing
<1>10. CASE WorkerNotifies
  BY <1>10 DEF WorkerNotifies, NotifyUser, UserWoken, WaitInv, NobodyForgotten, Pushing
<1>11. CASE WorkerRelocks
  BY <1>11 DEF WorkerRelocks, WaitInv, NobodyForgotten, Pushing
<1>12. CASE WorkerWakes
  BY <1>12 DEF WorkerWakes, WaitInv, NobodyForgotten, Pushing
<1>13. CASE Activate
  BY <1>13 DEF Activate, WaitInv, NobodyForgotten, Pushing
<1>14. CASE Begin("seek")
  BY <1>14 DEF Begin, Running, WaitInv, NobodyForgotten, Pushing
<1>15. CASE Begin("stop")
  BY <1>15 DEF Begin, Running, WaitInv, NobodyForgotten, Pushing
<1>16. CASE BeginFlush
  BY <1>16 DEF BeginFlush, Begin, Running, WaitInv, NobodyForgotten, Pushing
<1>17. CASE FlushPaused
  BY <1>17 DEF FlushPaused, Running, ClearBuffer, WaitInv, NobodyForgotten, Pushing
<1>18. CASE Pop
  BY <1>18 DEF Pop, Running, WaitInv, NobodyForgotten, Pushing
<1>19. CASE ReadNextPacket
  BY <1>19 DEF ReadNextPacket, Running, WaitInv, NobodyForgotten, Pushing
<1>20. CASE WaitTillInitialized
  BY <1>20 DEF WaitTillInitialized, WaitInv, NobodyForgotten, Pushing
<1>21. CASE SkipPause
  BY <1>21 DEF SkipPause, WaitInv, NobodyForgotten, Pushing
<1>22. CASE PauseKills
  BY <1>22 DEF PauseKills, WaitInv, NobodyForgotten, Pushing
<1>23. CASE PauseKillNotifies
  BY <1>23 DEF PauseKillNotifies, WaitInv, NobodyForgotten, Pushing
<1>24. CASE RequestPause
  BY <1>24 DEF RequestPause, NotifyWorker, WaitInv, NobodyForgotten, Pushing
<1>25. CASE WaitTillAtRest
  BY <1>25 DEF WaitTillAtRest, WaitInv, NobodyForgotten, Pushing
<1>26. CASE Reposition
  BY <1>26 DEF Reposition, ClearBuffer, WaitInv, NobodyForgotten, Pushing
<1>27. CASE Flush
  BY <1>27 DEF Flush, ClearBuffer, WaitInv, NobodyForgotten, Pushing
<1>28. CASE Resume
  BY <1>28 DEF Resume, ClearBuffer, WaitInv, NobodyForgotten, Pushing
<1>29. CASE SetActive
  BY <1>29 DEF SetActive, NotifyWorker, WaitInv, NobodyForgotten, Pushing
<1>30. CASE Terminate
  BY <1>30 DEF Terminate, NotifyWorker, WaitInv, NobodyForgotten, Pushing
<1>31. CASE Join
  BY <1>31 DEF Join, ClearBuffer, WaitInv, NobodyForgotten, Pushing
<1>32. CASE LookForNews
  BY <1>32 DEF LookForNews, WaitInv, NobodyForgotten, Pushing
<1>33. CASE FallAsleep
  BY <1>33 DEF FallAsleep, WaitInv, NobodyForgotten, Pushing
<1>34. CASE GetNews
  BY <1>34 DEF GetNews, WaitInv, NobodyForgotten, Pushing
<1>35. CASE Spurious
  BY <1>35
    DEF Spurious, NotifyUser, UserWoken, UserAsleep, WaitInv, NobodyForgotten, Pushing
<1>36. CASE UNCHANGED vars
  BY <1>36 DEF vars, WaitInv, NobodyForgotten, Pushing
<1> QED BY <1>1, <1>2, <1>3, <1>4, <1>5, <1>6, <1>7, <1>8, <1>9, <1>10, <1>11, <1>12,
     <1>13, <1>14, <1>15, <1>16, <1>17, <1>18, <1>19, <1>20, <1>21, <1>22, <1>23,
     <1>24, <1>25, <1>26, <1>27, <1>28, <1>29, <1>30, <1>31, <1>32, <1>33, <1>34,
     <1>35, <1>36
  DEF Next, WorkerStep, Calls, PauseStep, QuietStep, NewsStep

\* What is fresh stays so as long as the position is the same.
LEMMA FreshKept ==
  ASSUME position' = position
  PROVE  /\ buffer' = buffer => FreshBuffer' = FreshBuffer
         /\ buffer' = <<>> => FreshBuffer'
         /\ todo' = todo => FreshTodo' = FreshTodo
BY DEF FreshBuffer, FreshTodo

LEMMA FrameStep ==
  ASSUME IInv, [Next]_vars
  PROVE  FrameInv'
<1> USE DEF threadVars, fileVars, bufferVars
<1>0. FrameInv
  BY DEF IInv
<1>1. CASE WorkerStarts
  BY <1>0, FreshKept, <1>1
    DEF WorkerStarts, NotifyUser, UserWoken, FrameInv, Pushing, Restarted
<1>2. CASE LoopEnds
  BY <1>0, FreshKept, <1>2 DEF LoopEnds, FrameInv, Pushing, Restarted
<1>3. CASE LoopRests
  BY <1>0, FreshKept, <1>3 DEF LoopRests, FrameInv, Pushing, Restarted
<1>4. CASE LoopPauses
  BY <1>0, FreshKept, <1>4
    DEF LoopPauses, NotifyUser, UserWoken, FrameInv, Pushing, Restarted
<1>5. CASE LoopIdles
  BY <1>0, FreshKept, <1>5 DEF LoopIdles, FrameInv, Pushing, Restarted
<1>6. CASE LoopReads
  <2>1. FreshTodo' /\ FreshBuffer = FreshBuffer'
    BY <1>6, ReadPacketFacts, FreshKept DEF IInv, LoopReads, FreshTodo
  <2> QED BY <1>0, <1>6, <2>1 DEF LoopReads, FrameInv, Pushing, Restarted
<1>7. CASE WorkerPushes
  <2>1. todo # <<>>
    BY <1>0, <1>7 DEF WorkerPushes, FrameInv
  <2>2. position' = position /\ starts' = starts /\ Deliver
    BY <1>7 DEF WorkerPushes
  <2>3. FreshTodo /\ FreshBuffer => FreshTodo' /\ FreshBuffer'
    BY <2>1, <2>2, DeliverFacts DEF IInv, FreshTodo, FreshBuffer
  <2> QED BY <1>0, <2>1, <2>2, <2>3, DeliverFacts DEF IInv, FrameInv, Pushing, Restarted
<1>8. CASE WorkerBlocks
  BY <1>0, FreshKept, <1>8 DEF WorkerBlocks, FrameInv, Pushing, Restarted
<1>9. CASE WorkerHasRead
  BY <1>0, FreshKept, <1>9 DEF WorkerHasRead, FrameInv, Pushing, Restarted
<1>10. CASE WorkerNotifies
  BY <1>0, FreshKept, <1>10
    DEF WorkerNotifies, NotifyUser, UserWoken, FrameInv, Pushing, Restarted
<1>11. CASE WorkerRelocks
  BY <1>0, FreshKept, <1>11 DEF WorkerRelocks, FrameInv, Pushing, Restarted
<1>12. CASE WorkerWakes
  BY <1>0, FreshKept, <1>12 DEF WorkerWakes, FrameInv, Pushing, Restarted
<1>13. CASE Activate
  <2>1. ~Restarted' => ~Restarted
    BY <1>13 DEF Activate, Restarted, IInv, TypeOK
  <2> QED BY <1>0, <1>13, <2>1, FreshKept DEF Activate, FrameInv, Pushing
<1>14. CASE Begin("seek")
  BY <1>0, FreshKept, <1>14 DEF Begin, Running, FrameInv, Pushing, Restarted
<1>15. CASE Begin("stop")
  BY <1>0, FreshKept, <1>15 DEF Begin, Running, FrameInv, Pushing, Restarted
<1>16. CASE BeginFlush
  BY <1>0, FreshKept, <1>16 DEF BeginFlush, Begin, Running, FrameInv, Pushing, Restarted
<1>17. CASE FlushPaused
  BY <1>0, FreshKept, <1>17
    DEF FlushPaused, Running, ClearBuffer, FrameInv, Pushing, Restarted
<1>18. CASE Pop
  <2>1. FreshBuffer => FreshBuffer'
    BY <1>18, \A i \in DOMAIN Tail(buffer) : i + 1 \in DOMAIN buffer /\ Tail(buffer)[i] = buffer[i + 1]
    DEF Pop, FreshBuffer, IInv, TypeOK
  <2> QED BY <1>0, <1>18, <2>1, FreshKept DEF Pop, Running, FrameInv, Pushing, Restarted
<1>19. CASE ReadNextPacket
  BY <1>0, FreshKept, <1>19 DEF ReadNextPacket, Running, FrameInv, Pushing, Restarted
<1>20. CASE WaitTillInitialized
  BY <1>0, FreshKept, <1>20 DEF WaitTillInitialized, FrameInv, Pushing, Restarted
<1>21. CASE SkipPause
  BY <1>0, FreshKept, <1>21 DEF SkipPause, FrameInv, Pushing, Restarted
<1>22. CASE PauseKills
  BY <1>0, FreshKept, <1>22 DEF PauseKills, FrameInv, Pushing, Restarted
<1>23. CASE PauseKillNotifies
  BY <1>0, FreshKept, <1>23 DEF PauseKillNotifies, FrameInv, Pushing, Restarted
<1>24. CASE RequestPause
  BY <1>0, FreshKept, <1>24 DEF RequestPause, NotifyWorker, FrameInv, Pushing, Restarted
<1>25. CASE WaitTillAtRest
  BY <1>0, FreshKept, <1>25 DEF WaitTillAtRest, FrameInv, Pushing, Restarted
<1>26. CASE Reposition
  <2>1. ~Restarted => todo = <<>>
    BY <1>0, <1>26 DEF Reposition, RestInv, Reading, FrameInv, Pushing, IInv
  <2>2. ~Restarted => FreshTodo' /\ FreshBuffer'
    BY <1>26, <2>1 DEF Reposition, ClearBuffer, FreshTodo, FreshBuffer
  <2> QED BY <1>0, <1>26, <2>2 DEF Reposition, FrameInv, Pushing, Restarted
<1>27. CASE Flush
  BY <1>0, FreshKept, <1>27 DEF Flush, ClearBuffer, FrameInv, Pushing, Restarted
<1>28. CASE Resume
  BY <1>0, FreshKept, <1>28 DEF Resume, ClearBuffer, FrameInv, Pushing, Restarted
<1>29. CASE SetActive
  BY <1>0, FreshKept, <1>29 DEF SetActive, NotifyWorker, FrameInv, Pushing, Restarted
<1>30. CASE Terminate
  BY <1>0, FreshKept, <1>30 DEF Terminate, NotifyWorker, FrameInv, Pushing, Restarted
<1>31. CASE Join
  BY <1>0, FreshKept, <1>31 DEF Join, ClearBuffer, FrameInv, Pushing, Restarted
<1>32. CASE LookForNews
  BY <1>0, FreshKept, <1>32 DEF LookForNews, FrameInv, Pushing, Restarted
<1>33. CASE FallAsleep
  BY <1>0, FreshKept, <1>33 DEF FallAsleep, FrameInv, Pushing, Restarted
<1>34. CASE GetNews
  BY <1>0, FreshKept, <1>34 DEF GetNews, FrameInv, Pushing, Restarted
<1>35. CASE Spurious
  BY <1>0, FreshKept, <1>35
    DEF Spurious, NotifyUser, UserWoken, UserAsleep, FrameInv, Pushing, Restarted
<1>36. CASE UNCHANGED vars
  BY <1>0, FreshKept, <1>36 DEF vars, FrameInv, Pushing, Restarted
<1> QED BY <1>1, <1>2, <1>3, <1>4, <1>5, <1>6, <1>7, <1>8, <1>9, <1>10, <1>11, <1>12,
     <1>13, <1>14, <1>15, <1>16, <1>17, <1>18, <1>19, <1>20, <1>21, <1>22, <1>23,
     <1>24, <1>25, <1>26, <1>27, <1>28, <1>29, <1>30, <1>31, <1>32, <1>33, <1>34,
     <1>35, <1>36
  DEF Next, WorkerStep, Calls, PauseStep, QuietStep, NewsStep

LEMMA Invariance == Spec => []IInv
<1>1. Init => IInv
  <2> SUFFICES ASSUME Init PROVE IInv
    OBVIOUS
  <2>1. <<>> \in Seq(Frames) /\ <<>> \in Seq(0..MaxSeeks) /\ Len(<<>>) = 0
    OBVIOUS
  <2>2. TypeOK
    <3>1. /\ todo \in Seq(Frames) /\ buffer \in Seq(Frames) /\ Len(buffer) <= Room
          /\ decoder \in Seq(0..MaxSeeks) /\ Len(decoder) <= Delay
      BY <2>1, BoundsAssumption DEF Init
    <3>2. starts \in 0..MaxStarts /\ position \in 0..MaxSeeks
      BY BoundsAssumption DEF Init
    <3>3. killnow \in BOOLEAN /\ atEnd \in BOOLEAN /\ bufferKilled \in BOOLEAN
      BY DEF Init
    <3>4. /\ status \in Statuses /\ worker \in WorkerPlaces
          /\ user \in UserPlaces /\ task \in Tasks
      BY DEF Init, Statuses, WorkerPlaces, UserPlaces, Tasks
    <3> QED BY <3>1, <3>2, <3>3, <3>4 DEF TypeOK
  <2>3. TaskInv /\ RestInv
    BY DEF Init, TaskInv, RestInv, Restarted, Reading
  <2>4. WaitInv
    BY DEF Init, WaitInv, NobodyForgotten, Pushing
  <2>5. FrameInv
    BY DEF Init, FrameInv, Pushing, FreshBuffer, FreshTodo
  <2> QED BY <2>2, <2>3, <2>4, <2>5 DEF IInv
<1>2. IInv /\ [Next]_vars => IInv'
  BY TypeStep, TaskStep, RestStep, WaitStep, FrameStep DEF IInv
<1> QED BY <1>1, <1>2, PTL DEF Spec

-----------------------------------------------------------------------------
(* What follows. *)

\* Both threads are where the code can be, and the buffer holds no more than it may.
THEOREM TypeCorrect == Spec => []TypeOK
<1>1. IInv => TypeOK
  BY DEF IInv
<1> QED BY <1>1, Invariance, PTL

\* Once pause() has returned the worker is not in the middle of a packet until the user
\* resumes it: nothing reads the file while it is repositioned, nothing pushes while the
\* buffers are flushed.
THEOREM PauseStopsWorker == Spec => []WorkerAtRest
<1>1. IInv => WorkerAtRest
  BY DEF IInv, RestInv, WorkerAtRest, StoppedBeforeSeek
<1> QED BY <1>1, Invariance, PTL

\* A seek leaves no frame behind that was decoded before it.
THEOREM SeekLeavesNothing == Spec => []NothingStale
<1>1. IInv => NothingStale
  BY DEF IInv, FrameInv, NothingStale, FreshBuffer
<1> QED BY <1>1, Invariance, PTL

\* Nobody sleeps on thread_ready for what is already so.
THEOREM NobodyIsForgotten == Spec => []NobodyForgotten
<1>1. IInv => NobodyForgotten
  BY DEF IInv, WaitInv
<1> QED BY <1>1, Invariance, PTL

\* A seek returns with the reader ACTIVE, or with the worker IDLE.
THEOREM SeekLeavesItRunning == Spec => SeekRestartsUnlessIdle
<1> DEFINE A == task = "seek" /\ task' = "none" => status' \in {"ACTIVE", "IDLE"} \/ Restarted
<1>1. IInv /\ [Next]_vars => [A]_vars
  <2> SUFFICES ASSUME IInv, Next, task = "seek", task' = "none", ~Restarted
               PROVE  status' \in {"ACTIVE", "IDLE"}
    OBVIOUS
  <2>1. RestInv /\ TaskInv
    BY DEF IInv
  <2>2. Resume \/ SetActive
    BY <2>1 DEF TaskInv, Next, WorkerStep, WorkerStarts, LoopEnds, LoopRests, LoopPauses,
      LoopIdles, LoopReads, WorkerPushes, WorkerBlocks, WorkerHasRead, WorkerNotifies,
      WorkerRelocks, WorkerWakes, Calls, Activate, Begin, BeginFlush, FlushPaused, Pop,
      ReadNextPacket, WaitTillInitialized, PauseStep, SkipPause, PauseKills,
      PauseKillNotifies, RequestPause, WaitTillAtRest, QuietStep, Reposition, Flush,
      Terminate, Join, NewsStep, LookForNews, FallAsleep, GetNews, Spurious
  <2> QED BY <2>1, <2>2 DEF Resume, SetActive, RestInv, threadVars
<1> QED BY <1>1, Invariance, PTL DEF Spec, SeekRestartsUnlessIdle
-----------------------------------------------------------------------------
(* What a decoder holds back over a seek. *)

\* Of the frames in the buffer, on their way and in the decoder, one behind the other,
\* all but the first Delay were read after the last seek.
Held ==
  /\ \A i \in DOMAIN buffer : i > Delay => buffer[i].read = position
  /\ \A i \in DOMAIN todo : Len(buffer) + i > Delay => todo[i].read = position
  /\ \A i \in DOMAIN decoder : Len(buffer) + Len(todo) + i > Delay => decoder[i] = position

HeldInv == ~Restarted => Held

LEMMA HeldTypes ==
  TypeOK => /\ Delay \in Nat /\ buffer \in Seq(Frames) /\ todo \in Seq(Frames)
            /\ decoder \in Seq(0..MaxSeeks) /\ Len(decoder) <= Delay
BY BoundsAssumption DEF TypeOK

\* Frames that go from the front bring the others nearer to it.
LEMMA HeldKept ==
  ASSUME TypeOK, UNCHANGED <<position, todo>>,
         decoder' = decoder \/ decoder' = <<>>,
         buffer' = buffer \/ buffer' = <<>> \/ (buffer # <<>> /\ buffer' = Tail(buffer))
  PROVE  Held => Held'
<1> SUFFICES ASSUME Held PROVE Held'
  OBVIOUS
<1>1. /\ Len(buffer') <= Len(buffer) /\ Len(buffer') \in Nat /\ Len(buffer) \in Nat
      /\ Len(todo) \in Nat /\ DOMAIN todo = 1..Len(todo) /\ DOMAIN decoder = 1..Len(decoder)
      /\ Len(decoder) \in Nat /\ DOMAIN buffer = 1..Len(buffer)
  BY HeldTypes
<1>2. \A i \in DOMAIN buffer' : i > Delay => buffer'[i].read = position
  <2>1. CASE buffer' = Tail(buffer) /\ buffer # <<>>
    <3>1. \A i \in DOMAIN buffer' : i + 1 \in DOMAIN buffer /\ buffer'[i] = buffer[i + 1] /\ i \in Nat
      BY <2>1, HeldTypes
    <3> QED BY <3>1, HeldTypes DEF Held
  <2>2. CASE buffer' = <<>>
    BY <2>2
  <2>3. CASE buffer' = buffer
    BY <2>3 DEF Held
  <2> QED BY <2>1, <2>2, <2>3
<1>3. \A i \in DOMAIN todo : Len(buffer') + i > Delay => todo[i].read = position
  BY <1>1, HeldTypes DEF Held
<1>4. \A i \in DOMAIN decoder' : Len(buffer') + Len(todo) + i > Delay => decoder'[i] = position
  <2>1. CASE decoder' = decoder
    BY <1>1, <2>1, HeldTypes DEF Held
  <2>2. CASE decoder' = <<>>
    BY <2>2
  <2> QED BY <2>1, <2>2
<1> QED BY <1>2, <1>3, <1>4 DEF Held

\* The first frames of the decoder and the packet come out, the others stay.
LEMMA ReadPacketShape ==
  ASSUME TypeOK, ReadPacket
  PROVE  LET frames == Append(decoder, position)
         IN /\ todo' \in Seq(Frames) /\ decoder' \in Seq(0..MaxSeeks)
            /\ \A i \in DOMAIN todo' : i \in DOMAIN frames /\ todo'[i].read = frames[i]
            /\ \A i \in DOMAIN decoder' : /\ Len(todo') + i \in DOMAIN frames
                                         /\ decoder'[i] = frames[Len(todo') + i]
<1> DEFINE frames == Append(decoder, position)
<1>1. frames \in Seq(0..MaxSeeks) /\ Len(frames) = Len(decoder) + 1 /\ Len(decoder) \in Nat
  BY DEF TypeOK
<1>2. todo' \in Seq(Frames) /\ decoder' \in Seq(0..MaxSeeks)
  BY ReadPacketFacts
<1> HIDE DEF frames
<1>3. PICK n \in Nat : /\ n <= Len(frames)
                      /\ todo' = Decoded(SubSeq(frames, 1, n))
                      /\ decoder' = SubSeq(frames, n + 1, Len(frames))
  <2>1. CASE \E n \in (Len(decoder) + 1 - Delay)..(Len(decoder) + 1) :
               /\ n >= 0
               /\ todo' = Decoded(SubSeq(frames, 1, n))
               /\ decoder' = SubSeq(frames, n + 1, Len(frames))
    <3>1. PICK n \in (Len(decoder) + 1 - Delay)..(Len(decoder) + 1) :
               /\ n >= 0
               /\ todo' = Decoded(SubSeq(frames, 1, n))
               /\ decoder' = SubSeq(frames, n + 1, Len(frames))
      BY <2>1
    <3>2. n \in Nat /\ n <= Len(frames)
      BY <1>1, <3>1, HeldTypes
    <3> QED BY <3>1, <3>2
  <2>2. CASE todo' = Decoded(frames) /\ decoder' = <<>>
    <3>1. Len(frames) \in Nat
      BY <1>1
    <3>2. SubSeq(frames, 1, Len(frames)) = frames
      BY <1>1
    <3>3. SubSeq(frames, Len(frames) + 1, Len(frames)) = <<>>
      BY <3>1, SubSeqEmpty
    <3>4. Len(frames) <= Len(frames)
      BY <3>1
    <3>5. todo' = Decoded(SubSeq(frames, 1, Len(frames)))
      BY <2>2, <3>2, Zenon
    <3>6. decoder' = SubSeq(frames, Len(frames) + 1, Len(frames))
      BY <2>2, <3>3, Zenon
    <3> QED BY <3>1, <3>4, <3>5, <3>6, Zenon
  <2> QED BY <2>1, <2>2 DEF ReadPacket, frames
<1> DEFINE L == Len(frames)
<1>4. L \in Nat /\ DOMAIN frames = 1..L /\ \A i \in 1..L : frames[i] \in 0..MaxSeeks
  <2>1. L \in Nat /\ DOMAIN frames = 1..L
    BY <1>1
  <2>2. \A i \in 1..L : frames[i] \in 0..MaxSeeks
    BY <1>1, ElementOfSeq
  <2> QED BY <2>1, <2>2
<1> HIDE DEF L
<1>5. /\ Len(SubSeq(frames, 1, n)) = n
      /\ SubSeq(frames, 1, n) \in Seq(0..MaxSeeks)
      /\ \A i \in 1..n : SubSeq(frames, 1, n)[i] = frames[i]
  <2>1. 1 \in Int /\ n \in Int /\ \A i \in 1..n : i \in 1..L
    BY <1>3, <1>4 DEF L
  <2>2. /\ SubSeq(frames, 1, n) \in Seq(0..MaxSeeks)
        /\ Len(SubSeq(frames, 1, n)) = IF 1 <= n THEN n - 1 + 1 ELSE 0
        /\ \A i \in 1..(n - 1 + 1) : SubSeq(frames, 1, n)[i] = frames[1 + i - 1]
    BY <1>4, <2>1, SubSeqProperties
  <2> QED BY <1>3, <2>2
<1>6. /\ Len(SubSeq(frames, n + 1, L)) = L - n
      /\ \A i \in 1..(L - n) : SubSeq(frames, n + 1, L)[i] = frames[n + i]
  <2> DEFINE m == n + 1
  <2>1. m \in Int /\ L \in Int /\ n <= L /\ m = n + 1 /\ \A i \in m..L : i \in 1..L
    BY <1>3, <1>4 DEF L
  <2> HIDE DEF m
  <2>2. /\ Len(SubSeq(frames, m, L)) = IF m <= L THEN L - m + 1 ELSE 0
        /\ \A i \in 1..(L - m + 1) : SubSeq(frames, m, L)[i] = frames[m + i - 1]
    BY <1>4, <2>1, SubSeqProperties
  <2>3. \A i \in 1..(L - n) : i \in 1..(L - m + 1) /\ m + i - 1 = n + i
    BY <1>4, <2>1
  <2>4. Len(SubSeq(frames, m, L)) = L - n
    BY <1>4, <2>1, <2>2
  <2> QED BY <2>1, <2>2, <2>3, <2>4
<1>7. /\ DOMAIN todo' = 1..n /\ Len(todo') = n
      /\ \A i \in 1..n : todo'[i].read = frames[i]
  <2>1. DOMAIN SubSeq(frames, 1, n) = 1..n
    BY <1>5
  <2>2. DOMAIN todo' = 1..n /\ \A i \in 1..n : todo'[i].read = frames[i]
    BY <1>3, <1>5, <2>1 DEF Decoded
  <2> QED BY <1>2, <1>3, <2>2
<1>8. DOMAIN decoder' = 1..(L - n)
  BY <1>2, <1>3, <1>6 DEF L
<1>9. \A i \in 1..(L - n) : n + i \in 1..L
  BY <1>3, <1>4 DEF L
<1>10. n \in Nat /\ \A i \in 1..n : i \in 1..L
  BY <1>3, <1>4 DEF L
<1> QED BY <1>2, <1>3, <1>4, <1>6, <1>7, <1>8, <1>9, <1>10 DEF frames, L

LEMMA HeldRead ==
  ASSUME TypeOK, ReadPacket, todo = <<>>, UNCHANGED <<position, buffer>>
  PROVE  Held => Held'
<1> SUFFICES ASSUME Held PROVE Held'
  OBVIOUS
<1> DEFINE frames == Append(decoder, position)
<1>1. /\ todo' \in Seq(Frames)
      /\ \A i \in DOMAIN todo' : i \in DOMAIN frames /\ todo'[i].read = frames[i]
      /\ \A i \in DOMAIN decoder' : /\ Len(todo') + i \in DOMAIN frames
                                   /\ decoder'[i] = frames[Len(todo') + i]
      /\ decoder' \in Seq(0..MaxSeeks)
  BY ReadPacketShape
<1>2. Len(buffer) \in Nat /\ Delay \in Nat /\ Len(todo) = 0
  BY HeldTypes
<1>3. \A i \in DOMAIN frames : Len(buffer) + i > Delay => frames[i] = position
  <2>1. /\ DOMAIN frames = 1..(Len(decoder) + 1) /\ Len(decoder) \in Nat
        /\ DOMAIN decoder = 1..Len(decoder)
        /\ \A i \in 1..Len(decoder) : frames[i] = decoder[i]
        /\ frames[Len(decoder) + 1] = position
    BY HeldTypes
  <2> QED BY <1>2, <2>1 DEF Held
<1> HIDE DEF frames
<1>4. Len(todo') \in Nat /\ \A i \in DOMAIN decoder' : i \in Nat
  BY <1>1
<1>5. \A i \in DOMAIN decoder' : Len(buffer) + (Len(todo') + i) = Len(buffer) + Len(todo') + i
  BY <1>2, <1>4
<1>6. \A i \in DOMAIN todo' : Len(buffer) + i > Delay => todo'[i].read = position
  BY <1>1, <1>3
<1>7. \A i \in DOMAIN decoder' : Len(buffer) + Len(todo') + i > Delay => decoder'[i] = position
  BY <1>1, <1>3, <1>5
<1> QED BY <1>6, <1>7 DEF Held

LEMMA HeldDelivered ==
  ASSUME TypeOK, Deliver, todo # <<>>, UNCHANGED <<position, decoder>>
  PROVE  Held => Held'
<1> SUFFICES ASSUME Held PROVE Held'
  OBVIOUS
<1>1. /\ Delay \in Nat /\ Len(buffer) \in Nat /\ Len(todo) \in Nat \ {0}
      /\ DOMAIN todo = 1..Len(todo) /\ DOMAIN buffer = 1..Len(buffer)
      /\ DOMAIN decoder = 1..Len(decoder) /\ Len(decoder) \in Nat
  BY HeldTypes
<1>2. /\ Len(Tail(todo)) = Len(todo) - 1 /\ DOMAIN Tail(todo) = 1..(Len(todo) - 1)
      /\ \A i \in 1..(Len(todo) - 1) : Tail(todo)[i] = todo[i + 1]
      /\ Head(todo) = todo[1]
  BY <1>1, HeldTypes
<1>3. CASE todo' = Tail(todo) /\ buffer' = buffer
  <2>1. \A i \in DOMAIN todo' : Len(buffer) + i > Delay => todo'[i].read = position
    BY <1>1, <1>2, <1>3 DEF Held
  <2>2. \A i \in DOMAIN decoder : Len(buffer) + Len(todo') + i > Delay => decoder[i] = position
    BY <1>1, <1>2, <1>3 DEF Held
  <2> QED BY <1>3, <2>1, <2>2 DEF Held
<1>4. CASE todo' = Tail(todo) /\ buffer' = Append(buffer, Head(todo))
  <2>1. /\ Len(buffer') = Len(buffer) + 1 /\ DOMAIN buffer' = 1..(Len(buffer) + 1)
        /\ \A i \in 1..Len(buffer) : buffer'[i] = buffer[i]
        /\ buffer'[Len(buffer) + 1] = todo[1]
    BY <1>1, <1>2, <1>4, HeldTypes
  <2>2. \A i \in DOMAIN buffer' : i > Delay => buffer'[i].read = position
    BY <1>1, <2>1 DEF Held
  <2>3. \A i \in DOMAIN todo' : Len(buffer') + i > Delay => todo'[i].read = position
    BY <1>1, <1>2, <1>4, <2>1 DEF Held
  <2>4. \A i \in DOMAIN decoder : Len(buffer') + Len(todo') + i > Delay => decoder[i] = position
    BY <1>1, <1>2, <1>4, <2>1 DEF Held
  <2> QED BY <2>2, <2>3, <2>4 DEF Held
<1>5. CASE UNCHANGED <<todo, buffer>>
  BY <1>5 DEF Held
<1> QED BY <1>3, <1>4, <1>5 DEF Deliver

LEMMA HeldRepositioned ==
  ASSUME TypeOK, Reposition, todo = <<>>
  PROVE  Held'
<1>1. buffer' = <<>> /\ todo' = <<>> /\ (decoder' = <<>> \/ decoder' = decoder)
  BY DEF Reposition, ClearBuffer
<1>2. \A i \in DOMAIN decoder' : ~(Len(buffer') + Len(todo') + i > Delay)
  BY <1>1, HeldTypes
<1> QED BY <1>1, <1>2 DEF Held

LEMMA HeldStep ==
  ASSUME IInv, HeldInv, [Next]_vars
  PROVE  HeldInv'
<1> USE DEF threadVars, fileVars, bufferVars
<1>0. TypeOK /\ RestInv /\ FrameInv /\ HeldInv
  BY DEF IInv
<1>1. CASE WorkerStarts
  BY <1>0, <1>1, HeldKept DEF WorkerStarts, NotifyUser, UserWoken, HeldInv, Restarted
<1>2. CASE LoopEnds
  BY <1>0, <1>2, HeldKept DEF LoopEnds, HeldInv, Restarted
<1>3. CASE LoopRests
  BY <1>0, <1>3, HeldKept DEF LoopRests, HeldInv, Restarted
<1>4. CASE LoopPauses
  BY <1>0, <1>4, HeldKept DEF LoopPauses, NotifyUser, UserWoken, HeldInv, Restarted
<1>5. CASE LoopIdles
  BY <1>0, <1>5, HeldKept DEF LoopIdles, HeldInv, Restarted
<1>6. CASE LoopReads
  <2>1. todo = <<>>
    BY <1>0, <1>6 DEF LoopReads, FrameInv, Pushing
  <2>2. Held => Held'
    BY <1>0, <1>6, <2>1, HeldRead DEF LoopReads
  <2> QED BY <1>0, <1>6, <2>2 DEF LoopReads, HeldInv, Restarted
<1>7. CASE WorkerPushes
  <2>1. todo # <<>>
    BY <1>0, <1>7 DEF WorkerPushes, FrameInv
  <2>2. Held => Held'
    BY <1>0, <1>7, <2>1, HeldDelivered DEF WorkerPushes
  <2> QED BY <1>0, <1>7, <2>2 DEF WorkerPushes, HeldInv, Restarted
<1>8. CASE WorkerBlocks
  BY <1>0, <1>8, HeldKept DEF WorkerBlocks, HeldInv, Restarted
<1>9. CASE WorkerHasRead
  BY <1>0, <1>9, HeldKept DEF WorkerHasRead, HeldInv, Restarted
<1>10. CASE WorkerNotifies
  BY <1>0, <1>10, HeldKept DEF WorkerNotifies, NotifyUser, UserWoken, HeldInv, Restarted
<1>11. CASE WorkerRelocks
  BY <1>0, <1>11, HeldKept DEF WorkerRelocks, HeldInv, Restarted
<1>12. CASE WorkerWakes
  BY <1>0, <1>12, HeldKept DEF WorkerWakes, HeldInv, Restarted
<1>13. CASE Activate
  <2>1. ~Restarted' => ~Restarted
    BY <1>0, <1>13 DEF Activate, Restarted, TypeOK
  <2> QED BY <1>0, <1>13, <2>1, HeldKept DEF Activate, HeldInv
<1>14. CASE Begin("seek")
  BY <1>0, <1>14, HeldKept DEF Begin, Running, HeldInv, Restarted
<1>15. CASE Begin("stop")
  BY <1>0, <1>15, HeldKept DEF Begin, Running, HeldInv, Restarted
<1>16. CASE BeginFlush
  BY <1>0, <1>16, HeldKept DEF BeginFlush, Running, Begin, HeldInv, Restarted
<1>17. CASE FlushPaused
  BY <1>0, <1>17, HeldKept DEF FlushPaused, Running, ClearBuffer, HeldInv, Restarted
<1>18. CASE Pop
  BY <1>0, <1>18, HeldKept DEF Pop, Running, HeldInv, Restarted
<1>19. CASE ReadNextPacket
  BY <1>0, <1>19, HeldKept DEF ReadNextPacket, Running, HeldInv, Restarted
<1>20. CASE WaitTillInitialized
  BY <1>0, <1>20, HeldKept DEF WaitTillInitialized, HeldInv, Restarted
<1>21. CASE SkipPause
  BY <1>0, <1>21, HeldKept DEF SkipPause, HeldInv, Restarted
<1>22. CASE PauseKills
  BY <1>0, <1>22, HeldKept DEF PauseKills, HeldInv, Restarted
<1>23. CASE PauseKillNotifies
  BY <1>0, <1>23, HeldKept DEF PauseKillNotifies, HeldInv, Restarted
<1>24. CASE RequestPause
  BY <1>0, <1>24, HeldKept DEF RequestPause, NotifyWorker, HeldInv, Restarted
<1>25. CASE WaitTillAtRest
  BY <1>0, <1>25, HeldKept DEF WaitTillAtRest, HeldInv, Restarted
<1>26. CASE Reposition
  <2>1. ~Restarted => todo = <<>>
    BY <1>0, <1>26 DEF Reposition, RestInv, Reading, FrameInv, Pushing
  <2>2. ~Restarted => Held'
    BY <1>0, <1>26, <2>1, HeldRepositioned
  <2> QED BY <1>26, <2>2 DEF Reposition, HeldInv, Restarted
<1>27. CASE Flush
  BY <1>0, <1>27, HeldKept DEF Flush, ClearBuffer, HeldInv, Restarted
<1>28. CASE Resume
  BY <1>0, <1>28, HeldKept DEF Resume, ClearBuffer, HeldInv, Restarted
<1>29. CASE SetActive
  BY <1>0, <1>29, HeldKept DEF SetActive, NotifyWorker, HeldInv, Restarted
<1>30. CASE Terminate
  BY <1>0, <1>30, HeldKept DEF Terminate, NotifyWorker, HeldInv, Restarted
<1>31. CASE Join
  BY <1>0, <1>31, HeldKept DEF Join, ClearBuffer, HeldInv, Restarted
<1>32. CASE LookForNews
  BY <1>0, <1>32, HeldKept DEF LookForNews, HeldInv, Restarted
<1>33. CASE FallAsleep
  BY <1>0, <1>33, HeldKept DEF FallAsleep, HeldInv, Restarted
<1>34. CASE GetNews
  BY <1>0, <1>34, HeldKept DEF GetNews, HeldInv, Restarted
<1>35. CASE Spurious
  BY <1>0, <1>35, HeldKept DEF Spurious, UserAsleep, NotifyUser, UserWoken, HeldInv, Restarted
<1>36. CASE UNCHANGED vars
  BY <1>0, <1>36, HeldKept DEF vars, HeldInv, Restarted
<1> QED BY <1>1, <1>2, <1>3, <1>4, <1>5, <1>6, <1>7, <1>8, <1>9, <1>10, <1>11, <1>12,
     <1>13, <1>14, <1>15, <1>16, <1>17, <1>18, <1>19, <1>20, <1>21, <1>22, <1>23,
     <1>24, <1>25, <1>26, <1>27, <1>28, <1>29, <1>30, <1>31, <1>32, <1>33, <1>34,
     <1>35, <1>36
  DEF Next, WorkerStep, Calls, PauseStep, QuietStep, NewsStep

\* What comes after a seek from before it is no more than the decoder may hold back.
THEOREM SeekLeavesHeldBack == Spec => []OnlyHeldBack
<1>1. Init => HeldInv
  BY DEF Init, HeldInv, Held
<1>2. IInv /\ HeldInv /\ [Next]_vars => HeldInv'
  BY HeldStep
<1>3. IInv /\ HeldInv => OnlyHeldBack
  <2> SUFFICES ASSUME IInv, Held PROVE \A i \in DOMAIN buffer : buffer[i].read = position \/ i <= Delay
    BY DEF HeldInv, OnlyHeldBack
  <2>1. \A i \in DOMAIN buffer : i \in Nat /\ Delay \in Nat
    BY HeldTypes DEF IInv
  <2> QED BY <2>1 DEF Held
<1> QED BY <1>1, <1>2, <1>3, Invariance, PTL DEF Spec
=============================================================================
