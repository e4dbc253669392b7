---------------------------- MODULE ReaderThread ----------------------------
(***************************************************************************)
(* ReaderMT's worker thread and the thread of its user                     *)
(* (src/src/ThreadBase.h, src/src/ffmpegReaderMT.h).                       *)
(*                                                                         *)
(* The worker reads packets and pushes their frames; the user reads        *)
(* frames, seeks, flushes, closes and reopens, for which it has to bring   *)
(* the worker to rest.  They share status and killnow, guarded (mostly) by *)
(* thread_lock, and the condition variable thread_ready.                   *)
(*                                                                         *)
(* What the worker does from taking thread_lock to giving it up is a step  *)
(* for each turn of its loop; what it does without the lock is cut where   *)
(* the user can see it.  The buffers are one: a sequence of at most Room   *)
(* frames in which a push waits, under the buffer's own mutex, until there *)
(* is room or the buffer is killed (AVFrameDoubleBuffer has it in full).   *)
(* The decoders are one, too, that gives its frames out in order and holds *)
(* up to Delay of them back.  A frame, or an end of file, is known by the  *)
(* position in the file that its packet was read from and the one that the *)
(* file had when the frame came out of the decoder: numbers of seeks.      *)
(***************************************************************************)
EXTENDS Integers, Sequences

CONSTANTS Room,        \* what the buffer holds
          Delay,       \* the frames that the decoder may hold back
          MaxSeeks,    \* bound on the seeks
          MaxStarts    \* bound on how often the reader is activated

ASSUME BoundsAssumption ==
  Room \in Nat \ {0} /\ Delay \in Nat /\ MaxSeeks \in Nat /\ MaxStarts \in Nat

VARIABLES status,      \* ThreadBase::status
          killnow,     \* ThreadBase::killnow
          starts,      \* how often the reader was activated
          worker,      \* where the worker is
          todo,        \* the frames of its packet that it has yet to push
          user,        \* where the user is
          task,        \* the call the user is in
          position,    \* the number of seeks
          atEnd,       \* InputFormat::eof
          decoder,     \* the positions that the decoder's frames were read from
          buffer,      \* the frames in the buffer
          bufferKilled

threadVars == <<status, killnow, starts>>
fileVars == <<position, atEnd, decoder>>
bufferVars == <<buffer, bufferKilled>>
vars == <<status, killnow, starts, worker, todo, user, task, position, atEnd, decoder,
          buffer, bufferKilled>>

-----------------------------------------------------------------------------
(* thread_lock and thread_ready. *)

LockFree == worker # "loop" /\ user # "news_blocking"

UserAsleep == {"init_asleep", "rest_asleep", "news_asleep"}

UserWoken(pc) ==
  CASE pc = "init_asleep" -> "init_woken"
    [] pc = "rest_asleep" -> "rest_woken"
    [] pc = "news_asleep" -> "news_woken"
    [] OTHER -> pc

\* thread_ready.notify_one() by the worker, and by the user.
NotifyUser == user' = UserWoken(user)
NotifyWorker == worker' = IF worker = "asleep" THEN "woken" ELSE worker

-----------------------------------------------------------------------------
(* The worker: ReaderMT::thread_fcn(). *)

WorkerStarts ==
  /\ worker = "starting"
  /\ LockFree
  /\ status' = "ACTIVE"
  /\ worker' = "loop"
  /\ NotifyUser
  /\ UNCHANGED <<killnow, starts, todo, task, fileVars, bufferVars>>

\* One turn of the loop, thread_lock held.
LoopEnds ==
  /\ worker = "loop"
  /\ killnow
  /\ worker' = "gone"
  /\ UNCHANGED <<threadVars, todo, user, task, fileVars, bufferVars>>

LoopRests ==
  /\ worker = "loop"
  /\ ~killnow
  /\ status \in {"IDLE", "PAUSED"}
  /\ worker' = "asleep"
  /\ UNCHANGED <<threadVars, todo, user, task, fileVars, bufferVars>>

LoopPauses ==
  /\ worker = "loop"
  /\ ~killnow
  /\ status = "PAUSE_RQ"
  /\ status' = "PAUSED"
  /\ NotifyUser
  /\ UNCHANGED <<killnow, starts, worker, todo, task, fileVars, bufferVars>>

LoopIdles ==
  /\ worker = "loop"
  /\ ~killnow
  /\ status = "ACTIVE"
  /\ atEnd
  /\ status' = "IDLE"
  /\ UNCHANGED <<killnow, starts, worker, todo, user, task, fileVars, bufferVars>>

\* The frames that come out of the decoder now.
Decoded(frames) == [i \in DOMAIN frames |-> [read |-> frames[i], decoded |-> position]]

\* readNextPacket(): a packet goes into the decoder and some frames come out, or the
\* file has ended and all of them do, with an end of file behind them.
ReadPacket ==
  LET frames == Append(decoder, position)
  IN \/ /\ \E n \in (Len(decoder) + 1 - Delay)..(Len(decoder) + 1) :
            /\ n >= 0
            /\ todo' = Decoded(SubSeq(frames, 1, n))
            /\ decoder' = SubSeq(frames, n + 1, Len(frames))
        /\ UNCHANGED atEnd
     \/ todo' = Decoded(frames) /\ decoder' = <<>> /\ atEnd' = TRUE

\* Mutant: the worker reads on in the face of a request.
LoopReadsRegardless ==
  /\ worker = "loop"
  /\ ~killnow
  /\ status \in {"ACTIVE", "PAUSED"}
  /\ ~atEnd
  /\ worker' = "reading"
  /\ ReadPacket
  /\ UNCHANGED <<threadVars, user, task, position, bufferVars>>

\* The lock is given up while a packet is read.
LoopReads ==
  /\ worker = "loop"
  /\ ~killnow
  /\ status = "ACTIVE"
  /\ ~atEnd
  /\ worker' = "reading"
  /\ ReadPacket
  /\ UNCHANGED <<threadVars, user, task, position, bufferVars>>

\* Mutant: a push that does not wait for room.
DeliverRegardless ==
  /\ worker' = "reading"
  /\ todo' = Tail(todo)
  /\ buffer' = IF bufferKilled THEN buffer ELSE Append(buffer, Head(todo))

\* push() on the buffer, once its mutex is owned: a killed buffer takes nothing.
Deliver ==
  \/ /\ bufferKilled
     /\ worker' = "reading"
     /\ todo' = Tail(todo)
     /\ UNCHANGED buffer
  \/ /\ ~bufferKilled
     /\ Len(buffer) < Room
     /\ worker' = "reading"
     /\ todo' = Tail(todo)
     /\ buffer' = Append(buffer, Head(todo))
  \/ /\ ~bufferKilled
     /\ Len(buffer) >= Room
     /\ worker' = "blocking"
     /\ UNCHANGED <<todo, buffer>>

WorkerPushes ==
  /\ \/ worker = "reading" /\ todo # <<>>
     \/ worker = "buffer_woken"
  /\ Deliver
  /\ UNCHANGED <<threadVars, user, task, fileVars, bufferKilled>>

WorkerBlocks ==
  /\ worker = "blocking"
  /\ worker' = "buffer_asleep"
  /\ UNCHANGED <<threadVars, todo, user, task, fileVars, bufferVars>>

\* if (file.atEndOfFile()) status = PAUSE_RQ, without the lock
WorkerHasRead ==
  /\ worker = "reading"
  /\ todo = <<>>
  /\ worker' = "notifying"
  /\ status' = IF atEnd THEN "PAUSE_RQ" ELSE status
  /\ UNCHANGED <<killnow, starts, todo, user, task, fileVars, bufferVars>>

\* Mutant: nobody is told that a packet was read.
WorkerNotifiesNobody ==
  /\ worker = "notifying"
  /\ worker' = "relocking"
  /\ UNCHANGED <<threadVars, todo, user, task, fileVars, bufferVars>>

\* thread_ready.notify_one(), without the lock
WorkerNotifies ==
  /\ worker = "notifying"
  /\ worker' = "relocking"
  /\ NotifyUser
  /\ UNCHANGED <<threadVars, todo, task, fileVars, bufferVars>>

WorkerRelocks ==
  /\ worker = "relocking"
  /\ LockFree
  /\ worker' = "loop"
  /\ UNCHANGED <<threadVars, todo, user, task, fileVars, bufferVars>>

\* The wait's predicate is killnow || status == ACTIVE.
WorkerWakes ==
  /\ worker = "woken"
  /\ LockFree
  /\ worker' = IF killnow \/ status = "ACTIVE" THEN "loop" ELSE "asleep"
  /\ UNCHANGED <<threadVars, todo, user, task, fileVars, bufferVars>>

WorkerStep ==
  \/ WorkerStarts \/ LoopEnds \/ LoopRests \/ LoopPauses \/ LoopIdles \/ LoopReads
  \/ WorkerPushes \/ WorkerBlocks \/ WorkerHasRead \/ WorkerNotifies \/ WorkerRelocks
  \/ WorkerWakes

-----------------------------------------------------------------------------
(* The user activates the reader. *)

\* ThreadBase::start(): status is left as it is.
Activate ==
  /\ user = "idle"
  /\ worker = "none"
  /\ starts < MaxStarts
  /\ starts' = starts + 1
  /\ killnow' = FALSE
  /\ worker' = "starting"
  /\ user' = "init"
  /\ task' = "activate"
  /\ UNCHANGED <<status, todo, fileVars, bufferVars>>

\* waitTillInitialized()
WaitTillInitialized ==
  /\ user \in {"init", "init_woken"}
  /\ LockFree
  /\ user' = IF status = "INIT" THEN "init_asleep" ELSE "idle"
  /\ task' = IF status = "INIT" THEN task ELSE "none"
  /\ UNCHANGED <<threadVars, worker, todo, fileVars, bufferVars>>

-----------------------------------------------------------------------------
(* The user pauses the worker, for a seek, a flush or a stop. *)

\* Reader::flush() clears the buffers, which revives them.
ClearBuffer == buffer' = <<>> /\ bufferKilled' = FALSE

Running == user = "idle" /\ worker # "none"

Begin(t) ==
  /\ Running
  /\ t = "seek" => position < MaxSeeks
  /\ task' = t
  /\ user' = "pause"
  /\ UNCHANGED <<threadVars, worker, todo, fileVars, bufferVars>>

\* flush() goes straight to the buffers of a paused reader.
FlushPaused ==
  /\ Running
  /\ status = "PAUSED"
  /\ ClearBuffer
  /\ UNCHANGED <<threadVars, worker, todo, user, task, fileVars>>

BeginFlush == status # "PAUSED" /\ Begin("flush")

\* ReaderMT::pause(): not if isPaused(), read without the lock.
SkipPause ==
  /\ user = "pause"
  /\ status = "PAUSED"
  /\ user' = "quiet"
  /\ UNCHANGED <<threadVars, worker, todo, task, fileVars, bufferVars>>

\* Mutant: the worker's buffer is not killed.
PauseKillsNothing ==
  /\ user = "pause"
  /\ status # "PAUSED"
  /\ user' = "kill_notify"
  /\ UNCHANGED <<threadVars, worker, todo, task, fileVars, bufferVars>>

\* kill() stores the buffer's killnow, then notifies, without the buffer's mutex.
PauseKills ==
  /\ user = "pause"
  /\ status # "PAUSED"
  /\ bufferKilled' = TRUE
  /\ user' = "kill_notify"
  /\ UNCHANGED <<threadVars, worker, todo, task, fileVars, buffer>>

PauseKillNotifies ==
  /\ user = "kill_notify"
  /\ worker' = IF worker = "buffer_asleep" THEN "buffer_woken" ELSE worker
  /\ user' = "request"
  /\ UNCHANGED <<threadVars, todo, task, fileVars, bufferVars>>

\* Mutant: pause() requests and does not wait.
RequestPauseOnly ==
  /\ user = "request"
  /\ LockFree
  /\ status' = IF status \in {"IDLE", "PAUSED"} THEN status ELSE "PAUSE_RQ"
  /\ user' = "quiet"
  /\ UNCHANGED <<killnow, starts, worker, todo, task, fileVars, bufferVars>>

\* ThreadBase::pause()
RequestPause ==
  /\ user = "request"
  /\ LockFree
  /\ IF status \in {"IDLE", "PAUSED"}
     THEN user' = "quiet" /\ UNCHANGED <<status, worker>>
     ELSE user' = "rest_asleep" /\ status' = "PAUSE_RQ" /\ NotifyWorker
  /\ UNCHANGED <<killnow, starts, todo, task, fileVars, bufferVars>>

WaitTillAtRest ==
  /\ user = "rest_woken"
  /\ LockFree
  /\ user' = IF status \in {"IDLE", "PAUSED"} THEN "quiet" ELSE "rest_asleep"
  /\ UNCHANGED <<threadVars, worker, todo, task, fileVars, bufferVars>>

-----------------------------------------------------------------------------
(* The user has the file and the buffers to itself, or should have. *)

\* Reader::seek(): flush, then seek in the file; only a file that has ended has its
\* decoders reset.
Reposition ==
  /\ user = "quiet"
  /\ task = "seek"
  /\ ClearBuffer
  /\ position' = position + 1
  /\ atEnd' = FALSE
  /\ decoder' = IF atEnd THEN <<>> ELSE decoder
  /\ user' = "resume"
  /\ UNCHANGED <<threadVars, worker, todo, task>>

Flush ==
  /\ user = "quiet"
  /\ task = "flush"
  /\ ClearBuffer
  /\ user' = "resume"
  /\ UNCHANGED <<threadVars, worker, todo, task, fileVars>>

\* ReaderMT::resume(): only if isPaused(), read without the lock.
Resume ==
  /\ user = "resume"
  /\ IF status = "PAUSED" THEN ClearBuffer /\ user' = "resuming" /\ UNCHANGED task
     ELSE user' = "idle" /\ task' = "none" /\ UNCHANGED bufferVars
  /\ UNCHANGED <<threadVars, worker, todo, fileVars>>

\* Mutant: resume() does not wake the worker.
SetActiveSilently ==
  /\ user = "resuming"
  /\ LockFree
  /\ status' = IF status = "PAUSED" THEN "ACTIVE" ELSE status
  /\ user' = "idle"
  /\ task' = "none"
  /\ UNCHANGED <<killnow, starts, worker, todo, fileVars, bufferVars>>

\* ThreadBase::resume(); it throws if the status is PAUSE_RQ.
SetActive ==
  /\ user = "resuming"
  /\ LockFree
  /\ IF status = "PAUSED" THEN status' = "ACTIVE" /\ NotifyWorker
     ELSE UNCHANGED <<status, worker>>
  /\ user' = "idle"
  /\ task' = "none"
  /\ UNCHANGED <<killnow, starts, todo, fileVars, bufferVars>>

\* Mutant: the worker is not told to terminate.
TerminateSilently ==
  /\ user = "quiet"
  /\ task = "stop"
  /\ LockFree
  /\ killnow' = TRUE
  /\ user' = "join"
  /\ UNCHANGED <<status, starts, worker, todo, task, fileVars, bufferVars>>

\* ThreadBase::stop(), after the pause.
Terminate ==
  /\ user = "quiet"
  /\ task = "stop"
  /\ LockFree
  /\ killnow' = TRUE
  /\ NotifyWorker
  /\ user' = "join"
  /\ UNCHANGED <<status, starts, todo, task, fileVars, bufferVars>>

\* thread.join(); then the file is closed, its buffers go, and another is opened.
Join ==
  /\ user = "join"
  /\ worker = "gone"
  /\ worker' = "none"
  /\ ClearBuffer
  /\ atEnd' = FALSE
  /\ decoder' = <<>>
  /\ user' = "idle"
  /\ task' = "none"
  /\ UNCHANGED <<threadVars, todo, position>>

-----------------------------------------------------------------------------
(* The user reads. *)

BufferMutexFree == worker # "blocking"

Pop ==
  /\ Running
  /\ BufferMutexFree
  /\ ~bufferKilled
  /\ buffer # <<>>
  /\ buffer' = Tail(buffer)
  /\ worker' = IF worker = "buffer_asleep" THEN "buffer_woken" ELSE worker
  /\ UNCHANGED <<threadVars, todo, user, task, fileVars, bufferKilled>>

\* read_next_packet(), for an empty buffer: not unless ACTIVE, read without the lock.
ReadNextPacket ==
  /\ Running
  /\ buffer = <<>>
  /\ status = "ACTIVE"
  /\ user' = "news"
  /\ task' = "read"
  /\ UNCHANGED <<threadVars, worker, todo, fileVars, bufferVars>>

\* It waits, with no predicate, if the buffer can be pushed to.
LookForNews ==
  /\ user = "news"
  /\ LockFree
  /\ BufferMutexFree
  /\ IF Len(buffer) < Room THEN user' = "news_blocking" /\ UNCHANGED task
     ELSE user' = "idle" /\ task' = "none"
  /\ UNCHANGED <<threadVars, worker, todo, fileVars, bufferVars>>

FallAsleep ==
  /\ user = "news_blocking"
  /\ user' = "news_asleep"
  /\ UNCHANGED <<threadVars, worker, todo, task, fileVars, bufferVars>>

GetNews ==
  /\ user = "news_woken"
  /\ LockFree
  /\ user' = "idle"
  /\ task' = "none"
  /\ UNCHANGED <<threadVars, worker, todo, fileVars, bufferVars>>

-----------------------------------------------------------------------------
(* The specification. *)

Init ==
  /\ status = "INIT" /\ killnow = FALSE /\ starts = 0
  /\ worker = "none" /\ todo = <<>>
  /\ user = "idle" /\ task = "none"
  /\ position = 0 /\ atEnd = FALSE /\ decoder = <<>>
  /\ buffer = <<>> /\ bufferKilled = FALSE

PauseStep == SkipPause \/ PauseKills \/ PauseKillNotifies \/ RequestPause \/ WaitTillAtRest

QuietStep == Reposition \/ Flush \/ Resume \/ SetActive \/ Terminate \/ Join

NewsStep == LookForNews \/ FallAsleep \/ GetNews

Calls ==
  Activate \/ Begin("seek") \/ Begin("stop") \/ BeginFlush \/ FlushPaused \/ Pop \/ ReadNextPacket

\* A wait may end without a notification.
Spurious ==
  \/ /\ worker \in {"asleep", "buffer_asleep"}
     /\ worker' = IF worker = "asleep" THEN "woken" ELSE "buffer_woken"
     /\ UNCHANGED <<threadVars, todo, user, task, fileVars, bufferVars>>
  \/ /\ user \in UserAsleep
     /\ NotifyUser
     /\ UNCHANGED <<threadVars, worker, todo, task, fileVars, bufferVars>>

Next ==
  WorkerStep \/ Calls \/ WaitTillInitialized \/ PauseStep \/ QuietStep \/ NewsStep \/ Spurious

Spec == Init /\ [][Next]_vars

\* A thread that can run does, and one that needs a lock gets it.
Fairness ==
  /\ WF_vars(WorkerStep) /\ SF_vars(WorkerStarts) /\ SF_vars(WorkerRelocks) /\ SF_vars(WorkerWakes)
  /\ SF_vars(WaitTillInitialized) /\ SF_vars(PauseStep) /\ SF_vars(QuietStep) /\ SF_vars(NewsStep)

FairSpec == Spec /\ Fairness

-----------------------------------------------------------------------------
(* Properties. *)

Statuses == {"INIT", "IDLE", "ACTIVE", "PAUSE_RQ", "PAUSED"}

WorkerPlaces ==
  {"none", "starting", "loop", "reading", "blocking", "buffer_asleep", "buffer_woken",
   "notifying", "relocking", "asleep", "woken", "gone"}

UserPlaces ==
  {"idle", "init", "init_asleep", "init_woken", "pause", "kill_notify", "request",
   "rest_asleep", "rest_woken", "quiet", "resume", "resuming", "join", "news",
   "news_blocking", "news_asleep", "news_woken"}

Tasks == {"none", "activate", "seek", "flush", "stop", "read"}

Frames == [read : 0..MaxSeeks, decoded : 0..MaxSeeks]

TypeOK ==
  /\ status \in Statuses /\ killnow \in BOOLEAN /\ starts \in 0..MaxStarts
  /\ worker \in WorkerPlaces /\ todo \in Seq(Frames)
  /\ user \in UserPlaces /\ task \in Tasks
  /\ position \in 0..MaxSeeks /\ atEnd \in BOOLEAN
  /\ decoder \in Seq(0..MaxSeeks) /\ Len(decoder) <= Delay
  /\ buffer \in Seq(Frames) /\ Len(buffer) <= Room /\ bufferKilled \in BOOLEAN

\* In the middle of a packet, outside the lock.
Reading == worker \in {"reading", "blocking", "buffer_asleep", "buffer_woken", "notifying"}

\* ThreadBase::start() leaves status as stop() made it: waitTillInitialized() does not
\* wait, and a pause() finds the reader PAUSED.  What follows is about the first start.
Restarted == starts > 1

\* "stop thread before seek" (and before a flush, before a stop): from the return of
\* pause() until resume(), the worker is not in the middle of a packet.
StoppedBeforeSeek == user \in {"quiet", "resume", "resuming", "join"} => ~Reading

\* ... as long as the reader was started once.
WorkerAtRest == StoppedBeforeSeek \/ Restarted

\* After a seek or a flush the user never gets a frame that was in a buffer, or on its
\* way there, before: whatever it can pop was decoded after the last seek.
NothingStale ==
  user = "idle" => (\A i \in DOMAIN buffer : buffer[i].decoded = position) \/ Restarted

\* A seek does not reset the decoder of a file that has not ended, but what then comes
\* from before the seek are no more than the first Delay frames.
OnlyHeldBack ==
  user = "idle" =>
    \/ \A i \in DOMAIN buffer : buffer[i].read = position \/ i <= Delay
    \/ Restarted

\* Neither thread sleeps on thread_ready for something that is already so.
NobodyForgotten ==
  /\ worker = "asleep" => ~killnow /\ status # "ACTIVE"
  /\ user = "init_asleep" => status = "INIT"
  /\ user = "rest_asleep" => status \notin {"IDLE", "PAUSED"}

\* "restart thread": when a seek returns, the reader is ACTIVE, unless the worker went
\* IDLE, where resume() leaves it.
SeekRestartsUnlessIdle ==
  [][task = "seek" /\ task' = "none" => status' \in {"ACTIVE", "IDLE"} \/ Restarted]_vars

\* The kill() of a pause came between the worker's look at the buffer and its sleep.
KillMissed == worker = "buffer_asleep" /\ user = "rest_asleep" /\ bufferKilled

\* The worker was resumed and, before it looked, asked to pause again; it waits for
\* ACTIVE, and sleeps on.
RequestOverlooked ==
  worker \in {"asleep", "woken"} /\ user \in {"rest_asleep", "rest_woken"} /\ status = "PAUSE_RQ"

\* "pause the thread -> thread reaches PAUSED/IDLE state": pause() returns.
PauseReturns == user = "pause" ~> user = "quiet"

\* pause() returns, unless its kill() misses a worker that is about to sleep in the
\* buffer, or its request one that is about to wake from the last pause.
PauseReturnsUnlessMissed ==
  user = "pause" ~> user = "quiet" \/ KillMissed \/ RequestOverlooked \/ Restarted

\* A worker that is told to terminate by stop() does, and is joined.
StopJoins == user = "join" ~> worker = "none" \/ Restarted

\* A reader that is ACTIVE goes on to read packets or comes to the end of the file,
\* unless it is blocked in a full buffer or told to pause.
ReadsOn ==
  status = "ACTIVE" ~>
    worker \in {"reading", "buffer_asleep"} \/ status # "ACTIVE" \/ Restarted

\* "wait till a frame becomes available on any of the buffers": the wait ends.
ReadReturns == user = "news" ~> user = "idle"

\* A read_next_packet() that waits while the worker is reading a packet returns, if
\* the buffer has room for all of the packet's frames.
ReadReturnsIfPacketFits ==
  user = "news_asleep" /\ worker = "reading" /\ Len(buffer) + Len(todo) <= Room ~>
    user = "idle"
=============================================================================
