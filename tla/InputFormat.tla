----------------------------- MODULE InputFormat -----------------------------
(***************************************************************************)
(* ffmpeg::InputFormat and its ffmpeg::InputStreams                        *)
(* (src/src/ffmpegFormatInput.h and .cpp, src/src/ffmpegStreamInput.cpp),  *)
(* as functions of a file and of the frame buffers its streams push to.    *)
(*                                                                         *)
(* The media are a sequence of packets.  A packet is one frame of one      *)
(* stream, and the frame has the packet's number; a packet that is not     *)
(* intact is one its decoder refuses.  A decoder holds back the last       *)
(* Delay[s] frames that it decoded, until it is drained by the end of      *)
(* file.                                                                   *)
(***************************************************************************)
EXTENDS FrameQueue

CONSTANTS
  Stream,    \* the streams of the media, by their index
  Media,     \* the packets of the media, in the order of the file
  Delay,     \* the number of frames each stream's decoder holds back
  NoBuffer   \* the sink of a stream that is not active

ASSUME StreamAssumption == Stream \subseteq Nat /\ IsFiniteSet(Stream)

ASSUME MediaAssumption ==
  /\ Media \in Seq([stream : Stream, time : Nat, intact : BOOLEAN])
  /\ Frame = DOMAIN Media

\* A decoder delivers its frames in the order of their times.
ASSUME TimesAssumption ==
  \A i, j \in DOMAIN Media :
    i <= j /\ Media[i].stream = Media[j].stream => Media[i].time <= Media[j].time

ASSUME DelayAssumption == Delay \in [Stream -> Nat]

\* The file before any media is opened.
NewFile ==
  [isOpen |-> FALSE, eof |-> TRUE, pos |-> 1,
   sink |-> [s \in Stream |-> NoBuffer], held |-> [s \in Stream |-> <<>>]]

Active(f) == {s \in Stream : f.sink[s] # NoBuffer}

\* InputFormat::ready()
FileReady(f) == f.isOpen /\ Active(f) # {}

\* The frames of each stream from packet p on.
RestFrom[p \in 1..(Len(Media) + 1)] ==
  IF p > Len(Media) THEN [s \in Stream |-> <<>>]
  ELSE IF ~Media[p].intact THEN RestFrom[p + 1]
  ELSE [RestFrom[p + 1] EXCEPT ![Media[p].stream] = <<p>> \o @]

\* The frames of stream s that are still to be decoded.
Rest(f, s) == RestFrom[f.pos][s]

-----------------------------------------------------------------------------
(* Opening and closing. *)

\* openFile(): every stream is ignored until it is added.
Opened(f) == [f EXCEPT !.isOpen = TRUE, !.eof = FALSE, !.pos = 1]

\* openFile() found the media but not its stream information, and threw.
HalfOpened(f) == [f EXCEPT !.isOpen = TRUE]

\* Mutant: the streams are not cleared.
ClosedKeepsStreams(f) == [f EXCEPT !.isOpen = FALSE, !.pos = 1]

\* clearStreams(), and the media is closed; eof stays what it was.
Closed(f) ==
  [f EXCEPT !.isOpen = FALSE, !.pos = 1, !.sink = [s \in Stream |-> NoBuffer],
            !.held = [s \in Stream |-> <<>>]]

\* add_stream(): a new InputStream, with a decoder of its own, pushes to b.
WithStream(f, s, b) == [f EXCEPT !.sink[s] = b, !.held[s] = <<>>]

\* isStreamActive()
IsStreamActive(f, s) == f.isOpen /\ s \in Active(f)

-----------------------------------------------------------------------------
(* Decoding. *)

\* How many things a buffer still takes before push() would wait.
Vacant(q) == Cardinality({i \in DOMAIN q.que : ~q.que[i].populated})

HasRoom(q, xs) == q.dynamic \/ Len(xs) <= Vacant(q)

\* push() of each of xs, up to the one that would wait for room.
PushAll(q, xs) ==
  FoldLeft(Push, q, IF HasRoom(q, xs) THEN xs ELSE SubSeq(xs, 1, Vacant(q)))

\* InputStream::processPacket(): what the decoder of s delivers is pushed to the
\* sink.  A push that finds no room never returns, and nothing after it happens.
Deliver(m, s, xs) ==
  LET b == m.file.sink[s]
  IN IF m.how # "ok" THEN m
     ELSE [m EXCEPT !.bufs[b] = PushAll(@, xs),
                    !.how = IF HasRoom(m.bufs[b], xs) THEN "ok" ELSE "stuck"]

\* Mutant: the end of file takes the place of what the decoder held back.
DrainDropsHeld(f, s) == <<Null>>

\* The decoder of s is drained: all it held back, and the end of file.
Drain(f, s) == Append(f.held[s], Null)

\* processPacket(nullptr) of stream s, unless a push before it never returned.
TellEof(m, s) ==
  IF m.how # "ok" THEN m
  ELSE Deliver([m EXCEPT !.file.held[s] = <<>>], s, Drain(m.file, s))

\* The end of the media: the streams are told, one after the other, in the order
\* of a hash map.
AtMediaEnd(m) ==
  FoldLeft(TellEof, [m EXCEPT !.file.eof = TRUE, !.file.pos = Len(Media) + 1],
           SetToSeq(Active(m.file)))

\* The frames in the decoder once packet k was sent to it.
Decoded(f, k) == Append(f.held[Media[k].stream], k)

\* One packet of an active stream.
AtPacket(m, k) ==
  LET s == Media[k].stream
      frames == Decoded(m.file, k)
      out == IF Len(frames) > Delay[s] THEN Len(frames) - Delay[s] ELSE 0
      past == [m EXCEPT !.file.pos = k + 1]
  IN IF ~Media[k].intact THEN [past EXCEPT !.how = "throw"]
     ELSE Deliver([past EXCEPT !.file.held[s] = SubSeq(frames, out + 1, Len(frames))],
                  s, SubSeq(frames, 1, out))

\* readNextPacket(): reads up to a packet of an active stream, or to the end.
ReadNextPacket(m) ==
  LET ahead == {k \in DOMAIN Media : k >= m.file.pos /\ Media[k].stream \in Active(m.file)}
  IN IF m.file.eof THEN m
     ELSE IF ahead = {} THEN AtMediaEnd(m)
     ELSE AtPacket(m, Min(ahead))

\* Mutant: the decoders are not reset before the end-of-file flag is cleared.
SoughtKeepsEof(f, k) == [f EXCEPT !.pos = k]

\* seek() to packet k: the decoders are reset only if the file was at its end.
Sought(f, k) ==
  [f EXCEPT !.pos = k, !.eof = FALSE,
            !.held = IF f.eof THEN [s \in Stream |-> <<>>] ELSE @]

\* seek() threw: there is nothing at or before the requested time.
SeekFailed(f) ==
  [f EXCEPT !.eof = FALSE, !.held = IF f.eof THEN [s \in Stream |-> <<>>] ELSE @]
=============================================================================
