--------------------------- MODULE TranscodeOutput ---------------------------
(***************************************************************************)
(* The output side of the sandbox transcoder                               *)
(* (src/src/sandbox/transcode_outputfile.cpp, transcode_outputstream.cpp): *)
(* encoders, muxing queues and output files, as operators on the state m   *)
(* of the program, which has these fields, too:                            *)
(*   out   the output streams (output_streams),                            *)
(*   dest  the output files (output_files);                                *)
(* the modules that extend this one add the filter graphs and the inputs.  *)
(*                                                                         *)
(* A packet is the frame it was encoded from.  Time is counted in frames   *)
(* of the output: sync_opts of a stream is the number of frames it has     *)
(* encoded.  There are no bitstream filters, so output_packet() is         *)
(* write_packet(); all outputs come from a filter graph and are encoded    *)
(* (the code for streams that are copied is commented out).                *)
(***************************************************************************)
EXTENDS TranscodeDevices

CONSTANTS
  NoFormat,
  NumOutputs,  \* nb_output_streams
  Dest,        \* the output files
  DestOf,      \* the file of each output stream
  Kind,        \* "video" or "audio", the type of each output stream
  Delay,       \* how many frames its encoder holds back
  MaxQueue,    \* max_muxing_queue_size, in packets
  Media        \* the packets of each input file, each with its stream, the format
               \* that it is decoded to, whether it is intact, and copies, the
               \* <<nb_frames, nb0_frames>> that its time asks for

\* A frame, and the packet it is in, is a file, the place there, and the rounds
\* that were left when it was read.
PacketAt(frame) == Media[frame[1]][frame[2]]

Copies(frame) == PacketAt(frame).copies

Output == 1..NumOutputs

\* The outputs in the order in which the loops of the program visit them.
InOrder == [o \in Output |-> o]

Siblings(d) == {o \in Output : DestOf[o] = d}

\* Files without a stream (AVFMT_NOSTREAMS) are left out.
ASSUME OutputAssumption ==
  /\ NumOutputs \in Nat /\ DestOf \in [Output -> Dest]
  /\ Delay \in [Output -> Nat]
  /\ \A d \in Dest : Siblings(d) # {}

\* The end of a recording that has none: INT64_MAX.
Never == 1000

\* new_output_stream() of the original; there is no such function here.
NewOutput ==
  [initialized |-> FALSE, finished |-> {}, inputsDone |-> FALSE, unavailable |-> FALSE,
   frames |-> 0,                        \* frame_number
   sync |-> 0,                          \* sync_opts - first_pts
   nb0s |-> <<0, 0, 0>>,                \* last_nb0_frames
   last |-> Null,                       \* last_frame
   queue |-> <<>>,                      \* muxing_queue
   held |-> <<>>,                       \* the frames in the encoder
   enc |-> NoFormat,                    \* the format that the encoder is opened for
   device |-> NoDevice,                 \* and its device
   took |-> {},                         \* history: the formats of the frames it got
   sent |-> <<>>, written |-> <<>>]     \* history: frames encoded, packets muxed

NewDest == [header |-> FALSE, size |-> 0, until |-> Never, broken |-> FALSE]

-----------------------------------------------------------------------------
(* Finishing. *)

Both == {"encoder", "muxer"}

\* close_output_stream(): the shortest stream of a file ends the others.
CloseOutput(m, o) ==
  LET d == DestOf[o]
  IN [m EXCEPT !.out[o].finished = @ \cup {"encoder"},
               !.dest[d].until = IF m.opt.shortest[d] /\ m.out[o].sync < @
                                 THEN m.out[o].sync ELSE @]

CloseOutputs(m, s) == FoldLeft(LAMBDA n, o : IF o \in s THEN CloseOutput(n, o) ELSE n, m, InOrder)

\* finish_output_stream()
FinishOutput(m, o) ==
  LET over == IF m.opt.shortest[DestOf[o]] THEN Siblings(DestOf[o]) ELSE {o}
  IN [m EXCEPT !.out = [p \in Output |-> IF p \in over THEN [m.out[p] EXCEPT !.finished = Both] ELSE m.out[p]]]

\* close_all_output_streams() after a packet of o could not be written.
CloseAll(m, o) ==
  [m EXCEPT !.out = [p \in Output |-> [m.out[p] EXCEPT !.finished = @ \cup IF p = o THEN Both ELSE {"encoder"}]]]

-----------------------------------------------------------------------------
(* Muxing. *)

\* The limit on packets (max_frames) is the encoder's for a video stream.
CountsPackets(o) == Kind[o] # "video"

\* Mutant: a packet that waited is counted when it is written, too.
CountedTwice(o, unqueued) == CountsPackets(o)

\* Only once, when the packet comes and not when it leaves the muxing queue.
Counted(o, unqueued) == CountsPackets(o) /\ ~unqueued

\* The muxer takes a packet; a file has room for m.opt.room[d] of them, and to
\* write more is an error that ends all streams.
Mux(m, o, p) ==
  LET d == DestOf[o]
  IN IF m.dest[d].size >= m.opt.room[d]
     THEN CloseAll([m EXCEPT !.dest[d].broken = TRUE], o)
     ELSE [m EXCEPT !.dest[d].size = @ + 1, !.out[o].written = Append(@, p)]

\* The packet waits for the header of the file.
Enqueue(m, o, p) ==
  IF Len(m.out[o].queue) >= MaxQueue
  THEN [m EXCEPT !.how = "abort"]           \* "Too many packets buffered"
  ELSE [m EXCEPT !.out[o].queue = Append(@, p)]

\* write_packet()
WritePacket(m, o, p, unqueued) ==
  LET counted == Counted(o, unqueued)
      n == [m EXCEPT !.out[o].frames = @ + (IF counted THEN 1 ELSE 0)]
  IN IF counted /\ m.out[o].frames >= m.opt.maxFrames[o] THEN m
     ELSE IF m.dest[DestOf[o]].header THEN Mux(n, o, p)
     ELSE Enqueue(n, o, p)

\* The packets of o that waited for the header.
Unqueue(m, o) ==
  FoldLeft(LAMBDA n, p : WritePacket(n, o, p, TRUE), [m EXCEPT !.out[o].queue = <<>>], m.out[o].queue)

\* check_init_output_file(): the header is written when all streams are there.
CheckInitOutputFile(m, d) ==
  IF \E o \in Siblings(d) : ~m.out[o].initialized THEN m
  ELSE FoldLeft(LAMBDA n, o : IF o \in Siblings(d) THEN Unqueue(n, o) ELSE n,
                [m EXCEPT !.dest[d].header = TRUE], InOrder)

\* hw_device_setup_for_encode(), for frames that are not in a device already.
DeviceForEncode(m, o, format) ==
  IF format[2] \in Hardware THEN NoDevice ELSE MatchByCodec(m.hw, EncConfigs[o])

\* init_output_stream_encode(): the encoder gets the format of the sink.
EncoderSet(m, o, format) ==
  [m EXCEPT !.out[o] = [@ EXCEPT !.initialized = TRUE, !.enc = format,
                                 !.device = DeviceForEncode(m, o, format)]]

\* init_output_stream(), with the format of the sink of its filter graph
InitOutput(m, o, format) ==
  IF m.out[o].initialized THEN m
  ELSE CheckInitOutputFile(EncoderSet(m, o, format), DestOf[o])

-----------------------------------------------------------------------------
(* Encoding. *)

\* The encoder takes a frame, and gives what it does not hold back.
Encode(m, o, frame) ==
  LET held == Append(m.out[o].held, frame)
      sent == [m EXCEPT !.out[o].sent = Append(@, frame)]
  IN IF Len(held) <= Delay[o] THEN [sent EXCEPT !.out[o].held = held]
     ELSE WritePacket([sent EXCEPT !.out[o].held = Tail(held)], o, Head(held), FALSE)

\* check_recording_time()
InTime(m, o) == m.out[o].sync < m.dest[DestOf[o]].until

Median(s) ==
  LET values == {s[1], s[2], s[3]} IN s[1] + s[2] + s[3] - Min(values) - Max(values)

Least(a, b) == IF a < b THEN a ELSE b

\* How many of nb frames are left before max_frames.
Limited(m, o, nb) == Least(nb, m.opt.maxFrames[o] - m.out[o].frames)

\* One round of the loop of do_video_out(), for the frame in; it stops the loop
\* if there is none or its time is up.
ShowFrame(c, o, in) ==
  IF c.over \/ in = Null THEN [c EXCEPT !.over = TRUE]
  ELSE IF ~InTime(c.m, o) THEN [over |-> TRUE, m |-> CloseOutput(c.m, o)]
  ELSE LET n == Encode(c.m, o, in)
       IN [c EXCEPT !.m = [n EXCEPT !.out[o].sync = @ + 1, !.out[o].frames = @ + 1]]

\* What is shown: the previous frame nb0 times and then the next one, so that nb
\* frames come out.
Shown(last, next, nb, nb0) == [i \in 1..nb |-> IF i <= nb0 /\ last # Null THEN last ELSE next]

\* The loop of do_video_out() has come to c; the next frame is kept.
Keeping(c, o, next) == IF c.over THEN c.m ELSE [c.m EXCEPT !.out[o].last = next]

ShowFrames(m, o, next, nb, nb0) ==
  Keeping(FoldLeft(LAMBDA c, in : ShowFrame(c, o, in),
                   [over |-> FALSE, m |-> [m EXCEPT !.out[o].nb0s = <<nb0, @[1], @[2]>>]],
                   Shown(m.out[o].last, next, nb, nb0)), o, next)

\* How many frames are to come out, and how many of them are the previous one:
\* without a next one, at the end, as many as lately.
Asked(m, o, next) ==
  IF next = Null THEN <<Median(m.out[o].nb0s), Median(m.out[o].nb0s)>> ELSE Copies(next)

\* do_video_out()
DoVideoOut(m, o, next) ==
  LET asked == Asked(m, o, next)
      nb == Limited(m, o, asked[1])
  IN ShowFrames(m, o, next, nb, Least(asked[2], nb))

\* do_audio_out()
DoAudioOut(m, o, frame) ==
  IF InTime(m, o) THEN Encode([m EXCEPT !.out[o].sync = @ + 1], o, frame) ELSE CloseOutput(m, o)

DoOut(m, o, frame) == IF Kind[o] = "video" THEN DoVideoOut(m, o, frame) ELSE DoAudioOut(m, o, frame)

\* Mutant: nothing more is written for an output that is finished in any way.
FlushUnlessFinished(m, o) ==
  FoldLeft(LAMBDA n, p : IF n.out[o].finished # {} THEN n ELSE WritePacket(n, o, p, FALSE),
           [m EXCEPT !.out[o].held = <<>>], m.out[o].held)

\* The end of flush_encoders(): what the encoder held back.  (An audio encoder with a
\* frame_size of at most 1 is skipped there; it holds back nothing.)
FlushEncoder(m, o) ==
  FoldLeft(LAMBDA n, p : IF "muxer" \in n.out[o].finished THEN n ELSE WritePacket(n, o, p, FALSE),
           [m EXCEPT !.out[o].held = <<>>], m.out[o].held)
=============================================================================
