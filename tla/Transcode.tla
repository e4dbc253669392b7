------------------------------ MODULE Transcode ------------------------------
(***************************************************************************)
(* The sandbox transcoder (src/src/sandbox/transcode.cpp,                  *)
(* transcode_inputfile.cpp, transcode_inputstream.cpp): one thread that    *)
(* reads packets from the input files, decodes them, sends the frames      *)
(* through the filter graphs, encodes and muxes them, until no output      *)
(* wants more.  One round of its loop is one step here.                    *)
(*                                                                         *)
(* The code is a sketch that is not built: a state of the program is what  *)
(* the code would do if its globals and methods were those it means.       *)
(* Subtitles, copied streams, timestamps and the command line are left     *)
(* out; errors that end the program are those of the devices, of graphs    *)
(* that cannot be built, and of the muxing queue.                          *)
(***************************************************************************)
EXTENDS TranscodeFilter

CONSTANTS
  NumFiles,    \* nb_input_files
  Streams,     \* the input streams of each file, in order
  Options,     \* what the program is run with
  MaxWaits     \* bound: how often a file that is read in real time is not ready

VARIABLES
  ifile,       \* input_files: how far each is read, loop, eagain, eof_reached
  hw,          \* the hardware devices
  dec,         \* the hardware options of each input stream
  held,        \* the packets that the decoder of each input stream holds
  fg, out, dest,
  how,         \* "ok", "error" while a graph cannot be built, or "abort"
  opt,         \* the options; constant
  phase,       \* "open", "run", "drain" and "flush" after the loop, "done"
  cut,         \* received_sigterm: the loop was ended by a signal
  waits,
  turn,        \* flipped by every round of the loop
  given        \* history: the packets each decoder got, but those flushed out of it

vars == <<ifile, hw, dec, held, fg, out, dest, how, opt, phase, cut, waits, turn, given>>

InFile == 1..NumFiles

\* The files in the order in which the loops of the program visit them.
FilesInOrder == [f \in InFile |-> f]

Stream == UNION {ToSet(Streams[f]) : f \in InFile}

FileOf(s) == CHOOSE f \in InFile : s \in ToSet(Streams[f])

GraphsInOrder == [g \in Graph |-> g]

ASSUME MediaAssumption ==
  /\ NumFiles \in Nat
  /\ \A f \in InFile : /\ Streams[f] \in Seq(Stream)
                       /\ Media[f] \in Seq(ToSet(Media[f])) /\ Media[f] # <<>>
                       /\ \A p \in ToSet(Media[f]) :
                            p.stream \in ToSet(Streams[f]) /\ p.format \in Format /\ p.copies \in Int \X Int
  /\ \A e, f \in InFile : ToSet(Streams[e]) \cap ToSet(Streams[f]) # {} => e = f

ASSUME StreamAssumption ==
  /\ \A g \in Graph : InputsOf(g) \subseteq Stream
  /\ \A s \in Stream : /\ Declared[s] \in Format
                       /\ DecConfigs[s] \in Seq(ToSet(DecConfigs[s]))
                       /\ \A c \in ToSet(DecConfigs[s]) : c.pix \in Sample
  /\ \A o \in Output : EncConfigs[o] \in Seq(ToSet(EncConfigs[o]))

ASSUME OptionsAssumption ==
  \A x \in Options :
    /\ \A o \in Output : x.maxFrames[o] \in Nat /\ x.pix[o] \in Sample \cup {Null}
    /\ \A d \in Dest : x.shortest[d] \in BOOLEAN /\ x.room[d] \in Nat
    /\ \A f \in InFile : x.loop[f] \in Nat
    /\ x.devices \in Seq(ToSet(x.devices))
    /\ DOMAIN x.accel = Stream
    /\ \A s \in Stream : DOMAIN x.accel[s] = {"id", "type", "name", "device", "output"}

\* A stream that feeds no graph (that has no filters) is discarded.
Discarded(s) == \A g \in Graph : s \notin InputsOf(g)

\* A frame comes out of the decoder for it.
Intact(frame) == PacketAt(frame).intact /\ SourceOf(frame) \notin opt.broken

Now == [ifile |-> ifile, hw |-> hw, dec |-> dec, held |-> held, fg |-> fg, out |-> out, dest |-> dest, how |-> how,
        opt |-> opt, given |-> given]

\* The program goes on from m.
Become(m) ==
  /\ ifile' = m.ifile /\ held' = m.held /\ given' = m.given
  /\ hw' = m.hw /\ dec' = m.dec
  /\ fg' = m.fg /\ out' = m.out /\ dest' = m.dest
  /\ how' = m.how /\ opt' = m.opt

Init ==
  /\ opt \in Options
  /\ ifile = [f \in InFile |-> [pos |-> 1, loop |-> opt.loop[f], eagain |-> FALSE, eofReached |-> FALSE]]
  /\ hw = <<>> /\ dec = opt.accel
  /\ held = [s \in Stream |-> <<>>]
  /\ fg = [g \in Graph |-> NewGraph(g)]
  /\ out = [o \in Output |-> NewOutput]
  /\ dest = [d \in Dest |-> NewDest]
  /\ how = "ok"
  /\ phase = "open" /\ cut = FALSE /\ waits = 0 /\ turn = FALSE
  /\ given = [s \in Stream |-> <<>>]

-----------------------------------------------------------------------------
(* Before the loop. *)

\* The devices that the options name, and transcode_init(): the decoders are opened
\* one after the other.
OpenDecoders(m, f) == FoldLeft(OpenDecoder, m, Streams[f])

TranscodeInit ==
  /\ phase = "open" /\ how = "ok"
  /\ LET devices == FoldLeft(InitFromString, <<>>, opt.devices)
     IN Become(FoldLeft(OpenDecoders, [Now EXCEPT !.hw = devices], FilesInOrder))
  /\ phase' = "run"
  /\ UNCHANGED <<cut, waits, turn>>

-----------------------------------------------------------------------------
(* Decoding. *)

\* send_frame_to_filters(), and the end of s for all the graphs that it feeds
SendFrameTo(m, g, s, frame) == IF s \in InputsOf(g) THEN SendFrame(m, g, frame) ELSE m

SendEofTo(m, g, s) == IF s \in InputsOf(g) THEN SendEof(m, g, s) ELSE m

\* decode_video(), decode_audio() and send_frame_to_filters(), for the packet
\* that comes out of the decoder of s; a broken one is an error without a frame.
Decoded(m, s) ==
  LET frame == Head(m.held[s])
      n == [m EXCEPT !.held[s] = Tail(@)]
  IN IF Intact(frame)
     THEN FoldLeft(LAMBDA k, g : SendFrameTo(k, g, s, frame), n, GraphsInOrder)
     ELSE n

\* process_input_packet() of a packet: the decoder may hold it back.
ProcessPacket(m, s, frame) ==
  LET n == [m EXCEPT !.held[s] = Append(@, frame), !.given[s] = Append(@, frame)]
  IN IF Len(n.held[s]) > m.opt.hold[s] THEN Decoded(n, s) ELSE n

\* process_input_packet() without a packet: one frame that the decoder held, or,
\* if there is none, its end for the filters.
ProcessEof(m, s, noEof) ==
  IF m.held[s] # <<>> THEN Decoded(m, s)
  ELSE IF noEof THEN m
  ELSE FoldLeft(LAMBDA k, g : SendEofTo(k, g, s), m, GraphsInOrder)

-----------------------------------------------------------------------------
(* Reading. *)

\* reset_eagain()
ResetEagain(m) ==
  [m EXCEPT !.ifile = [f \in InFile |-> [m.ifile[f] EXCEPT !.eagain = FALSE]],
            !.out = [o \in Output |-> [m.out[o] EXCEPT !.unavailable = FALSE]]]

AtMediaEnd(m, f) == m.ifile[f].pos > Len(Media[f])

\* The next packet of f is read and processed; a stream nobody uses is discarded.
ReadPacket(m, f) ==
  LET frame == <<f, m.ifile[f].pos, m.ifile[f].loop>>
      s == PacketAt(frame).stream
      n == ResetEagain([m EXCEPT !.ifile[f].pos = @ + 1])
  IN IF Discarded(s) THEN n ELSE ProcessPacket(n, s, frame)

\* The rest of the loop over the streams, avcodec_flush_buffers(), and
\* seek_to_start(): what the decoders still hold is lost.
StartedOver(m, f) ==
  [m EXCEPT !.ifile[f].pos = 1, !.ifile[f].loop = @ - 1,
            !.held = [s \in Stream |-> IF FileOf(s) = f THEN <<>> ELSE @[s]],
            !.given = [s \in Stream |-> IF FileOf(s) = f
                                        THEN SubSeq(@[s], 1, Len(@[s]) - Len(m.held[s])) ELSE @[s]]]

DrainStream(m, s, noEof) == IF Discarded(s) THEN m ELSE ProcessEof(m, s, noEof)

Drained(m, f, noEof) == FoldLeft(LAMBDA n, s : DrainStream(n, s, noEof), m, Streams[f])

\* process_input() at the end of f: to its start if it is to be looped.
Rewound(m, f) ==
  LET again == m.ifile[f].loop > 0
      drained == Drained(m, f, again)
  IN IF again THEN StartedOver(drained, f) ELSE [drained EXCEPT !.ifile[f].eofReached = TRUE]

\* What process_input() finds of f: the next packet, or the end.
Located(m, f) == IF AtMediaEnd(m, f) THEN Rewound(m, f) ELSE m

\* transcode_step() from there on, for output o: the packet is processed, and what
\* the filters have by then is encoded, but not at the end of the file.
StepInput(m, o, f) ==
  IF m.ifile[f].eofReached THEN [m EXCEPT !.out[o].unavailable = @ \/ m.ifile[f].eagain]
  ELSE ReapFilters(ReadPacket(m, f), FALSE)

\* get_input_packet(), process_input() and transcode_step() for a file that is to
\* be read in real time and has nothing yet.
NotReady(m, o, f) == [m EXCEPT !.ifile[f].eagain = TRUE, !.out[o].unavailable = TRUE]

-----------------------------------------------------------------------------
(* The loop. *)

\* Is the file of o as long as it may get?
TooLong(m, o) == m.dest[DestOf[o]].size >= m.opt.maxSize[DestOf[o]]

NeedsMore(m, o) ==
  m.out[o].finished = {} /\ ~TooLong(m, o) /\ m.out[o].frames < m.opt.maxFrames[o]

\* need_output() until it comes to an output that needs more: an output that has
\* all its frames closes its file.
NeedOutput(m) ==
  FoldLeft(LAMBDA c, o :
             IF c.needed THEN c
             ELSE IF NeedsMore(c.m, o) THEN [c EXCEPT !.needed = TRUE]
             ELSE IF c.m.out[o].finished # {} \/ TooLong(c.m, o) THEN c
             ELSE [c EXCEPT !.m = CloseOutputs(@, Siblings(DestOf[o]))],
           [m |-> m, needed |-> FALSE], InOrder)

\* choose_output(), before it looks whether the chosen one is unavailable: the
\* first output that is not initialized, or the one that lags behind (in packets
\* written, where the code compares the times of the last ones).
Chosen(m) ==
  LET new == {o \in Output : ~m.out[o].initialized /\ ~m.out[o].inputsDone}
      open == {o \in Output : m.out[o].finished = {}}
  IN IF new # {} THEN Min(new)
     ELSE CHOOSE o \in open : \A p \in open :
            \/ Len(m.out[o].written) < Len(m.out[p].written)
            \/ Len(m.out[o].written) = Len(m.out[p].written) /\ o <= p

\* choose_output() finds none.
NobodyAvailable(m) ==
  /\ \A o \in Output : m.out[o].initialized \/ m.out[o].inputsDone
  /\ m.out[Chosen(m)].unavailable

\* The state in which a round of the loop is, after need_output().
Round == NeedOutput(Now).m

Running == phase = "run" /\ how = "ok" /\ NeedOutput(Now).needed

\* No output can go on before time has passed.
Sleep ==
  /\ Running /\ NobodyAvailable(Round)
  /\ turn' = ~turn
  /\ Become(ResetEagain(Round))
  /\ UNCHANGED <<phase, cut, waits>>

\* Output o is the one that this round is for.
Stepping(o) ==
  /\ Running /\ ~NobodyAvailable(Round) /\ o = Chosen(Round)
  /\ turn' = ~turn

CanFilter(m, g) == m.fg[g].graph \/ HasAllInputFormats(m.fg[g])

\* The graph of o is there, if it could be built: the filters run.
Opened(m, o) ==
  IF m.how = "ok" THEN Requested(InitOutput(m, o, SinkFormat(m, o)), GraphOf[o]) ELSE m

\* transcode_step() up to transcode_from_filter(), for output o of a graph that is
\* built, or can be.
AtGraph(m, o) ==
  LET g == GraphOf[o]
  IN Opened(IF m.fg[g].graph THEN m ELSE Configure(m, g), o)

\* transcode_step(): the graph cannot be built, which ends the loop.
Failed(m) ==
  /\ m.how = "error"
  /\ Become([m EXCEPT !.how = "ok"])
  /\ phase' = "drain"
  /\ UNCHANGED <<cut, waits>>

\* transcode_from_filter(): the graph g has frames.
Filtered(m, g) ==
  /\ m.how # "error" /\ HasOutput(m, g)
  /\ Become(ReapFilters(m, FALSE))
  /\ UNCHANGED <<phase, cut, waits>>

\* transcode_from_filter(): the graph is at its end; its last frames, and the end of
\* its outputs.
Ended(m, g) ==
  /\ m.how # "error" /\ ~HasOutput(m, g) /\ AllClosed(g, m.fg[g])
  /\ Become(CloseOutputs(ReapFilters(m, TRUE), OutputsOf(g)))
  /\ UNCHANGED <<phase, cut, waits>>

\* A packet of file f for output o, or word that there is none yet; a file that
\* starts over may say so after it did.
Read(m, o, f) ==
  \/ Become(StepInput(Located(m, f), o, f)) /\ UNCHANGED waits
  \/ /\ opt.realTime /\ waits < MaxWaits
     /\ waits' = waits + 1
     /\ \/ Become(NotReady(m, o, f))
        \/ /\ AtMediaEnd(m, f) /\ m.ifile[f].loop > 0
           /\ Become(NotReady(Rewound(m, f), o, f))

Exhausted(m, f) == m.ifile[f].eagain \/ m.ifile[f].eofReached

\* transcode_from_filter(): the graph g wants a frame of one of its inputs that it
\* does not know the end of; which one is up to the filters.
Wanting(m, o, g) ==
  /\ m.how # "error" /\ ~HasOutput(m, g)
  /\ \E s \in InputsOf(g) \ m.fg[g].closed :
       \/ /\ Exhausted(m, FileOf(s))
          /\ Become([m EXCEPT !.out = [p \in Output |->
                                         [m.out[p] EXCEPT !.unavailable = @ \/ GraphOf[p] = g]]])
          /\ UNCHANGED waits
       \/ ~Exhausted(m, FileOf(s)) /\ Read(m, o, FileOf(s))
  /\ UNCHANGED <<phase, cut>>

\* transcode_step() with a graph
StepGraph(o) ==
  LET g == GraphOf[o]
  IN /\ Stepping(o) /\ CanFilter(Round, g)
     /\ \E m \in {AtGraph(Round, o)} :
          Failed(m) \/ Filtered(m, g) \/ Ended(m, g) \/ Wanting(m, o, g)

\* transcode_step() without a graph: the first input that has a packet left is
\* read, whether or not its format is known (got_output is never set), or the
\* inputs are done.
StepUnconfigured(o) ==
  LET m == Round
      g == GraphOf[o]
      left == SelectInSeq(Inputs[g], LAMBDA s : ~m.ifile[FileOf(s)].eofReached)
  IN /\ Stepping(o) /\ ~CanFilter(m, g)
     /\ \/ left # 0 /\ Read(m, o, FileOf(Inputs[g][left]))
        \/ /\ left = 0
           /\ Become([m EXCEPT !.out[o].inputsDone = TRUE])
           /\ UNCHANGED waits
     /\ UNCHANGED <<phase, cut>>

\* No output needs more.
LoopEnds ==
  /\ phase = "run" /\ how = "ok" /\ ~NeedOutput(Now).needed
  /\ Become(Round)
  /\ phase' = "drain"
  /\ UNCHANGED <<cut, waits, turn>>

\* SIGTERM
Interrupted ==
  /\ phase = "run" /\ how = "ok"
  /\ opt.signal
  /\ phase' = "drain" /\ cut' = TRUE
  /\ UNCHANGED <<ifile, hw, dec, held, fg, out, dest, how, opt, waits, turn, given>>

-----------------------------------------------------------------------------
(* After the loop. *)

\* The decoders of the files that are not at their end are drained.
DrainFile(m, f) == IF m.ifile[f].eofReached THEN m ELSE Drained(m, f, FALSE)

DrainDecoders ==
  /\ phase = "drain" /\ how = "ok"
  /\ Become(FoldLeft(DrainFile, Now, FilesInOrder))
  /\ phase' = "flush"
  /\ UNCHANGED <<cut, waits, turn>>

\* flush_encoders() for an output that got no frame, and no graph: it is finished.
FinishedEmpty(m, o) ==
  LET g == GraphOf[o]
  IN IF m.fg[g].graph THEN m
     ELSE Fatal(FinishOutput(Configure(FormatsDeclared(m, g, InputsOf(g)), g), o))

\* flush_encoders() for output o
Flushed(m, o) ==
  LET n == IF m.out[o].initialized THEN m ELSE FinishedEmpty(m, o)
  IN IF n.how # "ok" THEN n ELSE FlushEncoder(InitOutput(n, o, SinkFormat(n, o)), o)

\* flush_encoders()
FlushEncoders ==
  /\ phase = "flush" /\ how = "ok"
  /\ Become(FoldLeft(Flushed, Now, InOrder))
  /\ phase' = "done"
  /\ UNCHANGED <<cut, waits, turn>>

-----------------------------------------------------------------------------
Next ==
  \/ TranscodeInit
  \/ Sleep
  \/ \E o \in Output : StepGraph(o) \/ StepUnconfigured(o)
  \/ LoopEnds \/ Interrupted
  \/ DrainDecoders \/ FlushEncoders

Over == phase = "done" \/ how = "abort"

\* The thread goes on until it is over: weak fairness of Next, which is enabled
\* until then.
Spec == Init /\ [][Next]_vars /\ ([]<>Over \/ []<><<Next>>_vars)

-----------------------------------------------------------------------------
(* Properties. *)

\* TypeOK: the parts of the transcoder fit together.  A file has its header once
\* all its streams are initialized, and then no packet waits for it; a stream is
\* initialized from a graph that is built, from the formats of all its inputs, and
\* then no frame waits for it; a file at its end has been read to its end as often
\* as it was to be.
TypeOK ==
  /\ \A d \in Dest : how = "ok" => (dest[d].header <=> \A o \in Siblings(d) : out[o].initialized)
  /\ \A o \in Output :
       /\ out[o].finished \in SUBSET Both
       /\ dest[DestOf[o]].header => out[o].queue = <<>>
       /\ how = "ok" /\ out[o].initialized => fg[GraphOf[o]].graph
       /\ Len(out[o].held) <= Delay[o]
  /\ \A g \in Graph : fg[g].graph =>
       /\ HasAllInputFormats(fg[g])
       /\ \A s \in InputsOf(g) : fg[g].queue[s] = <<>>
       /\ fg[g].closed = {s \in InputsOf(g) : fg[g].eof[s]}
  /\ \A f \in InFile : ifile[f].eofReached => ifile[f].loop = 0 /\ AtMediaEnd(Now, f)
  /\ phase \in {"open", "run", "drain", "flush", "done"} /\ how \in {"ok", "abort"}

\* The packets that the encoder of o has let go.
Encoded(o) == SubSeq(out[o].sent, 1, Len(out[o].sent) - Len(out[o].held))

\* PacketsAccounted: until a file cannot be written any more, each packet of an
\* encoder is in the file or waits for its header, once and in the order of the
\* encoder, whichever stream was initialized first; of an audio stream the first
\* max_frames of them, and a video encoder gets no more frames than that.  This is
\* about write_packet(), check_init_output_file() and do_video_out(), which count
\* frames and packets in different places.  (A stream that is finished without a
\* frame has no packets.)
PacketsAccounted ==
  how = "ok" =>
    \A o \in Output : ~dest[DestOf[o]].broken /\ "muxer" \notin out[o].finished =>
      LET limit == opt.maxFrames[o]
      IN /\ out[o].written \o out[o].queue =
              IF CountsPackets(o) THEN SubSeq(Encoded(o), 1, Least(limit, Len(Encoded(o))))
              ELSE Encoded(o)
         /\ Kind[o] = "video" => Len(out[o].sent) <= limit

\* Those of the frames that are in the set, in the order in which they are.
Only(set, frames) == FoldLeft(LAMBDA all, fr : IF fr \in set THEN Append(all, fr) ELSE all, <<>>, frames)

\* FramesAccounted: what a decoder got comes out of each output of each graph it
\* feeds, once and in order, if it is not broken, however long it waited for the
\* other inputs: it was taken out, or is in a sink, in the graph, in the queue of
\* the input, or in the decoder.  Only a graph that is built again, because an
\* input has changed its format, loses frames (those the comment at line 538 of
\* transcode_inputstream.cpp speaks of); what a decoder still holds when its file
\* starts over was not given to it.
FramesAccounted ==
  how = "ok" => \A g \in Graph : \A s \in InputsOf(g) :
    LET q == fg[g]
        Mine(frames) == Only({fr \in ToSet(frames) : SourceOf(fr) = s /\ Intact(fr) /\ fr \notin q.lost}, frames)
        uniform == \A r \in InputsOf(g) : \A k, l \in DOMAIN Media[FileOf(r)] :
                     LET x == Media[FileOf(r)][k]  y == Media[FileOf(r)][l]
                     IN x.stream = r /\ y.stream = r => x.format = y.format
    IN /\ \A o \in OutputsOf(g) :
            Mine(given[s]) =
              Mine(q.reaped[o] \o q.sink[o] \o q.inside \o q.pending \o q.queue[s] \o held[s])
       /\ uniform => q.lost = {}

\* Nothing stops an output before the end of its inputs.
Undisturbed ==
  /\ ~cut /\ how = "ok"
  /\ \A d \in Dest : ~dest[d].broken /\ ~opt.shortest[d]
  /\ \A o \in Output : ~TooLong(Now, o) /\ out[o].frames < opt.maxFrames[o]

\* Complete: a transcoder that comes to its end undisturbed has written, of each
\* file as often as it was to be read, every intact packet of the inputs of an
\* output that has a time of its own, but those lost when a graph was built again:
\* the frames at the end of the decoders, the filters and the encoders, too.
Complete ==
  phase = "done" /\ Undisturbed =>
    \A o \in Output : \A s \in InputsOf(GraphOf[o]) :
      LET f == FileOf(s)
      IN \A k \in DOMAIN Media[f], n \in 0..opt.loop[f] :
           LET frame == <<f, k, n>>
           IN /\ PacketAt(frame).stream = s /\ Intact(frame)
              /\ Kind[o] = "video" => Copies(frame)[1] > Copies(frame)[2]
              /\ frame \notin fg[GraphOf[o]].lost
              => frame \in ToSet(out[o].written)

\* DeviceFits: devices have different names, whether the program or the user gave
\* them; a decoder that takes a hardware format because of one of its configurations
\* has a device of the type of that configuration, whichever way it came by it; an
\* encoder that has one knows its type.
DeviceFits ==
  /\ \A i, j \in DOMAIN hw : hw[i].name = hw[j].name => i = j
  /\ phase # "open" /\ how = "ok" =>
       \A s \in Stream : \A c \in ToSet(DecConfigs[s]) :
         ByConfig(dec[s], s, c.pix) /\ Accepted(dec[s], s, c.pix) =>
           /\ dec[s].device \in DOMAIN hw
           /\ hw[dec[s].device].type = DecConfigs[s][ConfigFor(s, c.pix)].type
  /\ \A o \in Output : out[o].device # NoDevice =>
       \E c \in ToSet(EncConfigs[o]) : c.ctx /\ c.type = hw[out[o].device].type

\* EncoderFormat: an encoder gets frames of the one format that it was opened for,
\* however often the graph is built again with inputs of other formats, and this is
\* one that it takes, unless it was told to keep what comes.
EncoderFormat ==
  \A o \in Output : out[o].initialized =>
    /\ out[o].took \subseteq {out[o].enc}
    /\ Supported[o] # <<>> /\ ~opt.keep[o] => Contains(Supported[o], out[o].enc[2])

\* Ends: the loop of transcode() ends, if no decoder holds frames back.  (One that
\* does is never drained: process_input_packet() does not say that it gave a
\* frame, so the filters are not told of its end, lines 554 and 609 of
\* transcode_inputstream.cpp, and the loop waits for them forever.)
Ends ==
  (\A s \in Stream : opt.hold[s] = 0) => ((phase = "run") ~> (phase \in {"drain", "flush", "done"} \/ how = "abort"))
=============================================================================
