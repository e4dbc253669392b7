--------------------------- MODULE TranscodeFilter ---------------------------
(***************************************************************************)
(* The filter graphs of the sandbox transcoder                             *)
(* (src/src/sandbox/transcode_filter.cpp): m.fg is the list of them        *)
(* (filtergraphs).  A graph is built when the formats of all its inputs    *)
(* are known, and built again when one of them changes; frames that come   *)
(* too early wait in the frame queue of their input.  The graph converts   *)
(* what comes out to what the encoder takes, and when it is built again to *)
(* what came out before.                                                   *)
(*                                                                         *)
(* What the filters do is external (libavfilter): here every frame that    *)
(* goes in comes out at all outputs of the graph, in the same order, but   *)
(* the last Lag of them only when all inputs are closed; they come out in  *)
(* the format of the first input, if that is a format in which all of      *)
(* them are, and no conversion is asked for.                               *)
(***************************************************************************)
EXTENDS TranscodeOutput

CONSTANTS
  NumGraphs,   \* nb_filtergraphs
  Inputs,      \* the input streams of each graph, in order
  GraphOf,     \* the graph of each output stream
  Lag,         \* how many frames the filters of each graph hold back
  Declared,    \* the format that the parameters of an input stream declare
  Supported,   \* the samples that each encoder takes, the best first; <<>> any
  Shape,       \* of the pictures, or the rate and the channels of audio
  Sample       \* pixel and sample formats

\* The format a frame is decoded to, its shape and its samples, and the input
\* stream it is from.
FormatOf(frame) == PacketAt(frame).format
SourceOf(frame) == PacketAt(frame).stream

Graph == 1..NumGraphs

InputsOf(g) == ToSet(Inputs[g])

OutputsOf(g) == {o \in Output : GraphOf[o] = g}

Format == Shape \X Sample

\* A picture on its side
Turned(shape) == <<shape[2], shape[1]>>

ASSUME FilterAssumption ==
  /\ NumGraphs \in Nat /\ GraphOf \in [Output -> Graph] /\ Lag \in [Graph -> Nat]
  /\ \A g \in Graph : /\ Inputs[g] \in Seq(InputsOf(g)) /\ Inputs[g] # <<>>
                      /\ \A i, j \in DOMAIN Inputs[g] : Inputs[g][i] = Inputs[g][j] => i = j
  /\ Supported \in [Output -> Seq(Sample)]
  /\ \A s \in Shape : Turned(s) \in Shape
  /\ NoFormat \notin Format /\ Null \notin Sample

\* init_simple_filtergraph(), init_complex_filtergraph()
NewGraph(g) ==
  [graph |-> FALSE,                               \* whether there is a built one
   format |-> [s \in InputsOf(g) |-> NoFormat],
   eof |-> [s \in InputsOf(g) |-> FALSE],
   queue |-> [s \in InputsOf(g) |-> <<>>],        \* frame_queue of each input
   limit |-> [o \in OutputsOf(g) |-> NoFormat],    \* format of the sinks
   closed |-> {},                                 \* the inputs it knows the end of
   pending |-> <<>>,                              \* frames in the buffer sources
   inside |-> <<>>,                               \* frames the filters hold
   sink |-> [o \in OutputsOf(g) |-> <<>>],        \* frames in the buffer sinks
   reaped |-> [o \in OutputsOf(g) |-> <<>>],      \* history: frames taken out
   lost |-> {}]                                   \* history: frames freed with a graph

AllClosed(g, q) == q.closed = InputsOf(g)

\* The filters run.
Run(g, q) ==
  LET all == q.inside \o q.pending
      kept == IF AllClosed(g, q) THEN 0 ELSE Least(Lag[g], Len(all))
      ready == SubSeq(all, 1, Len(all) - kept)
  IN [q EXCEPT !.inside = SubSeq(all, Len(ready) + 1, Len(all)),
               !.pending = <<>>,
               !.sink = [o \in DOMAIN @ |-> @[o] \o ready]]

\* av_buffersrc_add_frame_flags() with AV_BUFFERSRC_FLAG_PUSH
Push(g, q, frame) == Run(g, [q EXCEPT !.pending = Append(@, frame)])

\* ifilter_has_all_input_formats()
HasAllInputFormats(q) == \A s \in DOMAIN q.format : q.format[s] # NoFormat

\* What init_output_stream() reads of the buffer sink of o.
SinkFormat(m, o) == m.fg[GraphOf[o]].limit[o]

-----------------------------------------------------------------------------
(* Reaping. *)

\* The frames in the sink of o are encoded, or dropped if it is finished.
ReapOutput(m, o) ==
  LET g == GraphOf[o]
      frames == m.fg[g].sink[o]
      taken == frames # <<>> /\ m.out[o].finished = {}
      emptied == [m EXCEPT !.fg[g].sink[o] = <<>>, !.fg[g].reaped[o] = @ \o frames,
                           !.out[o].took = @ \cup IF taken THEN {m.fg[g].limit[o]} ELSE {}]
  IN FoldLeft(LAMBDA n, fr : IF n.out[o].finished # {} THEN n ELSE DoOut(n, o, fr), emptied, frames)

\* The sink says that nothing more will come.
SinkAtEof(g, q) == AllClosed(g, q) /\ q.inside = <<>> /\ q.pending = <<>>

\* The last frame of a video is shown once more if its sink is at its end.
ReapEof(m, o) ==
  IF SinkAtEof(GraphOf[o], m.fg[GraphOf[o]]) /\ Kind[o] = "video" THEN DoVideoOut(m, o, Null) ELSE m

Reap(m, o, flush) ==
  LET reaped == ReapOutput(InitOutput(m, o, SinkFormat(m, o)), o)
  IN IF flush THEN ReapEof(reaped, o) ELSE reaped

\* reap_filters()
ReapFilters(m, flush) ==
  FoldLeft(LAMBDA n, o : IF n.fg[GraphOf[o]].graph THEN Reap(n, o, flush) ELSE n, m, InOrder)

-----------------------------------------------------------------------------
(* The formats of a graph. *)

\* configure_input_filter(), configure_input_video_filter(): the format in which
\* frames of s go into the filters, NoFormat if the filters put before them, which
\* turn or deinterlace the picture, cannot work on a device.
InputFormat(m, q, s) ==
  LET format == q.format[s]
      prepared == m.opt.turned[s] \/ m.opt.deinterlace
  IN IF prepared /\ format[2] \in Hardware THEN NoFormat
     ELSE IF m.opt.turned[s] THEN <<Turned(format[1]), format[2]>>
     ELSE format

\* The format that comes out of the filters.
Mixed(m, g) ==
  LET formats == [s \in InputsOf(g) |-> InputFormat(m, m.fg[g], s)]
      first == formats[Head(Inputs[g])]
  IN IF \E s \in InputsOf(g) : formats[s] = NoFormat \/ (formats[s][2] \in Hardware) # (first[2] \in Hardware)
     THEN NoFormat ELSE first

\* choose_pixel_fmt()
ChoosePixelFmt(o, target) ==
  IF Supported[o] = <<>> \/ Contains(Supported[o], target) THEN target ELSE Head(Supported[o])

\* choose_pix_fmts(): what the encoder is opened for or is asked to be.  What came
\* out before (ofilter->format) does not count.
ChoosePixFmts(m, o) ==
  LET sample == IF m.out[o].initialized THEN m.out[o].enc[2] ELSE m.opt.pix[o]
  IN IF sample = Null THEN (IF m.opt.keep[o] THEN <<>> ELSE Supported[o])
     ELSE <<IF m.opt.keep[o] THEN sample ELSE ChoosePixelFmt(o, sample)>>

\* choose_sample_fmts()
ChooseSampleFmts(m, o) ==
  IF SinkFormat(m, o) # NoFormat THEN <<SinkFormat(m, o)[2]>> ELSE Supported[o]

\* keep_pix_fmt of one output turns conversion off in its graph.
AutoConvert(m, g) == \A o \in OutputsOf(g) : Kind[o] = "video" => ~m.opt.keep[o]

\* avfilter_graph_config(): the samples that come out of a filter that allows these.
Negotiated(m, g, sample, allowed) ==
  LET soft == SelectInSeq(allowed, LAMBDA a : a \notin Hardware)
  IN IF allowed = <<>> \/ Contains(allowed, sample) THEN sample
     ELSE IF AutoConvert(m, g) /\ sample \notin Hardware /\ soft # 0 THEN allowed[soft]
     ELSE Null

\* Mutant: a graph that is built again gives what its filters give.
ShapeOfFilters(m, o, format) == format[1]

\* The shape that came out before stays; frames in a device cannot be scaled.
OutputShape(m, o, format) == IF SinkFormat(m, o) = NoFormat THEN format[1] ELSE SinkFormat(m, o)[1]

\* configure_output_video_filter()
OutputVideo(m, o, format) ==
  LET sample == Negotiated(m, GraphOf[o], format[2], ChoosePixFmts(m, o))
  IN IF sample = Null \/ (SinkFormat(m, o) # NoFormat /\ format[2] \in Hardware) THEN NoFormat
     ELSE <<OutputShape(m, o, format), sample>>

\* configure_output_audio_filter(): audio can always be converted.
OutputAudio(m, o, format) ==
  LET allowed == ChooseSampleFmts(m, o)
  IN <<OutputShape(m, o, format),
       IF allowed = <<>> \/ Contains(allowed, format[2]) THEN format[2] ELSE Head(allowed)>>

\* configure_output_filter(), for what the filters give
OutputFormat(m, o, format) ==
  IF format = NoFormat THEN NoFormat
  ELSE IF Kind[o] = "video" THEN OutputVideo(m, o, format)
  ELSE OutputAudio(m, o, format)

OutputFormats(m, g) == [o \in OutputsOf(g) |-> OutputFormat(m, o, Mixed(m, g))]

-----------------------------------------------------------------------------
(* Building a graph. *)

\* cleanup_filtergraph(): what the graph holds is freed.
CleanedUp(g, q) ==
  [q EXCEPT !.graph = FALSE, !.inside = <<>>, !.pending = <<>>, !.closed = {},
            !.sink = [o \in OutputsOf(g) |-> <<>>],
            !.lost = @ \cup ToSet(q.inside \o q.pending)]

\* Mutant: the frames that wait for the graph are left in their queues.
QueuesKept(g, q, formats) ==
  [q EXCEPT !.graph = TRUE, !.limit = formats, !.closed = {s \in InputsOf(g) : q.eof[s]}]

\* configure_filtergraph() from the graph on that has these formats: it gets the
\* frames and the ends of file that came before it.
Built(g, q, formats) ==
  [q EXCEPT !.graph = TRUE, !.limit = formats,
            !.pending = FoldLeft(LAMBDA all, s : all \o q.queue[s], <<>>, Inputs[g]),
            !.queue = [s \in InputsOf(g) |-> <<>>],
            !.closed = {s \in InputsOf(g) : q.eof[s]}]

\* configure_filtergraph(): a graph that was there is freed; the new one is an
\* error if its formats do not fit.
Configure(m, g) ==
  LET formats == OutputFormats(m, g)
      freed == [m EXCEPT !.fg[g] = CleanedUp(g, @)]
  IN IF \E o \in OutputsOf(g) : formats[o] = NoFormat
     THEN [freed EXCEPT !.how = IF @ = "ok" THEN "error" ELSE @]
     ELSE [freed EXCEPT !.fg[g] = Built(g, @, formats)]

\* The error is fatal for those that call configure_filtergraph().
Fatal(m) == IF m.how = "error" THEN [m EXCEPT !.how = "abort"] ELSE m

\* ifilter_parameters_from_codecpar() for the inputs that have no format yet.
FormatsDeclared(m, g, streams) ==
  [m EXCEPT !.fg[g].format = [s \in InputsOf(g) |->
     IF s \in streams /\ @[s] = NoFormat THEN Declared[s] ELSE @[s]]]

-----------------------------------------------------------------------------
(* Feeding a graph. *)

\* The format of a frame that comes out of the decoder.
FormatIn(m, frame) ==
  LET format == FormatOf(frame)
      s == SourceOf(frame)
  IN <<format[1], Retrieved(m.dec[s], s, format[2])>>

\* ifilter_parameters_from_frame()
FormatNoted(m, g, frame) == [m EXCEPT !.fg[g].format[SourceOf(frame)] = FormatIn(m, frame)]

\* Is the graph to be built for this frame, the first of its input or one of another
\* format than before?
NeedsReinit(m, g, frame) ==
  ~m.fg[g].graph \/ m.fg[g].format[SourceOf(frame)] # FormatIn(m, frame)

\* The graph takes the frame.
Taken(m, g, frame) == [m EXCEPT !.fg[g] = Push(g, @, frame)]

TakenIfBuilt(m, g, frame) == IF m.how = "ok" THEN Taken(m, g, frame) ELSE Fatal(m)

\* Mutant: the frame that the graph is built for is not sent.
SendUnlessBuilt(m, g, frame) ==
  LET n == FormatNoted(m, g, frame)
  IN IF ~NeedsReinit(m, g, frame) THEN Taken(m, g, frame)
     ELSE IF HasAllInputFormats(n.fg[g]) THEN Fatal(Configure(ReapFilters(n, TRUE), g))
     ELSE [n EXCEPT !.fg[g].queue[SourceOf(frame)] = Append(@, frame)]

\* ifilter_send_frame(): what comes before the graph can be built is queued;
\* before it is built again, its sinks are emptied.
SendFrame(m, g, frame) ==
  LET n == FormatNoted(m, g, frame)
  IN IF ~NeedsReinit(m, g, frame) THEN Taken(m, g, frame)
     ELSE IF HasAllInputFormats(n.fg[g]) THEN TakenIfBuilt(Configure(ReapFilters(n, TRUE), g), g, frame)
     ELSE [n EXCEPT !.fg[g].queue[SourceOf(frame)] = Append(@, frame)]

\* The graph is told of the end of s.
Closed(q, s) == [q EXCEPT !.eof[s] = TRUE, !.closed = @ \cup {s}]

\* Mutant: the end of an input is not noted while there is no graph.
EofIfBuilt(m, g, s) ==
  IF m.fg[g].graph
  THEN [m EXCEPT !.fg[g] = Run(g, Closed(m.fg[g], s))]
  ELSE FormatsDeclared(m, g, {s})

\* ifilter_send_eof(); every stream declares a format, so that its error for one that
\* has none does not come.
SendEof(m, g, s) ==
  IF m.fg[g].graph
  THEN [m EXCEPT !.fg[g] = Run(g, Closed(m.fg[g], s))]
  ELSE FormatsDeclared([m EXCEPT !.fg[g].eof[s] = TRUE], g, {s})

\* avfilter_graph_request_oldest(): the filters run if frames are pending.
Requested(m, g) == [m EXCEPT !.fg[g] = Run(g, @)]

HasOutput(m, g) == \E o \in OutputsOf(g) : m.fg[g].sink[o] # <<>>
=============================================================================
