------------------------------- MODULE Reader -------------------------------
(***************************************************************************)
(* ffmpeg::Reader<AVFrameQueueST> (src/src/ffmpegReader.h): one thread     *)
(* opens a media file, picks streams and outputs of a filter graph, and    *)
(* then reads frames, asks for the end of file, and seeks.  The reader     *)
(* owns the file, the graph and the frame buffers between them, and pulls  *)
(* packets through as it needs frames.                                     *)
(*                                                                         *)
(* A call that loops is a sequence of steps, one per iteration; every      *)
(* other call is one step.  The client follows the documentation of the    *)
(* class: it sets streams and graph up before activate() and reads after   *)
(* it, although the checks at lines 356 and 502 do not enforce it.         *)
(***************************************************************************)
EXTENDS FilterGraph

CONSTANTS
  Rooms,      \* the sizes buffers are made with; 0 makes a dynamic one
  MaxCalls    \* bound: how often a file is opened, a graph set, or a time sought

ASSUME RoomsAssumption == Rooms \subseteq Nat

Buffer == Stream \cup Sink \cup {In}

\* Every buffer has a name of its own, and none is called NoBuffer.
ASSUME BufferAssumption ==
  /\ Stream \cap Sink = {} /\ In \notin Stream \cup Sink
  /\ NoBuffer \notin Buffer /\ NoBuffer \notin Queue

VARIABLES
  file,     \* InputFormat file
  graph,    \* filter::Graph *filter_graph
  bufs,     \* bufs, filter_outbufs and filter_inbufs, NoBuffer where there is none
  active,
  call,     \* the call in progress and where it stands
  count,    \* how many calls were made of those that MaxCalls bounds
  gone,     \* history: the frames each output gave up since the last seek
  due,      \* history: what each stream's buffer had to get since then
  said,     \* history: the buffers the last call found at their end
  exact     \* history: the time of the last seek, if that was an exact one

vars == <<file, graph, bufs, active, call, count, gone, due, said, exact>>

\* No call is in progress.  A round of a loop flips turn, so that a round which
\* changes nothing else is a step too.
Idle == [at |-> "idle", buf |-> NoBuffer, more |-> FALSE, time |-> 0, turn |-> FALSE]

Around == [call EXCEPT !.turn = ~@]

Made(b) == bufs[b] # NoBuffer

\* The buffers the client reads: bufs and filter_outbufs.
Outputs == {b \in Stream \cup Sink : Made(b)}

\* The buffers of outputs of a graph that is gone: nothing arrives there.
Orphans == {k \in Sink \ graph.sinks : Made(k)}

Now == [file |-> file, graph |-> graph, bufs |-> bufs, how |-> "ok"]

OnNothing == [b \in Buffer |-> <<>>]

\* xs and x, which counts only if it is a frame.
WithFrame(xs, x) == IF x = Null THEN xs ELSE Append(xs, x)

FramesOf(xs) == FoldLeft(WithFrame, <<>>, xs)

Frames(q) == FramesOf(Contents(q))

Init ==
  /\ file = NewFile
  /\ graph = NoGraph
  /\ bufs = [b \in Buffer |-> NoBuffer]
  /\ active = FALSE
  /\ call = Idle
  /\ count = 0
  /\ gone = OnNothing /\ due = OnNothing
  /\ said = {} /\ exact = 0

-----------------------------------------------------------------------------
(* Reading packets. *)

\* ready_to_read()
ReadyToRead(m) == \A b \in Outputs : ReadyToPush(m.bufs[b])

\* read_next_packet(), when the buffers are ready.
ReadPacket(m) ==
  LET n == ReadNextPacket(m)
  IN IF n.how = "ok" /\ n.graph.parsed THEN ProcessFrame(n) ELSE n

\* read_next_packet()
ReadIfReady(m) == IF ReadyToRead(m) THEN ReadPacket(m) ELSE m

AllEof(m) == \A b \in Outputs : AtEof(m.bufs[b])

AllEmpty(m) == \A b \in Outputs : IsEmpty(m.bufs[b])

\* atEndOfFile(), before it answers: if nothing is buffered, a packet is read.
Probed(m) == IF ~AllEof(m) /\ AllEmpty(m) THEN ReadIfReady(m) ELSE m

\* The state that m leads to, and the call that goes on as next; a packet that
\* its decoder refuses throws out of the call.
Continue(m, next) ==
  /\ file' = m.file
  /\ graph' = m.graph
  /\ bufs' = m.bufs
  /\ call' = CASE m.how = "ok" -> next
               [] m.how = "throw" -> Idle
               [] OTHER -> [next EXCEPT !.at = m.how]

\* The client is told of an end of the buffers in ended.
Telling(m, next, ended) ==
  /\ Continue(m, next)
  /\ said' = IF m.how = "ok" THEN ended ELSE {}
  /\ UNCHANGED <<active, count, gone, due, exact>>

-----------------------------------------------------------------------------
(* Setting up. *)

Setup == call = Idle /\ ~active

Quiet == UNCHANGED <<call, gone, exact>> /\ said' = {}

\* closeFile(); the buffers of filter outputs stay if no graph is set.
Close(f) ==
  /\ file' = f
  /\ graph' = NoGraph
  /\ bufs' = [b \in Buffer |-> IF b \in Stream \/ graph.parsed THEN NoBuffer ELSE bufs[b]]
  /\ active' = FALSE
  /\ gone' = OnNothing /\ due' = OnNothing
  /\ said' = {} /\ exact' = 0
  /\ UNCHANGED call

CloseFile ==
  /\ call = Idle /\ file.isOpen
  /\ Close(Closed(file))
  /\ UNCHANGED count

\* openFile(): closes the file that is open; the media may turn out to be bad.
OpenFile ==
  /\ call = Idle /\ count < MaxCalls
  /\ count' = count + 1
  /\ LET closed == IF file.isOpen THEN Closed(file) ELSE file
     IN \E f \in {Opened(closed), HalfOpened(closed), closed} :
          IF file.isOpen THEN Close(f)
          ELSE file' = f /\ Quiet /\ UNCHANGED <<graph, bufs, active, due>>

\* add_stream(): a buffer of its own for stream s of the file.
AddStream(s, N) ==
  /\ Setup /\ file.isOpen
  /\ ~IsStreamActive(file, s) /\ ~Made(s)
  /\ file' = WithStream(file, s, s)
  /\ bufs' = [bufs EXCEPT ![s] = NewQueue(N)]
  /\ due' = [due EXCEPT ![s] = Rest(file', s)]
  /\ Quiet /\ UNCHANGED <<graph, active, count>>

\* addStream(spec) of an output link of the graph.
AddSink(k, N) ==
  /\ Setup /\ IsSink(graph, k)
  /\ ~Made(k)
  /\ graph' = SinkAssigned(graph, k)
  /\ bufs' = [bufs EXCEPT ![k] = NewQueue(N)]
  /\ Quiet /\ UNCHANGED <<file, active, count, due>>

\* setFilterGraph(): the input link takes the first stream nobody uses, or the
\* one its label names.  A graph that was set before is gone, but the stream
\* that fed it goes on pushing to the same buffer, and the buffers of its
\* outputs stay.  The new graph gets what is left in that buffer, and be it of a
\* file that was closed.
SetFilterGraph(outs) ==
  /\ Setup /\ file.isOpen
  /\ count < MaxCalls
  /\ count' = count + 1
  /\ Quiet /\ UNCHANGED active
  /\ \/ \E s \in Stream \ Active(file) :
          /\ file' = WithStream(file, s, In)
          /\ graph' = SourceAssigned(Parsed(outs))
          /\ bufs' = [bufs EXCEPT ![In] = IF Made(In) THEN @ ELSE NewQueue(0)]
          /\ due' = [due EXCEPT ![In] = (IF Made(In) THEN Frames(bufs[In]) ELSE <<>>)
                                          \o Rest(file', s)]
     \/ /\ Active(file) = Stream       \* "too many input links"
        /\ graph' = NoGraph
        /\ UNCHANGED <<file, bufs, due>>

\* activate(): configures the graph; a graph that cannot be configured throws.
\* The buffer of an output of a graph that was replaced points to a sink filter
\* that is gone, and to ask it for its parameters is undefined behaviour.
Activate ==
  /\ Setup /\ FileReady(file)
  /\ LET c == IF graph.parsed THEN Configure(graph) ELSE [graph |-> graph, how |-> "ok"]
         dangling == graph.parsed /\ Orphans # {}
     IN /\ graph' = c.graph
        /\ active' = (c.how = "ok" /\ ~dangling)
        /\ call' = IF c.how = "ok" /\ dangling THEN [Idle EXCEPT !.at = "undefined"] ELSE Idle
  /\ said' = {}
  /\ UNCHANGED <<file, bufs, count, gone, due, exact>>

-----------------------------------------------------------------------------
(* Reading frames. *)

Reading == call = Idle /\ active

\* atEndOfFile()
AtEndOfFile ==
  /\ Reading
  /\ LET m == Probed(Now) IN Telling(m, Idle, IF AllEof(m) THEN Outputs ELSE {})

\* atEndOfStream()
AtEndOfStream(b) ==
  /\ Reading /\ b \in Outputs
  /\ LET m == IF ReadyToPop(bufs[b]) THEN Now ELSE ReadIfReady(Now)
     IN Telling(m, Idle, IF AtEof(m.bufs[b]) THEN {b} ELSE {})

\* getTimeStamp(): may read a packet to have a frame to show.
GetTimeStamp(b) ==
  /\ Reading /\ b \in Outputs
  /\ Telling(IF ReadyToPop(bufs[b]) THEN Now ELSE ReadIfReady(Now), Idle, {})

\* readNextFrame(): looks for the end of file first.
ReadNextFrame(b, getmore) ==
  /\ Reading /\ b \in Outputs
  /\ LET m == Probed(Now)
         next == [Idle EXCEPT !.at = "get", !.buf = b, !.more = getmore]
     IN IF AllEof(m) THEN Telling(m, Idle, Outputs) ELSE Telling(m, next, {})

\* postops.at(&buf)->filter(frame): the next frame of the buffer, or its end.
Take(b) ==
  /\ bufs' = [bufs EXCEPT ![b] = Pop(@)]
  /\ gone' = [gone EXCEPT ![b] = IF Oldest(bufs[b]) = Null THEN @ ELSE Append(@, Oldest(bufs[b]))]
  /\ said' = IF Oldest(bufs[b]) = Null THEN {b} ELSE {}
  /\ call' = Idle
  /\ UNCHANGED <<file, graph, active, count, due, exact>>

TakeFrame ==
  /\ call.at \in {"get", "fill"}
  /\ ReadyToPop(bufs[call.buf])
  /\ call.at = "fill" => ~AtEof(bufs[call.buf])
  /\ Take(call.buf)

\* The read comes back without a frame: only another packet would bring one and
\* the caller does not want it read, or there is no room for it, or it is the end.
NoFrame ==
  \/ /\ call.at = "get" /\ ~call.more
     /\ ~ReadyToPop(bufs[call.buf])
     /\ Telling(Now, Idle, {})
  \/ /\ call.at = "fill" \/ (call.at = "get" /\ call.more)
     /\ ~ReadyToPop(bufs[call.buf]) /\ ~ReadyToRead(Now)
     /\ Telling(Now, Idle, {call.buf})
  \/ /\ call.at = "fill" /\ AtEof(bufs[call.buf])
     /\ Telling(Now, Idle, {call.buf})

\* One more packet for a buffer that is empty.
FillBuffer ==
  /\ call.at = "fill" \/ (call.at = "get" /\ call.more)
  /\ ~ReadyToPop(bufs[call.buf]) /\ ReadyToRead(Now)
  /\ Telling(ReadPacket(Now), [Around EXCEPT !.at = "fill"], {})

-----------------------------------------------------------------------------
(* Seeking. *)

\* flush(): every buffer is cleared and the graph is built anew.
Flushed(m) ==
  LET c == IF m.graph.parsed THEN Flush(m.graph) ELSE [graph |-> m.graph, how |-> "ok"]
      cleared == IF m.graph.parsed THEN Buffer ELSE Stream
  IN [m EXCEPT !.graph = c.graph, !.how = c.how,
               !.bufs = [b \in Buffer |-> IF Made(b) /\ b \in cleared THEN Clear(@[b]) ELSE @[b]]]

\* An end of file for every output, although each has one by then.
PushEof(m) == [m EXCEPT !.bufs = [b \in Buffer |-> IF b \in Outputs THEN PushAll(@[b], <<Null>>) ELSE @[b]],
                        !.how = IF \A b \in Outputs : HasRoom(m.bufs[b], <<Null>>) THEN "ok" ELSE "stuck"]

\* What the stream that feeds buffer b has to deliver there, from m on.
Expected(m, b) ==
  LET feeding == {s \in Stream : m.file.sink[s] = b}
  IN IF feeding = {} THEN <<>>
     ELSE LET s == CHOOSE s \in feeding : TRUE IN m.file.held[s] \o Rest(m.file, s)

\* Nothing of before the seek is left anywhere, and no buffer is ever full.
CleanSeek(m) ==
  /\ \A s \in Stream : m.file.held[s] = <<>>
  /\ \A b \in Outputs : m.bufs[b].dynamic

\* seek(): the buffers are flushed and the file goes to a packet at or before
\* time t; call.more says that the search is an exact one.
Seek(t, toExact) ==
  /\ Reading /\ count < MaxCalls
  /\ count' = count + 1
  /\ \E k \in {k \in DOMAIN Media : Media[k].time <= t} :
       LET flushed == Flushed(Now)
           moved == [flushed EXCEPT !.file = Sought(@, k)]
       IN /\ IF flushed.how = "ok"
             THEN Continue(moved, [Idle EXCEPT !.at = "seek", !.time = t, !.more = toExact])
             ELSE Continue(flushed, Idle)
          /\ due' = [b \in Buffer |-> Expected(moved, b)]
  /\ gone' = OnNothing
  /\ exact' = 0 /\ said' = {}
  /\ UNCHANGED active

\* ... and the rest of seek(): at the end of the file that is noted in every
\* buffer; otherwise an exact search goes on to purge them.
Land ==
  /\ call.at = "seek"
  /\ LET m == Probed(Now)
         atEnd == m.how = "ok" /\ AllEof(m)
     IN /\ Continue(IF atEnd THEN PushEof(m) ELSE m,
                    IF call.more /\ ~atEnd THEN [call EXCEPT !.at = "purge"] ELSE Idle)
        /\ exact' = IF call.more /\ m.how = "ok" /\ CleanSeek(Now) THEN call.time ELSE 0
  /\ said' = {}
  /\ UNCHANGED <<active, count, gone, due>>

\* seek() found nothing at or before the time, and threw with all buffers cleared.
SeekThrows ==
  /\ Reading /\ count < MaxCalls
  /\ count' = count + 1
  /\ LET flushed == Flushed(Now)
         failed == [flushed EXCEPT !.file = SeekFailed(@)]
     IN /\ Continue(IF flushed.how = "ok" THEN failed ELSE flushed, Idle)
        /\ gone' = OnNothing
        /\ due' = [b \in Buffer |-> Expected(failed, b)]
  /\ exact' = 0 /\ said' = {}
  /\ UNCHANGED active

\* Mutant: any frame will do.
ReachedByAnyFrame(m, b, t) == ReadyToPop(m.bufs[b])

\* checkNextTimeStamp()
Reached(m, b, t) ==
  /\ ReadyToPop(m.bufs[b])
  /\ Oldest(m.bufs[b]) # Null => Media[Oldest(m.bufs[b])].time >= t

\* purge_until(): one more packet, then the first buffer that has not reached
\* the time gives up its oldest frame; filter outputs come after the streams.
Purge ==
  /\ call.at = "purge"
  /\ LET m == ReadIfReady(Now)
         short == {b \in Outputs : ~Reached(m, b, call.time)}
         first == IF short \cap Stream # {} THEN short \cap Stream ELSE short
         over == ~ReadyToRead(Now) \/ m.how # "ok" \/ short = {}
     IN \/ /\ over
           /\ Continue(m, Idle)
           /\ exact' = IF m.how = "throw" THEN 0 ELSE exact
           /\ UNCHANGED gone
        \/ /\ ~over /\ UNCHANGED exact
           /\ \E b \in first :
                IF ReadyToPop(m.bufs[b])
                THEN /\ Continue([m EXCEPT !.bufs[b] = Pop(@)], Around)
                     /\ gone' = [gone EXCEPT ![b] = Append(@, Oldest(m.bufs[b]))]
                ELSE Continue(m, Around) /\ UNCHANGED gone
  /\ said' = {}
  /\ UNCHANGED <<active, count, due>>

-----------------------------------------------------------------------------
GoOn == TakeFrame \/ NoFrame \/ FillBuffer \/ Land \/ Purge

Next ==
  \/ OpenFile \/ CloseFile \/ Activate
  \/ \E s \in Stream, N \in Rooms : AddStream(s, N)
  \/ \E k \in Sink, N \in Rooms : AddSink(k, N)
  \/ \E outs \in SUBSET Sink : outs # {} /\ SetFilterGraph(outs)
  \/ AtEndOfFile
  \/ \E b \in Buffer : AtEndOfStream(b) \/ GetTimeStamp(b)
  \/ \E b \in Buffer, getmore \in BOOLEAN : ReadNextFrame(b, getmore)
  \/ \E t \in {Media[k].time : k \in DOMAIN Media}, toExact \in BOOLEAN : Seek(t, toExact)
  \/ SeekThrows
  \/ GoOn

Spec == Init /\ [][Next]_vars

\* A thread that is in a call goes on with it: weak fairness of GoOn, which is
\* enabled until the call is over.
FairSpec ==
  Spec /\ ([]<>(call.at \notin {"get", "fill", "seek", "purge"}) \/ []<><<GoOn>>_vars)
-----------------------------------------------------------------------------
(* Properties. *)

\* TypeOK: the buffers stay rings, and those of the outputs well-formed ones,
\* whatever is opened, replaced, closed and sought, and the reader's parts fit
\* together: an active stream has its buffer, and an active reader has an open
\* file and a configured graph.
TypeOK ==
  /\ \A b \in Buffer : Made(b) => QueueTypeOK(bufs[b])
  /\ \A b \in Outputs : RingContiguous(bufs[b])
  /\ \A s \in Active(file) : file.sink[s] \in {s, In} /\ Made(file.sink[s])
  /\ file.pos \in 1..(Len(Media) + 1)
  /\ active => FileReady(file)
  /\ active /\ graph.parsed /\ call.at # "undefined" => graph.context
  /\ call.at \in {"idle", "get", "fill", "seek", "purge", "stuck", "spin", "undefined"}
  /\ call.at \in {"get", "fill"} => call.buf \in Outputs

Lost == call.at \in {"stuck", "spin", "undefined"}

\* The frames that came out of buffer b since the last seek.
Given(b) == IF b = In THEN graph.fed ELSE gone[b]

\* NothingLost: between two seeks every frame of an active stream reaches its
\* buffer exactly once and in the order of the file: what the buffer gave up, what
\* it holds, what the decoder holds and what is still to be read make up what was
\* due; and each output of a graph gets every frame that went into the graph.
\* (Two streams may share the input of a graph that was set anew, and nobody
\* flushes that input when the graph is gone.)
\* This is about readNextPacket(), processPacket(), processFrame() and flush().
NothingLost ==
  ~Lost =>
    /\ \A s \in Active(file) :
         LET b == file.sink[s]
         IN {r \in Stream : file.sink[r] = b} = {s} /\ (b = In => graph.parsed) =>
              due[b] = Given(b) \o Frames(bufs[b]) \o file.held[s] \o Rest(file, s)
    /\ active => \A k \in graph.sinks :
         graph.fed = gone[k] \o Frames(bufs[k]) \o graph.inside

\* EofHonest: if all buffers grow as needed, the reader says that a stream is at
\* its end (atEndOfFile(), atEndOfStream(), readNextFrame()) only once the client
\* has got every frame of it.
EofHonest ==
  (\A b \in Outputs : bufs[b].dynamic) =>
    \A s \in said \cap Active(file) : file.sink[s] = s => gone[s] = due[s]

\* The buffer that what comes out of output b is pushed to first.
Source(b) == IF b \in Sink THEN In ELSE b

Feeders(b) == {s \in Stream : file.sink[s] = Source(b)}

\* SeekExact: after an exact search no buffer has a frame of before the time, if
\* the decoders held none and no buffer was full.  This is what purge_until()
\* is for.  (It looks at the oldest frame of each buffer only: where two streams
\* share the input of a graph that was set anew, that of one stream may be late
\* enough, and a frame of the other that is not may come after it.)
SeekExact ==
  exact # 0 /\ call.at # "purge" /\ ~Lost =>
    \A b \in Outputs :
      (\A r, s \in Feeders(b) : r = s) =>
        \A i \in DOMAIN Frames(bufs[b]) : Media[Frames(bufs[b])[i]].time >= exact

\* A call that never comes back: a push waits for room that nobody makes, the
\* filter graph is asked for more after its end, a freed graph is used, the client
\* reads a buffer whose end of file it has popped, or the file was opened by half,
\* or a buffer that is read or purged has no source.
Hung ==
  \/ Lost
  \/ call.at = "fill" /\ (Drained(bufs[call.buf]) \/ call.buf \in Orphans)
  \/ call.at = "fill" /\ file.eof /\ file.pos = 1
  \/ call.at = "purge" /\ Orphans # {}

\* CallsReturn: every call comes back to the client, in all other cases.  This is
\* about the loops of get_frame() (line 452) and purge_until() (line 815).
CallsReturn == (call.at # "idle") ~> (call.at = "idle" \/ Hung)
=============================================================================
