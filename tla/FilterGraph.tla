----------------------------- MODULE FilterGraph -----------------------------
(***************************************************************************)
(* ffmpeg::filter::Graph with its sources and sinks                        *)
(* (src/src/filter), as functions of a graph and of the frame buffers at   *)
(* its ends.                                                               *)
(*                                                                         *)
(* A graph has one input link, with no label, which takes its frames from  *)
(* the buffer In, and it hands every frame to each of its output links,    *)
(* outs, in order.                                                         *)
(* What libavfilter holds of a graph is inside: the last Lag frames that   *)
(* it was fed, until the end of file drains them.                          *)
(*                                                                         *)
(* The links of the outputs of a parsed graph (SinkInfo::conn) point into  *)
(* the AVFilterGraph: stale says that they point into one that was freed.  *)
(***************************************************************************)
EXTENDS InputFormat

CONSTANTS
  In,      \* the buffer at the input of the graph
  Sink,    \* the labels of output links, and the buffers at these
  Lag      \* the number of frames libavfilter holds back

ASSUME LagAssumption == Lag \in Nat

ASSUME SinkAssumption == IsFiniteSet(Sink)

\* No graph was set.
NoGraph ==
  [parsed |-> FALSE, outs |-> {}, source |-> FALSE, sinks |-> {}, context |-> FALSE,
   stale |-> FALSE, eof |-> FALSE, ended |-> FALSE, inside |-> <<>>,
   fed |-> <<>>]

\* parse(): placeholders for the endpoints, linked into the new AVFilterGraph.
Parsed(outs) == [NoGraph EXCEPT !.parsed = TRUE, !.outs = outs]

\* assignSource(): a new source filter, whose eof flag is clear.
SourceAssigned(g) == [g EXCEPT !.source = TRUE, !.eof = FALSE]

\* assignSink()
SinkAssigned(g, k) == [g EXCEPT !.sinks = @ \cup {k}]

\* isSink()
IsSink(g, k) == g.parsed /\ k \in g.outs

-----------------------------------------------------------------------------
(* Building the AVFilterGraph. *)

\* configure(): the source, then the sinks.  An endpoint that has a context, or
\* that was not assigned, throws, and leaves behind what was done before it.  A
\* sink that is linked through a stale pointer is undefined behaviour.
Configure(g) ==
  IF ~g.source \/ g.context THEN [graph |-> g, how |-> "throw"]
  ELSE [graph |-> [g EXCEPT !.context = TRUE],
        how |-> IF ~(g.outs \subseteq g.sinks) THEN "throw"
                ELSE IF g.stale THEN "undefined" ELSE "ok"]

\* purge(): the AVFilterGraph goes, with the frames in it and all its contexts.
Purged(g) ==
  [g EXCEPT !.context = FALSE, !.stale = TRUE, !.inside = <<>>, !.ended = FALSE,
            !.fed = <<>>]

\* Mutant: flush() keeps the AVFilterGraph, and what is in it.
FlushKeepsFrames(g) == [graph |-> [g EXCEPT !.fed = <<>>], how |-> "ok"]

\* flush(): purges, parses the description again and configures.  Only a graph
\* with more than one output gets new links for its sinks.  The eof flag of the
\* source filter is not cleared.
Flush(g) ==
  LET reparsed == [Purged(g) EXCEPT !.stale = Cardinality(g.outs) = 1]
  IN Configure(reparsed)

-----------------------------------------------------------------------------
(* Running it. *)

\* SourceBase::processFrame(): once the end of file went through, the source
\* does not look at its buffer again.
FromSource(m) ==
  LET x == Oldest(m.bufs[In])
  IN IF m.graph.eof THEN m
     ELSE [m EXCEPT !.bufs[In] = Pop(@),
                    !.graph.eof = x = Null,
                    !.graph.ended = x = Null,
                    !.graph.inside = IF x = Null THEN @ ELSE Append(@, x),
                    !.graph.fed = IF x = Null THEN @ ELSE Append(@, x)]

\* What the sinks take out of the graph: all of it if the input has ended.
Ripe(g) ==
  IF g.ended THEN Append(g.inside, Null)
  ELSE SubSeq(g.inside, 1, IF Len(g.inside) > Lag THEN Len(g.inside) - Lag ELSE 0)

\* SinkBase::processFrame(), until there is nothing left: what is ripe goes to the
\* buffer of the sink.  A push that finds no room never returns.
ToSink(m, k) ==
  IF m.how # "ok" THEN m
  ELSE [m EXCEPT !.bufs[k] = PushAll(@, Ripe(m.graph)),
                 !.how = IF HasRoom(m.bufs[k], Ripe(m.graph)) THEN "ok" ELSE "stuck"]

\* The graph is rid of what its sinks took.
Picked(g) == [g EXCEPT !.inside = SubSeq(@, Len(Ripe(g)) + 1, Len(@))]

\* processFrame(): one frame of the input, and all the output there is for it.
\* A sink that reports the end of file is asked again, for ever: it says so again
\* each time, and each time pushes an end of file.
ProcessFrame(m) ==
  LET n == FromSource(m)
      done == FoldLeft(ToSink, n, SetToSeq(n.graph.outs))
  IN IF ~ReadyToPop(m.bufs[In]) THEN m
     ELSE [done EXCEPT !.graph = Picked(@),
                       !.how = IF @ = "ok" /\ n.graph.ended THEN "spin" ELSE @]
=============================================================================
