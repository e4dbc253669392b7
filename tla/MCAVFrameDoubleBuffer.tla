------------------------ MODULE MCAVFrameDoubleBuffer ------------------------
(* AVFrameDoubleBuffer for TLC. *)
EXTENDS AVFrameDoubleBuffer

\* Every method of the buffer.
AllMethods == PushCalls \cup PopCalls \cup
  {"timed", "tryToPush", "popLastPushed", "tryToPop", "kill", "clear", "clearRcvr", "clearSndr",
   "clrEof"}

\* The ones that ReaderMT's worker, sinks and sources, and Reader call.
ReaderMethods == PushCalls \cup PopCalls \cup {"timed", "kill", "clear"}

FrameSymmetry == Permutations(Frame)

\* What the properties of the run are about ends where a swap is overtaken.
UpToOvertaken == ~overtaken
=============================================================================
