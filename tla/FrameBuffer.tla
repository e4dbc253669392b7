----------------------------- MODULE FrameBuffer -----------------------------
(***************************************************************************)
(* ffmpeg::ComponentBufferBDReader over ComponentBuffer and                *)
(* FrameBufferBase (src/src/ffmpegFrameBuffers.h): buffers that one caller *)
(* fills with frames, front to back, and another one reads, either in the  *)
(* same order or, backward, from the newest frame to the oldest.           *)
(*                                                                         *)
(* A buffer has two blocks of memory, one of times and one of pixels, and  *)
(* a write and a read pointer into each.  They are counted in frames here, *)
(* from the start of the block; the time and the pixels of a frame are the *)
(* frame itself.  The buffers take no lock: their calls are atomic here as *)
(* the comment of copy_frame() expects of its callers.                     *)
(***************************************************************************)
EXTENDS Integers, SequencesExt

CONSTANTS
  Buffer,    \* the buffers, which may be swapped
  Frame,     \* the frames
  Junk,      \* what memory holds that was not written
  Sizes      \* the numbers of frames that buffers are made for

ASSUME FrameAssumption == Junk \notin Frame

ASSUME SizesAssumption == Sizes \subseteq Nat \ {0} /\ Sizes # {}

VARIABLES
  forward,   \* rd_fwd, the same for all buffers
  buf,       \* the members of each buffer
  log,       \* history: the frames written to it since its last reset
  given,     \* history: the frames read since its reader was put at its start
  mixed      \* history: buffers of which only one was at its end were swapped

vars == <<forward, buf, log, given, mixed>>

\* A block of n frames from the allocator, whatever is in it: nobody reads a frame
\* that was not written since.
Blank(n) == [i \in 1..n |-> Junk]

\* Mutant: reset() of the base class only.
RewoundToFront(fwd, q) ==
  [q EXCEPT !.eof = FALSE, !.wrTime = 0, !.wrData = 0, !.rdTime = 0, !.rdData = 0]

\* reset(): the pointers of a backward reader are put at the end of the blocks.
Rewound(fwd, q) ==
  [q EXCEPT !.eof = FALSE, !.wrTime = 0, !.wrData = 0,
            !.rdTime = IF fwd THEN 0 ELSE q.nb, !.rdData = IF fwd THEN 0 ELSE q.nb]

\* A new buffer for n frames.
NewBuffer(fwd, n) ==
  Rewound(fwd, [nb |-> n, time |-> Blank(n), data |-> Blank(n), eof |-> FALSE,
                wrTime |-> 0, wrData |-> 0, rdTime |-> 0, rdData |-> 0])

Init ==
  /\ forward \in BOOLEAN
  /\ \E n \in [Buffer -> Sizes] : buf = [b \in Buffer |-> NewBuffer(forward, n[b])]
  /\ log = [b \in Buffer |-> <<>>]
  /\ given = [b \in Buffer |-> <<>>]
  /\ mixed = FALSE

-----------------------------------------------------------------------------
(* Queries. *)

\* full(): the writer is done with the buffer.
Full(q) == q.eof \/ q.wrTime = q.nb

\* available()
Available(fwd, q) ==
  IF fwd THEN q.wrTime - q.rdTime ELSE IF q.wrTime >= q.rdTime THEN q.rdTime ELSE 0

-----------------------------------------------------------------------------
(* Writing. *)

\* Mutant: the end of file leaves a backward reader at the end of the block.
MarkedOnly(fwd, q) == [q EXCEPT !.eof = TRUE]

\* The end of file is marked; a backward reader goes to the newest frame.
Marked(fwd, q) ==
  [q EXCEPT !.eof = TRUE, !.rdTime = IF fwd THEN @ ELSE q.wrTime,
                          !.rdData = IF fwd THEN @ ELSE q.wrData]

\* copy_frame() of a frame: time first, then the pixels.
Write(b, f) ==
  /\ ~Full(buf[b])
  /\ buf' = [buf EXCEPT ![b].time[buf[b].wrTime + 1] = f, ![b].wrTime = @ + 1,
                        ![b].data[buf[b].wrData + 1] = f, ![b].wrData = @ + 1]
  /\ log' = [log EXCEPT ![b] = Append(@, f)]
  /\ UNCHANGED <<forward, given, mixed>>

\* copy_frame() of a null frame.
WriteEof(b) ==
  /\ ~Full(buf[b])
  /\ buf' = [buf EXCEPT ![b] = Marked(forward, @)]
  /\ given' = IF forward THEN given ELSE [given EXCEPT ![b] = <<>>]
  /\ UNCHANGED <<forward, log, mixed>>

\* copy_frame() to a full buffer says EAGAIN, but a backward reader that has begun
\* to read a buffer at its end is put at the newest frame again.
WriteRefused(b) ==
  /\ buf[b].eof /\ ~forward
  /\ buf' = [buf EXCEPT ![b] = Marked(forward, @)]
  /\ given' = [given EXCEPT ![b] = <<>>]
  /\ UNCHANGED <<forward, log, mixed>>

-----------------------------------------------------------------------------
(* Reading.  A read that does not advance, read_first_frame() and          *)
(* read_last_frame() change nothing.                                       *)

\* read_frame(), forward.
ReadForward(b) ==
  LET q == buf[b]
  IN /\ forward /\ q.rdTime < q.wrTime
     /\ buf' = [buf EXCEPT ![b].rdTime = @ + 1, ![b].rdData = @ + 1]
     /\ given' = [given EXCEPT ![b] = Append(@, <<q.time[q.rdTime + 1], q.data[q.rdData + 1]>>)]
     /\ UNCHANGED <<forward, log, mixed>>

\* read_frame(), backward.  It does not notice that nothing is left (line 514
\* compares a pointer to 0), so the reader has to ask available() first.
ReadBackward(b) ==
  LET q == buf[b]
  IN /\ ~forward /\ Full(q)
     /\ Available(forward, q) > 0
     /\ buf' = [buf EXCEPT ![b].rdTime = @ - 1, ![b].rdData = @ - 1]
     /\ given' = [given EXCEPT ![b] = Append(@, <<q.time[q.rdTime], q.data[q.rdData]>>)]
     /\ UNCHANGED <<forward, log, mixed>>

-----------------------------------------------------------------------------
(* Starting over. *)

Restarted(b, q) ==
  /\ buf' = [buf EXCEPT ![b] = Rewound(forward, q)]
  /\ log' = [log EXCEPT ![b] = <<>>]
  /\ given' = [given EXCEPT ![b] = <<>>]
  /\ UNCHANGED <<forward, mixed>>

\* reset(n); reset(0) keeps the blocks of memory.
Reset(b) ==
  \/ Restarted(b, buf[b])
  \/ \E n \in Sizes :
       Restarted(b, [buf[b] EXCEPT !.nb = n, !.time = Blank(n), !.data = Blank(n)])

\* release(): the caller takes the pixels, the times, or both, and new memory
\* takes their place.
Release(b) ==
  \/ Restarted(b, [buf[b] EXCEPT !.time = Blank(buf[b].nb)])
  \/ Restarted(b, [buf[b] EXCEPT !.data = Blank(buf[b].nb)])
  \/ Restarted(b, [buf[b] EXCEPT !.time = Blank(buf[b].nb), !.data = Blank(buf[b].nb)])

\* Mutant: swap() leaves the read pointers where they are.
TakenButReader(q, o) == [o EXCEPT !.eof = q.eof, !.rdTime = q.rdTime, !.rdData = q.rdData]

\* What becomes of q when it is swapped with o: all but the end-of-file flag.
Taken(q, o) == [o EXCEPT !.eof = q.eof]

\* swap()
Swap(b, c) ==
  /\ b # c
  /\ buf' = [buf EXCEPT ![b] = Taken(buf[b], buf[c]), ![c] = Taken(buf[c], buf[b])]
  /\ log' = [log EXCEPT ![b] = log[c], ![c] = log[b]]
  /\ given' = [given EXCEPT ![b] = given[c], ![c] = given[b]]
  /\ mixed' = (mixed \/ buf[b].eof # buf[c].eof)
  /\ UNCHANGED forward

-----------------------------------------------------------------------------
Next ==
  \E b \in Buffer :
    \/ \E f \in Frame : Write(b, f)
    \/ WriteEof(b) \/ WriteRefused(b)
    \/ ReadForward(b) \/ ReadBackward(b)
    \/ Reset(b) \/ Release(b)
    \/ \E c \in Buffer : Swap(b, c)

Spec == Init /\ [][Next]_vars

-----------------------------------------------------------------------------
(* Properties. *)

Members(n) ==
  [nb : {n}, time : [1..n -> Frame \cup {Junk}], data : [1..n -> Frame \cup {Junk}],
   eof : BOOLEAN, wrTime : 0..n, wrData : 0..n, rdTime : 0..n, rdData : 0..n]

\* TypeOK: the four pointers of a buffer stay in its blocks, and the pointers to
\* times and to pixels at the same frame, whatever is written, read, reset,
\* released and swapped.
TypeOK ==
  /\ forward \in BOOLEAN
  /\ \A b \in Buffer :
       /\ buf[b].nb \in Sizes
       /\ buf[b] \in Members(buf[b].nb)
       /\ buf[b].wrTime = buf[b].wrData
       /\ buf[b].rdTime = buf[b].rdData

\* Each frame with itself: its time, and its pixels.
Paired(s) == [i \in DOMAIN s |-> <<s[i], s[i]>>]

\* ReadInOrder: a forward reader gets the frames in the order they were written,
\* and a backward reader, once the writer is done, in the reverse order, none left
\* out, none twice, and each with its own time.  (Not after a swap() of buffers of
\* which one was at its end: it swaps everything but that.)
ReadInOrder ==
  \A b \in Buffer :
    LET r == buf[b].rdTime
    IN IF forward THEN given[b] = Paired(SubSeq(log[b], 1, r))
       ELSE Full(buf[b]) /\ ~mixed =>
              given[b] = Paired(Reverse(SubSeq(log[b], r + 1, Len(log[b]))))

\* AvailableExact: available() counts what is left to be read, and nothing is for
\* a backward reader while the writer is not done.
AvailableExact ==
  ~mixed =>
    \A b \in Buffer :
      Available(forward, buf[b]) =
        IF forward \/ Full(buf[b]) THEN Len(log[b]) - Len(given[b]) ELSE 0
=============================================================================
