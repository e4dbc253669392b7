-------------------------- MODULE FrameBufferProofs --------------------------
(***************************************************************************)
(* The frame buffers give back what was written to them, whatever the      *)
(* frames, the sizes of the blocks and the number of buffers that are      *)
(* swapped.                                                                *)
(*                                                                         *)
(* The argument: the log of a buffer is its block up to the write pointer, *)
(* and what was read is the log up to the read pointer or, backward, down  *)
(* to it.  A backward reader stays at the end of its block until the       *)
(* writer is done, which happens there or moves it to the newest frame.    *)
(***************************************************************************)
EXTENDS FrameBuffer, SequenceTheorems, TLAPS

Block(n) == [1..n -> Frame \cup {Junk}]

\* The members have their types, wherever the pointers are.
BlocksOK(q) ==
  /\ q.nb \in Sizes
  /\ q \in [nb : {q.nb}, time : Block(q.nb), data : Block(q.nb), eof : BOOLEAN,
            wrTime : Int, wrData : Int, rdTime : Int, rdData : Int]

\* The pointers to times and to pixels go together, and stay in the blocks.
MembersOK(q) ==
  /\ BlocksOK(q)
  /\ q.wrTime \in 0..q.nb /\ q.rdTime \in 0..q.nb
  /\ q.wrData = q.wrTime /\ q.rdData = q.rdTime

\* What was written is in the blocks.
WrittenOK(q, l) ==
  /\ l \in Seq(Frame)
  /\ Len(l) = q.wrTime
  /\ \A i \in 1..q.wrTime : q.time[i] = l[i] /\ q.data[i] = l[i]

Pair == (Frame \cup {Junk}) \X (Frame \cup {Junk})

ForwardOK(q, l, g) ==
  /\ q.rdTime <= q.wrTime
  /\ Len(g) = q.rdTime
  /\ \A i \in 1..q.rdTime : g[i] = <<l[i], l[i]>>

BackwardOK(q, l, g) ==
  IF Full(q)
  THEN /\ q.rdTime <= q.wrTime
       /\ Len(g) = q.wrTime - q.rdTime
       /\ \A i \in 1..(q.wrTime - q.rdTime) :
            g[i] = <<l[q.wrTime + 1 - i], l[q.wrTime + 1 - i]>>
  ELSE q.rdTime = q.nb /\ Len(g) = 0

\* What was read is what lies on the other side of the read pointer.
ReadOK(fwd, q, l, g) == IF fwd THEN ForwardOK(q, l, g) ELSE BackwardOK(q, l, g)

BufferOK(fwd, mx, q, l, g) ==
  /\ MembersOK(q) /\ WrittenOK(q, l) /\ g \in Seq(Pair)
  /\ fwd \/ ~mx => ReadOK(fwd, q, l, g)

IInv ==
  /\ forward \in BOOLEAN /\ mixed \in BOOLEAN
  /\ DOMAIN buf = Buffer /\ DOMAIN log = Buffer /\ DOMAIN given = Buffer
  /\ \A b \in Buffer : BufferOK(forward, mixed, buf[b], log[b], given[b])

-----------------------------------------------------------------------------
(* One buffer. *)

LEMMA SizeFacts == \A n \in Sizes : n \in Nat \ {0}
BY SizesAssumption

\* A buffer that starts over is in order, whatever was in it.
LEMMA RewoundOK ==
  ASSUME NEW fwd \in BOOLEAN, NEW mx, NEW q, BlocksOK(q)
  PROVE  BufferOK(fwd, mx, Rewound(fwd, q), <<>>, <<>>)
<1> DEFINE p == Rewound(fwd, q)
<1>1. q.nb \in Nat \ {0}
  BY SizeFacts DEF BlocksOK
<1>2. /\ p.nb = q.nb /\ p.time = q.time /\ p.data = q.data /\ p.eof = FALSE
      /\ p.wrTime = 0 /\ p.wrData = 0
      /\ p.rdTime = (IF fwd THEN 0 ELSE q.nb) /\ p.rdData = p.rdTime
  BY DEF Rewound, BlocksOK
<1>3. MembersOK(p)
  <2>1. 0 \in Int /\ (IF fwd THEN 0 ELSE q.nb) \in Int
    BY <1>1
  <2>2. BlocksOK(p)
    BY <2>1 DEF Rewound, BlocksOK
  <2> HIDE DEF p
  <2> QED BY <1>1, <1>2, <2>2 DEF MembersOK
<1>4. <<>> \in Seq(Frame) /\ <<>> \in Seq(Pair) /\ Len(<<>>) = 0
  OBVIOUS
<1> HIDE DEF p
<1>5. WrittenOK(p, <<>>)
  BY <1>2, <1>4 DEF WrittenOK
<1>6. ReadOK(fwd, p, <<>>, <<>>)
  BY <1>1, <1>2, <1>4 DEF ReadOK, ForwardOK, BackwardOK, Full
<1> QED BY <1>3, <1>4, <1>5, <1>6 DEF BufferOK, p

\* The end of file keeps a buffer in order, if what a backward reader has read is
\* forgotten.
LEMMA MarkedOK ==
  ASSUME NEW fwd \in BOOLEAN, NEW mx, NEW q, NEW l, NEW g, BufferOK(fwd, mx, q, l, g)
  PROVE  BufferOK(fwd, mx, Marked(fwd, q), l, IF fwd THEN g ELSE <<>>)
<1> DEFINE p == Marked(fwd, q)
<1>1. MembersOK(q) /\ WrittenOK(q, l) /\ g \in Seq(Pair) /\ q.nb \in Nat \ {0}
  BY SizeFacts DEF BufferOK, MembersOK, BlocksOK
<1>2. /\ p.nb = q.nb /\ p.time = q.time /\ p.data = q.data /\ p.eof = TRUE
      /\ p.wrTime = q.wrTime /\ p.wrData = q.wrData
      /\ p.rdTime = (IF fwd THEN q.rdTime ELSE q.wrTime)
      /\ p.rdData = (IF fwd THEN q.rdData ELSE q.wrData)
  BY <1>1 DEF Marked, MembersOK, BlocksOK
<1>3. MembersOK(p)
  BY <1>1, <1>2 DEF Marked, BlocksOK, MembersOK
<1>4. <<>> \in Seq(Pair) /\ Len(<<>>) = 0
  OBVIOUS
<1> HIDE DEF p
<1>5. WrittenOK(p, l)
  BY <1>1, <1>2 DEF WrittenOK
<1>6. CASE fwd
  BY <1>1, <1>2, <1>3, <1>5, <1>6 DEF BufferOK, ReadOK, ForwardOK, p
<1>7. CASE ~fwd
  <2>1. BackwardOK(p, l, <<>>)
    BY <1>1, <1>2, <1>4, <1>7 DEF BackwardOK, Full, MembersOK
  <2> QED BY <1>3, <1>4, <1>5, <1>7, <2>1 DEF BufferOK, ReadOK, p
<1> QED BY <1>6, <1>7

\* The frame f is written.
Put(q, f) ==
  [q EXCEPT !.time[q.wrTime + 1] = f, !.wrTime = @ + 1,
            !.data[q.wrData + 1] = f, !.wrData = @ + 1]

LEMMA PutOK ==
  ASSUME NEW fwd \in BOOLEAN, NEW mx, NEW q, NEW l, NEW g, BufferOK(fwd, mx, q, l, g),
         ~Full(q), NEW f \in Frame
  PROVE  BufferOK(fwd, mx, Put(q, f), Append(l, f), g)
<1> DEFINE p == Put(q, f)
           w == q.wrTime + 1
<1>1. MembersOK(q) /\ WrittenOK(q, l) /\ g \in Seq(Pair) /\ q.nb \in Nat \ {0}
  BY SizeFacts DEF BufferOK, MembersOK, BlocksOK
<1>2. q.wrTime \in Nat /\ w \in 1..q.nb /\ w = q.wrData + 1
  BY <1>1 DEF MembersOK, Full
<1>3. q.time \in Block(q.nb) /\ q.data \in Block(q.nb)
  BY <1>1 DEF MembersOK, BlocksOK
<1>4. /\ p.nb = q.nb /\ p.eof = q.eof
      /\ p.time = [q.time EXCEPT ![w] = f] /\ p.data = [q.data EXCEPT ![w] = f]
      /\ p.wrTime = w /\ p.wrData = w /\ p.rdTime = q.rdTime /\ p.rdData = q.rdData
  BY <1>1, <1>2 DEF Put, MembersOK, BlocksOK
<1>5. /\ [q.time EXCEPT ![w] = f] \in Block(q.nb)
      /\ [q.data EXCEPT ![w] = f] \in Block(q.nb)
      /\ \A i \in 1..q.nb : /\ [q.time EXCEPT ![w] = f][i] = IF i = w THEN f ELSE q.time[i]
                            /\ [q.data EXCEPT ![w] = f][i] = IF i = w THEN f ELSE q.data[i]
  BY <1>2, <1>3 DEF Block
<1>6. p = [q EXCEPT !.time = [q.time EXCEPT ![w] = f], !.wrTime = w,
                    !.data = [q.data EXCEPT ![w] = f], !.wrData = w]
  BY <1>1, <1>2 DEF Put, MembersOK, BlocksOK
<1>7. MembersOK(p)
  <2> DEFINE t == [q.time EXCEPT ![w] = f]
             d == [q.data EXCEPT ![w] = f]
  <2>1. t \in Block(q.nb) /\ d \in Block(q.nb)
    BY <1>5
  <2>2. p = [q EXCEPT !.time = t, !.wrTime = w, !.data = d, !.wrData = w]
    BY <1>6
  <2> HIDE DEF t, d, p
  <2>3. w \in Int
    BY <1>2
  <2>4. q \in [nb : {q.nb}, time : Block(q.nb), data : Block(q.nb), eof : BOOLEAN,
               wrTime : Int, wrData : Int, rdTime : Int, rdData : Int] /\ q.nb \in Sizes
    BY <1>1 DEF MembersOK, BlocksOK
  <2> HIDE DEF w
  <2>5. BlocksOK(p)
    BY <2>1, <2>2, <2>3, <2>4 DEF BlocksOK
  <2> QED BY <1>1, <1>2, <1>4, <2>5 DEF MembersOK, p
<1>8. /\ Append(l, f) \in Seq(Frame) /\ Len(Append(l, f)) = w
      /\ \A i \in 1..w : Append(l, f)[i] = IF i = w THEN f ELSE l[i]
  BY <1>1, <1>2, AppendProperties DEF WrittenOK
<1> HIDE DEF p
<1>9. WrittenOK(p, Append(l, f))
  BY <1>1, <1>2, <1>4, <1>5, <1>8 DEF WrittenOK
<1>10. ASSUME fwd \/ ~mx PROVE ReadOK(fwd, p, Append(l, f), g)
  <2>1. ReadOK(fwd, q, l, g)
    BY <1>10 DEF BufferOK
  <2>2. CASE fwd
    BY <1>1, <1>2, <1>4, <1>8, <2>1, <2>2 DEF ReadOK, ForwardOK, MembersOK
  <2>3. CASE ~fwd
    <3>1. q.rdTime = q.nb /\ Len(g) = 0
      BY <2>1, <2>3 DEF ReadOK, BackwardOK
    <3> QED BY <1>1, <1>2, <1>4, <2>3, <3>1 DEF ReadOK, BackwardOK, Full, MembersOK
  <2> QED BY <2>2, <2>3
<1> QED BY <1>1, <1>7, <1>9, <1>10 DEF BufferOK, p
-----------------------------------------------------------------------------
(* A step of one buffer leaves the others in order. *)

LEMMA OneBuffer ==
  ASSUME IInv, NEW b \in Buffer, NEW q, NEW l, NEW g,
         BufferOK(forward, mixed, q, l, g),
         UNCHANGED <<forward, mixed>>,
         buf' = [buf EXCEPT ![b] = q],
         log' = [log EXCEPT ![b] = l] \/ (log' = log /\ l = log[b]),
         given' = [given EXCEPT ![b] = g] \/ (given' = given /\ g = given[b])
  PROVE  IInv'
<1>1. DOMAIN buf' = Buffer /\ DOMAIN log' = Buffer /\ DOMAIN given' = Buffer
  BY DEF IInv
<1>2. \A c \in Buffer : /\ buf'[c] = IF c = b THEN q ELSE buf[c]
                        /\ log'[c] = IF c = b THEN l ELSE log[c]
                        /\ given'[c] = IF c = b THEN g ELSE given[c]
  BY DEF IInv
<1>3. ASSUME NEW c \in Buffer
      PROVE  BufferOK(forward', mixed', buf'[c], log'[c], given'[c])
  <2>1. CASE c = b
    BY <1>2, <2>1
  <2>2. CASE c # b
    BY <1>2, <2>2 DEF IInv
  <2> QED BY <2>1, <2>2
<1> QED BY <1>1, <1>3 DEF IInv

LEMMA RestartedOK ==
  ASSUME IInv, NEW b \in Buffer, NEW q, BlocksOK(q), Restarted(b, q)
  PROVE  IInv'
<1>1. BufferOK(forward, mixed, Rewound(forward, q), <<>>, <<>>)
  BY RewoundOK DEF IInv
<1> QED BY <1>1, OneBuffer DEF Restarted

LEMMA ReadForwardOK ==
  ASSUME NEW mx, NEW q, NEW l, NEW g, BufferOK(TRUE, mx, q, l, g), q.rdTime < q.wrTime
  PROVE  BufferOK(TRUE, mx, [q EXCEPT !.rdTime = @ + 1, !.rdData = @ + 1], l,
                  Append(g, <<q.time[q.rdTime + 1], q.data[q.rdData + 1]>>))
<1> DEFINE p == [q EXCEPT !.rdTime = @ + 1, !.rdData = @ + 1]
           r == q.rdTime + 1
           x == <<q.time[q.rdTime + 1], q.data[q.rdData + 1]>>
<1>1. /\ MembersOK(q) /\ WrittenOK(q, l) /\ g \in Seq(Pair) /\ q.nb \in Nat \ {0}
      /\ ForwardOK(q, l, g)
  BY SizeFacts DEF BufferOK, MembersOK, BlocksOK, ReadOK
<1>2. r \in 1..q.wrTime /\ r \in 1..q.nb /\ r = q.rdData + 1
  BY <1>1 DEF MembersOK
<1>3. x = <<l[r], l[r]>> /\ x \in Pair
  BY <1>1, <1>2 DEF WrittenOK, MembersOK, BlocksOK, Block, Pair
<1>4. /\ p.nb = q.nb /\ p.time = q.time /\ p.data = q.data /\ p.eof = q.eof
      /\ p.wrTime = q.wrTime /\ p.wrData = q.wrData /\ p.rdTime = r /\ p.rdData = r
  BY <1>1, <1>2 DEF MembersOK, BlocksOK
<1>5. MembersOK(p)
  <2> DEFINE v == r
  <2>1. p = [q EXCEPT !.rdTime = v, !.rdData = v] /\ v \in Int
    BY <1>1, <1>2 DEF MembersOK, BlocksOK
  <2> HIDE DEF p, v
  <2>2. BlocksOK(p)
    BY <1>1, <2>1 DEF MembersOK, BlocksOK
  <2> QED BY <1>1, <1>2, <1>4, <2>2 DEF MembersOK
<1> HIDE DEF p, x
<1>6. /\ Append(g, x) \in Seq(Pair) /\ Len(Append(g, x)) = r
      /\ \A i \in 1..r : Append(g, x)[i] = IF i = r THEN x ELSE g[i]
  BY <1>1, <1>2, <1>3, AppendProperties DEF ForwardOK
<1>7. WrittenOK(p, l)
  BY <1>1, <1>4 DEF WrittenOK
<1>8. ForwardOK(p, l, Append(g, x))
  BY <1>1, <1>2, <1>3, <1>4, <1>6 DEF ForwardOK
<1> QED BY <1>5, <1>6, <1>7, <1>8 DEF BufferOK, ReadOK, p, x

LEMMA ReadBackwardOK ==
  ASSUME NEW mx, NEW q, NEW l, NEW g, BufferOK(FALSE, mx, q, l, g), Full(q),
         Available(FALSE, q) > 0
  PROVE  BufferOK(FALSE, mx, [q EXCEPT !.rdTime = @ - 1, !.rdData = @ - 1], l,
                  Append(g, <<q.time[q.rdTime], q.data[q.rdData]>>))
<1> DEFINE p == [q EXCEPT !.rdTime = @ - 1, !.rdData = @ - 1]
           r == q.rdTime
           x == <<q.time[q.rdTime], q.data[q.rdData]>>
<1>1. MembersOK(q) /\ WrittenOK(q, l) /\ g \in Seq(Pair) /\ q.nb \in Nat \ {0}
  BY SizeFacts DEF BufferOK, MembersOK, BlocksOK
<1>2. r \in 1..q.wrTime /\ r \in 1..q.nb /\ r = q.rdData
  BY <1>1 DEF MembersOK, Available
<1>3. x = <<l[r], l[r]>> /\ x \in Pair
  BY <1>1, <1>2 DEF WrittenOK, MembersOK, BlocksOK, Block, Pair
<1>4. /\ p.nb = q.nb /\ p.time = q.time /\ p.data = q.data /\ p.eof = q.eof
      /\ p.wrTime = q.wrTime /\ p.wrData = q.wrData /\ p.rdTime = r - 1 /\ p.rdData = r - 1
  BY <1>1, <1>2 DEF MembersOK, BlocksOK
<1>5. MembersOK(p)
  <2> DEFINE v == r - 1
  <2>1. p = [q EXCEPT !.rdTime = v, !.rdData = v] /\ v \in Int
    BY <1>1, <1>2 DEF MembersOK, BlocksOK
  <2> HIDE DEF p, v
  <2>2. BlocksOK(p)
    BY <1>1, <2>1 DEF MembersOK, BlocksOK
  <2> QED BY <1>1, <1>2, <1>4, <2>2 DEF MembersOK
<1> HIDE DEF p, x
<1>6. /\ Append(g, x) \in Seq(Pair) /\ Len(Append(g, x)) = Len(g) + 1
      /\ \A i \in 1..(Len(g) + 1) : Append(g, x)[i] = IF i = Len(g) + 1 THEN x ELSE g[i]
  BY <1>1, <1>3, AppendProperties
<1>7. WrittenOK(p, l)
  BY <1>1, <1>4 DEF WrittenOK
<1>8. ASSUME ~mx PROVE BackwardOK(p, l, Append(g, x))
  <2>1. /\ Len(g) = q.wrTime - r /\ r <= q.wrTime
        /\ \A i \in 1..(q.wrTime - r) :
             g[i] = <<l[q.wrTime + 1 - i], l[q.wrTime + 1 - i]>>
    BY <1>8 DEF BufferOK, ReadOK, BackwardOK
  <2>2. Full(p) /\ q.wrTime \in Nat
    BY <1>1, <1>4 DEF Full, MembersOK
  <2> QED BY <1>2, <1>3, <1>4, <1>6, <2>1, <2>2 DEF BackwardOK
<1> QED BY <1>5, <1>6, <1>7, <1>8 DEF BufferOK, ReadOK, p, x

\* A buffer that takes over the contents of another one, and its reader.
LEMMA TakenOK ==
  ASSUME NEW fwd \in BOOLEAN, NEW mx \in BOOLEAN, NEW q, NEW o, NEW l, NEW g,
         BufferOK(fwd, mx, o, l, g), q.eof \in BOOLEAN
  PROVE  BufferOK(fwd, mx \/ q.eof # o.eof, Taken(q, o), l, g)
<1> DEFINE p == Taken(q, o)
<1>1. MembersOK(o) /\ WrittenOK(o, l) /\ g \in Seq(Pair)
  BY DEF BufferOK
<1>2. /\ p.nb = o.nb /\ p.time = o.time /\ p.data = o.data /\ p.eof = q.eof
      /\ p.wrTime = o.wrTime /\ p.wrData = o.wrData
      /\ p.rdTime = o.rdTime /\ p.rdData = o.rdData
  BY <1>1 DEF Taken, MembersOK, BlocksOK
<1>3. BlocksOK(p)
  BY <1>1 DEF Taken, MembersOK, BlocksOK
<1> HIDE DEF p
<1>4. MembersOK(p) /\ WrittenOK(p, l)
  BY <1>1, <1>2, <1>3 DEF MembersOK, WrittenOK
<1>5. ASSUME fwd \/ ~(mx \/ q.eof # o.eof) PROVE ReadOK(fwd, p, l, g)
  <2>1. ReadOK(fwd, o, l, g)
    BY <1>5 DEF BufferOK
  <2> QED BY <1>2, <1>5, <2>1 DEF ReadOK, ForwardOK, BackwardOK, Full
<1> QED BY <1>1, <1>4, <1>5 DEF BufferOK, p

-----------------------------------------------------------------------------
(* A step keeps the invariant, action by action. *)

LEMMA WriteStep ==
  ASSUME IInv, NEW b \in Buffer, NEW f \in Frame, Write(b, f)
  PROVE  IInv'
<1>1. BufferOK(forward, mixed, Put(buf[b], f), Append(log[b], f), given[b])
  BY PutOK DEF IInv, Write
<1>2. buf' = [buf EXCEPT ![b] = Put(buf[b], f)]
  BY DEF Write, Put, IInv
<1>3. log' = [log EXCEPT ![b] = Append(log[b], f)]
  BY DEF Write, IInv
<1>4. UNCHANGED <<given, forward, mixed>>
  BY DEF Write
<1> QED BY <1>1, <1>2, <1>3, <1>4, OneBuffer

LEMMA EofStep ==
  ASSUME IInv, NEW b \in Buffer, WriteEof(b) \/ WriteRefused(b)
  PROVE  IInv'
<1>1. BufferOK(forward, mixed, Marked(forward, buf[b]), log[b],
               IF forward THEN given[b] ELSE <<>>)
  BY MarkedOK DEF IInv
<1>2. buf' = [buf EXCEPT ![b] = Marked(forward, buf[b])]
  BY DEF WriteEof, WriteRefused, IInv
<1>3. IF forward THEN given' = given ELSE given' = [given EXCEPT ![b] = <<>>]
  BY DEF WriteEof, WriteRefused, IInv
<1>4. UNCHANGED <<log, forward, mixed>>
  BY DEF WriteEof, WriteRefused
<1> QED BY <1>1, <1>2, <1>3, <1>4, OneBuffer

LEMMA ReadForwardStep ==
  ASSUME IInv, NEW b \in Buffer, ReadForward(b)
  PROVE  IInv'
<1> DEFINE q == buf[b]
           p == [q EXCEPT !.rdTime = @ + 1, !.rdData = @ + 1]
           g == Append(given[b], <<q.time[q.rdTime + 1], q.data[q.rdData + 1]>>)
<1>1. BufferOK(forward, mixed, p, log[b], g)
  <2>1. forward = TRUE /\ q.rdTime < q.wrTime /\ BufferOK(TRUE, mixed, q, log[b], given[b])
    BY DEF IInv, ReadForward
  <2> QED BY <2>1, ReadForwardOK
<1>2. buf' = [buf EXCEPT ![b] = p]
  BY DEF ReadForward, IInv
<1>3. given' = [given EXCEPT ![b] = g]
  BY DEF ReadForward, IInv
<1>4. UNCHANGED <<log, forward, mixed>>
  BY DEF ReadForward
<1> QED BY <1>1, <1>2, <1>3, <1>4, OneBuffer

LEMMA ReadBackwardStep ==
  ASSUME IInv, NEW b \in Buffer, ReadBackward(b)
  PROVE  IInv'
<1> DEFINE q == buf[b]
           p == [q EXCEPT !.rdTime = @ - 1, !.rdData = @ - 1]
           g == Append(given[b], <<q.time[q.rdTime], q.data[q.rdData]>>)
<1>1. BufferOK(forward, mixed, p, log[b], g)
  <2>1. /\ forward = FALSE /\ Full(q) /\ Available(FALSE, q) > 0
        /\ BufferOK(FALSE, mixed, q, log[b], given[b])
    BY DEF IInv, ReadBackward
  <2> QED BY <2>1, ReadBackwardOK
<1>2. buf' = [buf EXCEPT ![b] = p]
  BY DEF ReadBackward, IInv
<1>3. given' = [given EXCEPT ![b] = g]
  BY DEF ReadBackward, IInv
<1>4. UNCHANGED <<log, forward, mixed>>
  BY DEF ReadBackward
<1> QED BY <1>1, <1>2, <1>3, <1>4, OneBuffer

\* New memory, of any size, keeps the types.
LEMMA NewBlocks ==
  ASSUME NEW q, BlocksOK(q), NEW n \in Sizes
  PROVE  /\ BlocksOK([q EXCEPT !.nb = n, !.time = Blank(n), !.data = Blank(n)])
         /\ BlocksOK([q EXCEPT !.time = Blank(q.nb)])
         /\ BlocksOK([q EXCEPT !.data = Blank(q.nb)])
         /\ BlocksOK([q EXCEPT !.time = Blank(q.nb), !.data = Blank(q.nb)])
<1>1. Blank(n) \in Block(n) /\ Blank(q.nb) \in Block(q.nb)
  BY DEF Blank, Block
<1> QED BY <1>1 DEF BlocksOK

LEMMA RestartStep ==
  ASSUME IInv, NEW b \in Buffer, Reset(b) \/ Release(b)
  PROVE  IInv'
<1> DEFINE q == buf[b]
<1>1. BlocksOK(q)
  BY DEF IInv, BufferOK, MembersOK
<1>2. PICK p : BlocksOK(p) /\ Restarted(b, p)
  BY <1>1, NewBlocks, SizeFacts DEF Reset, Release, BlocksOK
<1> QED BY <1>2, RestartedOK

LEMMA SwapStep ==
  ASSUME IInv, NEW b \in Buffer, NEW c \in Buffer, Swap(b, c)
  PROVE  IInv'
<1>1. /\ DOMAIN buf' = Buffer /\ DOMAIN log' = Buffer /\ DOMAIN given' = Buffer
      /\ forward' = forward /\ mixed' = (mixed \/ buf[b].eof # buf[c].eof) /\ b # c
  BY DEF IInv, Swap
<1>2. \A d \in Buffer : buf[d].eof \in BOOLEAN /\ BufferOK(forward, mixed, buf[d], log[d], given[d])
  BY DEF IInv, BufferOK, MembersOK, BlocksOK
<1>3. buf'[b] = Taken(buf[b], buf[c]) /\ log'[b] = log[c] /\ given'[b] = given[c]
  BY DEF IInv, Swap
<1>4. buf'[c] = Taken(buf[c], buf[b]) /\ log'[c] = log[b] /\ given'[c] = given[b]
  BY DEF IInv, Swap
<1>5. \A d \in Buffer \ {b, c} : buf'[d] = buf[d] /\ log'[d] = log[d] /\ given'[d] = given[d]
  BY DEF IInv, Swap
<1>6. forward \in BOOLEAN /\ mixed \in BOOLEAN /\ mixed' \in BOOLEAN
  BY <1>1, <1>2 DEF IInv
<1>7. BufferOK(forward, mixed', Taken(buf[b], buf[c]), log[c], given[c])
  BY <1>1, <1>2, <1>6, TakenOK
<1>8. BufferOK(forward, mixed', Taken(buf[c], buf[b]), log[b], given[b])
  <2>1. BufferOK(forward, mixed \/ buf[c].eof # buf[b].eof, Taken(buf[c], buf[b]), log[b], given[b])
    BY <1>2, <1>6, TakenOK
  <2>2. mixed' = (mixed \/ buf[c].eof # buf[b].eof)
    BY <1>1
  <2> QED BY <2>1, <2>2
<1>9. \A d \in Buffer : BufferOK(forward, mixed', buf[d], log[d], given[d])
  BY <1>1, <1>2, <1>6 DEF BufferOK
<1>10. \A d \in Buffer : BufferOK(forward', mixed', buf'[d], log'[d], given'[d])
  <2> TAKE d \in Buffer
  <2>1. CASE d = b
    BY <1>1, <1>3, <1>7, <2>1
  <2>2. CASE d = c
    BY <1>1, <1>4, <1>8, <2>2
  <2>3. CASE d \notin {b, c}
    BY <1>1, <1>5, <1>9, <2>3
  <2> QED BY <2>1, <2>2, <2>3
<1> QED BY <1>1, <1>6, <1>10 DEF IInv

LEMMA Invariance == Spec => []IInv
<1>1. Init => IInv
  <2> SUFFICES ASSUME Init PROVE IInv
    OBVIOUS
  <2>1. PICK n \in [Buffer -> Sizes] : buf = [b \in Buffer |-> NewBuffer(forward, n[b])]
    BY DEF Init
  <2>2. ASSUME NEW b \in Buffer
        PROVE  BufferOK(forward, mixed, buf[b], log[b], given[b])
    <3> DEFINE m == n[b]
               q == [nb |-> m, time |-> Blank(m), data |-> Blank(m), eof |-> FALSE,
                     wrTime |-> 0, wrData |-> 0, rdTime |-> 0, rdData |-> 0]
    <3>1. m \in Sizes /\ Blank(m) \in Block(m)
      BY <2>1 DEF Blank, Block
    <3>2. BlocksOK(q)
      BY <3>1 DEF BlocksOK
    <3>3. buf[b] = Rewound(forward, q) /\ log[b] = <<>> /\ given[b] = <<>>
      BY <2>1 DEF Init, NewBuffer
    <3>4. forward \in BOOLEAN
      BY DEF Init
    <3> HIDE DEF q
    <3> QED BY <3>2, <3>3, <3>4, RewoundOK
  <2>3. /\ DOMAIN buf = Buffer /\ DOMAIN log = Buffer /\ DOMAIN given = Buffer
        /\ forward \in BOOLEAN /\ mixed \in BOOLEAN
    BY <2>1 DEF Init
  <2> QED BY <2>2, <2>3 DEF IInv
<1>2. IInv /\ [Next]_vars => IInv'
  <2> SUFFICES ASSUME IInv, [Next]_vars PROVE IInv'
    OBVIOUS
  <2>1. CASE UNCHANGED vars
    BY <2>1 DEF vars, IInv
  <2>2. CASE Next
    <3>1. PICK b \in Buffer :
            \/ \E f \in Frame : Write(b, f)
            \/ WriteEof(b) \/ WriteRefused(b)
            \/ ReadForward(b) \/ ReadBackward(b)
            \/ Reset(b) \/ Release(b)
            \/ \E c \in Buffer : Swap(b, c)
      BY <2>2 DEF Next
    <3> QED BY <3>1, WriteStep, EofStep, ReadForwardStep, ReadBackwardStep, RestartStep, SwapStep
  <2> QED BY <2>1, <2>2
<1> QED BY <1>1, <1>2, PTL DEF Spec

-----------------------------------------------------------------------------
(* What follows. *)

\* The pointers of every buffer stay in its blocks, and the one to the times and the
\* one to the pixels at the same frame.
THEOREM PointersStayInBlocks == Spec => []TypeOK
<1>1. IInv => TypeOK
  <2> SUFFICES ASSUME IInv, NEW b \in Buffer
               PROVE  /\ buf[b].nb \in Sizes /\ buf[b] \in Members(buf[b].nb)
                      /\ buf[b].wrTime = buf[b].wrData /\ buf[b].rdTime = buf[b].rdData
    BY DEF TypeOK, IInv
  <2>1. MembersOK(buf[b])
    BY DEF IInv, BufferOK
  <2> QED BY <2>1 DEF MembersOK, BlocksOK, Members, Block
<1> QED BY <1>1, Invariance, PTL

\* What a buffer gives back is what was written, in the order of the reader, each
\* frame with its own time.
THEOREM WhatWasWrittenIsRead == Spec => []ReadInOrder
<1>1. IInv => ReadInOrder
  <2> SUFFICES ASSUME IInv, NEW b \in Buffer
               PROVE  LET r == buf[b].rdTime
                      IN IF forward THEN given[b] = Paired(SubSeq(log[b], 1, r))
                         ELSE Full(buf[b]) /\ ~mixed =>
                                given[b] = Paired(Reverse(SubSeq(log[b], r + 1, Len(log[b]))))
    BY DEF ReadInOrder
  <2> DEFINE q == buf[b]
             l == log[b]
             g == given[b]
             r == q.rdTime
  <2>1. /\ MembersOK(q) /\ WrittenOK(q, l) /\ g \in Seq(Pair)
        /\ forward \/ ~mixed => ReadOK(forward, q, l, g)
    BY DEF IInv, BufferOK
  <2>2. q.nb \in Nat /\ q.wrTime \in 0..q.nb /\ r \in 0..q.nb
    BY <2>1, SizeFacts DEF MembersOK, BlocksOK
  <2>3. l \in Seq(Frame) /\ Len(l) = q.wrTime /\ g = [i \in 1..Len(g) |-> g[i]]
    BY <2>1 DEF WrittenOK
  <2> HIDE DEF q, l, g
  <2>4. CASE forward
    <3>1. r <= Len(l) /\ Len(g) = r /\ \A i \in 1..r : g[i] = <<l[i], l[i]>>
      BY <2>1, <2>3, <2>4 DEF ReadOK, ForwardOK
    <3>2. SubSeq(l, 1, r) = [i \in 1..r |-> l[i]]
      BY <2>2, <2>3, <3>1
    <3>3. Paired(SubSeq(l, 1, r)) = [i \in 1..r |-> <<l[i], l[i]>>]
      BY <3>2 DEF Paired
    <3> QED BY <2>3, <2>4, <3>1, <3>3 DEF q, l, g
  <2>5. CASE ~forward
    <3> SUFFICES ASSUME Full(q), ~mixed
                 PROVE  g = Paired(Reverse(SubSeq(l, r + 1, Len(l))))
      BY <2>5 DEF q, l, g
    <3> DEFINE n == q.wrTime - r
    <3>1. /\ r <= q.wrTime /\ Len(g) = n
          /\ \A i \in 1..n : g[i] = <<l[q.wrTime + 1 - i], l[q.wrTime + 1 - i]>>
      BY <2>1, <2>5 DEF ReadOK, BackwardOK
    <3>2. n \in Nat
      BY <2>2, <3>1
    <3> DEFINE s == SubSeq(l, r + 1, Len(l))
    <3>3. s = [i \in 1..n |-> l[r + i]] /\ Len(s) = n
      <4>1. r + 1 \in Int /\ Len(l) \in Int /\ \A i \in (r + 1)..Len(l) : i \in 1..Len(l)
        BY <2>2, <2>3
      <4>2. \A i \in (r + 1)..Len(l) : l[i] \in Frame
        BY <2>3, <4>1, ElementOfSeq
      <4>3. /\ s \in Seq(Frame)
            /\ Len(s) = IF r + 1 <= Len(l) THEN Len(l) - (r + 1) + 1 ELSE 0
            /\ \A i \in 1..(Len(l) - (r + 1) + 1) : s[i] = l[(r + 1) + i - 1]
        <5> DEFINE m == r + 1
                   k == Len(l)
        <5>1. m \in Int /\ k \in Int /\ \A i \in m..k : l[i] \in Frame
          BY <4>1, <4>2
        <5> HIDE DEF m, k
        <5>2. /\ SubSeq(l, m, k) \in Seq(Frame)
              /\ Len(SubSeq(l, m, k)) = IF m <= k THEN k - m + 1 ELSE 0
              /\ \A i \in 1..(k - m + 1) : SubSeq(l, m, k)[i] = l[m + i - 1]
          BY <5>1, SubSeqProperties
        <5> QED BY <5>2 DEF m, k
      <4> HIDE DEF s
      <4>4. Len(s) = n
        BY <2>2, <2>3, <3>1, <4>3
      <4>5. \A i \in 1..n : s[i] = l[r + i]
        <5> TAKE i \in 1..n
        <5>1. (r + 1) + i - 1 = r + i /\ i \in 1..(Len(l) - (r + 1) + 1)
          BY <2>2, <2>3, <3>1
        <5> QED BY <4>3, <5>1
      <4>6. s = [i \in 1..Len(s) |-> s[i]]
        BY <4>3
      <4> QED BY <4>4, <4>5, <4>6
    <3> HIDE DEF s
    <3>4. Reverse(s) = [i \in 1..n |-> l[r + (n - i + 1)]]
      <4>1. \A i \in 1..n : n - i + 1 \in 1..n
        BY <3>2
      <4> QED BY <3>3, <4>1 DEF Reverse
    <3>5. \A i \in 1..n : r + (n - i + 1) = q.wrTime + 1 - i
      BY <2>2, <3>2
    <3>6. Paired(Reverse(s)) = [i \in 1..n |-> <<l[q.wrTime + 1 - i], l[q.wrTime + 1 - i]>>]
      BY <3>4, <3>5 DEF Paired
    <3> QED BY <2>3, <3>1, <3>6 DEF s
  <2> QED BY <2>4, <2>5
<1> QED BY <1>1, Invariance, PTL

\* available() says how many frames can be read.
THEOREM AvailableIsExact == Spec => []AvailableExact
<1>1. IInv => AvailableExact
  <2> SUFFICES ASSUME IInv, ~mixed, NEW b \in Buffer
               PROVE  Available(forward, buf[b]) =
                        IF forward \/ Full(buf[b]) THEN Len(log[b]) - Len(given[b]) ELSE 0
    BY DEF AvailableExact
  <2> DEFINE q == buf[b]
  <2>1. /\ MembersOK(q) /\ WrittenOK(q, log[b]) /\ ReadOK(forward, q, log[b], given[b])
        /\ forward \in BOOLEAN
    BY DEF IInv, BufferOK
  <2>2. q.nb \in Nat /\ q.wrTime \in 0..q.nb /\ q.rdTime \in 0..q.nb /\ Len(log[b]) = q.wrTime
    BY <2>1, SizeFacts DEF MembersOK, BlocksOK, WrittenOK
  <2> HIDE DEF q
  <2>3. CASE forward
    BY <2>1, <2>2, <2>3 DEF ReadOK, ForwardOK, Available, q
  <2>4. CASE ~forward
    BY <2>1, <2>2, <2>4 DEF ReadOK, BackwardOK, Available, Full, q
  <2> QED BY <2>3, <2>4
<1> QED BY <1>1, Invariance, PTL
=============================================================================
