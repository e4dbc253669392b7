-------------------------- MODULE TranscodeProofs --------------------------
(***************************************************************************)
(* Theorems about the sandbox transcoder.                                  *)
(***************************************************************************)
EXTENDS Transcode, SequenceTheorems, FiniteSetTheorems, TLAPS

\* The folds of the model, each with what Folding knows of it.
UnqueueOf(o, n, p) == WritePacket(n, o, p, TRUE)

Unqueues == INSTANCE Folding WITH Op <- UnqueueOf

UnqueueIf(d, n, o) == IF o \in Siblings(d) THEN Unqueue(n, o) ELSE n

HeaderWrites == INSTANCE Folding WITH Op <- UnqueueIf

CloseIf(s, n, o) == IF o \in s THEN CloseOutput(n, o) ELSE n

ShowOf(o, c, in) == ShowFrame(c, o, in)

FlushOf(o, n, p) == IF "muxer" \in n.out[o].finished THEN n ELSE WritePacket(n, o, p, FALSE)

Flushes == INSTANCE Folding WITH Op <- FlushOf

Closes == INSTANCE Folding WITH Op <- CloseIf

Shows == INSTANCE Folding WITH Op <- ShowOf

ReapOf(o, n, fr) == IF n.out[o].finished # {} THEN n ELSE DoOut(n, o, fr)

ReapsFrames == INSTANCE Folding WITH Op <- ReapOf

ReapIf(flush, n, o) == IF n.fg[GraphOf[o]].graph THEN Reap(n, o, flush) ELSE n

ReapsOutputs == INSTANCE Folding WITH Op <- ReapIf

GatherOf(queue, all, s) == all \o queue[s]

Gathers == INSTANCE Folding WITH Op <- GatherOf

SendOf(c, k, g) == SendFrameTo(k, g, c[1], c[2])

Sends == INSTANCE Folding WITH Op <- SendOf

SendEofOf(s, k, g) == SendEofTo(k, g, s)

SendsEof == INSTANCE Folding WITH Op <- SendEofOf

DrainOf(noEof, n, s) == DrainStream(n, s, noEof)

Drains == INSTANCE Folding WITH Op <- DrainOf

DrainFileOf(c, m, f) == DrainFile(m, f)

DrainsFiles == INSTANCE Folding WITH Op <- DrainFileOf

NeedOf(x, c, o) ==
  IF c.needed THEN c
  ELSE IF NeedsMore(c.m, o) THEN [c EXCEPT !.needed = TRUE]
  ELSE IF c.m.out[o].finished # {} \/ TooLong(c.m, o) THEN c
  ELSE [c EXCEPT !.m = CloseOutputs(@, Siblings(DestOf[o]))]

Needs == INSTANCE Folding WITH Op <- NeedOf

FlushedOf(c, m, o) == Flushed(m, o)

FlushesAll == INSTANCE Folding WITH Op <- FlushedOf

OpenOf(c, m, s) == OpenDecoder(m, s)

Opens == INSTANCE Folding WITH Op <- OpenOf

OpenFileOf(c, m, f) == OpenDecoders(m, f)

OpensFiles == INSTANCE Folding WITH Op <- OpenFileOf

DeviceOf(c, list, spec) == InitFromString(list, spec)

InitsDevices == INSTANCE Folding WITH Op <- DeviceOf

KeepOf(set, all, fr) == IF fr \in set THEN Append(all, fr) ELSE all

Keeps == INSTANCE Folding WITH Op <- KeepOf

-----------------------------------------------------------------------------
(* Numbers. *)

\* A set of numbers with any element has a least one.
LEMMA LeastNat ==
  \A T \in SUBSET Nat : T # {} => \E n \in T : \A m \in T : ~(m < n)
<1> SUFFICES ASSUME NEW T \in SUBSET Nat, T # {}
             PROVE  \E n \in T : \A m \in T : ~(m < n)
  OBVIOUS
<1>1. \E n \in T : \A m \in T : <<m, n>> \notin OpToRel(<, Nat)
  BY NatLessThanWellFounded, WFMin
<1>2. \A m \in Nat, n \in Nat : m < n => <<m, n>> \in OpToRel(<, Nat)
  BY DEF OpToRel
<1> QED BY <1>1, <1>2

\* Induction up to n, on the set of numbers for which something holds.
LEMMA UpTo ==
  ASSUME NEW n \in Nat, NEW T, 0 \in T, \A i \in 1..n : i - 1 \in T => i \in T
  PROVE  \A i \in 0..n : i \in T
BY LeastNat, Unqueues!UpTo DEF Unqueues!WellOrdered

-----------------------------------------------------------------------------
(* Sequences. *)

\* A sequence up to one place further.
LEMMA OneMore ==
  ASSUME NEW S, NEW xs \in Seq(S), NEW i \in 1..Len(xs)
  PROVE  /\ SubSeq(xs, 1, i - 1) \in Seq(S) /\ xs[i] \in S
         /\ SubSeq(xs, 1, i) = Append(SubSeq(xs, 1, i - 1), xs[i])
<1>1. Len(xs) \in Nat /\ \A j \in 1..Len(xs) : xs[j] \in S
  BY LenProperties, ElementOfSeq
<1>2. SubSeq(xs, 1, i - 1) \in Seq(S)
  <2>1. \A j \in 1..(i - 1) : xs[j] \in S
    BY <1>1
  <2> QED BY <1>1, <2>1, SubSeqProperties
<1>3. SubSeq(xs, 1, i) = SubSeq(xs, 1, i - 1) \o <<xs[i]>>
  <2>1. 1 \in 1..Len(xs) /\ i \in 1..Len(xs)
    BY <1>1
  <2> QED BY <2>1, SubSeqRecursiveSecond
<1> QED BY <1>1, <1>2, <1>3, AppendIsConcat

\* A sequence is cut in two anywhere.
LEMMA Cut ==
  ASSUME NEW S, NEW xs \in Seq(S), NEW k \in 0..Len(xs)
  PROVE  /\ SubSeq(xs, 1, k) \in Seq(S) /\ SubSeq(xs, k + 1, Len(xs)) \in Seq(S)
         /\ Len(SubSeq(xs, 1, k)) = k
         /\ SubSeq(xs, 1, k) \o SubSeq(xs, k + 1, Len(xs)) = xs
<1>1. Len(xs) \in Nat /\ \A j \in 1..Len(xs) : xs[j] \in S
  BY LenProperties, ElementOfSeq
<1>2. SubSeq(xs, 1, k) \in Seq(S) /\ Len(SubSeq(xs, 1, k)) = k
  <2>1. \A j \in 1..k : xs[j] \in S
    BY <1>1
  <2> QED BY <1>1, <2>1, SubSeqProperties
<1>3. SubSeq(xs, k + 1, Len(xs)) \in Seq(S)
  <2>1. \A j \in (k + 1)..Len(xs) : xs[j] \in S
    BY <1>1
  <2> QED BY <1>1, <2>1, SubSeqProperties
<1>4. SubSeq(xs, 1, k) \o SubSeq(xs, k + 1, Len(xs)) = SubSeq(xs, 1, Len(xs))
  <2>1. 1 \in 1..(Len(xs) + 1) /\ k \in (1 - 1)..Len(xs) /\ Len(xs) \in k..Len(xs)
    BY <1>1
  <2> QED BY <2>1, ConcatAdjacentSubSeq
<1> QED BY <1>2, <1>3, <1>4, SubSeqFull

\* To append is to append to the second of two.
LEMMA ConcatAppend ==
  ASSUME NEW S, NEW xs \in Seq(S), NEW zs \in Seq(S), NEW y \in S
  PROVE  xs \o zs \in Seq(S) /\ xs \o Append(zs, y) = Append(xs \o zs, y)
<1>1. xs \o zs \in Seq(S) /\ <<y>> \in Seq(S)
  BY ConcatProperties
<1>2. (xs \o zs) \o <<y>> = xs \o (zs \o <<y>>)
  BY <1>1, ConcatAssociative
<1> QED BY <1>1, <1>2, AppendIsConcat

-----------------------------------------------------------------------------
(* The state of the program. *)

\* What is read, decoded, filtered, encoded and muxed.
Frame == {fr \in InFile \X Nat \X Nat : fr[2] \in DOMAIN Media[fr[1]]}

OutFields == {"initialized", "finished", "inputsDone", "unavailable", "frames", "sync", "nb0s", "last",
              "queue", "held", "enc", "device", "took", "sent", "written"}

\* An output stream
OutFits(r) ==
  /\ DOMAIN r = OutFields
  /\ r.initialized \in BOOLEAN /\ r.finished \in SUBSET Both
  /\ r.frames \in Nat /\ r.sync \in Nat /\ r.nb0s \in Int \X Int \X Int
  /\ r.last \in Frame \cup {Null}
  /\ r.queue \in Seq(Frame) /\ r.held \in Seq(Frame)
  /\ r.sent \in Seq(Frame) /\ r.written \in Seq(Frame)

OutsFit(m) == DOMAIN m.out = Output /\ \A o \in Output : OutFits(m.out[o])

DestFields == {"header", "size", "until", "broken"}

\* An output file
DestFits(d) == DOMAIN d = DestFields /\ d.header \in BOOLEAN /\ d.broken \in BOOLEAN /\ d.size \in Nat /\ d.until \in Nat

DestsFit(m) == DOMAIN m.dest = Dest /\ \A d \in Dest : DestFits(m.dest[d])

StateFields == {"ifile", "hw", "dec", "held", "fg", "out", "dest", "how", "opt", "given"}

\* The limits that the program is run with
OptFits(opts) ==
  /\ \A o \in Output : opts.maxFrames[o] \in Nat
  /\ \A d \in Dest : opts.shortest[d] \in BOOLEAN /\ opts.room[d] \in Nat

\* The output side of the program.
Sound(m) ==
  /\ DOMAIN m = StateFields
  /\ OutsFit(m) /\ DestsFit(m) /\ OptFits(m.opt)

\* A step of the output side leaves the rest alone, and of an output stream what
\* its encoder was opened for.
SameRest(m, n) ==
  /\ n.ifile = m.ifile /\ n.hw = m.hw /\ n.dec = m.dec /\ n.held = m.held
  /\ n.fg = m.fg /\ n.opt = m.opt /\ n.given = m.given

SameEncoder(q, r) ==
  /\ r.initialized = q.initialized /\ r.enc = q.enc /\ r.device = q.device /\ r.took = q.took

SameEncoders(m, n) == \A o \in Output : SameEncoder(m.out[o], n.out[o])

LEMMA Refl ==
  ASSUME NEW m
  PROVE  SameRest(m, m) /\ SameEncoders(m, m)
BY DEF SameRest, SameEncoders, SameEncoder

LEMMA Trans ==
  ASSUME NEW l, NEW m, NEW n, SameRest(l, m), SameEncoders(l, m), SameRest(m, n), SameEncoders(m, n)
  PROVE  SameRest(l, n) /\ SameEncoders(l, n)
BY DEF SameRest, SameEncoders, SameEncoder

-----------------------------------------------------------------------------
(* Changing one output stream, or one file. *)

PutOut(m, o, r) == [m EXCEPT !.out[o] = r]

PutDest(m, d, r) == [m EXCEPT !.dest[d] = r]

LEMMA OutPut ==
  ASSUME NEW m, Sound(m), NEW o \in Output, NEW r, OutFits(r)
  PROVE  LET n == PutOut(m, o, r)
         IN /\ Sound(n) /\ SameRest(m, n) /\ n.dest = m.dest /\ n.how = m.how
            /\ n.out[o] = r /\ \A p \in Output \ {o} : n.out[p] = m.out[p]
<1> DEFINE n == PutOut(m, o, r)
<1>1. DOMAIN n = StateFields /\ DOMAIN n.out = Output /\ SameRest(m, n) /\ n.dest = m.dest /\ n.how = m.how
  BY DEF Sound, OutsFit, StateFields, SameRest, PutOut
<1>2. n.out[o] = r /\ \A p \in Output \ {o} : n.out[p] = m.out[p]
  BY DEF Sound, OutsFit, StateFields, PutOut
<1> HIDE DEF n
<1>3. Sound(n)
  BY <1>1, <1>2 DEF Sound, OutsFit, DestsFit, SameRest
<1> QED BY <1>1, <1>2, <1>3 DEF n

LEMMA DestPut ==
  ASSUME NEW m, Sound(m), NEW d \in Dest, NEW r, DestFits(r)
  PROVE  LET n == PutDest(m, d, r)
         IN /\ Sound(n) /\ SameRest(m, n) /\ n.out = m.out /\ n.how = m.how
            /\ n.dest[d] = r /\ \A e \in Dest \ {d} : n.dest[e] = m.dest[e]
<1> DEFINE n == PutDest(m, d, r)
<1>1. DOMAIN n = StateFields /\ DOMAIN n.dest = Dest /\ SameRest(m, n) /\ n.out = m.out /\ n.how = m.how
  BY DEF Sound, DestsFit, StateFields, SameRest, PutDest
<1>2. n.dest[d] = r /\ \A e \in Dest \ {d} : n.dest[e] = m.dest[e]
  BY DEF Sound, DestsFit, StateFields, PutDest
<1> HIDE DEF n
<1>3. Sound(n)
  BY <1>1, <1>2 DEF Sound, OutsFit, DestsFit, SameRest
<1> QED BY <1>1, <1>2, <1>3 DEF n

-----------------------------------------------------------------------------
(* Muxing. *)

\* What an output stream has encoded and written is the same.
SamePackets(q, r) ==
  /\ r.queue = q.queue /\ r.held = q.held /\ r.sent = q.sent /\ r.written = q.written
  /\ r.frames = q.frames /\ q.finished \subseteq r.finished

Others(m, n, o) == \A p \in Output \ {o} : SamePackets(m.out[p], n.out[p])

\* A step of the output side: headers stay as they are, and nothing is mended.
Moved(m, n) ==
  /\ Sound(n) /\ SameRest(m, n) /\ SameEncoders(m, n)
  /\ \A d \in Dest : n.dest[d].header = m.dest[d].header /\ (m.dest[d].broken => n.dest[d].broken)
  /\ n.how = m.how \/ n.how = "abort"

LEMMA MovedRefl ==
  ASSUME NEW m, Sound(m)
  PROVE  Moved(m, m)
BY Refl DEF Moved

LEMMA MovedTrans ==
  ASSUME NEW l, NEW m, NEW n, Moved(l, m), Moved(m, n)
  PROVE  Moved(l, n)
BY Trans DEF Moved

LEMMA OthersTrans ==
  ASSUME NEW l, NEW m, NEW n, NEW o, Others(l, m, o), Others(m, n, o)
  PROVE  Others(l, n, o)
BY DEF Others, SamePackets

\* One output stream is changed, but for what its encoder was opened for.
LEMMA OutMoved ==
  ASSUME NEW m, Sound(m), NEW o \in Output, NEW r, OutFits(r), SameEncoder(m.out[o], r)
  PROVE  LET n == PutOut(m, o, r)
         IN Moved(m, n) /\ Others(m, n, o) /\ n.out[o] = r /\ n.dest = m.dest /\ n.how = m.how
<1> DEFINE n == PutOut(m, o, r)
<1>1. /\ Sound(n) /\ SameRest(m, n) /\ n.dest = m.dest /\ n.how = m.how
      /\ n.out[o] = r /\ \A p \in Output \ {o} : n.out[p] = m.out[p]
  BY OutPut
<1> HIDE DEF n
<1>2. SameEncoders(m, n) /\ Others(m, n, o)
  BY <1>1 DEF SameEncoders, SameEncoder, Others, SamePackets
<1> QED BY <1>1, <1>2 DEF Moved, n

\* No output stream is changed, but that more are finished.
OnlyFinished(m, n) == \A o \in Output : SamePackets(m.out[o], n.out[o])

LEMMA FinishedMore ==
  ASSUME NEW q, OutFits(q), NEW more \in SUBSET Both
  PROVE  LET r == [q EXCEPT !.finished = @ \cup more]
         IN OutFits(r) /\ SameEncoder(q, r) /\ SamePackets(q, r)
<1> DEFINE r == [q EXCEPT !.finished = @ \cup more]
<1>1. /\ DOMAIN r = OutFields /\ r.finished = q.finished \cup more
      /\ r.initialized = q.initialized /\ r.frames = q.frames /\ r.sync = q.sync /\ r.nb0s = q.nb0s
      /\ r.last = q.last /\ r.queue = q.queue /\ r.held = q.held /\ r.enc = q.enc /\ r.device = q.device
      /\ r.took = q.took /\ r.sent = q.sent /\ r.written = q.written
  BY DEF OutFits, OutFields
<1> HIDE DEF r
<1>2. OutFits(r) /\ SameEncoder(q, r) /\ SamePackets(q, r)
  BY <1>1 DEF OutFits, SameEncoder, SamePackets
<1> QED BY <1>2 DEF r

LEMMA CloseAllIs ==
  ASSUME NEW m, Sound(m), NEW o \in Output
  PROVE  Moved(m, CloseAll(m, o)) /\ OnlyFinished(m, CloseAll(m, o)) /\ CloseAll(m, o).dest = m.dest
<1> DEFINE n == CloseAll(m, o)
<1>1. /\ DOMAIN n = StateFields /\ DOMAIN n.out = Output /\ SameRest(m, n)
      /\ n.dest = m.dest /\ n.how = m.how
  BY DEF Sound, OutsFit, StateFields, SameRest, CloseAll
<1>2. ASSUME NEW p \in Output
      PROVE  n.out[p] = [m.out[p] EXCEPT !.finished = @ \cup IF p = o THEN Both ELSE {"encoder"}]
  <2>1. n.out = [x \in Output |-> [m.out[x] EXCEPT !.finished = @ \cup IF x = o THEN Both ELSE {"encoder"}]]
    BY DEF Sound, StateFields, CloseAll
  <2> HIDE DEF n
  <2> QED BY <2>1
<1> HIDE DEF n
<1>3. ASSUME NEW p \in Output
      PROVE  OutFits(n.out[p]) /\ SameEncoder(m.out[p], n.out[p]) /\ SamePackets(m.out[p], n.out[p])
  <2>1. OutFits(m.out[p])
    BY DEF Sound, OutsFit
  <2> DEFINE more == IF p = o THEN Both ELSE {"encoder"}
  <2>2. more \in SUBSET Both
    BY DEF Both
  <2> HIDE DEF more
  <2>3. n.out[p] = [m.out[p] EXCEPT !.finished = @ \cup more]
    BY <1>2 DEF more
  <2> QED BY <2>1, <2>2, <2>3, FinishedMore
<1>4. Sound(n)
  BY <1>1, <1>3 DEF Sound, OutsFit, DestsFit, SameRest
<1> QED BY <1>1, <1>3, <1>4 DEF n, Moved, SameEncoders, OnlyFinished

\* A packet of o has been taken: it is in the file, or waits for the header.
Muxed(q, r, header, p) ==
  /\ r.held = q.held /\ r.sent = q.sent /\ q.finished \subseteq r.finished
  /\ IF header THEN r.written = Append(q.written, p) /\ r.queue = q.queue
     ELSE r.queue = Append(q.queue, p) /\ r.written = q.written

\* Nothing has gone wrong with the packets of o.
Whole(m, o) == m.how # "abort" /\ ~m.dest[DestOf[o]].broken /\ "muxer" \notin m.out[o].finished

LEMMA WrittenMore ==
  ASSUME NEW q, OutFits(q), NEW p \in Frame
  PROVE  LET r == [q EXCEPT !.written = Append(@, p)]
         IN OutFits(r) /\ SameEncoder(q, r) /\ Muxed(q, r, TRUE, p) /\ r.finished = q.finished /\ r.frames = q.frames
<1> DEFINE r == [q EXCEPT !.written = Append(@, p)]
<1>1. /\ DOMAIN r = OutFields /\ r.finished = q.finished
      /\ r.initialized = q.initialized /\ r.frames = q.frames /\ r.sync = q.sync /\ r.nb0s = q.nb0s
      /\ r.last = q.last /\ r.queue = q.queue /\ r.held = q.held /\ r.enc = q.enc /\ r.device = q.device
      /\ r.took = q.took /\ r.sent = q.sent /\ r.written = Append(q.written, p)
  BY DEF OutFits, OutFields
<1> HIDE DEF r
<1>2. OutFits(r) /\ SameEncoder(q, r) /\ Muxed(q, r, TRUE, p)
  BY <1>1 DEF OutFits, SameEncoder, Muxed
<1> QED BY <1>1, <1>2 DEF r

LEMMA MuxIs ==
  ASSUME NEW m, Sound(m), NEW o \in Output, NEW p \in Frame
  PROVE  LET n == Mux(m, o, p)
         IN /\ Moved(m, n) /\ Others(m, n, o)
            /\ Whole(n, o) => Muxed(m.out[o], n.out[o], TRUE, p)
            /\ n.out[o].sent = m.out[o].sent /\ n.out[o].held = m.out[o].held
            /\ n.out[o].queue = m.out[o].queue /\ m.out[o].finished \subseteq n.out[o].finished
            /\ n.out[o].frames = m.out[o].frames
<1> DEFINE d == DestOf[o]
           n == Mux(m, o, p)
<1>0. d \in Dest /\ DestFits(m.dest[d]) /\ OutFits(m.out[o])
  BY OutputAssumption DEF Sound, OutsFit, DestsFit
<1>1. CASE m.dest[d].size >= m.opt.room[d]
  <2> DEFINE e == [m.dest[d] EXCEPT !.broken = TRUE]
             k == PutDest(m, d, e)
  <2>1. DestFits(e) /\ e.broken /\ e.header = m.dest[d].header
    BY <1>0 DEF DestFits, DestFields
  <2> HIDE DEF e
  <2>2. /\ Sound(k) /\ SameRest(m, k) /\ k.out = m.out /\ k.how = m.how
        /\ k.dest[d] = e /\ \A x \in Dest \ {d} : k.dest[x] = m.dest[x]
    BY <1>0, <2>1, DestPut
  <2>3. n = CloseAll(k, o)
    BY <1>1 DEF Mux, e, PutDest
  <2> HIDE DEF k, n
  <2>4. Moved(k, n) /\ OnlyFinished(k, n) /\ n.dest = k.dest
    BY <2>2, <2>3, CloseAllIs
  <2>5. Moved(m, k)
    BY <2>1, <2>2 DEF Moved, SameEncoders, SameEncoder
  <2>6. Moved(m, n) /\ ~Whole(n, o)
    BY <2>1, <2>2, <2>4, <2>5, MovedTrans DEF Whole
  <2>7. OnlyFinished(m, n)
    BY <2>2, <2>4 DEF OnlyFinished
  <2> QED BY <2>6, <2>7 DEF OnlyFinished, Others, SamePackets, n
<1>2. CASE ~(m.dest[d].size >= m.opt.room[d])
  <2> DEFINE e == [m.dest[d] EXCEPT !.size = @ + 1]
             k == PutDest(m, d, e)
             r == [m.out[o] EXCEPT !.written = Append(@, p)]
  <2>1. DestFits(e) /\ e.broken = m.dest[d].broken /\ e.header = m.dest[d].header
    BY <1>0 DEF DestFits, DestFields
  <2>2. OutFits(r) /\ SameEncoder(m.out[o], r) /\ Muxed(m.out[o], r, TRUE, p) /\ r.frames = m.out[o].frames
    BY <1>0, WrittenMore
  <2> HIDE DEF e
  <2>3. /\ Sound(k) /\ SameRest(m, k) /\ k.out = m.out /\ k.how = m.how
        /\ k.dest[d] = e /\ \A x \in Dest \ {d} : k.dest[x] = m.dest[x]
    BY <1>0, <2>1, DestPut
  <2>4. n = PutOut(k, o, r)
    BY <1>2, <2>3 DEF Mux, e, PutOut, PutDest, Sound, OutsFit, StateFields
  <2> HIDE DEF k, n, r
  <2>5. Moved(k, n) /\ Others(k, n, o) /\ n.out[o] = r /\ n.dest = k.dest
    BY <2>2, <2>3, <2>4, OutMoved
  <2>6. Moved(m, k)
    BY <2>1, <2>3 DEF Moved, SameEncoders, SameEncoder
  <2>7. Moved(m, n)
    BY <2>5, <2>6, MovedTrans
  <2>8. Others(m, n, o)
    BY <2>3, <2>5 DEF Others
  <2> QED BY <2>2, <2>5, <2>7, <2>8 DEF n, Muxed
<1> QED BY <1>1, <1>2

LEMMA QueueMore ==
  ASSUME NEW q, OutFits(q), NEW p \in Frame
  PROVE  LET r == [q EXCEPT !.queue = Append(@, p)]
         IN OutFits(r) /\ SameEncoder(q, r) /\ Muxed(q, r, FALSE, p) /\ r.finished = q.finished /\ r.frames = q.frames
<1> DEFINE r == [q EXCEPT !.queue = Append(@, p)]
<1>1. /\ DOMAIN r = OutFields /\ r.finished = q.finished
      /\ r.initialized = q.initialized /\ r.frames = q.frames /\ r.sync = q.sync /\ r.nb0s = q.nb0s
      /\ r.last = q.last /\ r.queue = Append(q.queue, p) /\ r.held = q.held /\ r.enc = q.enc /\ r.device = q.device
      /\ r.took = q.took /\ r.sent = q.sent /\ r.written = q.written
  BY DEF OutFits, OutFields
<1> HIDE DEF r
<1>2. OutFits(r) /\ SameEncoder(q, r) /\ Muxed(q, r, FALSE, p)
  BY <1>1 DEF OutFits, SameEncoder, Muxed
<1> QED BY <1>1, <1>2 DEF r

LEMMA HowPut ==
  ASSUME NEW m, Sound(m), NEW h
  PROVE  LET n == [m EXCEPT !.how = h]
         IN /\ Sound(n) /\ SameRest(m, n) /\ SameEncoders(m, n)
            /\ n.out = m.out /\ n.dest = m.dest /\ n.how = h
<1> DEFINE n == [m EXCEPT !.how = h]
<1>1. /\ DOMAIN n = StateFields /\ SameRest(m, n) /\ n.out = m.out /\ n.dest = m.dest /\ n.how = h
  BY DEF Sound, StateFields, SameRest
<1> HIDE DEF n
<1>2. Sound(n) /\ SameEncoders(m, n)
  BY <1>1 DEF Sound, OutsFit, DestsFit, SameRest, SameEncoders, SameEncoder
<1> QED BY <1>1, <1>2 DEF n

LEMMA EnqueueIs ==
  ASSUME NEW m, Sound(m), NEW o \in Output, NEW p \in Frame
  PROVE  LET n == Enqueue(m, o, p)
         IN /\ Moved(m, n) /\ Others(m, n, o)
            /\ Whole(n, o) => Muxed(m.out[o], n.out[o], FALSE, p)
            /\ n.out[o].sent = m.out[o].sent /\ n.out[o].held = m.out[o].held
            /\ m.out[o].finished \subseteq n.out[o].finished
            /\ n.out[o].frames = m.out[o].frames
<1> DEFINE n == Enqueue(m, o, p)
<1>1. CASE Len(m.out[o].queue) >= MaxQueue
  <2>1. n = [m EXCEPT !.how = "abort"]
    BY <1>1 DEF Enqueue
  <2>2. /\ Sound(n) /\ SameRest(m, n) /\ SameEncoders(m, n)
        /\ n.out = m.out /\ n.dest = m.dest /\ n.how = "abort"
    BY <2>1, HowPut
  <2> HIDE DEF n
  <2>3. Moved(m, n) /\ Others(m, n, o) /\ ~Whole(n, o)
    BY <2>2 DEF Moved, Others, SamePackets, Whole
  <2> QED BY <2>2, <2>3 DEF n
<1>2. CASE ~(Len(m.out[o].queue) >= MaxQueue)
  <2> DEFINE r == [m.out[o] EXCEPT !.queue = Append(@, p)]
  <2>1. /\ OutFits(r) /\ SameEncoder(m.out[o], r) /\ Muxed(m.out[o], r, FALSE, p)
        /\ r.frames = m.out[o].frames
    <3>1. OutFits(m.out[o])
      BY DEF Sound, OutsFit
    <3> QED BY <3>1, QueueMore
  <2>2. n = PutOut(m, o, r)
    BY <1>2 DEF Enqueue, PutOut
  <2> HIDE DEF n, r
  <2>3. Moved(m, n) /\ Others(m, n, o) /\ n.out[o] = r
    BY <2>1, <2>2, OutMoved
  <2> QED BY <2>1, <2>3 DEF n, Muxed
<1> QED BY <1>1, <1>2

LEMMA FramesMore ==
  ASSUME NEW q, OutFits(q), NEW k \in Nat
  PROVE  LET r == [q EXCEPT !.frames = @ + k]
         IN /\ OutFits(r) /\ SameEncoder(q, r) /\ r.finished = q.finished /\ r.frames = q.frames + k
            /\ r.queue = q.queue /\ r.held = q.held /\ r.sent = q.sent /\ r.written = q.written
<1> DEFINE r == [q EXCEPT !.frames = @ + k]
<1>1. /\ DOMAIN r = OutFields /\ r.finished = q.finished
      /\ r.initialized = q.initialized /\ r.frames = q.frames + k /\ r.sync = q.sync /\ r.nb0s = q.nb0s
      /\ r.last = q.last /\ r.queue = q.queue /\ r.held = q.held /\ r.enc = q.enc /\ r.device = q.device
      /\ r.took = q.took /\ r.sent = q.sent /\ r.written = q.written
  BY DEF OutFits, OutFields
<1> HIDE DEF r
<1>2. OutFits(r) /\ SameEncoder(q, r)
  BY SMTT(60), <1>1 DEF OutFits, SameEncoder
<1> QED BY <1>1, <1>2 DEF r

\* The packet is over the limit of o.
OverLimit(m, o, u) == Counted(o, u) /\ m.out[o].frames >= m.opt.maxFrames[o]

LEMMA WritePacketIs ==
  ASSUME NEW m, Sound(m), NEW o \in Output, NEW p \in Frame, NEW u \in BOOLEAN
  PROVE  LET n == WritePacket(m, o, p, u)
             header == m.dest[DestOf[o]].header
         IN /\ Moved(m, n) /\ Others(m, n, o)
            /\ n.out[o].sent = m.out[o].sent /\ n.out[o].held = m.out[o].held
            /\ m.out[o].finished \subseteq n.out[o].finished
            /\ header => n.out[o].queue = m.out[o].queue
            /\ n.out[o].frames = m.out[o].frames + (IF Counted(o, u) /\ ~OverLimit(m, o, u) THEN 1 ELSE 0)
            /\ OverLimit(m, o, u) => n = m
            /\ Whole(n, o) /\ ~OverLimit(m, o, u) => Muxed(m.out[o], n.out[o], header, p)
<1> DEFINE n == WritePacket(m, o, p, u)
           header == m.dest[DestOf[o]].header
           more == IF Counted(o, u) THEN 1 ELSE 0
           q == m.out[o]
           r == [q EXCEPT !.frames = @ + more]
           k == PutOut(m, o, r)
<1>0. OutFits(q) /\ more \in Nat /\ DestOf[o] \in Dest
  BY OutputAssumption DEF Sound, OutsFit
<1>1. CASE OverLimit(m, o, u)
  <2>1. n = m
    BY <1>1 DEF WritePacket, OverLimit
  <2>2. Moved(m, m) /\ Others(m, m, o)
    BY MovedRefl DEF Others, SamePackets
  <2>3. q.frames + 0 = q.frames
    BY SMTT(60), <1>0 DEF OutFits
  <2> QED BY <1>1, <2>1, <2>2, <2>3
<1>2. CASE ~OverLimit(m, o, u)
  <2>1. /\ OutFits(r) /\ SameEncoder(q, r) /\ r.finished = q.finished /\ r.frames = q.frames + more
        /\ r.queue = q.queue /\ r.held = q.held /\ r.sent = q.sent /\ r.written = q.written
    BY <1>0, FramesMore
  <2> HIDE DEF r
  <2>2. Moved(m, k) /\ Others(m, k, o) /\ k.out[o] = r /\ k.dest = m.dest /\ k.how = m.how
    BY <2>1, OutMoved
  <2>3. n = IF header THEN Mux(k, o, p) ELSE Enqueue(k, o, p)
    BY <1>2 DEF WritePacket, OverLimit, r, PutOut
  <2> HIDE DEF k, n
  <2>4. /\ Moved(k, n) /\ Others(k, n, o)
        /\ Whole(n, o) => Muxed(k.out[o], n.out[o], header, p)
        /\ n.out[o].sent = r.sent /\ n.out[o].held = r.held
        /\ r.finished \subseteq n.out[o].finished
        /\ n.out[o].frames = r.frames
        /\ header => n.out[o].queue = r.queue
    <3>0. Sound(k)
      BY <2>2 DEF Moved
    <3>1. CASE header
      BY ZenonT(60), <2>2, <2>3, <3>0, <3>1, MuxIs
    <3>2. CASE ~header
      <4>1. header = FALSE
        BY <1>0, <3>2 DEF Sound, DestsFit, DestFits
      <4> HIDE DEF header
      <4> QED BY Zenon, <2>2, <2>3, <3>0, <4>1, EnqueueIs
    <3> QED BY <3>1, <3>2
  <2>5. Moved(m, n) /\ Others(m, n, o)
    BY SMTT(60), <2>2, <2>4, MovedTrans, OthersTrans
  <2>6. Whole(n, o) => Muxed(q, n.out[o], header, p)
    BY <2>1, <2>2, <2>4 DEF Muxed
  <2> QED BY <1>2, <2>1, <2>4, <2>5, <2>6 DEF n
<1> QED BY <1>1, <1>2

-----------------------------------------------------------------------------
(* The packets that wait for a header. *)

LEMMA WholeBefore ==
  ASSUME NEW m, NEW n, NEW o \in Output, Moved(m, n), m.out[o].finished \subseteq n.out[o].finished, Whole(n, o)
  PROVE  Whole(m, o)
<1>1. DestOf[o] \in Dest
  BY OutputAssumption
<1> QED BY <1>1 DEF Moved, Whole

LEMMA QueueEmptied ==
  ASSUME NEW q, OutFits(q)
  PROVE  LET r == [q EXCEPT !.queue = <<>>]
         IN /\ OutFits(r) /\ SameEncoder(q, r) /\ r.finished = q.finished /\ r.frames = q.frames
            /\ r.queue = <<>> /\ r.held = q.held /\ r.sent = q.sent /\ r.written = q.written
<1> DEFINE r == [q EXCEPT !.queue = <<>>]
<1>1. /\ DOMAIN r = OutFields /\ r.finished = q.finished
      /\ r.initialized = q.initialized /\ r.frames = q.frames /\ r.sync = q.sync /\ r.nb0s = q.nb0s
      /\ r.last = q.last /\ r.queue = <<>> /\ r.held = q.held /\ r.enc = q.enc /\ r.device = q.device
      /\ r.took = q.took /\ r.sent = q.sent /\ r.written = q.written
  BY DEF OutFits, OutFields
<1> HIDE DEF r
<1>2. OutFits(r) /\ SameEncoder(q, r)
  BY <1>1 DEF OutFits, SameEncoder
<1> QED BY <1>1, <1>2 DEF r

Emptied(m, o) == PutOut(m, o, [m.out[o] EXCEPT !.queue = <<>>])

\* F lists what becomes of m.
IsUnqueue(F, m, o) ==
  LET xs == m.out[o].queue
  IN /\ F[0] = Emptied(m, o) /\ Unqueue(m, o) = F[Len(xs)]
     /\ \A i \in 1..Len(xs) : F[i] = WritePacket(F[i - 1], o, xs[i], TRUE)

LEMMA UnqueueSteps ==
  ASSUME NEW m, Sound(m), NEW o \in Output
  PROVE  \E F : IsUnqueue(F, m, o)
<1> DEFINE xs == m.out[o].queue
           start == Emptied(m, o)
<1>1. Len(xs) \in Nat /\ DOMAIN xs = 1..Len(xs)
  BY LenProperties DEF Sound, OutsFit, OutFits
<1>2. Unqueue(m, o) = Unqueues!Fold(o, start, xs)
  BY DEF Unqueue, UnqueueOf, Emptied, PutOut, FoldLeft, Unqueues!Fold, MapThenFoldSet, Max, Unqueues!Greatest
<1> HIDE DEF xs, start
<1>3. PICK F : Unqueues!Steps(o, F, start, xs, Len(xs)) /\ Unqueues!Fold(o, start, xs) = F[Len(xs)]
  <2>1. Len(xs) \in Nat
    BY <1>1
  <2>2. DOMAIN xs = 1..Len(xs)
    BY SMTT(60), <1>1
  <2> QED BY <2>1, <2>2, LeastNat, Unqueues!FoldSteps DEF Unqueues!WellOrdered
<1> QED BY <1>2, <1>3 DEF Unqueues!Steps, UnqueueOf, xs, start, IsUnqueue

\* Up to what has been written: the packets that waited go to the file in order.
LEMMA UnqueueIs ==
  ASSUME NEW m, Sound(m), NEW o \in Output, m.dest[DestOf[o]].header
  PROVE  LET n == Unqueue(m, o)
         IN /\ Moved(m, n) /\ Others(m, n, o)
            /\ n.out[o].sent = m.out[o].sent /\ n.out[o].held = m.out[o].held
            /\ n.out[o].frames = m.out[o].frames
            /\ m.out[o].finished \subseteq n.out[o].finished
            /\ n.out[o].queue = <<>>
            /\ Whole(n, o) => n.out[o].written = m.out[o].written \o m.out[o].queue
<1> DEFINE q == m.out[o]
           xs == q.queue
           r == [q EXCEPT !.queue = <<>>]
           start == Emptied(m, o)
<1>0. OutFits(q) /\ DestOf[o] \in Dest
  BY OutputAssumption DEF Sound, OutsFit
<1>1. PICK F : /\ F[0] = start /\ Unqueue(m, o) = F[Len(xs)]
               /\ \A i \in 1..Len(xs) : F[i] = WritePacket(F[i - 1], o, xs[i], TRUE)
  <2>1. PICK F : IsUnqueue(F, m, o)
    BY UnqueueSteps
  <2> QED BY <2>1 DEF IsUnqueue
<1> DEFINE P(i) ==
             /\ Moved(m, F[i]) /\ Others(m, F[i], o)
             /\ F[i].out[o].sent = q.sent /\ F[i].out[o].held = q.held /\ F[i].out[o].frames = q.frames
             /\ q.finished \subseteq F[i].out[o].finished /\ F[i].out[o].queue = <<>>
             /\ Whole(F[i], o) => F[i].out[o].written = q.written \o SubSeq(xs, 1, i)
           T == {i \in 0..Len(xs) : P(i)}
<1>2. Len(xs) \in Nat /\ xs \in Seq(Frame) /\ q.written \in Seq(Frame)
  BY <1>0, LenProperties DEF OutFits
<1>3. P(0)
  <2>1. /\ OutFits(r) /\ SameEncoder(q, r) /\ r.finished = q.finished /\ r.frames = q.frames
        /\ r.queue = <<>> /\ r.held = q.held /\ r.sent = q.sent /\ r.written = q.written
    BY <1>0, QueueEmptied
  <2> HIDE DEF r
  <2>0. start = PutOut(m, o, r)
    BY DEF Emptied, r
  <2>2. Moved(m, start) /\ Others(m, start, o) /\ start.out[o] = r
    BY <2>0, <2>1, OutMoved
  <2>3. q.written \o SubSeq(xs, 1, 0) = q.written
    <3>1. SubSeq(xs, 1, 0) = <<>>
      BY SMTT(60), SubSeqEmpty
    <3> QED BY <1>2, <3>1, ConcatEmptySeq
  <2> HIDE DEF start, xs
  <2> QED BY <1>1, <2>1, <2>2, <2>3
<1>4. ASSUME NEW i \in 1..Len(xs), P(i - 1) PROVE P(i)
  <2> DEFINE k == F[i - 1]
             n == F[i]
  <2>1. xs[i] \in Frame /\ SubSeq(xs, 1, i) = Append(SubSeq(xs, 1, i - 1), xs[i]) /\ SubSeq(xs, 1, i - 1) \in Seq(Frame)
    BY SMTT(60), <1>2, OneMore
  <2>2. n = WritePacket(k, o, xs[i], TRUE) /\ Sound(k) /\ k.dest[DestOf[o]].header
    BY <1>0, <1>1, <1>4 DEF Moved
  <2>3. Counted(o, TRUE) = FALSE /\ ~OverLimit(k, o, TRUE)
    BY DEF Counted, OverLimit
  <2>4. /\ Moved(k, n) /\ Others(k, n, o)
        /\ n.out[o].sent = k.out[o].sent /\ n.out[o].held = k.out[o].held
        /\ k.out[o].finished \subseteq n.out[o].finished
        /\ n.out[o].queue = k.out[o].queue
        /\ n.out[o].frames = k.out[o].frames + 0
        /\ Whole(n, o) => Muxed(k.out[o], n.out[o], k.dest[DestOf[o]].header, xs[i])
    <3> HIDE DEF xs, k, n
    <3> QED BY ZenonT(60), <2>1, <2>2, <2>3, WritePacketIs
  <2>5. k.out[o].frames + 0 = k.out[o].frames
    BY <2>2 DEF Sound, OutsFit, OutFits
  <2>6. Whole(n, o) => n.out[o].written = q.written \o SubSeq(xs, 1, i)
    <3> SUFFICES ASSUME Whole(n, o) PROVE n.out[o].written = q.written \o SubSeq(xs, 1, i)
      OBVIOUS
    <3>1. Whole(k, o)
      BY SMTT(60), <2>4, WholeBefore
    <3>2. n.out[o].written = Append(q.written \o SubSeq(xs, 1, i - 1), xs[i])
      BY Zenon, <1>4, <2>2, <2>4, <3>1 DEF Muxed
    <3> DEFINE zs == SubSeq(xs, 1, i - 1)
               w == q.written
    <3>3. zs \in Seq(Frame) /\ w \in Seq(Frame)
      BY <1>2, <2>1
    <3>4. w \o Append(zs, xs[i]) = Append(w \o zs, xs[i])
      <4> HIDE DEF zs, w, xs
      <4> QED BY SMTT(60), <2>1, <3>3, ConcatAppend
    <3> HIDE DEF xs, n
    <3> QED BY ZenonT(60), <2>1, <3>2, <3>4
  <2>7. Moved(m, n) /\ Others(m, n, o)
    BY <1>4, <2>4, MovedTrans, OthersTrans
  <2> HIDE DEF k, xs
  <2> QED BY Zenon, <1>4, <2>4, <2>5, <2>6, <2>7 DEF k
<1> HIDE DEF P
<1>5. \A i \in 0..Len(xs) : i \in T
  <2>1. 0 \in T
    BY <1>2, <1>3
  <2>2. \A i \in 1..Len(xs) : i - 1 \in T => i \in T
    BY <1>2, <1>4
  <2> HIDE DEF T, xs
  <2> QED BY <1>2, <2>1, <2>2, UpTo
<1>6. P(Len(xs))
  BY <1>2, <1>5
<1>7. SubSeq(xs, 1, Len(xs)) = xs
  BY <1>2, SubSeqFull
<1> HIDE DEF xs
<1> QED BY Zenon, <1>1, <1>6, <1>7 DEF P, xs

-----------------------------------------------------------------------------
(* What is written is what was encoded. *)

\* How many packets an encoder has let go, and how many of the first k of them the
\* file gets.
LetGo(r) == Len(r.sent) - Len(r.held)

Quota(m, o, k) == IF CountsPackets(o) THEN Least(m.opt.maxFrames[o], k) ELSE k

\* The first k packets of o are in the file, or wait for it, and have been counted.
Accounted(m, o, k) ==
  /\ m.out[o].written \o m.out[o].queue = SubSeq(m.out[o].sent, 1, Quota(m, o, k))
  /\ CountsPackets(o) => m.out[o].frames = Quota(m, o, k)

\* What the encoder of o holds is the last that it got.
Holding(r, o) ==
  /\ Len(r.held) <= Delay[o] /\ Len(r.held) <= Len(r.sent)
  /\ r.held = SubSeq(r.sent, LetGo(r) + 1, Len(r.sent))

\* The frames of a video stream are counted as they are encoded.
CountedVideo(m, o) ==
  Kind[o] = "video" => m.out[o].frames = Len(m.out[o].sent) /\ m.out[o].frames <= m.opt.maxFrames[o]

Balanced(m, o) ==
  /\ Holding(m.out[o], o)
  /\ Whole(m, o) => Accounted(m, o, LetGo(m.out[o]))
  /\ CountedVideo(m, o)

\* Nothing waits for a header that is there.
NoneWaits(m, o) == m.dest[DestOf[o]].header => m.out[o].queue = <<>>

Packets(m) == \A o \in Output : Balanced(m, o) /\ NoneWaits(m, o)

LEMMA BalancedElsewhere ==
  ASSUME NEW m, NEW n, NEW o \in Output, Moved(m, n), SamePackets(m.out[o], n.out[o]), Balanced(m, o)
  PROVE  Balanced(n, o) /\ (NoneWaits(m, o) => NoneWaits(n, o))
<1>0. DestOf[o] \in Dest
  BY OutputAssumption
<1>1. n.opt = m.opt
  BY DEF Moved, SameRest
<1>2. Holding(n.out[o], o)
  BY DEF Balanced, Holding, SamePackets, LetGo
<1>3. CountedVideo(n, o)
  BY <1>1 DEF Balanced, CountedVideo, SamePackets
<1>4. Whole(n, o) => Whole(m, o)
  BY WholeBefore DEF SamePackets
<1>5. Accounted(m, o, LetGo(m.out[o])) => Accounted(n, o, LetGo(n.out[o]))
  BY <1>1 DEF Accounted, SamePackets, LetGo, Quota
<1>6. NoneWaits(m, o) => NoneWaits(n, o)
  BY <1>0 DEF NoneWaits, Moved, SamePackets
<1> QED BY <1>2, <1>3, <1>4, <1>5, <1>6 DEF Balanced

LEMMA UnqueueBalances ==
  ASSUME NEW m, Sound(m), NEW o \in Output, m.dest[DestOf[o]].header, Balanced(m, o)
  PROVE  Balanced(Unqueue(m, o), o) /\ NoneWaits(Unqueue(m, o), o)
<1> DEFINE n == Unqueue(m, o)
<1>1. /\ Moved(m, n) /\ Others(m, n, o)
      /\ n.out[o].sent = m.out[o].sent /\ n.out[o].held = m.out[o].held
      /\ n.out[o].frames = m.out[o].frames
      /\ m.out[o].finished \subseteq n.out[o].finished
      /\ n.out[o].queue = <<>>
      /\ Whole(n, o) => n.out[o].written = m.out[o].written \o m.out[o].queue
  BY UnqueueIs
<1> HIDE DEF n
<1>2. n.opt = m.opt
  BY <1>1 DEF Moved, SameRest
<1>3. Holding(n.out[o], o) /\ LetGo(n.out[o]) = LetGo(m.out[o])
  BY <1>1 DEF Balanced, Holding, LetGo
<1>4. CountedVideo(n, o)
  BY <1>1, <1>2 DEF Balanced, CountedVideo
<1>5. Whole(n, o) => Accounted(n, o, LetGo(n.out[o]))
  <2> SUFFICES ASSUME Whole(n, o) PROVE Accounted(n, o, LetGo(n.out[o]))
    OBVIOUS
  <2>1. Whole(m, o)
    BY <1>1, WholeBefore
  <2>2. Accounted(m, o, LetGo(m.out[o]))
    BY <2>1 DEF Balanced
  <2>3. n.out[o].written \o n.out[o].queue = n.out[o].written
    <3>1. n.out[o].written \in Seq(Frame)
      BY <1>1 DEF Moved, Sound, OutsFit, OutFits
    <3> QED BY SMTT(60), <1>1, <3>1, ConcatEmptySeq
  <2> QED BY <1>1, <1>2, <1>3, <2>2, <2>3 DEF Accounted, Quota
<1> QED BY SMTT(60), <1>1, <1>3, <1>4, <1>5 DEF n, Balanced, NoneWaits

-----------------------------------------------------------------------------
(* Initializing an output stream. *)

HeaderPut(m, d) == PutDest(m, d, [m.dest[d] EXCEPT !.header = TRUE])

\* F lists what becomes of m as the header of d is written.
IsHeader(F, m, d) ==
  /\ F[0] = HeaderPut(m, d) /\ CheckInitOutputFile(m, d) = F[NumOutputs]
  /\ \A i \in Output : F[i] = UnqueueIf(d, F[i - 1], i)

LEMMA HeaderSteps ==
  ASSUME NEW m, NEW d, \A o \in Siblings(d) : m.out[o].initialized
  PROVE  \E F : IsHeader(F, m, d)
<1> DEFINE start == HeaderPut(m, d)
<1>1. NumOutputs \in Nat /\ DOMAIN InOrder = 1..NumOutputs /\ \A o \in Output : InOrder[o] = o
  BY OutputAssumption DEF InOrder, Output
<1>2. CheckInitOutputFile(m, d) = HeaderWrites!Fold(d, start, InOrder)
  BY DEF CheckInitOutputFile, UnqueueIf, HeaderPut, PutDest, FoldLeft, HeaderWrites!Fold, MapThenFoldSet, Max,
         HeaderWrites!Greatest
<1> HIDE DEF start
<1>3. PICK F : HeaderWrites!Steps(d, F, start, InOrder, NumOutputs) /\ HeaderWrites!Fold(d, start, InOrder) = F[NumOutputs]
  <2>1. NumOutputs \in Nat /\ DOMAIN InOrder = 1..NumOutputs
    BY <1>1
  <2> DEFINE seq == InOrder
  <2> HIDE DEF seq
  <2>2. NumOutputs \in Nat
    BY <2>1
  <2>3. DOMAIN seq = 1..NumOutputs
    BY <2>1 DEF seq
  <2>4. \E F : HeaderWrites!Steps(d, F, start, seq, NumOutputs) /\ HeaderWrites!Fold(d, start, seq) = F[NumOutputs]
    BY <2>2, <2>3, LeastNat, HeaderWrites!FoldSteps DEF HeaderWrites!WellOrdered
  <2> QED BY <2>4 DEF seq
<1> QED BY <1>1, <1>2, <1>3 DEF HeaderWrites!Steps, Output, start, IsHeader

\* Written with its header, the file d has what waited for it.
HeaderWritten(m, n, d) ==
  /\ Sound(n) /\ SameRest(m, n) /\ SameEncoders(m, n)
  /\ n.how = m.how \/ n.how = "abort"
  /\ n.dest[d].header /\ \A e \in Dest \ {d} : n.dest[e].header = m.dest[e].header
  /\ Packets(m) => Packets(n)

LEMMA HeaderIs ==
  ASSUME NEW m, Sound(m), NEW d \in Dest, \A o \in Siblings(d) : m.out[o].initialized
  PROVE  HeaderWritten(m, CheckInitOutputFile(m, d), d)
<1> DEFINE e == [m.dest[d] EXCEPT !.header = TRUE]
           k == HeaderPut(m, d)
<1>1. DestFits(e) /\ e.header /\ e.broken = m.dest[d].broken
  BY DEF Sound, DestsFit, DestFits, DestFields
<1>2. k = PutDest(m, d, e)
  BY DEF HeaderPut
<1> HIDE DEF e, k
<1>3. /\ Sound(k) /\ SameRest(m, k) /\ k.out = m.out /\ k.how = m.how
      /\ k.dest[d] = e /\ \A x \in Dest \ {d} : k.dest[x] = m.dest[x]
  BY <1>1, <1>2, DestPut
<1>4. PICK F : IsHeader(F, m, d)
  BY HeaderSteps
<1>5. /\ F[0] = k /\ CheckInitOutputFile(m, d) = F[NumOutputs]
      /\ \A i \in Output : F[i] = UnqueueIf(d, F[i - 1], i)
  BY <1>4 DEF IsHeader, k
<1> DEFINE P(i) ==
             /\ Moved(k, F[i])
             /\ Packets(m) => \A o \in Output :
                  Balanced(F[i], o) /\ (o \notin Siblings(d) \/ o <= i => NoneWaits(F[i], o))
           T == {i \in 0..NumOutputs : P(i)}
<1>6. NumOutputs \in Nat /\ Output = 1..NumOutputs
  BY OutputAssumption DEF Output
<1>7. P(0)
  <2>1. Moved(k, k)
    BY <1>3, MovedRefl
  <2>2. ASSUME NEW o \in Output, Packets(m)
        PROVE  Balanced(k, o) /\ (o \notin Siblings(d) => NoneWaits(k, o))
    <3>1. Balanced(m, o) /\ NoneWaits(m, o) /\ k.opt = m.opt /\ DestOf[o] \in Dest
      BY <1>3, <2>2, OutputAssumption DEF Packets, SameRest
    <3>2. k.dest[DestOf[o]].broken = m.dest[DestOf[o]].broken
      BY <1>1, <1>3, <3>1
    <3>3. Whole(k, o) <=> Whole(m, o)
      BY <1>3, <3>2 DEF Whole
    <3>4. Accounted(m, o, LetGo(m.out[o])) => Accounted(k, o, LetGo(k.out[o]))
      BY <1>3, <3>1 DEF Accounted, Quota
    <3>5. Holding(k.out[o], o) /\ CountedVideo(k, o)
      BY <1>3, <3>1 DEF Balanced, CountedVideo
    <3>6. o \notin Siblings(d) => NoneWaits(k, o)
      BY <1>3, <3>1 DEF NoneWaits, Siblings
    <3> QED BY <3>1, <3>3, <3>4, <3>5, <3>6 DEF Balanced
  <2>3. \A o \in Output : ~(o <= 0)
    BY <1>6
  <2> QED BY <1>5, <2>1, <2>2, <2>3
<1>8. ASSUME NEW i \in Output, P(i - 1) PROVE P(i)
  <2> DEFINE l == F[i - 1]
             n == F[i]
  <2>1. n = UnqueueIf(d, l, i) /\ Sound(l) /\ l.dest[d].header
    BY <1>1, <1>3, <1>5, <1>8 DEF Moved
  <2>2. CASE i \notin Siblings(d)
    <3>1. n = l
      BY <2>1, <2>2 DEF UnqueueIf
    <3>2. \A o \in Output : o \notin Siblings(d) \/ o <= i => o \notin Siblings(d) \/ o <= i - 1
      BY <1>6, <2>2
    <3> QED BY <1>8, <3>1, <3>2
  <2>3. CASE i \in Siblings(d)
    <3>1. n = Unqueue(l, i) /\ DestOf[i] = d
      BY <2>1, <2>3 DEF UnqueueIf, Siblings
    <3> HIDE DEF l, n
    <3>2. Moved(l, n) /\ Others(l, n, i)
      BY <2>1, <3>1, UnqueueIs
    <3>3. Moved(k, n)
      BY <1>8, <3>2, MovedTrans DEF l
    <3>4. ASSUME NEW o \in Output, Packets(m)
          PROVE  Balanced(n, o) /\ (o \notin Siblings(d) \/ o <= i => NoneWaits(n, o))
      <4>1. Balanced(l, o) /\ Balanced(l, i) /\ (o \notin Siblings(d) \/ o <= i - 1 => NoneWaits(l, o))
        BY <1>8, <3>4 DEF l
      <4>2. CASE o = i
        BY <2>1, <3>1, <4>1, <4>2, UnqueueBalances
      <4>3. CASE o # i
        <5>1. SamePackets(l.out[o], n.out[o])
          BY <3>2, <4>3 DEF Others
        <5>2. Balanced(n, o) /\ (NoneWaits(l, o) => NoneWaits(n, o))
          BY <3>2, <4>1, <5>1, BalancedElsewhere
        <5>3. o <= i => o <= i - 1
          BY <1>6, <4>3
        <5> QED BY <4>1, <5>2, <5>3
      <4> QED BY <4>2, <4>3
    <3> QED BY <3>3, <3>4 DEF n
  <2> QED BY <2>2, <2>3
<1> HIDE DEF P
<1>9. \A i \in 0..NumOutputs : i \in T
  <2>1. 0 \in T
    BY <1>6, <1>7
  <2>2. \A i \in 1..NumOutputs : i - 1 \in T => i \in T
    BY <1>6, <1>8
  <2> HIDE DEF T
  <2> QED BY <1>6, <2>1, <2>2, UpTo
<1>10. P(NumOutputs)
  BY <1>6, <1>9
<1> DEFINE n == CheckInitOutputFile(m, d)
<1>11. Moved(k, n) /\ (Packets(m) => Packets(n))
  <2>1. \A o \in Output : o <= NumOutputs
    BY <1>6
  <2> QED BY <1>5, <1>10, <2>1 DEF P, Packets
<1> HIDE DEF n
<1>12. SameRest(m, n) /\ SameEncoders(m, n)
  <2>1. SameEncoders(m, k)
    BY <1>3 DEF SameEncoders, SameEncoder
  <2> QED BY <1>3, <1>11, <2>1, Trans DEF Moved
<1> QED BY <1>1, <1>3, <1>11, <1>12 DEF n, HeaderWritten, Moved

-----------------------------------------------------------------------------
(* Finishing. *)

\* A step of the output side after which the packets are still accounted for.
Quiet(m, n) == Moved(m, n) /\ (Packets(m) => Packets(n))

LEMMA QuietRefl ==
  ASSUME NEW m, Sound(m)
  PROVE  Quiet(m, m)
BY MovedRefl DEF Quiet

LEMMA QuietTrans ==
  ASSUME NEW l, NEW m, NEW n, Quiet(l, m), Quiet(m, n)
  PROVE  Quiet(l, n)
BY MovedTrans DEF Quiet

LEMMA FinishedIsQuiet ==
  ASSUME NEW m, NEW n, Moved(m, n), OnlyFinished(m, n)
  PROVE  Quiet(m, n)
BY BalancedElsewhere DEF Quiet, Packets, OnlyFinished

\* To close o, or to finish a set of streams, is to add to finished.
LEMMA CloseOutputIs ==
  ASSUME NEW m, Sound(m), NEW o \in Output
  PROVE  Quiet(m, CloseOutput(m, o)) /\ OnlyFinished(m, CloseOutput(m, o))
<1> DEFINE d == DestOf[o]
           n == CloseOutput(m, o)
           r == [m.out[o] EXCEPT !.finished = @ \cup {"encoder"}]
           until == IF m.opt.shortest[d] /\ m.out[o].sync < m.dest[d].until
                    THEN m.out[o].sync ELSE m.dest[d].until
           e == [m.dest[d] EXCEPT !.until = until]
           k == PutOut(m, o, r)
<1>0. d \in Dest /\ DestFits(m.dest[d]) /\ OutFits(m.out[o])
  BY OutputAssumption DEF Sound, OutsFit, DestsFit
<1>1. DestFits(e) /\ e.broken = m.dest[d].broken /\ e.header = m.dest[d].header
  <2>1. until \in Nat
    BY <1>0 DEF OutFits, DestFits
  <2> HIDE DEF until
  <2> QED BY <1>0, <2>1 DEF DestFits, DestFields
<1>2. OutFits(r) /\ SameEncoder(m.out[o], r) /\ SamePackets(m.out[o], r)
  <2>1. {"encoder"} \in SUBSET Both
    BY DEF Both
  <2> QED BY <1>0, <2>1, FinishedMore
<1>3. n = PutDest(k, d, e)
  BY DEF CloseOutput, PutOut, PutDest
<1> HIDE DEF n, r, e, k
<1>4. Moved(m, k) /\ Others(m, k, o) /\ k.out[o] = r /\ k.dest = m.dest /\ k.how = m.how
  BY <1>2, OutMoved DEF k
<1>5. /\ Sound(n) /\ SameRest(k, n) /\ n.out = k.out /\ n.how = k.how
      /\ n.dest[d] = e /\ \A x \in Dest \ {d} : n.dest[x] = k.dest[x]
  <2>1. Sound(k)
    BY <1>4 DEF Moved
  <2> HIDE DEF d
  <2> QED BY SMTT(60), <1>0, <1>1, <1>3, <2>1, DestPut
<1>6. Moved(k, n)
  <2>1. SameEncoders(k, n)
    BY <1>5 DEF SameEncoders, SameEncoder
  <2> QED BY <1>1, <1>4, <1>5, <2>1 DEF Moved
<1>7. Moved(m, n)
  BY <1>4, <1>6, MovedTrans
<1>8. OnlyFinished(m, n)
  BY <1>2, <1>4, <1>5 DEF OnlyFinished, Others
<1> QED BY <1>7, <1>8, FinishedIsQuiet DEF n

LEMMA FinishOutputIs ==
  ASSUME NEW m, Sound(m), NEW o \in Output
  PROVE  Quiet(m, FinishOutput(m, o)) /\ OnlyFinished(m, FinishOutput(m, o))
<1> DEFINE over == IF m.opt.shortest[DestOf[o]] THEN Siblings(DestOf[o]) ELSE {o}
           n == FinishOutput(m, o)
<1>1. n = [m EXCEPT !.out = [p \in Output |-> IF p \in over THEN [m.out[p] EXCEPT !.finished = Both] ELSE m.out[p]]]
  BY DEF FinishOutput
<1> HIDE DEF over, n
<1>2. /\ DOMAIN n = StateFields /\ DOMAIN n.out = Output /\ SameRest(m, n)
      /\ n.dest = m.dest /\ n.how = m.how
      /\ n.out = [p \in Output |-> IF p \in over THEN [m.out[p] EXCEPT !.finished = Both] ELSE m.out[p]]
  BY <1>1 DEF Sound, StateFields, SameRest
<1>3. ASSUME NEW p \in Output
      PROVE  OutFits(n.out[p]) /\ SameEncoder(m.out[p], n.out[p]) /\ SamePackets(m.out[p], n.out[p])
  <2>1. OutFits(m.out[p]) /\ Both \in SUBSET Both
    BY DEF Sound, OutsFit
  <2>2. CASE p \in over
    <3>1. m.out[p].finished \cup Both = Both
      BY <2>1 DEF OutFits
    <3>2. n.out[p] = [m.out[p] EXCEPT !.finished = @ \cup Both]
      BY <1>2, <2>2, <3>1
    <3> QED BY <2>1, <3>2, FinishedMore
  <2>3. CASE p \notin over
    BY <1>2, <2>1, <2>3 DEF SameEncoder, SamePackets
  <2> QED BY <2>2, <2>3
<1>4. Sound(n)
  BY <1>2, <1>3 DEF Sound, OutsFit, DestsFit, SameRest
<1>5. Moved(m, n)
  BY <1>2, <1>3, <1>4 DEF Moved, SameEncoders
<1> QED BY <1>3, <1>5, FinishedIsQuiet DEF n, OnlyFinished

\* F lists what becomes of m as the output streams of s are closed.
IsClosing(F, m, s) ==
  /\ F[0] = m /\ CloseOutputs(m, s) = F[NumOutputs]
  /\ \A i \in Output : F[i] = CloseIf(s, F[i - 1], i)

LEMMA CloseSteps ==
  ASSUME NEW m, NEW s
  PROVE  \E F : IsClosing(F, m, s)
<1> DEFINE seq == InOrder
<1>1. NumOutputs \in Nat /\ Output = 1..NumOutputs /\ \A o \in Output : seq[o] = o
  BY OutputAssumption DEF InOrder, Output
<1>2. DOMAIN seq = 1..NumOutputs
  BY DEF InOrder, Output
<1>3. CloseOutputs(m, s) = Closes!Fold(s, m, seq)
  BY DEF CloseOutputs, CloseIf, FoldLeft, Closes!Fold, MapThenFoldSet, Max,
         Closes!Greatest
<1> HIDE DEF seq
<1>4. PICK F : Closes!Steps(s, F, m, seq, NumOutputs) /\ Closes!Fold(s, m, seq) = F[NumOutputs]
  <2>1. NumOutputs \in Nat
    BY <1>1
  <2> QED BY <1>2, <2>1, LeastNat, Closes!FoldSteps DEF Closes!WellOrdered
<1> QED BY <1>1, <1>3, <1>4 DEF Closes!Steps, IsClosing

LEMMA CloseOutputsIs ==
  ASSUME NEW m, Sound(m), NEW s
  PROVE  Quiet(m, CloseOutputs(m, s)) /\ OnlyFinished(m, CloseOutputs(m, s))
<1>1. PICK F : IsClosing(F, m, s)
  BY CloseSteps
<1>2. /\ F[0] = m /\ CloseOutputs(m, s) = F[NumOutputs]
      /\ \A i \in Output : F[i] = CloseIf(s, F[i - 1], i)
  BY <1>1 DEF IsClosing
<1> DEFINE P(i) == Quiet(m, F[i]) /\ OnlyFinished(m, F[i])
           T == {i \in 0..NumOutputs : P(i)}
<1>3. NumOutputs \in Nat /\ Output = 1..NumOutputs
  BY OutputAssumption DEF Output
<1>4. P(0)
  BY <1>2, QuietRefl DEF OnlyFinished, SamePackets
<1>5. ASSUME NEW i \in Output, P(i - 1) PROVE P(i)
  <2> DEFINE l == F[i - 1]
             n == F[i]
  <2>1. n = CloseIf(s, l, i) /\ Sound(l)
    BY <1>2, <1>5 DEF Quiet, Moved
  <2>2. Quiet(l, n) /\ OnlyFinished(l, n)
    BY <2>1, CloseOutputIs, QuietRefl DEF CloseIf, OnlyFinished, SamePackets
  <2> QED BY <1>5, <2>2, QuietTrans DEF OnlyFinished, SamePackets
<1> HIDE DEF P
<1>6. \A i \in 0..NumOutputs : i \in T
  <2>1. 0 \in T
    BY <1>3, <1>4
  <2>2. \A i \in 1..NumOutputs : i - 1 \in T => i \in T
    BY <1>3, <1>5
  <2> HIDE DEF T
  <2> QED BY <1>3, <2>1, <2>2, UpTo
<1>7. P(NumOutputs)
  BY <1>3, <1>6
<1> QED BY <1>2, <1>7 DEF P

-----------------------------------------------------------------------------
(* Encoding. *)

LEMMA MuxedAppends ==
  ASSUME NEW q, OutFits(q), NEW r, OutFits(r), NEW header \in BOOLEAN, NEW p \in Frame,
         Muxed(q, r, header, p), header => q.queue = <<>>
  PROVE  r.written \o r.queue = Append(q.written \o q.queue, p)
<1> DEFINE w == q.written
           x == q.queue
<1>1. w \in Seq(Frame) /\ x \in Seq(Frame) /\ Append(w, p) \in Seq(Frame)
  BY AppendProperties DEF OutFits
<1>2. CASE header
  <2>1. r.written = Append(w, p) /\ r.queue = <<>> /\ x = <<>>
    BY <1>2 DEF Muxed
  <2> HIDE DEF w, x
  <2> QED BY <1>1, <2>1, ConcatEmptySeq DEF w, x
<1>3. CASE ~header
  <2>1. r.written = w /\ r.queue = Append(x, p)
    BY <1>3 DEF Muxed
  <2>2. w \o Append(x, p) = Append(w \o x, p)
    <3> HIDE DEF w, x
    <3> QED BY SMTT(60), <1>1, ConcatAppend
  <2> QED BY <2>1, <2>2
<1> QED BY <1>2, <1>3

\* The next packet of o is written.
LEMMA WriteNext ==
  ASSUME NEW m, Sound(m), NEW o \in Output, NoneWaits(m, o),
         NEW k \in Nat, k < Len(m.out[o].sent), Whole(m, o) => Accounted(m, o, k)
  PROVE  LET n == WritePacket(m, o, m.out[o].sent[k + 1], FALSE)
         IN /\ Moved(m, n) /\ Others(m, n, o) /\ NoneWaits(n, o)
            /\ n.out[o].sent = m.out[o].sent /\ n.out[o].held = m.out[o].held
            /\ m.out[o].finished \subseteq n.out[o].finished
            /\ ~CountsPackets(o) => n.out[o].frames = m.out[o].frames
            /\ Whole(n, o) => Accounted(n, o, k + 1)
<1> DEFINE q == m.out[o]
           p == q.sent[k + 1]
           n == WritePacket(m, o, p, FALSE)
           header == m.dest[DestOf[o]].header
           max == m.opt.maxFrames[o]
<1>0. OutFits(q) /\ max \in Nat /\ DestOf[o] \in Dest /\ header \in BOOLEAN
  BY OutputAssumption DEF Sound, OutsFit, OptFits, DestsFit, DestFits
<1>1. /\ p \in Frame /\ SubSeq(q.sent, 1, k) \in Seq(Frame)
      /\ SubSeq(q.sent, 1, k + 1) = Append(SubSeq(q.sent, 1, k), p)
  <2> DEFINE xs == q.sent
  <2>1. xs \in Seq(Frame) /\ k + 1 \in 1..Len(xs) /\ (k + 1) - 1 = k
    BY <1>0, LenProperties DEF OutFits
  <2> HIDE DEF xs
  <2> QED BY <2>1, OneMore DEF xs
<1>2. /\ Moved(m, n) /\ Others(m, n, o)
      /\ n.out[o].sent = q.sent /\ n.out[o].held = q.held
      /\ q.finished \subseteq n.out[o].finished
      /\ header => n.out[o].queue = q.queue
      /\ n.out[o].frames = q.frames + (IF Counted(o, FALSE) /\ ~OverLimit(m, o, FALSE) THEN 1 ELSE 0)
      /\ OverLimit(m, o, FALSE) => n = m
      /\ Whole(n, o) /\ ~OverLimit(m, o, FALSE) => Muxed(q, n.out[o], header, p)
  <2>1. FALSE \in BOOLEAN
    OBVIOUS
  <2> HIDE DEF p
  <2> QED BY <1>1, <2>1, WritePacketIs
<1>3. Counted(o, FALSE) <=> CountsPackets(o)
  BY DEF Counted
<1> HIDE DEF n
<1>4. NoneWaits(n, o)
  BY <1>0, <1>2 DEF NoneWaits, Moved
<1>5. ~CountsPackets(o) => n.out[o].frames = q.frames
  <2>1. q.frames + 0 = q.frames
    BY SMTT(60), <1>0 DEF OutFits
  <2> QED BY <1>2, <1>3, <2>1
<1>6. ASSUME Whole(n, o) PROVE Accounted(n, o, k + 1)
  <2>1. Whole(m, o)
    BY <1>2, <1>6, WholeBefore
  <2>2. Accounted(m, o, k) /\ n.opt = m.opt
    BY <1>2, <2>1 DEF Moved, SameRest
  <2>3. CASE OverLimit(m, o, FALSE)
    <3>1. CountsPackets(o) /\ q.frames >= max /\ n = m
      BY <1>2, <1>3, <2>3 DEF OverLimit
    <3>2. Quota(m, o, k + 1) = Quota(m, o, k)
      BY <1>0, <2>2, <3>1 DEF Accounted, Quota, Least
    <3> QED BY <2>2, <3>1, <3>2 DEF Accounted
  <2>4. CASE ~OverLimit(m, o, FALSE)
    <3>1. Muxed(q, n.out[o], header, p)
      BY <1>2, <1>6, <2>4
    <3>2. /\ Quota(m, o, k) = k /\ Quota(n, o, k + 1) = k + 1
          /\ CountsPackets(o) => n.out[o].frames = k + 1
      <4>1. CASE CountsPackets(o)
        <5>0. q.frames \in Nat /\ ~(q.frames >= max)
          BY <1>0, <1>3, <2>4, <4>1 DEF OverLimit, OutFits
        <5>1. q.frames < max /\ q.frames = Least(max, k) /\ n.out[o].frames = q.frames + 1
          <6>1. q.frames = Quota(m, o, k)
            BY <2>2, <4>1 DEF Accounted
          <6>2. n.out[o].frames = q.frames + 1
            BY <1>2, <1>3, <2>4, <4>1
          <6> QED BY <1>0, <4>1, <5>0, <6>1, <6>2 DEF Quota
        <5>2. k < max /\ q.frames = k
          BY <1>0, <5>1 DEF Least
        <5> QED BY <1>0, <2>2, <4>1, <5>1, <5>2 DEF Quota, Least
      <4>2. CASE ~CountsPackets(o)
        BY <4>2 DEF Quota
      <4> QED BY <4>1, <4>2
    <3>3. n.out[o].written \o n.out[o].queue = Append(q.written \o q.queue, p)
      <4>1. OutFits(n.out[o]) /\ (header => q.queue = <<>>)
        BY <1>2 DEF Moved, Sound, OutsFit, NoneWaits
      <4> HIDE DEF q, p, header
      <4> QED BY <1>0, <1>1, <3>1, <4>1, MuxedAppends
    <3>4. q.written \o q.queue = SubSeq(q.sent, 1, k)
      BY SMTT(60), <2>2, <3>2 DEF Accounted
    <3>5. n.out[o].written \o n.out[o].queue = SubSeq(n.out[o].sent, 1, k + 1)
      BY <1>1, <1>2, <3>3, <3>4
    <3> QED BY <3>2, <3>5 DEF Accounted
  <2> QED BY <2>3, <2>4
<1> QED BY Zenon, <1>2, <1>4, <1>5, <1>6 DEF n

\* One more frame at the end of a sequence and of its last part.
LEMMA HoldMore ==
  ASSUME NEW xs \in Seq(Frame), NEW zs \in Seq(Frame), NEW x \in Frame, Len(zs) <= Len(xs),
         zs = SubSeq(xs, Len(xs) - Len(zs) + 1, Len(xs))
  PROVE  LET k == Len(xs) - Len(zs)
             ys == Append(xs, x)
             hs == Append(zs, x)
         IN /\ ys \in Seq(Frame) /\ hs \in Seq(Frame) /\ Tail(hs) \in Seq(Frame)
            /\ Len(ys) = Len(xs) + 1 /\ Len(hs) = Len(zs) + 1 /\ Len(Tail(hs)) = Len(zs)
            /\ hs = SubSeq(ys, k + 1, Len(ys)) /\ Tail(hs) = SubSeq(ys, k + 2, Len(ys))
            /\ Head(hs) = ys[k + 1] /\ k \in Nat
            /\ \A j \in 0..Len(xs) : SubSeq(ys, 1, j) = SubSeq(xs, 1, j)
<1> DEFINE k == Len(xs) - Len(zs)
           ys == Append(xs, x)
           hs == Append(zs, x)
<1>1. Len(xs) \in Nat /\ Len(zs) \in Nat /\ k \in Nat
  BY LenProperties
<1>2. /\ ys \in Seq(Frame) /\ Len(ys) = Len(xs) + 1 /\ ys[Len(xs) + 1] = x
      /\ \A j \in 1..Len(xs) : ys[j] = xs[j]
  BY AppendProperties
<1>3. /\ hs \in Seq(Frame) /\ Len(hs) = Len(zs) + 1 /\ hs[Len(zs) + 1] = x
      /\ \A j \in 1..Len(zs) : hs[j] = zs[j]
  BY AppendProperties
<1>n. Len(xs) = k + Len(zs) /\ k + Len(zs) + 1 = Len(xs) + 1 /\ k + 1 \in Nat /\ k + 2 \in Nat
  BY <1>1
<1> HIDE DEF ys, hs
<1>4. \A j \in 1..Len(zs) : zs[j] = xs[k + j]
  <2>1. zs = SubSeq(xs, k + 1, Len(xs))
    OBVIOUS
  <2> HIDE DEF k
  <2>2. \A j \in (k + 1)..Len(xs) : xs[j] \in Frame
    BY <1>1, ElementOfSeq
  <2>3. \A j \in 1..(Len(xs) - (k + 1) + 1) : SubSeq(xs, k + 1, Len(xs))[j] = xs[(k + 1) + j - 1]
    BY <1>1, <2>2, SubSeqProperties
  <2>4. Len(xs) - (k + 1) + 1 = Len(zs) /\ \A j \in 1..Len(zs) : (k + 1) + j - 1 = k + j
    BY <1>1, <1>n
  <2> QED BY <2>1, <2>3, <2>4
<1> HIDE DEF k
<1>5. ASSUME NEW j \in 1..Len(hs) PROVE hs[j] = ys[k + j]
  <2>1. CASE j = Len(zs) + 1
    <3>1. k + j = Len(xs) + 1
      BY <1>1, <1>n, <2>1
    <3> QED BY <1>2, <1>3, <2>1, <3>1
  <2>2. CASE j # Len(zs) + 1
    <3>1. j \in 1..Len(zs) /\ k + j \in 1..Len(xs)
      BY <1>1, <1>3, <1>n, <2>2
    <3> QED BY <1>2, <1>3, <1>4, <3>1
  <2> QED BY <2>1, <2>2
<1>6. /\ Tail(hs) \in Seq(Frame) /\ Len(Tail(hs)) = Len(zs) /\ Head(hs) = hs[1]
      /\ \A j \in 1..Len(zs) : Tail(hs)[j] = hs[j + 1]
  BY <1>1, <1>3, HeadTailProperties
<1>7. ASSUME NEW a \in Nat, NEW b \in Int, NEW vs \in Seq(Frame), a >= 1, b <= Len(ys), Len(vs) = IF a <= b THEN b - a + 1 ELSE 0,
             \A j \in 1..Len(vs) : vs[j] = ys[a + j - 1]
      PROVE  vs = SubSeq(ys, a, b)
  <2>1. \A j \in a..b : ys[j] \in Frame
    BY <1>2, <1>7, ElementOfSeq
  <2>2. /\ SubSeq(ys, a, b) \in Seq(Frame)
        /\ Len(SubSeq(ys, a, b)) = IF a <= b THEN b - a + 1 ELSE 0
        /\ \A j \in 1..(b - a + 1) : SubSeq(ys, a, b)[j] = ys[a + j - 1]
    BY <1>2, <1>7, <2>1, SubSeqProperties
  <2>3. \A j \in 1..Len(vs) : vs[j] = SubSeq(ys, a, b)[j]
    BY <1>2, <1>7, <2>2
  <2> QED BY <1>7, <2>2, <2>3, SeqEqual
<1>8. hs = SubSeq(ys, k + 1, Len(ys))
  <2>1. /\ k + 1 \in Nat /\ k + 1 >= 1 /\ Len(ys) \in Int /\ Len(ys) <= Len(ys)
        /\ Len(hs) = IF k + 1 <= Len(ys) THEN Len(ys) - (k + 1) + 1 ELSE 0
    BY <1>1, <1>2, <1>3, <1>n
  <2>2. \A j \in 1..Len(hs) : (k + 1) + j - 1 = k + j
    BY <1>1, <1>3
  <2>3. \A j \in 1..Len(hs) : hs[j] = ys[(k + 1) + j - 1]
    BY <1>5, <2>2
  <2>4. hs \in Seq(Frame)
    BY <1>3
  <2> QED BY <1>7, <2>1, <2>3, <2>4
<1>9. Tail(hs) = SubSeq(ys, k + 2, Len(ys))
  <2> DEFINE ts == Tail(hs)
  <2>1. k + 2 \in Nat /\ k + 2 >= 1 /\ Len(ys) \in Int
        /\ Len(ts) = IF k + 2 <= Len(ys) THEN Len(ys) - (k + 2) + 1 ELSE 0
    <3>1. Len(ys) - (k + 2) + 1 = Len(zs) /\ (k + 2 <= Len(ys) <=> Len(zs) > 0)
      BY <1>1, <1>2, <1>n
    <3>2. Len(ts) = Len(zs)
      BY <1>6
    <3> HIDE DEF ts
    <3> QED BY <1>1, <1>2, <3>1, <3>2, <1>n
  <2>2. ASSUME NEW j \in 1..Len(ts) PROVE ts[j] = ys[(k + 2) + j - 1]
    <3>1. j \in 1..Len(zs) /\ j + 1 \in 1..Len(hs) /\ k + (j + 1) = (k + 2) + j - 1
      BY <1>1, <1>3, <1>6
    <3>2. ts[j] = hs[j + 1] /\ hs[j + 1] = ys[k + (j + 1)]
      BY <1>5, <1>6, <3>1
    <3> QED BY <3>1, <3>2
  <2>3. ts \in Seq(Frame) /\ Len(ys) <= Len(ys)
    BY <1>1, <1>2, <1>6
  <2> HIDE DEF k, ts
  <2> QED BY <1>2, <1>7, <2>1, <2>2, <2>3 DEF ts
<1>10. Head(hs) = ys[k + 1]
  BY <1>1, <1>3, <1>5, <1>6
<1>11. ASSUME NEW j \in 0..Len(xs) PROVE SubSeq(ys, 1, j) = SubSeq(xs, 1, j)
  <2> DEFINE vs == SubSeq(xs, 1, j)
  <2>1. \A i \in 1..j : xs[i] \in Frame
    BY <1>1, ElementOfSeq
  <2>2. /\ vs \in Seq(Frame) /\ Len(vs) = IF 1 <= j THEN j - 1 + 1 ELSE 0
        /\ \A i \in 1..(j - 1 + 1) : vs[i] = xs[1 + i - 1]
    BY <1>1, <2>1, SubSeqProperties
  <2> HIDE DEF vs
  <2>3. \A i \in 1..Len(vs) : vs[i] = ys[1 + i - 1]
    BY <1>1, <1>2, <2>2
  <2>4. 1 \in Nat /\ j \in Int /\ 1 >= 1 /\ j <= Len(ys)
    BY <1>1, <1>2
  <2>5. vs = SubSeq(ys, 1, j)
    BY <1>7, <2>2, <2>3, <2>4
  <2> QED BY <2>5 DEF vs
<1> QED BY <1>1, <1>2, <1>3, <1>6, <1>8, <1>9, <1>10, <1>11 DEF ys, hs, k

\* zs is the last of xs, from place k + 1 on; and the same with one more frame.
LastOf(xs, zs, k) ==
  Len(zs) <= Len(xs) /\ k = Len(xs) - Len(zs) /\ zs = SubSeq(xs, k + 1, Len(xs))

LastOfMore(xs, ys, hs, k) ==
  /\ ys \in Seq(Frame) /\ hs \in Seq(Frame) /\ Tail(hs) \in Seq(Frame) /\ k \in Nat
  /\ LastOf(ys, hs, k) /\ LastOf(ys, Tail(hs), k + 1)
  /\ Len(Tail(hs)) = Len(hs) - 1 /\ Head(hs) = ys[k + 1]
  /\ \A j \in 0..k : SubSeq(ys, 1, j) = SubSeq(xs, 1, j)

LEMMA HoldNext ==
  ASSUME NEW xs \in Seq(Frame), NEW zs \in Seq(Frame), NEW x \in Frame, NEW k, LastOf(xs, zs, k)
  PROVE  LastOfMore(xs, Append(xs, x), Append(zs, x), k)
<1> DEFINE l == Len(xs) - Len(zs)
           ys == Append(xs, x)
           hs == Append(zs, x)
<1>1. k = l /\ Len(zs) <= Len(xs) /\ zs = SubSeq(xs, Len(xs) - Len(zs) + 1, Len(xs))
  BY DEF LastOf
<1>2. /\ ys \in Seq(Frame) /\ hs \in Seq(Frame) /\ Tail(hs) \in Seq(Frame)
      /\ Len(ys) = Len(xs) + 1 /\ Len(hs) = Len(zs) + 1 /\ Len(Tail(hs)) = Len(zs)
      /\ hs = SubSeq(ys, l + 1, Len(ys)) /\ Tail(hs) = SubSeq(ys, l + 2, Len(ys))
      /\ Head(hs) = ys[l + 1] /\ l \in Nat
      /\ \A j \in 0..Len(xs) : SubSeq(ys, 1, j) = SubSeq(xs, 1, j)
  <2>1. zs = SubSeq(xs, Len(xs) - Len(zs) + 1, Len(xs)) /\ Len(zs) <= Len(xs)
    BY <1>1
  <2> QED BY <2>1, HoldMore
<1>3. Len(xs) \in Nat /\ Len(zs) \in Nat
  BY LenProperties
<1> DEFINE a == Len(xs)
           b == Len(zs)
           c == Len(ys)
           d == Len(hs)
           e == Len(Tail(hs))
<1>4. b <= a /\ k = a - b /\ a \in Nat /\ b \in Nat /\ k \in Nat /\ c = a + 1 /\ d = b + 1 /\ e = b
  BY <1>1, <1>2, <1>3
<1> HIDE DEF a, b, c, d, e
<1>5. k = c - d /\ k + 1 = c - e /\ d <= c /\ e <= c /\ 0..k \subseteq 0..a /\ (k + 1) + 1 = k + 2 /\ e = d - 1
  BY <1>4
<1>6. Head(hs) = ys[k + 1] /\ hs = SubSeq(ys, k + 1, c) /\ Tail(hs) = SubSeq(ys, k + 2, c)
  BY <1>1, <1>2 DEF c
<1>7. \A j \in 0..a : SubSeq(ys, 1, j) = SubSeq(xs, 1, j)
  BY <1>2 DEF a
<1> HIDE DEF ys, hs, l
<1>8. LastOf(ys, hs, k) /\ LastOf(ys, Tail(hs), k + 1)
  BY <1>5, <1>6 DEF LastOf, c, d, e
<1>9. LastOfMore(xs, ys, hs, k)
  BY <1>2, <1>4, <1>5, <1>6, <1>7, <1>8 DEF LastOfMore, d, e
<1> QED BY <1>9 DEF ys, hs

\* The encoder has got a frame, and holds hs.
SentTo(q, frame, hs) == [[q EXCEPT !.sent = Append(@, frame)] EXCEPT !.held = hs]

LEMMA SentMore ==
  ASSUME NEW q, OutFits(q), NEW frame \in Frame, NEW hs \in Seq(Frame)
  PROVE  LET r == SentTo(q, frame, hs)
         IN /\ OutFits(r) /\ SameEncoder(q, r) /\ r.finished = q.finished /\ r.frames = q.frames
            /\ r.queue = q.queue /\ r.held = hs /\ r.sent = Append(q.sent, frame) /\ r.written = q.written
<1> DEFINE r == SentTo(q, frame, hs)
           xs == Append(q.sent, frame)
<1>0. xs \in Seq(Frame)
  BY AppendProperties DEF OutFits
<1>1. /\ DOMAIN r = OutFields /\ r.finished = q.finished
      /\ r.initialized = q.initialized /\ r.frames = q.frames /\ r.sync = q.sync /\ r.nb0s = q.nb0s
      /\ r.last = q.last /\ r.queue = q.queue /\ r.held = hs /\ r.enc = q.enc /\ r.device = q.device
      /\ r.took = q.took /\ r.sent = xs /\ r.written = q.written
  BY DEF OutFits, OutFields, SentTo
<1> HIDE DEF r, xs
<1>2. OutFits(r) /\ SameEncoder(q, r)
  BY <1>0, <1>1 DEF OutFits, SameEncoder
<1> QED BY <1>1, <1>2 DEF r, xs

\* The frames of q when its encoder gets one more.
LEMMA Handed ==
  ASSUME NEW q, OutFits(q), NEW o, Holding(q, o), NEW frame \in Frame
  PROVE  LastOfMore(q.sent, Append(q.sent, frame), Append(q.held, frame), LetGo(q))
<1>1. q.sent \in Seq(Frame) /\ q.held \in Seq(Frame)
  BY DEF OutFits
<1>2. LastOf(q.sent, q.held, LetGo(q))
  BY DEF Holding, LetGo, LastOf
<1> QED BY <1>1, <1>2, HoldNext

\* The first k packets of o are the same after one more frame.
LEMMA QuotaKept ==
  ASSUME NEW m, Sound(m), NEW o \in Output, NEW k \in Nat, NEW ys,
         \A j \in 0..k : SubSeq(ys, 1, j) = SubSeq(m.out[o].sent, 1, j)
  PROVE  SubSeq(ys, 1, Quota(m, o, k)) = SubSeq(m.out[o].sent, 1, Quota(m, o, k))
<1> DEFINE max == m.opt.maxFrames[o]
           n == Quota(m, o, k)
<1>1. max \in Nat
  BY DEF Sound, OptFits
<1>2. n = IF CountsPackets(o) THEN IF max < k THEN max ELSE k ELSE k
  BY DEF Quota, Least
<1> HIDE DEF max, n
<1>3. n \in 0..k
  BY <1>1, <1>2
<1> QED BY <1>3 DEF n

\* One output stream is changed twice.
LEMMA TwiceOut ==
  ASSUME NEW m, Sound(m), NEW o \in Output, NEW r, NEW s
  PROVE  /\ PutOut(PutOut(m, o, r), o, s) = PutOut(m, o, s)
         /\ PutOut(m, o, r).out[o] = r
BY DEF PutOut, Sound, OutsFit, StateFields

\* The encoder of o has got a frame, and holds hs.
WithSent(m, o, frame, hs) == PutOut(m, o, SentTo(m.out[o], frame, hs))

LEMMA WithSentIs ==
  ASSUME NEW m, Sound(m), NEW o \in Output, NEW frame \in Frame, NEW hs \in Seq(Frame), NEW k \in Nat,
         NoneWaits(m, o), Whole(m, o) => Accounted(m, o, k),
         \A j \in 0..k : SubSeq(Append(m.out[o].sent, frame), 1, j) = SubSeq(m.out[o].sent, 1, j)
  PROVE  LET l == WithSent(m, o, frame, hs)
         IN /\ Moved(m, l) /\ Others(m, l, o) /\ NoneWaits(l, o)
            /\ l.out[o].sent = Append(m.out[o].sent, frame) /\ l.out[o].held = hs
            /\ l.out[o].finished = m.out[o].finished /\ l.out[o].frames = m.out[o].frames
            /\ Whole(l, o) => Accounted(l, o, k)
<1> DEFINE q == m.out[o]
           ys == Append(q.sent, frame)
           l == WithSent(m, o, frame, hs)
           r == SentTo(q, frame, hs)
<1>0. OutFits(q)
  BY DEF Sound, OutsFit
<1>1. /\ OutFits(r) /\ SameEncoder(q, r) /\ r.finished = q.finished /\ r.frames = q.frames
      /\ r.queue = q.queue /\ r.held = hs /\ r.sent = ys /\ r.written = q.written
  <2> HIDE DEF q
  <2> QED BY <1>0, SentMore
<1>2. l = PutOut(m, o, r)
  BY DEF WithSent
<1>a. SubSeq(ys, 1, Quota(m, o, k)) = SubSeq(q.sent, 1, Quota(m, o, k))
  BY QuotaKept
<1> HIDE DEF l, r, ys
<1>3. Moved(m, l) /\ Others(m, l, o) /\ l.out[o] = r /\ l.dest = m.dest /\ l.how = m.how
  BY <1>1, <1>2, OutMoved
<1>4. NoneWaits(l, o)
  BY <1>1, <1>3 DEF NoneWaits
<1>5. ASSUME Whole(l, o) PROVE Accounted(l, o, k)
  <2>1. Whole(m, o) /\ l.opt = m.opt
    BY <1>1, <1>3, <1>5 DEF Whole, Moved, SameRest
  <2>2. Accounted(m, o, k)
    BY <2>1
  <2>3. Quota(l, o, k) = Quota(m, o, k)
    BY <2>1 DEF Quota
  <2> QED BY <1>1, <1>3, <1>a, <2>2, <2>3 DEF Accounted
<1> QED BY <1>1, <1>3, <1>4, <1>5 DEF l, ys

\* The encoder of o gets a frame, and writes what it does not hold back.
LEMMA EncodeIs ==
  ASSUME NEW m, Sound(m), NEW o \in Output, NEW frame \in Frame,
         Holding(m.out[o], o), NoneWaits(m, o), Whole(m, o) => Accounted(m, o, LetGo(m.out[o]))
  PROVE  LET n == Encode(m, o, frame)
         IN /\ Moved(m, n) /\ Others(m, n, o) /\ NoneWaits(n, o)
            /\ n.out[o].sent = Append(m.out[o].sent, frame) /\ Holding(n.out[o], o)
            /\ m.out[o].finished \subseteq n.out[o].finished
            /\ ~CountsPackets(o) => n.out[o].frames = m.out[o].frames
            /\ Whole(n, o) => Accounted(n, o, LetGo(n.out[o]))
<1> DEFINE q == m.out[o]
           n == Encode(m, o, frame)
           k == LetGo(q)
           ys == Append(q.sent, frame)
           hs == Append(q.held, frame)
<1>0. OutFits(q) /\ Delay[o] \in Nat /\ DestOf[o] \in Dest /\ Holding(q, o)
  BY OutputAssumption DEF Sound, OutsFit
<1>1. LastOfMore(q.sent, ys, hs, k)
  <2> HIDE DEF q
  <2> QED BY <1>0, Handed
<1> DEFINE sent == [m EXCEPT !.out[o].sent = Append(@, frame)]
<1>n. n = IF Len(hs) <= Delay[o] THEN WithSent(m, o, frame, hs)
          ELSE WritePacket(WithSent(m, o, frame, Tail(hs)), o, Head(hs), FALSE)
  <2>1. ASSUME NEW gs PROVE [sent EXCEPT !.out[o].held = gs] = WithSent(m, o, frame, gs)
    <3> DEFINE r == [m.out[o] EXCEPT !.sent = Append(@, frame)]
               s == [r EXCEPT !.held = gs]
    <3>1. sent = PutOut(m, o, r)
      BY DEF PutOut
    <3>2. WithSent(m, o, frame, gs) = PutOut(m, o, s)
      BY DEF WithSent, SentTo
    <3> HIDE DEF r, sent
    <3>3. [sent EXCEPT !.out[o].held = gs] = PutOut(sent, o, [sent.out[o] EXCEPT !.held = gs])
      BY DEF PutOut
    <3>4. sent.out[o] = r
      BY <3>1, TwiceOut
    <3>5. PutOut(sent, o, s) = PutOut(m, o, s)
      BY <3>1, TwiceOut
    <3> QED BY <3>2, <3>3, <3>4, <3>5
  <2>2. n = IF Len(hs) <= Delay[o] THEN [sent EXCEPT !.out[o].held = hs]
            ELSE WritePacket([sent EXCEPT !.out[o].held = Tail(hs)], o, Head(hs), FALSE)
    BY DEF Encode
  <2> HIDE DEF sent, n, hs
  <2> QED BY <2>1, <2>2
<1> HIDE DEF hs, k, n
<1>2. ASSUME NEW gs \in Seq(Frame)
      PROVE  LET l == WithSent(m, o, frame, gs)
             IN /\ Moved(m, l) /\ Others(m, l, o) /\ NoneWaits(l, o)
                /\ l.out[o].sent = ys /\ l.out[o].held = gs
                /\ l.out[o].finished = q.finished /\ l.out[o].frames = q.frames
                /\ Whole(l, o) => Accounted(l, o, k)
  <2>1. k \in Nat /\ \A j \in 0..k : SubSeq(ys, 1, j) = SubSeq(q.sent, 1, j)
    BY <1>1 DEF LastOfMore
  <2>2. Whole(m, o) => Accounted(m, o, k)
    BY DEF k
  <2> QED BY <2>1, <2>2, WithSentIs
<1> HIDE DEF ys
<1>3. CASE Len(hs) <= Delay[o]
  <2>1. /\ Moved(m, n) /\ Others(m, n, o) /\ NoneWaits(n, o)
        /\ n.out[o].sent = ys /\ n.out[o].held = hs
        /\ n.out[o].finished = q.finished /\ n.out[o].frames = q.frames
        /\ Whole(n, o) => Accounted(n, o, k)
    BY <1>1, <1>2, <1>3, <1>n DEF LastOfMore
  <2>2. LetGo(n.out[o]) = k /\ Holding(n.out[o], o)
    BY <1>1, <1>3, <2>1 DEF LastOfMore, LastOf, LetGo, Holding
  <2> QED BY <2>1, <2>2 DEF n, ys
<1>4. CASE ~(Len(hs) <= Delay[o])
  <2> DEFINE l == WithSent(m, o, frame, Tail(hs))
  <2>1. n = WritePacket(l, o, Head(hs), FALSE)
    BY <1>4, <1>n
  <2>2. /\ Moved(m, l) /\ Others(m, l, o) /\ NoneWaits(l, o)
        /\ l.out[o].sent = ys /\ l.out[o].held = Tail(hs)
        /\ l.out[o].finished = q.finished /\ l.out[o].frames = q.frames
        /\ Whole(l, o) => Accounted(l, o, k)
    BY <1>1, <1>2 DEF LastOfMore
  <2> HIDE DEF l
  <2>3. k \in Nat /\ k < Len(ys) /\ Head(hs) = ys[k + 1] /\ LastOf(ys, Tail(hs), k + 1)
    <3>1. k \in Nat /\ k + 1 = Len(ys) - Len(Tail(hs)) /\ ys \in Seq(Frame) /\ Tail(hs) \in Seq(Frame)
      BY <1>1 DEF LastOfMore, LastOf
    <3>2. Len(ys) \in Nat /\ Len(Tail(hs)) \in Nat
      BY <3>1, LenProperties
    <3>3. k < Len(ys)
      <4> DEFINE a == Len(ys)
                 b == Len(Tail(hs))
      <4>1. a \in Nat /\ b \in Nat /\ k \in Nat /\ k + 1 = a - b
        BY <3>1, <3>2
      <4> HIDE DEF a, b
      <4>2. k < a
        BY SMTT(60), <4>1
      <4> QED BY <4>2 DEF a
    <3> QED BY <1>1, <3>3 DEF LastOfMore
  <2>4. /\ Moved(l, n) /\ Others(l, n, o) /\ NoneWaits(n, o)
        /\ n.out[o].sent = l.out[o].sent /\ n.out[o].held = l.out[o].held
        /\ l.out[o].finished \subseteq n.out[o].finished
        /\ ~CountsPackets(o) => n.out[o].frames = l.out[o].frames
        /\ Whole(n, o) => Accounted(n, o, k + 1)
    <3>1. Sound(l) /\ n = WritePacket(l, o, l.out[o].sent[k + 1], FALSE) /\ k < Len(l.out[o].sent)
      BY <2>1, <2>2, <2>3 DEF Moved
    <3> QED BY Zenon, <2>2, <2>3, <3>1, WriteNext
  <2>5. LetGo(n.out[o]) = k + 1 /\ Len(n.out[o].held) <= Len(n.out[o].sent)
        /\ n.out[o].held = SubSeq(n.out[o].sent, (k + 1) + 1, Len(n.out[o].sent))
    BY <2>2, <2>3, <2>4 DEF LetGo, LastOf
  <2>6. Holding(n.out[o], o)
    <3>1. Len(n.out[o].held) <= Delay[o]
      <4>1. Len(hs) - 1 = Len(q.held) /\ Len(q.held) <= Delay[o]
        <5>1. q.held \in Seq(Frame) /\ Len(q.held) \in Nat
          BY <1>0, LenProperties DEF OutFits
        <5> QED BY <5>1, AppendProperties DEF Holding, hs
      <4> QED BY Zenon, <1>1, <2>2, <2>4, <4>1 DEF LastOfMore
    <3> QED BY Zenon, <2>5, <3>1 DEF Holding
  <2>7. Moved(m, n) /\ Others(m, n, o)
    BY <2>2, <2>4, MovedTrans, OthersTrans
  <2> QED BY <2>2, <2>4, <2>5, <2>6, <2>7 DEF n, ys
<1> QED BY <1>3, <1>4

-----------------------------------------------------------------------------
(* What the encoders are given. *)

\* An output stream but for what is shown next and how far it is.
Beside(q, r) ==
  /\ DOMAIN r = OutFields
  /\ r.initialized = q.initialized /\ r.finished = q.finished /\ r.frames = q.frames
  /\ r.queue = q.queue /\ r.held = q.held /\ r.enc = q.enc /\ r.device = q.device
  /\ r.took = q.took /\ r.sent = q.sent /\ r.written = q.written
  /\ r.sync \in Nat /\ r.nb0s \in Int \X Int \X Int /\ r.last \in Frame \cup {Null}

LEMMA BesideIsQuiet ==
  ASSUME NEW m, Sound(m), NEW o \in Output, NEW r, Beside(m.out[o], r)
  PROVE  Quiet(m, PutOut(m, o, r)) /\ PutOut(m, o, r).out[o] = r
<1> DEFINE q == m.out[o]
           n == PutOut(m, o, r)
<1>1. OutFits(q)
  BY DEF Sound, OutsFit
<1>2. OutFits(r) /\ SameEncoder(q, r) /\ SamePackets(q, r)
  BY <1>1 DEF Beside, OutFits, SameEncoder, SamePackets
<1>3. Moved(m, n) /\ Others(m, n, o) /\ n.out[o] = r
  BY <1>2, OutMoved
<1> HIDE DEF n
<1>4. OnlyFinished(m, n)
  BY <1>2, <1>3 DEF OnlyFinished, Others
<1> QED BY <1>3, <1>4, FinishedIsQuiet DEF n

\* One more frame of the output has gone by.
LEMMA SyncMore ==
  ASSUME NEW q, OutFits(q)
  PROVE  Beside(q, [q EXCEPT !.sync = @ + 1])
BY DEF OutFits, OutFields, Beside

\* Another frame is kept.
LEMMA LastKept ==
  ASSUME NEW q, OutFits(q), NEW x \in Frame \cup {Null}
  PROVE  Beside(q, [q EXCEPT !.last = x])
BY DEF OutFits, OutFields, Beside

\* How often the previous frame is shown is noted.
LEMMA NotedNb0 ==
  ASSUME NEW q, OutFits(q), NEW k \in Int
  PROVE  Beside(q, [q EXCEPT !.nb0s = <<k, @[1], @[2]>>])
BY DEF OutFits, OutFields, Beside

\* An output stream that has time left, or none.
LEMMA EncodeAudio ==
  ASSUME NEW m, Sound(m), Packets(m), NEW o \in Output, Kind[o] # "video", NEW frame \in Frame
  PROVE  Quiet(m, Encode(m, o, frame))
<1> DEFINE n == Encode(m, o, frame)
<1>1. Holding(m.out[o], o) /\ NoneWaits(m, o) /\ (Whole(m, o) => Accounted(m, o, LetGo(m.out[o])))
  BY DEF Packets, Balanced
<1>2. /\ Moved(m, n) /\ Others(m, n, o) /\ NoneWaits(n, o) /\ Holding(n.out[o], o)
      /\ Whole(n, o) => Accounted(n, o, LetGo(n.out[o]))
  BY <1>1, EncodeIs
<1> HIDE DEF n
<1>3. Balanced(n, o)
  BY <1>2 DEF Balanced, CountedVideo
<1>4. \A p \in Output \ {o} : Balanced(n, p) /\ NoneWaits(n, p)
  BY <1>2, BalancedElsewhere DEF Packets, Others
<1> QED BY <1>2, <1>3, <1>4 DEF Quiet, Packets, n

\* A frame of a video has been encoded, and is counted.
ShownOnce(q) == [[q EXCEPT !.sync = @ + 1] EXCEPT !.frames = @ + 1]

LEMMA ShownMore ==
  ASSUME NEW q, OutFits(q)
  PROVE  LET r == ShownOnce(q)
         IN /\ OutFits(r) /\ SameEncoder(q, r) /\ r.finished = q.finished /\ r.frames = q.frames + 1
            /\ r.queue = q.queue /\ r.held = q.held /\ r.sent = q.sent /\ r.written = q.written
<1> DEFINE r == ShownOnce(q)
<1>1. /\ DOMAIN r = OutFields /\ r.finished = q.finished
      /\ r.initialized = q.initialized /\ r.frames = q.frames + 1 /\ r.sync = q.sync + 1 /\ r.nb0s = q.nb0s
      /\ r.last = q.last /\ r.queue = q.queue /\ r.held = q.held /\ r.enc = q.enc /\ r.device = q.device
      /\ r.took = q.took /\ r.sent = q.sent /\ r.written = q.written
  BY DEF OutFits, OutFields, ShownOnce
<1> HIDE DEF r
<1>2. q.frames + 1 \in Nat /\ q.sync + 1 \in Nat
  BY SMTT(60) DEF OutFits
<1>3. OutFits(r)
  BY <1>1, <1>2 DEF OutFits
<1>4. SameEncoder(q, r)
  BY <1>1 DEF SameEncoder
<1> QED BY <1>1, <1>3, <1>4 DEF r

\* One frame of a video: it is encoded and counted.
EncodedOnce(m, o, frame) == LET n == Encode(m, o, frame) IN PutOut(n, o, ShownOnce(n.out[o]))

LEMMA EncodeVideo ==
  ASSUME NEW m, Sound(m), Packets(m), NEW o \in Output, Kind[o] = "video", NEW frame \in Frame,
         m.out[o].frames < m.opt.maxFrames[o]
  PROVE  LET n == EncodedOnce(m, o, frame)
         IN Quiet(m, n) /\ n.out[o].frames = m.out[o].frames + 1
<1> DEFINE l == Encode(m, o, frame)
           r == ShownOnce(l.out[o])
           n == PutOut(l, o, r)
<1>0. n = EncodedOnce(m, o, frame)
  BY DEF EncodedOnce
<1>1. Holding(m.out[o], o) /\ NoneWaits(m, o) /\ (Whole(m, o) => Accounted(m, o, LetGo(m.out[o])))
  BY DEF Packets, Balanced
<1>2. /\ Moved(m, l) /\ Others(m, l, o) /\ NoneWaits(l, o) /\ Holding(l.out[o], o)
      /\ l.out[o].sent = Append(m.out[o].sent, frame)
      /\ m.out[o].finished \subseteq l.out[o].finished
      /\ ~CountsPackets(o) => l.out[o].frames = m.out[o].frames
      /\ Whole(l, o) => Accounted(l, o, LetGo(l.out[o]))
  BY <1>1, EncodeIs
<1>3. ~CountsPackets(o)
  BY DEF CountsPackets
<1> HIDE DEF l
<1>4. Sound(l) /\ OutFits(l.out[o]) /\ l.opt = m.opt
  BY <1>2 DEF Moved, Sound, OutsFit, SameRest
<1>5. /\ OutFits(r) /\ SameEncoder(l.out[o], r) /\ r.finished = l.out[o].finished
      /\ r.frames = l.out[o].frames + 1 /\ r.queue = l.out[o].queue /\ r.held = l.out[o].held
      /\ r.sent = l.out[o].sent /\ r.written = l.out[o].written
  BY <1>4, ShownMore
<1> HIDE DEF r, n
<1>6. Moved(l, n) /\ Others(l, n, o) /\ n.out[o] = r /\ n.dest = l.dest /\ n.how = l.how
  BY SMTT(60), <1>4, <1>5, OutMoved DEF n
<1>7. Moved(m, n) /\ Others(m, n, o) /\ n.opt = m.opt
  BY <1>2, <1>4, <1>6, MovedTrans, OthersTrans DEF Moved, SameRest
<1>8. n.out[o].frames = m.out[o].frames + 1
  BY SMTT(60), <1>2, <1>3, <1>5, <1>6
<1>9. NoneWaits(n, o) /\ Holding(n.out[o], o)
  BY <1>2, <1>5, <1>6 DEF NoneWaits, Holding, LetGo
<1>10. Whole(n, o) => Accounted(n, o, LetGo(n.out[o]))
  <2> SUFFICES ASSUME Whole(n, o) PROVE Accounted(n, o, LetGo(n.out[o]))
    OBVIOUS
  <2>1. Whole(l, o)
    BY <1>5, <1>6 DEF Whole
  <2>2. Accounted(l, o, LetGo(l.out[o])) /\ LetGo(n.out[o]) = LetGo(l.out[o])
    BY <1>2, <1>5, <1>6, <2>1 DEF LetGo
  <2> QED BY <1>3, <1>5, <1>6, <2>2 DEF Accounted, Quota
<1>11. CountedVideo(n, o)
  <2>1. m.out[o].frames = Len(m.out[o].sent) /\ m.out[o].frames \in Nat /\ m.opt.maxFrames[o] \in Nat
    BY DEF Packets, Balanced, CountedVideo, Sound, OptFits, OutsFit, OutFits
  <2>2. n.out[o].sent = Append(m.out[o].sent, frame)
    BY <1>2, <1>5, <1>6
  <2>3. Len(n.out[o].sent) = Len(m.out[o].sent) + 1
    <3>1. m.out[o].sent \in Seq(Frame)
      BY DEF Sound, OutsFit, OutFits
    <3> QED BY <2>2, <3>1, AppendProperties
  <2>4. n.out[o].frames <= n.opt.maxFrames[o]
    BY <1>7, <1>8, <2>1
  <2> QED BY <1>8, <2>1, <2>3, <2>4 DEF CountedVideo
<1>12. \A p \in Output \ {o} : Balanced(n, p) /\ NoneWaits(n, p)
  BY <1>7, BalancedElsewhere DEF Packets, Others
<1> QED BY <1>0, <1>7, <1>8, <1>9, <1>10, <1>11, <1>12 DEF Quiet, Packets, Balanced

\* The loop of do_video_out() is at c, and so many frames have come out.
Showing(c, m, o, frames) ==
  /\ DOMAIN c = {"over", "m"} /\ c.over \in BOOLEAN /\ Quiet(m, c.m)
  /\ ~c.over => c.m.out[o].frames = frames

LEMMA ShowFrameIs ==
  ASSUME NEW m, Packets(m), NEW o \in Output, Kind[o] = "video", NEW in \in Frame \cup {Null},
         NEW frames \in Nat, frames < m.opt.maxFrames[o], NEW c, Showing(c, m, o, frames)
  PROVE  LET d == ShowFrame(c, o, in) IN Showing(d, m, o, frames + 1)
<1> DEFINE d == ShowFrame(c, o, in)
           n == c.m
<1>1. DOMAIN c = {"over", "m"} /\ c.over \in BOOLEAN /\ Quiet(m, n) /\ (~c.over => n.out[o].frames = frames)
  BY DEF Showing
<1>2. Sound(n) /\ Packets(n) /\ n.opt = m.opt
  BY <1>1 DEF Quiet, Moved, SameRest
<1>3. CASE c.over \/ in = Null
  <2>1. d = [c EXCEPT !.over = TRUE]
    BY <1>3 DEF ShowFrame
  <2>2. d.over = TRUE /\ d.m = n /\ DOMAIN d = {"over", "m"}
    BY <1>1, <2>1
  <2> QED BY <1>1, <2>2 DEF Showing
<1>4. CASE ~(c.over \/ in = Null) /\ ~InTime(n, o)
  <2>1. d = [over |-> TRUE, m |-> CloseOutput(n, o)]
    BY <1>4 DEF ShowFrame
  <2>2. d.over = TRUE /\ d.m = CloseOutput(n, o) /\ DOMAIN d = {"over", "m"}
    BY <2>1
  <2> HIDE DEF n, d
  <2>3. Quiet(n, CloseOutput(n, o))
    BY <1>2, CloseOutputIs
  <2>4. Quiet(m, d.m)
    BY <1>1, <2>2, <2>3, QuietTrans
  <2> QED BY <2>2, <2>4 DEF Showing, d
<1>5. CASE ~(c.over \/ in = Null) /\ InTime(n, o)
  <2> DEFINE l == Encode(n, o, in)
  <2>1. d = [c EXCEPT !.m = [l EXCEPT !.out[o].sync = @ + 1, !.out[o].frames = @ + 1]]
    BY <1>5 DEF ShowFrame
  <2>2. in \in Frame
    BY <1>5
  <2>3. Sound(l)
    <3>1. Holding(n.out[o], o) /\ NoneWaits(n, o) /\ (Whole(n, o) => Accounted(n, o, LetGo(n.out[o])))
      BY <1>2 DEF Packets, Balanced
    <3> HIDE DEF n
    <3>2. Moved(n, Encode(n, o, in))
      BY <1>2, <2>2, <3>1, EncodeIs
    <3> QED BY <3>2 DEF Moved
  <2>4. [l EXCEPT !.out[o].sync = @ + 1, !.out[o].frames = @ + 1] = EncodedOnce(n, o, in)
    <3> DEFINE r == [l.out[o] EXCEPT !.sync = @ + 1]
               k == [l EXCEPT !.out[o].sync = @ + 1]
    <3>1. EncodedOnce(n, o, in) = PutOut(l, o, ShownOnce(l.out[o])) /\ ShownOnce(l.out[o]) = [r EXCEPT !.frames = @ + 1]
      BY DEF EncodedOnce, ShownOnce
    <3> HIDE DEF l
    <3>2. k = PutOut(l, o, r)
      BY DEF PutOut
    <3>3. [l EXCEPT !.out[o].sync = @ + 1, !.out[o].frames = @ + 1] = [k EXCEPT !.out[o].frames = @ + 1]
      BY Zenon
    <3> HIDE DEF k, r
    <3>4. [k EXCEPT !.out[o].frames = @ + 1] = PutOut(k, o, [k.out[o] EXCEPT !.frames = @ + 1])
      BY DEF PutOut
    <3>5. k.out[o] = r
      BY <2>3, <3>2, TwiceOut
    <3> DEFINE s == [r EXCEPT !.frames = @ + 1]
    <3>6. PutOut(k, o, s) = PutOut(l, o, s)
      BY <2>3, <3>2, TwiceOut
    <3> QED BY <3>1, <3>3, <3>4, <3>5, <3>6
  <2>5. d.over = c.over /\ d.m = EncodedOnce(n, o, in) /\ DOMAIN d = {"over", "m"}
    BY <1>1, <2>1, <2>4
  <2> HIDE DEF n, d, l
  <2>6. Quiet(n, d.m) /\ d.m.out[o].frames = n.out[o].frames + 1
    BY <1>1, <1>2, <1>5, <2>2, <2>5, EncodeVideo
  <2>7. Quiet(m, d.m)
    BY <1>1, <2>6, QuietTrans
  <2> QED BY <1>1, <1>5, <2>5, <2>6, <2>7 DEF Showing, d
<1> QED BY <1>3, <1>4, <1>5

NotedFirst(m, o, nb0) == PutOut(m, o, [m.out[o] EXCEPT !.nb0s = <<nb0, @[1], @[2]>>])

\* F lists how the loop of do_video_out() goes.
IsShowing(F, m, o, next, nb, nb0) ==
  LET n == IF nb < 0 THEN 0 ELSE nb
  IN /\ F[0] = [over |-> FALSE, m |-> NotedFirst(m, o, nb0)]
     /\ ShowFrames(m, o, next, nb, nb0) = Keeping(F[n], o, next)
     /\ \A i \in 1..n : F[i] = ShowFrame(F[i - 1], o, Shown(m.out[o].last, next, nb, nb0)[i])

LEMMA ShowSteps ==
  ASSUME NEW m, NEW o, NEW next, NEW nb \in Int, NEW nb0
  PROVE  \E F : IsShowing(F, m, o, next, nb, nb0)
<1> DEFINE n == IF nb < 0 THEN 0 ELSE nb
           seq == Shown(m.out[o].last, next, nb, nb0)
           start == [over |-> FALSE, m |-> NotedFirst(m, o, nb0)]
<1>1. n \in Nat
  OBVIOUS
<1>2. DOMAIN seq = 1..n
  BY DEF Shown
<1>3. ShowFrames(m, o, next, nb, nb0) = Keeping(Shows!Fold(o, start, seq), o, next)
  BY DEF ShowFrames, ShowOf, NotedFirst, PutOut, FoldLeft, Shows!Fold, MapThenFoldSet, Max, Shows!Greatest
<1> HIDE DEF n, seq, start
<1>4. PICK F : Shows!Steps(o, F, start, seq, n) /\ Shows!Fold(o, start, seq) = F[n]
  BY <1>1, <1>2, LeastNat, Shows!FoldSteps DEF Shows!WellOrdered
<1>5. IsShowing(F, m, o, next, nb, nb0)
  BY <1>3, <1>4 DEF Shows!Steps, ShowOf, IsShowing, n, seq, start
<1> QED BY <1>5

LEMMA ShowFramesIs ==
  ASSUME NEW m, Sound(m), Packets(m), NEW o \in Output, Kind[o] = "video", NEW next \in Frame \cup {Null},
         NEW nb \in Int, nb <= m.opt.maxFrames[o] - m.out[o].frames, NEW nb0 \in Int
  PROVE  Quiet(m, ShowFrames(m, o, next, nb, nb0))
<1> DEFINE n == IF nb < 0 THEN 0 ELSE nb
           seq == Shown(m.out[o].last, next, nb, nb0)
           start == [over |-> FALSE, m |-> NotedFirst(m, o, nb0)]
           frames == m.out[o].frames
           max == m.opt.maxFrames[o]
<1>0. OutFits(m.out[o]) /\ frames \in Nat /\ max \in Nat
  BY DEF Sound, OutsFit, OutFits, OptFits
<1>1. PICK F : IsShowing(F, m, o, next, nb, nb0)
  BY ShowSteps
<1>2. /\ F[0] = start
      /\ ShowFrames(m, o, next, nb, nb0) = Keeping(F[n], o, next)
      /\ \A i \in 1..n : F[i] = ShowFrame(F[i - 1], o, seq[i])
  BY <1>1 DEF IsShowing
<1>3. \A i \in 1..n : seq[i] \in Frame \cup {Null} /\ frames + (i - 1) < max /\ frames + (i - 1) \in Nat
  <2>1. m.out[o].last \in Frame \cup {Null}
    BY <1>0 DEF OutFits
  <2>2. \A i \in 1..n : i \in 1..nb
    OBVIOUS
  <2>3. \A i \in 1..n : seq[i] \in Frame \cup {Null}
    BY <2>1, <2>2 DEF Shown
  <2> HIDE DEF seq, frames, max
  <2>4. nb <= max - frames
    BY DEF max, frames
  <2>5. \A i \in 1..n : frames + (i - 1) < max /\ frames + (i - 1) \in Nat
    BY <1>0, <2>2, <2>4
  <2> QED BY <2>3, <2>5
<1>4. n \in Nat
  OBVIOUS
<1> DEFINE P(i) == Showing(F[i], m, o, frames + i)
           T == {i \in 0..n : P(i)}
<1>5. P(0)
  <2> DEFINE r == [m.out[o] EXCEPT !.nb0s = <<nb0, @[1], @[2]>>]
  <2>1. Beside(m.out[o], r)
    BY <1>0, NotedNb0
  <2>2. NotedFirst(m, o, nb0) = PutOut(m, o, r)
    BY DEF NotedFirst
  <2> HIDE DEF r
  <2>3. Quiet(m, PutOut(m, o, r)) /\ PutOut(m, o, r).out[o] = r
    BY <2>1, BesideIsQuiet
  <2>4. r.frames = frames + 0
    <3>1. r.frames = frames
      BY <2>1 DEF Beside
    <3> QED BY <1>0, <3>1
  <2>5. start.over = FALSE /\ start.m = PutOut(m, o, r) /\ DOMAIN start = {"over", "m"}
    BY <2>2
  <2> HIDE DEF start
  <2> QED BY <1>2, <2>3, <2>4, <2>5 DEF Showing
<1> HIDE DEF seq, start, n, frames, max
<1>6. ASSUME NEW i \in 1..n, P(i - 1) PROVE P(i)
  <2>1. seq[i] \in Frame \cup {Null} /\ frames + (i - 1) < max /\ frames + (i - 1) \in Nat
    BY <1>3
  <2>2. F[i] = ShowFrame(F[i - 1], o, seq[i])
    BY <1>2
  <2> DEFINE k == frames + (i - 1)
             b == F[i - 1]
  <2>a. Showing(b, m, o, k) /\ k \in Nat /\ k < m.opt.maxFrames[o]
    BY <1>6, <2>1 DEF max
  <2>b. F[i] = ShowFrame(b, o, seq[i])
    BY <2>2
  <2> HIDE DEF k, b
  <2>c. Showing(F[i], m, o, k + 1)
    BY <2>1, <2>a, <2>b, ShowFrameIs
  <2>3. Showing(F[i], m, o, (frames + (i - 1)) + 1)
    BY <2>c DEF k
  <2>4. (frames + (i - 1)) + 1 = frames + i
    BY <1>0, <1>4
  <2> QED BY <2>3, <2>4
<1> HIDE DEF P
<1>7. \A i \in 0..n : i \in T
  <2>1. 0 \in T
    BY <1>4, <1>5
  <2>2. \A i \in 1..n : i - 1 \in T => i \in T
    BY <1>4, <1>6
  <2> HIDE DEF T
  <2> QED BY <1>4, <2>1, <2>2, UpTo
<1>8. P(n)
  BY <1>4, <1>7
<1> DEFINE c == F[n]
<1>9. Quiet(m, c.m) /\ c.over \in BOOLEAN
  BY <1>8 DEF P, Showing
<1>10. CASE c.over
  BY <1>2, <1>9, <1>10 DEF Keeping
<1>11. CASE ~c.over
  <2> DEFINE l == c.m
             r == [l.out[o] EXCEPT !.last = next]
  <2>1. Keeping(c, o, next) = PutOut(l, o, r)
    BY <1>11 DEF Keeping, PutOut
  <2> HIDE DEF l
  <2>2. Sound(l) /\ OutFits(l.out[o])
    BY <1>9 DEF Quiet, Moved, Sound, OutsFit, l
  <2>3. Beside(l.out[o], r)
    BY <2>2, LastKept
  <2> HIDE DEF r, c
  <2>4. Quiet(l, PutOut(l, o, r))
    BY <2>2, <2>3, BesideIsQuiet
  <2> QED BY <1>2, <1>9, <2>1, <2>4, QuietTrans DEF l, c
<1> QED BY <1>10, <1>11

\* The least and the greatest of three numbers, and so the one in the middle.
LEMMA MedianIsInt ==
  ASSUME NEW s \in Int \X Int \X Int
  PROVE  Median(s) \in Int
<1> DEFINE S == {s[1], s[2], s[3]}
<1>1. s[1] \in Int /\ s[2] \in Int /\ s[3] \in Int
  OBVIOUS
<1>2. Min(S) \in S
  <2>1. \E x \in S : \A y \in S : x <= y
    BY <1>1
  <2> HIDE DEF S
  <2> QED BY <2>1 DEF Min
<1>3. Max(S) \in S
  <2>1. \E x \in S : \A y \in S : x >= y
    BY <1>1
  <2> HIDE DEF S
  <2> QED BY <2>1 DEF Max
<1> QED BY <1>1, <1>2, <1>3 DEF Median

\* What is known of a packet, and of a frame.
LEMMA PacketFits ==
  ASSUME NEW f \in InFile, NEW p \in ToSet(Media[f])
  PROVE  p.stream \in Stream /\ p.format \in Format /\ p.copies \in Int \X Int
<1>1. p.stream \in ToSet(Streams[f]) /\ p.format \in Format /\ p.copies \in Int \X Int
  BY MediaAssumption
<1> QED BY <1>1 DEF Stream

LEMMA FrameIs ==
  ASSUME NEW frame \in Frame
  PROVE  /\ Copies(frame) \in Int \X Int /\ FormatOf(frame) \in Format /\ SourceOf(frame) \in Stream
<1>1. frame[1] \in InFile /\ frame[2] \in DOMAIN Media[frame[1]]
  BY DEF Frame
<1> DEFINE p == Media[frame[1]][frame[2]]
<1>2. p \in ToSet(Media[frame[1]])
  BY <1>1 DEF ToSet
<1> HIDE DEF p
<1>3. p.stream \in Stream /\ p.format \in Format /\ p.copies \in Int \X Int
  BY <1>1, <1>2, PacketFits
<1> QED BY <1>3 DEF Copies, PacketAt, FormatOf, SourceOf, p

LEMMA AskedIs ==
  ASSUME NEW m, Sound(m), NEW o \in Output, NEW next \in Frame \cup {Null}
  PROVE  Asked(m, o, next)[1] \in Int /\ Asked(m, o, next)[2] \in Int
<1>1. CASE next = Null
  <2>1. m.out[o].nb0s \in Int \X Int \X Int
    BY DEF Sound, OutsFit, OutFits
  <2> QED BY <1>1, <2>1, MedianIsInt DEF Asked
<1>2. CASE next # Null
  <2>1. next \in Frame
    BY <1>2
  <2>2. Copies(next) \in Int \X Int
    BY <2>1, FrameIs
  <2> QED BY <1>2, <2>2 DEF Asked
<1> QED BY <1>1, <1>2

LEMMA DoVideoOutIs ==
  ASSUME NEW m, Sound(m), Packets(m), NEW o \in Output, Kind[o] = "video", NEW next \in Frame \cup {Null}
  PROVE  Quiet(m, DoVideoOut(m, o, next))
<1> DEFINE a == Asked(m, o, next)[1]
           b == Asked(m, o, next)[2]
           left == m.opt.maxFrames[o] - m.out[o].frames
           nb == Limited(m, o, a)
           nb0 == Least(b, nb)
<1>1. a \in Int /\ b \in Int /\ left \in Int
  <2>1. a \in Int /\ b \in Int
    BY AskedIs
  <2>2. left \in Int
    BY DEF Sound, OptFits, OutsFit, OutFits
  <2> QED BY <2>1, <2>2
<1>2. DoVideoOut(m, o, next) = ShowFrames(m, o, next, nb, nb0)
  BY DEF DoVideoOut
<1>3. nb = Least(a, left)
  BY DEF Limited
<1> HIDE DEF a, b, left, nb
<1>4. nb \in Int /\ nb <= left /\ nb0 \in Int
  BY <1>1, <1>3 DEF Least
<1> HIDE DEF nb0
<1>5. nb <= m.opt.maxFrames[o] - m.out[o].frames
  BY <1>4 DEF left
<1> QED BY <1>2, <1>4, <1>5, ShowFramesIs

LEMMA DoAudioOutIs ==
  ASSUME NEW m, Sound(m), Packets(m), NEW o \in Output, Kind[o] # "video", NEW frame \in Frame
  PROVE  Quiet(m, DoAudioOut(m, o, frame))
<1>1. CASE ~InTime(m, o)
  BY <1>1, CloseOutputIs DEF DoAudioOut
<1>2. CASE InTime(m, o)
  <2> DEFINE r == [m.out[o] EXCEPT !.sync = @ + 1]
             k == PutOut(m, o, r)
  <2>1. DoAudioOut(m, o, frame) = Encode(k, o, frame)
    BY <1>2 DEF DoAudioOut, PutOut
  <2>2. Beside(m.out[o], r)
    <3>1. OutFits(m.out[o])
      BY DEF Sound, OutsFit
    <3> QED BY <3>1, SyncMore
  <2> HIDE DEF r
  <2>3. Quiet(m, k)
    BY <2>2, BesideIsQuiet
  <2> HIDE DEF k
  <2>4. Quiet(k, Encode(k, o, frame))
    <3>1. Sound(k) /\ Packets(k)
      BY <2>3 DEF Quiet, Moved
    <3> QED BY <3>1, EncodeAudio
  <2> QED BY <2>1, <2>3, <2>4, QuietTrans
<1> QED BY <1>1, <1>2

\* A frame that comes out of the filters is encoded, or it is dropped.
LEMMA DoOutIs ==
  ASSUME NEW m, Sound(m), Packets(m), NEW o \in Output, NEW frame \in Frame
  PROVE  Quiet(m, DoOut(m, o, frame))
BY DoVideoOutIs, DoAudioOutIs DEF DoOut

-----------------------------------------------------------------------------
(* The end of an encoder. *)

LetGoAll(m, o) == PutOut(m, o, [m.out[o] EXCEPT !.held = <<>>])

\* F lists what becomes of m as the encoder of o is flushed.
IsFlush(F, m, o) ==
  LET xs == m.out[o].held
  IN /\ F[0] = LetGoAll(m, o) /\ FlushEncoder(m, o) = F[Len(xs)]
     /\ \A i \in 1..Len(xs) : F[i] = FlushOf(o, F[i - 1], xs[i])

LEMMA FlushSteps ==
  ASSUME NEW m, Sound(m), NEW o \in Output
  PROVE  \E F : IsFlush(F, m, o)
<1> DEFINE xs == m.out[o].held
           start == LetGoAll(m, o)
<1>1. Len(xs) \in Nat
  BY LenProperties DEF Sound, OutsFit, OutFits
<1>2. DOMAIN xs = 1..Len(xs)
  BY LenProperties DEF Sound, OutsFit, OutFits
<1>3. FlushEncoder(m, o) = Flushes!Fold(o, start, xs)
  BY DEF FlushEncoder, FlushOf, LetGoAll, PutOut, FoldLeft, Flushes!Fold, MapThenFoldSet, Max, Flushes!Greatest
<1> HIDE DEF xs, start
<1>4. PICK F : Flushes!Steps(o, F, start, xs, Len(xs)) /\ Flushes!Fold(o, start, xs) = F[Len(xs)]
  BY <1>1, <1>2, LeastNat, Flushes!FoldSteps DEF Flushes!WellOrdered
<1> QED BY <1>3, <1>4 DEF Flushes!Steps, xs, start, IsFlush

LEMMA HeldEmptied ==
  ASSUME NEW q, OutFits(q)
  PROVE  LET r == [q EXCEPT !.held = <<>>]
         IN /\ OutFits(r) /\ SameEncoder(q, r) /\ r.finished = q.finished /\ r.frames = q.frames
            /\ r.queue = q.queue /\ r.held = <<>> /\ r.sent = q.sent /\ r.written = q.written
<1> DEFINE r == [q EXCEPT !.held = <<>>]
<1>1. /\ DOMAIN r = OutFields /\ r.finished = q.finished
      /\ r.initialized = q.initialized /\ r.frames = q.frames /\ r.sync = q.sync /\ r.nb0s = q.nb0s
      /\ r.last = q.last /\ r.queue = q.queue /\ r.held = <<>> /\ r.enc = q.enc /\ r.device = q.device
      /\ r.took = q.took /\ r.sent = q.sent /\ r.written = q.written
  BY DEF OutFits, OutFields
<1> HIDE DEF r
<1>2. OutFits(r) /\ SameEncoder(q, r)
  BY <1>1 DEF OutFits, SameEncoder
<1> QED BY <1>1, <1>2 DEF r

\* So many packets of o have left the encoder, which is being flushed.
Flushing(n, m, o, k) ==
  /\ Moved(m, n) /\ Others(m, n, o) /\ NoneWaits(n, o)
  /\ n.out[o].sent = m.out[o].sent /\ n.out[o].held = <<>>
  /\ m.out[o].finished \subseteq n.out[o].finished
  /\ ~CountsPackets(o) => n.out[o].frames = m.out[o].frames
  /\ Whole(n, o) => Accounted(n, o, k)

LEMMA FlushNext ==
  ASSUME NEW m, NEW o \in Output, NEW k \in Nat, k < Len(m.out[o].sent), NEW n, Flushing(n, m, o, k)
  PROVE  Flushing(FlushOf(o, n, m.out[o].sent[k + 1]), m, o, k + 1)
<1> DEFINE p == m.out[o].sent[k + 1]
           l == FlushOf(o, n, p)
<1>1. /\ Moved(m, n) /\ Others(m, n, o) /\ NoneWaits(n, o) /\ Sound(n)
      /\ n.out[o].sent = m.out[o].sent /\ n.out[o].held = <<>>
      /\ m.out[o].finished \subseteq n.out[o].finished
      /\ ~CountsPackets(o) => n.out[o].frames = m.out[o].frames
      /\ Whole(n, o) => Accounted(n, o, k)
  BY DEF Flushing, Moved
<1>2. CASE "muxer" \in n.out[o].finished
  <2>1. l = n /\ ~Whole(n, o)
    BY SMTT(60), <1>2 DEF FlushOf, Whole
  <2> HIDE DEF l
  <2> QED BY <1>1, <2>1 DEF Flushing, l
<1>3. CASE "muxer" \notin n.out[o].finished
  <2>1. l = WritePacket(n, o, n.out[o].sent[k + 1], FALSE)
    BY SMTT(60), <1>1, <1>3 DEF FlushOf
  <2> HIDE DEF l
  <2>2. /\ Moved(n, l) /\ Others(n, l, o) /\ NoneWaits(l, o)
        /\ l.out[o].sent = n.out[o].sent /\ l.out[o].held = n.out[o].held
        /\ n.out[o].finished \subseteq l.out[o].finished
        /\ ~CountsPackets(o) => l.out[o].frames = n.out[o].frames
        /\ Whole(l, o) => Accounted(l, o, k + 1)
    BY ZenonT(60), <1>1, <2>1, WriteNext
  <2>3. Moved(m, l) /\ Others(m, l, o)
    BY <1>1, <2>2, MovedTrans, OthersTrans
  <2> QED BY Zenon, <1>1, <2>2, <2>3 DEF Flushing, l
<1> QED BY <1>2, <1>3

\* What an encoder holds, one after the other.
LEMMA HeldAre ==
  ASSUME NEW q, OutFits(q), NEW o, Holding(q, o)
  PROVE  /\ Len(q.held) \in Nat /\ LetGo(q) \in Nat
         /\ Len(q.sent) \in Nat /\ LetGo(q) + Len(q.held) = Len(q.sent)
         /\ \A i \in 1..Len(q.held) : q.held[i] = q.sent[LetGo(q) + i]
<1> DEFINE xs == q.sent
           zs == q.held
           k == LetGo(q)
           a == Len(xs)
           b == Len(zs)
<1>1. /\ xs \in Seq(Frame) /\ zs \in Seq(Frame) /\ a \in Nat /\ b \in Nat
      /\ \A j \in 1..a : xs[j] \in Frame
  BY LenProperties, ElementOfSeq DEF OutFits
<1>2. b <= a /\ k = a - b /\ zs = SubSeq(xs, k + 1, a)
  BY DEF Holding, LetGo
<1> HIDE DEF xs, zs, k, a, b
<1>3. k \in Nat /\ k + b = a /\ a - (k + 1) + 1 = b /\ \A j \in (k + 1)..a : j \in 1..a
  BY <1>1, <1>2
<1>4. \A i \in 1..(a - (k + 1) + 1) : SubSeq(xs, k + 1, a)[i] = xs[(k + 1) + i - 1]
  <2>1. \A j \in (k + 1)..a : xs[j] \in Frame
    BY <1>1, <1>3
  <2>2. k + 1 \in Int /\ a \in Int
    BY <1>1, <1>3
  <2> QED BY <2>1, <2>2, SubSeqProperties
<1>5. \A i \in 1..b : (k + 1) + i - 1 = k + i
  BY <1>1, <1>3
<1>6. \A i \in 1..b : zs[i] = xs[k + i]
  BY <1>2, <1>3, <1>4, <1>5
<1> QED BY <1>1, <1>3, <1>6 DEF xs, zs, k, a, b

LEMMA FlushFirst ==
  ASSUME NEW m, Sound(m), Packets(m), NEW o \in Output
  PROVE  Flushing(LetGoAll(m, o), m, o, LetGo(m.out[o]))
<1> DEFINE q == m.out[o]
           r == [q EXCEPT !.held = <<>>]
           n == LetGoAll(m, o)
<1>0. OutFits(q) /\ NoneWaits(m, o) /\ (Whole(m, o) => Accounted(m, o, LetGo(q)))
  BY DEF Sound, OutsFit, Packets, Balanced
<1>1. /\ OutFits(r) /\ SameEncoder(q, r) /\ r.finished = q.finished /\ r.frames = q.frames
      /\ r.queue = q.queue /\ r.held = <<>> /\ r.sent = q.sent /\ r.written = q.written
  BY <1>0, HeldEmptied
<1>2. n = PutOut(m, o, r)
  BY DEF LetGoAll
<1> HIDE DEF r, n
<1>3. Moved(m, n) /\ Others(m, n, o) /\ n.out[o] = r /\ n.dest = m.dest /\ n.how = m.how
  BY <1>1, <1>2, OutMoved
<1>4. n.opt = m.opt
  BY <1>3 DEF Moved, SameRest
<1>5. NoneWaits(n, o)
  BY <1>0, <1>1, <1>3 DEF NoneWaits
<1>6. Whole(n, o) => Whole(m, o)
  BY <1>1, <1>3 DEF Whole
<1>7. Whole(n, o) => Accounted(n, o, LetGo(q))
  <2> DEFINE k == LetGo(q)
  <2> HIDE DEF k
  <2>1. Accounted(m, o, k) => Accounted(n, o, k)
    BY <1>1, <1>3, <1>4 DEF Accounted, Quota
  <2> QED BY <1>0, <1>6, <2>1 DEF k
<1> QED BY <1>1, <1>3, <1>5, <1>7 DEF Flushing, n

\* To flush an encoder is to write what it held.
LEMMA FlushEncoderIs ==
  ASSUME NEW m, Sound(m), Packets(m), NEW o \in Output
  PROVE  Quiet(m, FlushEncoder(m, o))
<1> DEFINE q == m.out[o]
           b == Len(q.held)
           k == LetGo(q)
           xs == q.held
           n == FlushEncoder(m, o)
<1>0. OutFits(q) /\ Holding(q, o) /\ CountedVideo(m, o) /\ Delay[o] \in Nat
  BY OutputAssumption DEF Sound, OutsFit, Packets, Balanced
<1>1. b \in Nat /\ k \in Nat /\ Len(q.sent) \in Nat /\ k + b = Len(q.sent)
      /\ \A i \in 1..b : xs[i] = q.sent[k + i]
  <2> HIDE DEF q
  <2> QED BY <1>0, HeldAre
<1>2. PICK F : IsFlush(F, m, o)
  BY FlushSteps
<1>3. F[0] = LetGoAll(m, o) /\ n = F[b] /\ \A i \in 1..b : F[i] = FlushOf(o, F[i - 1], xs[i])
  BY <1>2 DEF IsFlush
<1>4. Flushing(LetGoAll(m, o), m, o, k)
  BY FlushFirst
<1> DEFINE P(i) == Flushing(F[i], m, o, k + i)
           T == {i \in 0..b : P(i)}
           a == Len(q.sent)
<1> HIDE DEF k, b, xs, n, a
<1>5. P(0)
  <2>1. k + 0 = k
    BY <1>1
  <2> QED BY <1>3, <1>4, <2>1
<1>6. ASSUME NEW i \in 1..b, P(i - 1) PROVE P(i)
  <2> DEFINE j == k + (i - 1)
             l == F[i - 1]
  <2>1. j \in Nat /\ j < a /\ j + 1 = k + i
    BY <1>1 DEF a
  <2>2. Flushing(l, m, o, j)
    BY <1>6
  <2>3. F[i] = FlushOf(o, l, q.sent[j + 1])
    BY <1>1, <1>3, <2>1
  <2> HIDE DEF j, l
  <2>4. Flushing(FlushOf(o, l, q.sent[j + 1]), m, o, j + 1)
    BY <2>1, <2>2, FlushNext DEF a
  <2> QED BY <2>1, <2>3, <2>4
<1> HIDE DEF P
<1>7. \A i \in 0..b : i \in T
  <2>1. 0 \in T
    BY <1>1, <1>5
  <2>2. \A i \in 1..b : i - 1 \in T => i \in T
    BY <1>1, <1>6
  <2> HIDE DEF T
  <2> QED BY <1>1, <2>1, <2>2, UpTo
<1>8. Flushing(n, m, o, a)
  <2>1. P(b)
    BY <1>1, <1>7
  <2> QED BY <1>1, <1>3, <2>1 DEF P, a
<1>9. /\ Moved(m, n) /\ Others(m, n, o) /\ NoneWaits(n, o)
      /\ n.out[o].sent = q.sent /\ n.out[o].held = <<>>
      /\ ~CountsPackets(o) => n.out[o].frames = q.frames
      /\ Whole(n, o) => Accounted(n, o, a)
  BY <1>8 DEF Flushing
<1>10. LetGo(n.out[o]) = a /\ Holding(n.out[o], o)
  <2>1. Len(<<>>) = 0 /\ a - 0 = a /\ 0 <= a /\ 0 <= Delay[o]
    BY <1>0, <1>1 DEF a
  <2>2. LetGo(n.out[o]) = a
    BY <1>9, <2>1 DEF LetGo, a
  <2>3. SubSeq(n.out[o].sent, a + 1, a) = <<>>
    <3>1. a + 1 \in Int /\ a \in Int /\ a < a + 1
      BY SMTT(60), <1>1 DEF a
    <3> QED BY <3>1, SubSeqEmpty
  <2> QED BY <1>9, <2>1, <2>2, <2>3 DEF Holding, a
<1>11. CountedVideo(n, o)
  BY <1>0, <1>9 DEF CountedVideo, CountsPackets, Moved, SameRest
<1>12. \A p \in Output \ {o} : Balanced(n, p) /\ NoneWaits(n, p)
  BY <1>9, BalancedElsewhere DEF Packets, Others
<1> QED BY <1>9, <1>10, <1>11, <1>12 DEF Quiet, Packets, Balanced, n

-----------------------------------------------------------------------------
(* The first frame of an output stream, or its end. *)

\* A file has its header once all its streams are initialized.
Headers(m) == \A d \in Dest : m.dest[d].header <=> \A o \in Siblings(d) : m.out[o].initialized

\* The encoder of o is opened, unless it was.
Initialized(m, n, o, format) ==
  /\ Sound(n) /\ SameRest(m, n) /\ (n.how = m.how \/ n.how = "abort")
  /\ \A p \in Output \ {o} : SameEncoder(m.out[p], n.out[p])
  /\ n.out[o].initialized
  /\ IF m.out[o].initialized THEN SameEncoder(m.out[o], n.out[o])
     ELSE /\ n.out[o].enc = format /\ n.out[o].took = m.out[o].took
          /\ n.out[o].device = DeviceForEncode(m, o, format)
  /\ Packets(m) => Packets(n)
  /\ Headers(m) => Headers(n)

\* Of o, no more is changed than what its encoder is opened for.
IsSet(m, n, o, format) ==
  /\ Sound(n) /\ SameRest(m, n) /\ n.how = m.how /\ n.dest = m.dest
  /\ \A p \in Output \ {o} : n.out[p] = m.out[p]
  /\ SamePackets(m.out[o], n.out[o]) /\ n.out[o].finished = m.out[o].finished
  /\ n.out[o].initialized = TRUE /\ n.out[o].enc = format /\ n.out[o].took = m.out[o].took
  /\ n.out[o].device = DeviceForEncode(m, o, format)

LEMMA EncoderSetIs ==
  ASSUME NEW m, Sound(m), NEW o \in Output, NEW format
  PROVE  IsSet(m, EncoderSet(m, o, format), o, format)
<1> DEFINE q == m.out[o]
           device == DeviceForEncode(m, o, format)
           r == [q EXCEPT !.initialized = TRUE, !.enc = format, !.device = device]
           n == EncoderSet(m, o, format)
<1>0. OutFits(q)
  BY DEF Sound, OutsFit
<1>1. n = PutOut(m, o, r)
  BY DEF EncoderSet, PutOut
<1> HIDE DEF device, n, q
<1>2. /\ DOMAIN r = OutFields /\ r.finished = q.finished
      /\ r.initialized = TRUE /\ r.frames = q.frames /\ r.sync = q.sync /\ r.nb0s = q.nb0s
      /\ r.last = q.last /\ r.queue = q.queue /\ r.held = q.held /\ r.enc = format /\ r.device = device
      /\ r.took = q.took /\ r.sent = q.sent /\ r.written = q.written
  BY <1>0 DEF OutFits, OutFields
<1> HIDE DEF r
<1>3. OutFits(r) /\ SamePackets(q, r)
  BY <1>0, <1>2 DEF OutFits, SamePackets
<1>4. /\ Sound(n) /\ SameRest(m, n) /\ n.dest = m.dest /\ n.how = m.how
      /\ n.out[o] = r /\ \A p \in Output \ {o} : n.out[p] = m.out[p]
  BY <1>1, <1>3, OutPut
<1> QED BY <1>2, <1>3, <1>4 DEF n, q, device, IsSet

\* Of what is only said of packets, nothing changes.
LEMMA PacketsSame ==
  ASSUME NEW m, NEW n, n.opt = m.opt, n.dest = m.dest, n.how = m.how, Packets(m),
         \A o \in Output : SamePackets(m.out[o], n.out[o]) /\ n.out[o].finished = m.out[o].finished
  PROVE  Packets(n)
<1> SUFFICES ASSUME NEW o \in Output PROVE Balanced(n, o) /\ NoneWaits(n, o)
  BY DEF Packets
<1>1. /\ SamePackets(m.out[o], n.out[o]) /\ n.out[o].finished = m.out[o].finished
      /\ Balanced(m, o) /\ NoneWaits(m, o)
  BY DEF Packets
<1>2. Holding(n.out[o], o) /\ LetGo(n.out[o]) = LetGo(m.out[o])
  BY <1>1 DEF Balanced, Holding, SamePackets, LetGo
<1>3. CountedVideo(n, o)
  BY <1>1 DEF Balanced, CountedVideo, SamePackets
<1>4. Whole(n, o) => Whole(m, o)
  BY <1>1 DEF Whole
<1>5. Accounted(m, o, LetGo(m.out[o])) => Accounted(n, o, LetGo(m.out[o]))
  BY <1>1 DEF Accounted, SamePackets, Quota
<1>6. NoneWaits(n, o)
  BY <1>1 DEF NoneWaits, SamePackets
<1> QED BY <1>1, <1>2, <1>3, <1>4, <1>5, <1>6 DEF Balanced

LEMMA InitOutputIs ==
  ASSUME NEW m, Sound(m), NEW o \in Output, NEW format
  PROVE  Initialized(m, InitOutput(m, o, format), o, format)
<1> DEFINE n == InitOutput(m, o, format)
           d == DestOf[o]
<1>0. d \in Dest /\ m.out[o].initialized \in BOOLEAN
  BY OutputAssumption DEF Sound, OutsFit, OutFits
<1>1. CASE m.out[o].initialized
  <2>1. n = m
    BY <1>1 DEF InitOutput
  <2> QED BY <1>1, <2>1, Refl DEF Initialized, SameEncoders
<1>2. CASE ~m.out[o].initialized
  <2> DEFINE k == EncoderSet(m, o, format)
  <2>1. n = CheckInitOutputFile(k, d)
    BY <1>2 DEF InitOutput
  <2>2. /\ Sound(k) /\ SameRest(m, k) /\ k.how = m.how /\ k.dest = m.dest
        /\ \A p \in Output \ {o} : k.out[p] = m.out[p]
        /\ SamePackets(m.out[o], k.out[o]) /\ k.out[o].finished = m.out[o].finished
        /\ k.out[o].initialized = TRUE /\ k.out[o].enc = format /\ k.out[o].took = m.out[o].took
        /\ k.out[o].device = DeviceForEncode(m, o, format)
    <3>1. IsSet(m, k, o, format)
      BY EncoderSetIs
    <3> QED BY <3>1 DEF IsSet
  <2> HIDE DEF k, n
  <2>3. Packets(m) => Packets(k)
    BY <2>2, PacketsSame DEF SameRest, SamePackets
  <2>4. ASSUME NEW e \in Dest, Headers(m)
        PROVE  IF e = d THEN ~k.dest[e].header
               ELSE k.dest[e].header <=> \A p \in Siblings(e) : k.out[p].initialized
    <3>1. CASE e = d
      <4>1. o \in Siblings(d)
        BY DEF Siblings
      <4> QED BY <1>2, <2>2, <2>4, <3>1, <4>1 DEF Headers
    <3>2. CASE e # d
      <4>1. \A p \in Siblings(e) : p \in Output \ {o}
        BY <3>2 DEF Siblings
      <4> QED BY <2>2, <2>4, <3>2, <4>1 DEF Headers
    <3> QED BY <3>1, <3>2
  <2>5. CASE \E p \in Siblings(d) : ~k.out[p].initialized
    <3>1. n = k
      BY <2>1, <2>5 DEF CheckInitOutputFile
    <3>2. Headers(m) => Headers(k)
      BY <2>4, <2>5 DEF Headers
    <3>3. \A p \in Output \ {o} : SameEncoder(m.out[p], k.out[p])
      BY <2>2 DEF SameEncoder
    <3> QED BY <1>2, <2>2, <2>3, <3>1, <3>2, <3>3 DEF Initialized, n
  <2>6. CASE ~\E p \in Siblings(d) : ~k.out[p].initialized
    <3>1. HeaderWritten(k, n, d)
      <4>1. \A p \in Siblings(d) : k.out[p].initialized
        BY <2>6
      <4> QED BY <1>0, <2>1, <2>2, <4>1, HeaderIs
    <3>2. /\ Sound(n) /\ SameRest(k, n) /\ SameEncoders(k, n)
          /\ (n.how = k.how \/ n.how = "abort")
          /\ n.dest[d].header /\ \A e \in Dest \ {d} : n.dest[e].header = k.dest[e].header
          /\ (Packets(k) => Packets(n))
      BY <3>1 DEF HeaderWritten
    <3>3. \A p \in Output : SameEncoder(k.out[p], n.out[p])
      BY <3>2 DEF SameEncoders
    <3>4. Headers(m) => Headers(n)
      <4> SUFFICES ASSUME Headers(m), NEW e \in Dest
                   PROVE  n.dest[e].header <=> \A p \in Siblings(e) : n.out[p].initialized
        BY DEF Headers
      <4>1. \A p \in Siblings(e) : n.out[p].initialized = k.out[p].initialized
        BY <3>3 DEF SameEncoder, Siblings
      <4>2. CASE e = d
        BY <2>6, <3>2, <4>1, <4>2
      <4>3. CASE e # d
        BY <2>4, <3>2, <4>1, <4>3
      <4> QED BY <4>2, <4>3
    <3>5. \A p \in Output \ {o} : SameEncoder(m.out[p], n.out[p])
      BY <2>2, <3>3 DEF SameEncoder
    <3>6. /\ n.out[o].initialized /\ n.out[o].enc = format /\ n.out[o].took = m.out[o].took
          /\ n.out[o].device = DeviceForEncode(m, o, format)
      BY <2>2, <3>3 DEF SameEncoder
    <3>7. SameRest(m, n)
      BY <2>2, <3>2 DEF SameRest
    <3> QED BY <1>2, <2>2, <2>3, <3>2, <3>4, <3>5, <3>6, <3>7 DEF Initialized, n
  <2> QED BY <2>5, <2>6
<1> QED BY <1>1, <1>2

-----------------------------------------------------------------------------
(* The formats of a graph. *)

\* The least of some numbers is one of them.
LEMMA LeastOf ==
  ASSUME NEW S, S \subseteq Nat, S # {}
  PROVE  Min(S) \in S
<1>1. \E i \in S : \A j \in S : ~(j < i)
  BY LeastNat
<1>2. \E i \in S : \A j \in S : i <= j
  BY <1>1
<1> QED BY <1>2 DEF Min

\* The format is one that the encoder of o takes.
Takes(o, format, opts) ==
  /\ format \in Format
  /\ Supported[o] # <<>> /\ ~opts.keep[o] => Contains(Supported[o], format[2])

\* What is known of the sink of o in the graph q, and of the encoder of o.
SinkFits(o, q, opts) == q.limit[o] = NoFormat \/ Takes(o, q.limit[o], opts)

EncoderFits(m, o) ==
  /\ IF m.out[o].initialized
     THEN /\ Takes(o, m.out[o].enc, m.opt) /\ SinkFormat(m, o) = m.out[o].enc
          /\ m.out[o].took \subseteq {m.out[o].enc}
          /\ m.how = "ok" => m.fg[GraphOf[o]].graph
     ELSE m.out[o].took = {}

LEMMA NegotiatedIs ==
  ASSUME NEW m, NEW g, NEW sample \in Sample, NEW allowed \in Seq(Sample)
  PROVE  LET r == Negotiated(m, g, sample, allowed)
         IN r = Null \/ (r \in Sample /\ (allowed # <<>> => Contains(allowed, r)))
<1> DEFINE I == {i \in 1..Len(allowed) : allowed[i] \notin Hardware}
           soft == SelectInSeq(allowed, LAMBDA a : a \notin Hardware)
<1>1. soft = IF I # {} THEN Min(I) ELSE 0
  BY DEF SelectInSeq
<1>2. Len(allowed) \in Nat /\ \A i \in 1..Len(allowed) : allowed[i] \in Sample
  BY LenProperties, ElementOfSeq
<1>3. soft # 0 => soft \in 1..Len(allowed)
  <2>1. I \subseteq Nat /\ I \subseteq 1..Len(allowed)
    BY <1>2
  <2> HIDE DEF I
  <2> QED BY <1>1, <2>1, LeastOf
<1>4. Negotiated(m, g, sample, allowed) =
        IF allowed = <<>> \/ Contains(allowed, sample) THEN sample
        ELSE IF AutoConvert(m, g) /\ sample \notin Hardware /\ soft # 0 THEN allowed[soft]
        ELSE Null
  BY DEF Negotiated
<1> HIDE DEF soft
<1>5. CASE allowed = <<>> \/ Contains(allowed, sample)
  BY <1>4, <1>5
<1>6. CASE ~(allowed = <<>> \/ Contains(allowed, sample)) /\ soft \in 1..Len(allowed)
  <2>1. Contains(allowed, allowed[soft]) /\ allowed[soft] \in Sample
    BY <1>2, <1>6 DEF Contains
  <2> QED BY <1>4, <1>6, <2>1
<1> QED BY <1>3, <1>4, <1>5, <1>6

LEMMA ChosenPixFmts ==
  ASSUME NEW m, m.opt \in Options, NEW o \in Output, m.out[o].initialized => Takes(o, m.out[o].enc, m.opt)
  PROVE  LET r == ChoosePixFmts(m, o)
         IN /\ r \in Seq(Sample)
            /\ m.out[o].initialized => r = <<m.out[o].enc[2]>>
            /\ Supported[o] # <<>> /\ ~m.opt.keep[o] =>
                 r # <<>> /\ \A x : Contains(r, x) => Contains(Supported[o], x)
<1> DEFINE sample == IF m.out[o].initialized THEN m.out[o].enc[2] ELSE m.opt.pix[o]
           chosen == IF m.opt.keep[o] THEN sample ELSE ChoosePixelFmt(o, sample)
           r == ChoosePixFmts(m, o)
           xs == Supported[o]
<1>1. xs \in Seq(Sample) /\ Null \notin Sample
  BY FilterAssumption
<1>2. sample \in Sample \cup {Null} /\ (m.out[o].initialized => sample \in Sample)
  BY OptionsAssumption DEF Takes, Format
<1>3. r = IF sample = Null THEN (IF m.opt.keep[o] THEN <<>> ELSE xs) ELSE <<chosen>>
  BY DEF ChoosePixFmts
<1>4. ASSUME sample # Null
      PROVE  /\ chosen \in Sample
             /\ m.out[o].initialized => chosen = m.out[o].enc[2]
             /\ xs # <<>> /\ ~m.opt.keep[o] => Contains(xs, chosen)
  <2>1. chosen = IF m.opt.keep[o] \/ xs = <<>> \/ Contains(xs, sample) THEN sample ELSE Head(xs)
    BY DEF ChoosePixelFmt
  <2>2. xs # <<>> => Head(xs) \in Sample /\ Contains(xs, Head(xs))
    <3>1. xs # <<>> => Head(xs) = xs[1] /\ 1 \in 1..Len(xs) /\ xs[1] \in Sample
      BY <1>1, LenProperties, EmptySeq, ElementOfSeq
    <3> QED BY <3>1 DEF Contains
  <2>3. m.out[o].initialized => sample = m.out[o].enc[2] /\ (xs = <<>> \/ m.opt.keep[o] \/ Contains(xs, sample))
    BY DEF Takes
  <2> HIDE DEF chosen, sample, xs
  <2> QED BY <1>2, <1>4, <2>1, <2>2, <2>3
<1> HIDE DEF chosen, r, xs
<1>5. CASE sample = Null
  <2>1. ~m.out[o].initialized /\ r = IF m.opt.keep[o] THEN <<>> ELSE xs
    BY <1>1, <1>2, <1>3, <1>5
  <2>2. r \in Seq(Sample)
    BY <1>1, <2>1, EmptySeq
  <2> QED BY <2>1, <2>2 DEF r, xs
<1>6. CASE sample # Null
  <2>1. r = <<chosen>> /\ chosen \in Sample
    BY <1>3, <1>4, <1>6
  <2>2. \A x : Contains(r, x) => x = chosen
    BY <2>1 DEF Contains
  <2>3. r \in Seq(Sample) /\ r # <<>>
    BY <2>1
  <2> QED BY <1>4, <1>6, <2>1, <2>2, <2>3 DEF r, xs
<1> QED BY <1>5, <1>6

\* What the outputs of a graph are asked to give fits what is known of them.
Agrees(m, o, r) ==
  r = NoFormat \/ (Takes(o, r, m.opt) /\ (m.out[o].initialized => r = m.out[o].enc))

LEMMA PairIs ==
  ASSUME NEW f \in Format
  PROVE  f[1] \in Shape /\ f[2] \in Sample /\ f = <<f[1], f[2]>> /\ f # NoFormat
BY FilterAssumption DEF Format

\* The encoder of o is opened for what its sink gives.
OpenedFor(m, o) == m.out[o].initialized => Takes(o, m.out[o].enc, m.opt) /\ SinkFormat(m, o) = m.out[o].enc

LEMMA ShapeIs ==
  ASSUME NEW m, NEW o, NEW format \in Format, SinkFormat(m, o) \in Format \cup {NoFormat}, OpenedFor(m, o)
  PROVE  /\ OutputShape(m, o, format) \in Shape
         /\ m.out[o].initialized => OutputShape(m, o, format) = m.out[o].enc[1]
<1>1. NoFormat \notin Format /\ \A f \in Format : f[1] \in Shape
  BY FilterAssumption, PairIs
<1>2. m.out[o].initialized => SinkFormat(m, o) = m.out[o].enc /\ m.out[o].enc \in Format
  BY DEF OpenedFor, Takes
<1>3. OutputShape(m, o, format) = IF SinkFormat(m, o) = NoFormat THEN format[1] ELSE SinkFormat(m, o)[1]
  BY DEF OutputShape
<1> QED BY <1>1, <1>2, <1>3

LEMMA OutputVideoIs ==
  ASSUME NEW m, m.opt \in Options, NEW o \in Output, NEW format \in Format,
         SinkFormat(m, o) \in Format \cup {NoFormat}, OpenedFor(m, o)
  PROVE  Agrees(m, o, OutputVideo(m, o, format))
<1> DEFINE allowed == ChoosePixFmts(m, o)
           sample == Negotiated(m, GraphOf[o], format[2], allowed)
           shape == OutputShape(m, o, format)
           r == <<shape, sample>>
           enc == m.out[o].enc
<1>1. /\ allowed \in Seq(Sample)
      /\ m.out[o].initialized => allowed = <<enc[2]>>
      /\ Supported[o] # <<>> /\ ~m.opt.keep[o] =>
           allowed # <<>> /\ \A x : Contains(allowed, x) => Contains(Supported[o], x)
  <2>1. m.out[o].initialized => Takes(o, m.out[o].enc, m.opt)
    BY DEF OpenedFor
  <2> QED BY <2>1, ChosenPixFmts
<1>2. format[2] \in Sample
  BY PairIs
<1>3. shape \in Shape /\ (m.out[o].initialized => shape = enc[1])
  BY ShapeIs
<1>4. OutputVideo(m, o, format) = NoFormat \/ (OutputVideo(m, o, format) = r /\ sample # Null)
  BY DEF OutputVideo
<1>5. sample = Null \/ (sample \in Sample /\ (allowed # <<>> => Contains(allowed, sample)))
  <2> HIDE DEF allowed
  <2> QED BY <1>1, <1>2, NegotiatedIs
<1> HIDE DEF allowed, sample, shape
<1>6. ASSUME sample # Null PROVE Takes(o, r, m.opt)
  BY <1>1, <1>3, <1>5, <1>6 DEF Takes, Format
<1>7. ASSUME sample # Null, m.out[o].initialized PROVE r = enc
  <2>1. enc \in Format
    BY <1>7 DEF OpenedFor, Takes
  <2>2. enc = <<enc[1], enc[2]>>
    BY <2>1, PairIs
  <2>3. sample = enc[2]
    <3>1. \A x, y : Contains(<<x>>, y) => y = x
      BY DEF Contains
    <3>2. allowed = <<enc[2]>> /\ allowed # <<>> /\ Contains(allowed, sample)
      <4>1. <<enc[2]>> # <<>>
        OBVIOUS
      <4> HIDE DEF enc
      <4> QED BY <1>1, <1>5, <1>7, <4>1 DEF enc
    <3> HIDE DEF enc
    <3> QED BY <3>1, <3>2
  <2> QED BY <1>3, <1>7, <2>2, <2>3
<1> QED BY <1>4, <1>6, <1>7 DEF Agrees

LEMMA OutputAudioIs ==
  ASSUME NEW m, NEW o \in Output, NEW format \in Format,
         SinkFormat(m, o) = NoFormat \/ Takes(o, SinkFormat(m, o), m.opt), OpenedFor(m, o)
  PROVE  Agrees(m, o, OutputAudio(m, o, format))
<1> DEFINE xs == Supported[o]
           limit == SinkFormat(m, o)
           allowed == ChooseSampleFmts(m, o)
           sample == IF allowed = <<>> \/ Contains(allowed, format[2]) THEN format[2] ELSE Head(allowed)
           shape == OutputShape(m, o, format)
           r == <<shape, sample>>
           enc == m.out[o].enc
<1>1. /\ xs \in Seq(Sample) /\ format[2] \in Sample
      /\ limit # NoFormat => limit \in Format /\ limit[2] \in Sample
  BY FilterAssumption, PairIs DEF Takes
<1>2. shape \in Shape /\ (m.out[o].initialized => shape = enc[1])
  BY <1>1, ShapeIs
<1>3. OutputAudio(m, o, format) = r
  BY DEF OutputAudio
<1>4. allowed = IF limit # NoFormat THEN <<limit[2]>> ELSE xs
  BY DEF ChooseSampleFmts
<1> HIDE DEF shape, allowed
<1>5. xs # <<>> => Head(xs) \in Sample /\ Contains(xs, Head(xs))
  <2>1. xs # <<>> => Head(xs) = xs[1] /\ 1 \in 1..Len(xs) /\ xs[1] \in Sample
    BY <1>1, LenProperties, EmptySeq, ElementOfSeq
  <2> QED BY <2>1 DEF Contains
<1> HIDE DEF xs
<1>6. ASSUME limit # NoFormat PROVE sample = limit[2]
  <2>1. Contains(<<limit[2]>>, format[2]) => format[2] = limit[2]
    BY DEF Contains
  <2>2. allowed = <<limit[2]>>
    BY <1>4, <1>6
  <2>3. Head(<<limit[2]>>) = limit[2] /\ <<limit[2]>> # <<>>
    OBVIOUS
  <2> HIDE DEF limit
  <2> QED BY <2>1, <2>2, <2>3
<1>7. ASSUME limit = NoFormat PROVE sample \in Sample /\ (xs # <<>> => Contains(xs, sample))
  <2>1. allowed = xs
    BY <1>4, <1>7
  <2> QED BY <1>1, <1>5, <2>1
<1> HIDE DEF sample
<1>8. Takes(o, r, m.opt)
  <2>1. CASE limit # NoFormat
    BY <1>1, <1>2, <1>6, <2>1 DEF Takes, Format
  <2>2. CASE limit = NoFormat
    BY <1>2, <1>7, <2>2 DEF Takes, Format, xs
  <2> QED BY <2>1, <2>2
<1>9. ASSUME m.out[o].initialized PROVE r = enc
  <2>1. enc \in Format /\ limit = enc
    BY <1>9 DEF OpenedFor, Takes
  <2>2. enc = <<enc[1], enc[2]>> /\ enc # NoFormat
    BY <2>1, PairIs
  <2> QED BY <1>2, <1>6, <1>9, <2>1, <2>2
<1> QED BY <1>3, <1>8, <1>9 DEF Agrees

LEMMA OutputFormatIs ==
  ASSUME NEW m, m.opt \in Options, NEW o \in Output, NEW format \in Format \cup {NoFormat},
         SinkFormat(m, o) = NoFormat \/ Takes(o, SinkFormat(m, o), m.opt), OpenedFor(m, o)
  PROVE  Agrees(m, o, OutputFormat(m, o, format))
<1>1. CASE format = NoFormat
  BY <1>1 DEF OutputFormat, Agrees
<1>2. CASE format # NoFormat
  <2>1. format \in Format /\ SinkFormat(m, o) \in Format \cup {NoFormat}
    BY <1>2 DEF Takes
  <2> QED BY <1>2, <2>1, OutputVideoIs, OutputAudioIs DEF OutputFormat
<1> QED BY <1>1, <1>2

\* What a frame is when it comes out of its decoder.
LEMMA RetrievedIs ==
  ASSUME NEW d, NEW s \in Stream, NEW soft \in Sample
  PROVE  Retrieved(d, s, soft) \in Sample
<1> DEFINE xs == DecConfigs[s]
           I == {i \in 1..Len(xs) : Accepted(d, s, xs[i].pix)}
           k == SelectInSeq(xs, LAMBDA c : Accepted(d, s, c.pix))
<1>1. xs \in Seq(ToSet(xs)) /\ \A c \in ToSet(xs) : c.pix \in Sample
  BY StreamAssumption
<1>2. Len(xs) \in Nat /\ \A i \in 1..Len(xs) : xs[i].pix \in Sample
  <2> HIDE DEF xs
  <2> QED BY <1>1, LenProperties, ElementOfSeq
<1>3. k = IF I # {} THEN Min(I) ELSE 0
  BY DEF SelectInSeq
<1>4. k # 0 => k \in 1..Len(xs)
  <2>1. I \subseteq Nat /\ I \subseteq 1..Len(xs)
    BY <1>2
  <2> HIDE DEF I
  <2> QED BY <1>3, <2>1, LeastOf
<1>5. GetFormat(d, s, soft) = IF k = 0 THEN soft ELSE xs[k].pix
  BY DEF GetFormat
<1> HIDE DEF k, xs
<1>6. GetFormat(d, s, soft) \in Sample
  BY <1>2, <1>4, <1>5
<1> QED BY <1>6 DEF Retrieved

LEMMA FormatInIs ==
  ASSUME NEW m, NEW frame \in Frame
  PROVE  FormatIn(m, frame) \in Format
<1>1. FormatOf(frame) \in Format /\ SourceOf(frame) \in Stream
  BY FrameIs
<1>2. FormatOf(frame)[1] \in Shape /\ FormatOf(frame)[2] \in Sample
  BY <1>1, PairIs
<1>3. Retrieved(m.dec[SourceOf(frame)], SourceOf(frame), FormatOf(frame)[2]) \in Sample
  BY <1>1, <1>2, RetrievedIs
<1> QED BY <1>2, <1>3 DEF FormatIn, Format

\* What comes out of the filters.
LEMMA MixedIs ==
  ASSUME NEW m, NEW g \in Graph, m.fg[g].format \in [InputsOf(g) -> Format \cup {NoFormat}],
         HasAllInputFormats(m.fg[g])
  PROVE  Mixed(m, g) \in Format \cup {NoFormat}
<1> DEFINE q == m.fg[g]
           formats == [s \in InputsOf(g) |-> InputFormat(m, q, s)]
<1>1. ASSUME NEW s \in InputsOf(g) PROVE formats[s] \in Format \cup {NoFormat}
  <2>1. q.format[s] \in Format
    BY DEF HasAllInputFormats
  <2>2. q.format[s][1] \in Shape /\ q.format[s][2] \in Sample
    BY <2>1, PairIs
  <2>3. Turned(q.format[s][1]) \in Shape
    BY <2>2, FilterAssumption
  <2>4. InputFormat(m, q, s) \in Format \cup {NoFormat}
    BY <2>1, <2>2, <2>3 DEF InputFormat, Format
  <2> QED BY <2>4
<1>2. Head(Inputs[g]) \in InputsOf(g)
  <2>1. Inputs[g] \in Seq(InputsOf(g)) /\ Inputs[g] # <<>>
    BY FilterAssumption
  <2> DEFINE xs == Inputs[g]
             S == InputsOf(g)
  <2> HIDE DEF xs, S
  <2>2. Head(xs) \in S
    BY <2>1, HeadTailProperties DEF xs, S
  <2> QED BY <2>2 DEF xs, S
<1>3. Mixed(m, g) = formats[Head(Inputs[g])] \/ Mixed(m, g) = NoFormat
  BY DEF Mixed
<1> HIDE DEF formats
<1> QED BY <1>1, <1>2, <1>3

-----------------------------------------------------------------------------
(* The filter graphs. *)

GraphFields == {"graph", "format", "eof", "queue", "limit", "closed", "pending", "inside", "sink", "reaped", "lost"}

\* A filter graph
GraphFits(g, q, opts) ==
  /\ DOMAIN q = GraphFields
  /\ q.graph \in BOOLEAN
  /\ q.format \in [InputsOf(g) -> Format \cup {NoFormat}]
  /\ q.eof \in [InputsOf(g) -> BOOLEAN]
  /\ q.queue \in [InputsOf(g) -> Seq(Frame)]
  /\ DOMAIN q.limit = OutputsOf(g) /\ \A o \in OutputsOf(g) : SinkFits(o, q, opts)
  /\ q.closed \in SUBSET InputsOf(g)
  /\ q.pending \in Seq(Frame) /\ q.inside \in Seq(Frame)
  /\ q.sink \in [OutputsOf(g) -> Seq(Frame)] /\ DOMAIN q.reaped = OutputsOf(g)

\* A graph that is built knows the formats and the ends of its inputs, and what its
\* outputs give; no frame waits for it.
Ready(g, q) ==
  q.graph =>
    /\ HasAllInputFormats(q)
    /\ \A s \in InputsOf(g) : q.queue[s] = <<>>
    /\ q.closed = {s \in InputsOf(g) : q.eof[s]}
    /\ \A o \in OutputsOf(g) : q.limit[o] # NoFormat

\* The graph is as it was, but for the frames in it.
SameShape(q, r) ==
  /\ r.graph = q.graph /\ r.format = q.format /\ r.eof = q.eof /\ r.queue = q.queue
  /\ r.limit = q.limit /\ r.closed = q.closed

LEMMA SameShapeFits ==
  ASSUME NEW g, NEW q, NEW r, NEW opts, GraphFits(g, q, opts), Ready(g, q), SameShape(q, r),
         DOMAIN r = GraphFields, r.pending \in Seq(Frame), r.inside \in Seq(Frame),
         r.sink \in [OutputsOf(g) -> Seq(Frame)], DOMAIN r.reaped = OutputsOf(g)
  PROVE  GraphFits(g, r, opts) /\ Ready(g, r)
<1>1. GraphFits(g, r, opts)
  BY DEF GraphFits, SameShape, SinkFits
<1>2. Ready(g, r)
  BY DEF Ready, SameShape, HasAllInputFormats
<1> QED BY <1>1, <1>2

\* The filters run.
LEMMA RunIs ==
  ASSUME NEW g \in Graph, NEW q, NEW opts, GraphFits(g, q, opts)
  PROVE  LET r == Run(g, q)
         IN /\ SameShape(q, r) /\ DOMAIN r = GraphFields
            /\ r.pending = <<>> /\ r.inside \in Seq(Frame)
            /\ r.sink \in [OutputsOf(g) -> Seq(Frame)] /\ r.reaped = q.reaped
<1> DEFINE all == q.inside \o q.pending
           kept == IF AllClosed(g, q) THEN 0 ELSE Least(Lag[g], Len(all))
           ready == SubSeq(all, 1, Len(all) - kept)
           rest == SubSeq(all, Len(ready) + 1, Len(all))
           r == Run(g, q)
<1>1. all \in Seq(Frame) /\ Len(all) \in Nat /\ \A i \in 1..Len(all) : all[i] \in Frame
  <2>1. q.inside \in Seq(Frame) /\ q.pending \in Seq(Frame)
    BY DEF GraphFits
  <2>2. all \in Seq(Frame)
    BY <2>1, ConcatProperties
  <2> HIDE DEF all
  <2> QED BY <2>2, LenProperties, ElementOfSeq
<1>2. r = [q EXCEPT !.inside = rest, !.pending = <<>>, !.sink = [o \in DOMAIN @ |-> @[o] \o ready]]
  BY DEF Run
<1> HIDE DEF r, all
<1>3. kept \in Nat /\ kept <= Len(all)
  <2>1. Lag[g] \in Nat
    BY FilterAssumption
  <2> QED BY <1>1, <2>1 DEF Least
<1> HIDE DEF kept
<1>4. ready \in Seq(Frame) /\ Len(ready) = Len(all) - kept
  BY <1>1, <1>3, Cut
<1> HIDE DEF ready
<1>5. rest \in Seq(Frame)
  BY <1>1, <1>3, <1>4, Cut
<1> HIDE DEF rest
<1>6. /\ DOMAIN r = GraphFields /\ SameShape(q, r)
      /\ r.pending = <<>> /\ r.inside = rest /\ r.reaped = q.reaped
      /\ r.sink = [o \in DOMAIN q.sink |-> q.sink[o] \o ready]
  BY <1>2 DEF GraphFits, GraphFields, SameShape
<1>7. r.sink \in [OutputsOf(g) -> Seq(Frame)]
  <2>1. \A xs \in Seq(Frame) : xs \o ready \in Seq(Frame)
    BY <1>4, ConcatProperties
  <2>2. q.sink \in [OutputsOf(g) -> Seq(Frame)]
    BY DEF GraphFits
  <2> DEFINE S == OutputsOf(g)
             sink == q.sink
  <2> HIDE DEF S, sink
  <2>3. [o \in DOMAIN sink |-> sink[o] \o ready] \in [S -> Seq(Frame)]
    BY <2>1, <2>2 DEF S, sink
  <2> QED BY <1>6, <2>3 DEF S, sink
<1> QED BY <1>5, <1>6, <1>7 DEF r

\* What a graph keeps when only frames move in it.
Steady(g, q, r, opts) == SameShape(q, r) /\ GraphFits(g, r, opts) /\ Ready(g, r)

LEMMA RunSteady ==
  ASSUME NEW g \in Graph, NEW q, NEW opts, GraphFits(g, q, opts), Ready(g, q)
  PROVE  Steady(g, q, Run(g, q), opts)
<1> DEFINE r == Run(g, q)
<1>1. /\ SameShape(q, r) /\ DOMAIN r = GraphFields
      /\ r.pending = <<>> /\ r.inside \in Seq(Frame)
      /\ r.sink \in [OutputsOf(g) -> Seq(Frame)] /\ r.reaped = q.reaped
  BY RunIs
<1>2. r.pending \in Seq(Frame)
  BY <1>1, EmptySeq
<1>3. DOMAIN r.reaped = OutputsOf(g)
  BY <1>1 DEF GraphFits
<1> HIDE DEF r
<1>4. GraphFits(g, r, opts) /\ Ready(g, r)
  BY <1>1, <1>2, <1>3, SameShapeFits
<1> QED BY <1>1, <1>4 DEF Steady, r

LEMMA PushSteady ==
  ASSUME NEW g \in Graph, NEW q, NEW opts, GraphFits(g, q, opts), Ready(g, q), NEW frame \in Frame
  PROVE  Steady(g, q, Push(g, q, frame), opts)
<1> DEFINE xs == Append(q.pending, frame)
           r == [q EXCEPT !.pending = xs]
<1>1. xs \in Seq(Frame)
  BY AppendProperties DEF GraphFits
<1> HIDE DEF xs
<1>2. /\ SameShape(q, r) /\ DOMAIN r = GraphFields /\ r.pending = xs
      /\ r.inside = q.inside /\ r.sink = q.sink /\ r.reaped = q.reaped
  BY DEF GraphFits, GraphFields, SameShape
<1>3. Push(g, q, frame) = Run(g, r)
  BY DEF Push, xs
<1> HIDE DEF r
<1>4. GraphFits(g, r, opts) /\ Ready(g, r)
  <2>1. /\ r.inside \in Seq(Frame) /\ r.pending \in Seq(Frame)
        /\ r.sink \in [OutputsOf(g) -> Seq(Frame)] /\ DOMAIN r.reaped = OutputsOf(g)
    BY <1>1, <1>2 DEF GraphFits
  <2> QED BY <1>2, <2>1, SameShapeFits
<1>5. Steady(g, r, Run(g, r), opts)
  BY <1>4, RunSteady
<1> QED BY <1>2, <1>3, <1>5 DEF Steady, SameShape

\* The frames in a sink are taken out.
TakenOut(q, o) == [q EXCEPT !.sink[o] = <<>>, !.reaped[o] = @ \o q.sink[o]]

LEMMA TakenOutSteady ==
  ASSUME NEW g \in Graph, NEW q, NEW opts, GraphFits(g, q, opts), Ready(g, q), NEW o \in OutputsOf(g)
  PROVE  Steady(g, q, TakenOut(q, o), opts)
<1> DEFINE r == TakenOut(q, o)
<1>1. /\ SameShape(q, r) /\ DOMAIN r = GraphFields /\ r.pending = q.pending
      /\ r.inside = q.inside /\ r.sink = [q.sink EXCEPT ![o] = <<>>] /\ DOMAIN r.reaped = DOMAIN q.reaped
  BY DEF GraphFits, GraphFields, SameShape, TakenOut
<1> HIDE DEF r
<1>2. /\ r.inside \in Seq(Frame) /\ r.pending \in Seq(Frame)
      /\ r.sink \in [OutputsOf(g) -> Seq(Frame)] /\ DOMAIN r.reaped = OutputsOf(g)
  BY <1>1, EmptySeq DEF GraphFits
<1>3. GraphFits(g, r, opts) /\ Ready(g, r)
  BY <1>1, <1>2, SameShapeFits
<1> QED BY <1>1, <1>3 DEF r, Steady

\* The format of an input changes, or becomes known.
Noted(q, s, format) == [q EXCEPT !.format[s] = format]

LEMMA NotedFits ==
  ASSUME NEW g \in Graph, NEW q, NEW opts, GraphFits(g, q, opts), Ready(g, q), NEW s, NEW format \in Format
  PROVE  LET r == Noted(q, s, format)
         IN GraphFits(g, r, opts) /\ Ready(g, r) /\ r.graph = q.graph /\ r.limit = q.limit
<1> DEFINE r == Noted(q, s, format)
<1>1. /\ DOMAIN r = GraphFields /\ r.graph = q.graph /\ r.eof = q.eof /\ r.queue = q.queue
      /\ r.limit = q.limit /\ r.closed = q.closed /\ r.pending = q.pending /\ r.inside = q.inside
      /\ r.sink = q.sink /\ r.reaped = q.reaped /\ r.format = [q.format EXCEPT ![s] = format]
  BY DEF GraphFits, GraphFields, Noted
<1> HIDE DEF r
<1>2. r.format \in [InputsOf(g) -> Format \cup {NoFormat}]
  BY <1>1 DEF GraphFits
<1>3. HasAllInputFormats(q) => HasAllInputFormats(r)
  BY <1>1, PairIs DEF HasAllInputFormats
<1>4. GraphFits(g, r, opts)
  BY <1>1, <1>2 DEF GraphFits, SinkFits
<1>5. Ready(g, r)
  BY <1>1, <1>3 DEF Ready
<1> QED BY <1>1, <1>4, <1>5 DEF r

\* The formats that are not known are those that are declared.
Filled(g, q, streams) ==
  [q EXCEPT !.format = [s \in InputsOf(g) |-> IF s \in streams /\ @[s] = NoFormat THEN Declared[s] ELSE @[s]]]

LEMMA FilledFits ==
  ASSUME NEW g \in Graph, NEW q, NEW opts, GraphFits(g, q, opts), Ready(g, q), NEW streams
  PROVE  LET r == Filled(g, q, streams)
         IN /\ GraphFits(g, r, opts) /\ Ready(g, r) /\ r.graph = q.graph /\ r.limit = q.limit
            /\ InputsOf(g) \subseteq streams => HasAllInputFormats(r)
<1> DEFINE r == Filled(g, q, streams)
<1>1. /\ DOMAIN r = GraphFields /\ r.graph = q.graph /\ r.eof = q.eof /\ r.queue = q.queue
      /\ r.limit = q.limit /\ r.closed = q.closed /\ r.pending = q.pending /\ r.inside = q.inside
      /\ r.sink = q.sink /\ r.reaped = q.reaped
      /\ r.format = [s \in InputsOf(g) |-> IF s \in streams /\ q.format[s] = NoFormat THEN Declared[s] ELSE q.format[s]]
  BY DEF GraphFits, GraphFields, Filled
<1> HIDE DEF r
<1>2. ASSUME NEW s \in InputsOf(g)
      PROVE  /\ r.format[s] \in Format \cup {NoFormat}
             /\ q.format[s] # NoFormat \/ s \in streams => r.format[s] # NoFormat
  <2>1. q.format[s] \in Format \cup {NoFormat}
    BY DEF GraphFits
  <2>2. Declared[s] \in Format
    BY StreamAssumption
  <2>3. Declared[s] # NoFormat
    BY <2>2, PairIs
  <2> QED BY <1>1, <2>1, <2>2, <2>3
<1>3. r.format \in [InputsOf(g) -> Format \cup {NoFormat}]
  BY <1>1, <1>2
<1>4. GraphFits(g, r, opts)
  BY <1>1, <1>3 DEF GraphFits, SinkFits
<1>5. HasAllInputFormats(q) \/ InputsOf(g) \subseteq streams => HasAllInputFormats(r)
  <2>1. DOMAIN r.format = InputsOf(g) /\ DOMAIN q.format = InputsOf(g)
    BY <1>3 DEF GraphFits
  <2> QED BY <1>2, <2>1 DEF HasAllInputFormats
<1>6. Ready(g, r)
  BY <1>1, <1>5 DEF Ready
<1> QED BY <1>1, <1>4, <1>5, <1>6 DEF r

\* A frame waits for the graph, or the end of an input is noted before it is built.
QueuedFor(q, s, frame) == [q EXCEPT !.queue[s] = Append(@, frame)]

LEMMA QueuedForFits ==
  ASSUME NEW g \in Graph, NEW q, NEW opts, GraphFits(g, q, opts), ~q.graph, NEW s, NEW frame \in Frame
  PROVE  LET r == QueuedFor(q, s, frame)
         IN GraphFits(g, r, opts) /\ Ready(g, r) /\ r.graph = q.graph /\ r.limit = q.limit
<1> DEFINE r == QueuedFor(q, s, frame)
<1>1. /\ DOMAIN r = GraphFields /\ r.graph = q.graph /\ r.eof = q.eof /\ r.format = q.format
      /\ r.limit = q.limit /\ r.closed = q.closed /\ r.pending = q.pending /\ r.inside = q.inside
      /\ r.sink = q.sink /\ r.reaped = q.reaped
      /\ r.queue = [q.queue EXCEPT ![s] = Append(q.queue[s], frame)]
  BY DEF GraphFits, GraphFields, QueuedFor
<1> HIDE DEF r
<1>2. r.queue \in [InputsOf(g) -> Seq(Frame)]
  <2>1. q.queue \in [InputsOf(g) -> Seq(Frame)]
    BY DEF GraphFits
  <2>2. s \in InputsOf(g) => Append(q.queue[s], frame) \in Seq(Frame)
    BY <2>1, AppendProperties
  <2> QED BY <1>1, <2>1, <2>2
<1>3. GraphFits(g, r, opts)
  BY <1>1, <1>2 DEF GraphFits, SinkFits
<1> QED BY <1>1, <1>3 DEF r, Ready

EofNoted(q, s) == [q EXCEPT !.eof[s] = TRUE]

LEMMA EofNotedFits ==
  ASSUME NEW g \in Graph, NEW q, NEW opts, GraphFits(g, q, opts), ~q.graph, NEW s
  PROVE  LET r == EofNoted(q, s)
         IN GraphFits(g, r, opts) /\ Ready(g, r) /\ r.graph = q.graph /\ r.limit = q.limit
<1> DEFINE r == EofNoted(q, s)
<1>1. /\ DOMAIN r = GraphFields /\ r.graph = q.graph /\ r.eof = [q.eof EXCEPT ![s] = TRUE]
      /\ r.format = q.format /\ r.queue = q.queue
      /\ r.limit = q.limit /\ r.closed = q.closed /\ r.pending = q.pending /\ r.inside = q.inside
      /\ r.sink = q.sink /\ r.reaped = q.reaped
  BY DEF GraphFits, GraphFields, EofNoted
<1> HIDE DEF r
<1>2. r.eof \in [InputsOf(g) -> BOOLEAN]
  BY Zenon, <1>1 DEF GraphFits
<1>3. GraphFits(g, r, opts)
  BY <1>1, <1>2 DEF GraphFits, SinkFits
<1> QED BY <1>1, <1>3 DEF r, Ready

LEMMA ClosedFits ==
  ASSUME NEW g \in Graph, NEW q, NEW opts, GraphFits(g, q, opts), Ready(g, q), q.graph, NEW s \in InputsOf(g)
  PROVE  LET r == Closed(q, s)
         IN GraphFits(g, r, opts) /\ Ready(g, r) /\ r.graph = q.graph /\ r.limit = q.limit
<1> DEFINE r == Closed(q, s)
<1>1. /\ DOMAIN r = GraphFields /\ r.graph = q.graph /\ r.eof = [q.eof EXCEPT ![s] = TRUE]
      /\ r.format = q.format /\ r.queue = q.queue
      /\ r.limit = q.limit /\ r.closed = q.closed \cup {s} /\ r.pending = q.pending /\ r.inside = q.inside
      /\ r.sink = q.sink /\ r.reaped = q.reaped
  BY DEF GraphFits, GraphFields, Closed
<1> HIDE DEF r
<1>2. r.eof \in [InputsOf(g) -> BOOLEAN] /\ r.closed \in SUBSET InputsOf(g)
  BY <1>1 DEF GraphFits
<1>3. GraphFits(g, r, opts)
  BY <1>1, <1>2 DEF GraphFits, SinkFits
<1>4. r.closed = {x \in InputsOf(g) : r.eof[x]}
  <2>1. q.closed = {x \in InputsOf(g) : q.eof[x]} /\ q.eof \in [InputsOf(g) -> BOOLEAN]
    BY DEF Ready, GraphFits
  <2>2. \A x \in InputsOf(g) : r.eof[x] <=> q.eof[x] \/ x = s
    BY <1>1, <2>1
  <2> QED BY <1>1, <2>1, <2>2
<1>5. Ready(g, r)
  BY <1>1, <1>4 DEF Ready, HasAllInputFormats
<1> QED BY <1>1, <1>3, <1>5 DEF r

\* A graph that is freed.
LEMMA CleanedUpFits ==
  ASSUME NEW g \in Graph, NEW q, NEW opts, GraphFits(g, q, opts)
  PROVE  LET r == CleanedUp(g, q)
         IN /\ GraphFits(g, r, opts) /\ Ready(g, r) /\ r.graph = FALSE
            /\ r.limit = q.limit /\ r.format = q.format
<1> DEFINE r == CleanedUp(g, q)
<1>1. /\ DOMAIN r = GraphFields /\ r.graph = FALSE /\ r.eof = q.eof /\ r.format = q.format
      /\ r.limit = q.limit /\ r.closed = {} /\ r.pending = <<>> /\ r.inside = <<>>
      /\ r.sink = [o \in OutputsOf(g) |-> <<>>] /\ r.reaped = q.reaped /\ r.queue = q.queue
  BY DEF GraphFits, GraphFields, CleanedUp
<1> HIDE DEF r
<1>2. r.sink \in [OutputsOf(g) -> Seq(Frame)] /\ r.pending \in Seq(Frame) /\ r.inside \in Seq(Frame)
  <2>1. <<>> \in Seq(Frame)
    BY EmptySeq
  <2> QED BY <1>1, <2>1
<1>3. GraphFits(g, r, opts)
  BY <1>1, <1>2 DEF GraphFits, SinkFits
<1> QED BY <1>1, <1>3 DEF r, Ready

\* The frames that wait for a graph.
Gathered(g, q) == FoldLeft(LAMBDA all, s : all \o q.queue[s], <<>>, Inputs[g])

\* F lists what is gathered from the queues of the inputs.
IsGathering(F, g, q) ==
  LET xs == Inputs[g]
  IN /\ F[0] = <<>> /\ Gathered(g, q) = F[Len(xs)]
     /\ \A i \in 1..Len(xs) : F[i] = F[i - 1] \o q.queue[xs[i]]

LEMMA GatherSteps ==
  ASSUME NEW g \in Graph, NEW q
  PROVE  \E F : IsGathering(F, g, q)
<1> DEFINE xs == Inputs[g]
           start == <<>>
           queue == q.queue
           S == InputsOf(g)
<1>0. xs \in Seq(S)
  BY FilterAssumption
<1>1. Len(xs) \in Nat /\ DOMAIN xs = 1..Len(xs)
  <2> HIDE DEF xs, S
  <2> QED BY <1>0, LenProperties
<1>2. Gathered(g, q) = Gathers!Fold(queue, start, xs)
  BY DEF Gathered, GatherOf, FoldLeft, Gathers!Fold, MapThenFoldSet, Max, Gathers!Greatest
<1> HIDE DEF xs, start, queue
<1>3. PICK F : Gathers!Steps(queue, F, start, xs, Len(xs)) /\ Gathers!Fold(queue, start, xs) = F[Len(xs)]
  <2>1. Len(xs) \in Nat
    BY <1>1
  <2>2. DOMAIN xs = 1..Len(xs)
    BY <1>1
  <2> QED BY <2>1, <2>2, LeastNat, Gathers!FoldSteps DEF Gathers!WellOrdered
<1> QED BY <1>2, <1>3 DEF Gathers!Steps, GatherOf, xs, start, queue, IsGathering

LEMMA GatheredIs ==
  ASSUME NEW g \in Graph, NEW q, q.queue \in [InputsOf(g) -> Seq(Frame)]
  PROVE  Gathered(g, q) \in Seq(Frame)
<1> DEFINE xs == Inputs[g]
           S == InputsOf(g)
<1>0. xs \in Seq(S)
  BY FilterAssumption
<1>1. Len(xs) \in Nat /\ \A i \in 1..Len(xs) : xs[i] \in S
  <2> HIDE DEF xs, S
  <2> QED BY <1>0, LenProperties, ElementOfSeq
<1>2. PICK F : IsGathering(F, g, q)
  BY GatherSteps
<1>3. /\ F[0] = <<>> /\ Gathered(g, q) = F[Len(xs)]
      /\ \A i \in 1..Len(xs) : F[i] = F[i - 1] \o q.queue[xs[i]]
  BY <1>2 DEF IsGathering
<1> DEFINE T == {i \in 0..Len(xs) : F[i] \in Seq(Frame)}
           n == Len(xs)
<1>4. 0 \in T
  <2>1. F[0] \in Seq(Frame)
    BY <1>3, EmptySeq
  <2> QED BY <1>1, <2>1
<1>5. ASSUME NEW i \in 1..n, i - 1 \in T PROVE i \in T
  <2>1. F[i] = F[i - 1] \o q.queue[xs[i]] /\ F[i - 1] \in Seq(Frame)
    BY <1>3, <1>5
  <2>2. q.queue[xs[i]] \in Seq(Frame)
    BY <1>1
  <2>3. F[i] \in Seq(Frame)
    BY <2>1, <2>2, ConcatProperties
  <2> QED BY <2>3
<1> HIDE DEF T, n
<1>6. \A i \in 0..n : i \in T
  <2>1. n \in Nat
    BY <1>1 DEF n
  <2> QED BY <1>4, <1>5, <2>1, UpTo
<1>7. n \in 0..n
  BY <1>1 DEF n
<1> QED BY <1>3, <1>6, <1>7 DEF T, n

\* The encoders of g take these formats.
AllTake(g, formats, opts) ==
  DOMAIN formats = OutputsOf(g) /\ \A o \in OutputsOf(g) : Takes(o, formats[o], opts)

\* A graph that is built, from the formats of all its inputs.
LEMMA BuiltFits ==
  ASSUME NEW g \in Graph, NEW q, NEW opts, GraphFits(g, q, opts), HasAllInputFormats(q),
         NEW formats, AllTake(g, formats, opts)
  PROVE  LET r == Built(g, q, formats)
         IN GraphFits(g, r, opts) /\ Ready(g, r) /\ r.graph /\ r.limit = formats
<1> DEFINE all == Gathered(g, q)
           r == Built(g, q, formats)
<1>1. all \in Seq(Frame)
  BY GatheredIs DEF GraphFits
<1>2. r = [q EXCEPT !.graph = TRUE, !.limit = formats, !.pending = all,
                    !.queue = [s \in InputsOf(g) |-> <<>>], !.closed = {s \in InputsOf(g) : q.eof[s]}]
  BY DEF Built, Gathered
<1> HIDE DEF all, r
<1>3. /\ DOMAIN r = GraphFields /\ r.graph = TRUE /\ r.eof = q.eof /\ r.format = q.format
      /\ r.limit = formats /\ r.closed = {s \in InputsOf(g) : q.eof[s]} /\ r.pending = all
      /\ r.inside = q.inside /\ r.sink = q.sink /\ r.reaped = q.reaped
      /\ r.queue = [s \in InputsOf(g) |-> <<>>]
  BY <1>2 DEF GraphFits, GraphFields
<1>4. r.queue \in [InputsOf(g) -> Seq(Frame)] /\ r.closed \in SUBSET InputsOf(g)
  <2>1. <<>> \in Seq(Frame)
    BY EmptySeq
  <2> QED BY <1>3, <2>1
<1>5. GraphFits(g, r, opts)
  BY <1>1, <1>3, <1>4 DEF GraphFits, SinkFits, AllTake
<1>6. \A o \in OutputsOf(g) : r.limit[o] # NoFormat
  BY <1>3, PairIs DEF Takes, AllTake
<1>7. Ready(g, r)
  BY <1>3, <1>6 DEF Ready, HasAllInputFormats
<1> QED BY <1>3, <1>5, <1>7 DEF r

-----------------------------------------------------------------------------
(* The program. *)

FileFields == {"pos", "loop", "eagain", "eofReached"}

\* An input file
FileFits(f, r) ==
  /\ DOMAIN r = FileFields
  /\ r.pos \in 1..(Len(Media[f]) + 1) /\ r.loop \in Nat
  /\ r.eofReached => r.loop = 0 /\ r.pos > Len(Media[f])

InputsFit(m) ==
  /\ DOMAIN m.ifile = InFile /\ \A f \in InFile : FileFits(f, m.ifile[f])
  /\ DOMAIN m.held = Stream /\ \A s \in Stream : m.held[s] \in Seq(Frame)
  /\ \E S : m.hw \in Seq(S)

GraphsFit(m) ==
  /\ DOMAIN m.fg = Graph
  /\ \A g \in Graph : GraphFits(g, m.fg[g], m.opt) /\ Ready(g, m.fg[g])

\* An encoder that has a device knows its type.
DeviceKnown(m, o) ==
  m.out[o].device # NoDevice =>
    \E c \in ToSet(EncConfigs[o]) : c.ctx /\ c.type = m.hw[m.out[o].device].type

EncodersFit(m) == \A o \in Output : EncoderFits(m, o) /\ DeviceKnown(m, o)

\* What holds of the program between any two of its calls.
Good(m) ==
  /\ Sound(m) /\ Packets(m) /\ Headers(m) /\ m.opt \in Options
  /\ InputsFit(m) /\ GraphsFit(m) /\ EncodersFit(m)

\* The filters and the output side leave the inputs alone.
SameInputs(m, n) ==
  /\ n.ifile = m.ifile /\ n.hw = m.hw /\ n.dec = m.dec /\ n.held = m.held
  /\ n.opt = m.opt /\ n.given = m.given

\* What every call of the filters and the output side does.
Follows(m, n) == Good(n) /\ SameInputs(m, n) /\ (n.how = m.how \/ n.how = "abort")

LEMMA FollowsRefl ==
  ASSUME NEW m, Good(m)
  PROVE  Follows(m, m)
BY DEF Follows, SameInputs

LEMMA FollowsTrans ==
  ASSUME NEW l, NEW m, NEW n, Follows(l, m), Follows(m, n)
  PROVE  Follows(l, n)
BY DEF Follows, SameInputs

\* The output side moves on.
LEMMA QuietFollows ==
  ASSUME NEW m, Good(m), NEW n, Quiet(m, n)
  PROVE  Follows(m, n) /\ n.fg = m.fg /\ SameEncoders(m, n)
<1>1. /\ Sound(n) /\ SameRest(m, n) /\ SameEncoders(m, n)
      /\ \A d \in Dest : n.dest[d].header = m.dest[d].header
      /\ n.how = m.how \/ n.how = "abort"
      /\ Packets(n)
  BY DEF Quiet, Moved, Good
<1>2. /\ n.ifile = m.ifile /\ n.hw = m.hw /\ n.dec = m.dec /\ n.held = m.held
      /\ n.fg = m.fg /\ n.opt = m.opt /\ n.given = m.given
  BY <1>1 DEF SameRest
<1>3. \A o \in Output : /\ n.out[o].initialized = m.out[o].initialized /\ n.out[o].enc = m.out[o].enc
                        /\ n.out[o].device = m.out[o].device /\ n.out[o].took = m.out[o].took
  BY <1>1 DEF SameEncoders, SameEncoder
<1>4. Headers(n)
  <2>1. \A d \in Dest : \A o \in Siblings(d) : n.out[o].initialized = m.out[o].initialized
    BY <1>3 DEF Siblings
  <2> QED BY <1>1, <2>1 DEF Good, Headers
<1>5. InputsFit(n) /\ GraphsFit(n) /\ n.opt \in Options
  BY <1>2 DEF Good, InputsFit, GraphsFit
<1>6. ASSUME NEW o \in Output PROVE EncoderFits(n, o) /\ DeviceKnown(n, o)
  <2>1. EncoderFits(m, o) /\ DeviceKnown(m, o)
    BY DEF Good, EncodersFit
  <2>2. EncoderFits(n, o)
    BY <1>1, <1>2, <1>3, <2>1 DEF EncoderFits, SinkFormat
  <2>3. DeviceKnown(n, o)
    BY <1>2, <1>3, <2>1 DEF DeviceKnown
  <2> QED BY <2>2, <2>3
<1>7. Good(n)
  BY <1>1, <1>4, <1>5, <1>6 DEF Good, EncodersFit
<1> QED BY <1>1, <1>2, <1>7 DEF Follows, SameInputs

-----------------------------------------------------------------------------
(* Changing one graph. *)

PutGraph(m, g, q) == [m EXCEPT !.fg[g] = q]

\* No more than one graph is changed.
OnlyGraph(m, n, g, q) ==
  /\ DOMAIN n = StateFields /\ DOMAIN n.fg = Graph /\ SameInputs(m, n)
  /\ n.out = m.out /\ n.dest = m.dest /\ n.how = m.how
  /\ n.fg[g] = q /\ \A h \in Graph \ {g} : n.fg[h] = m.fg[h]

LEMMA PutGraphIs ==
  ASSUME NEW m, Good(m), NEW g \in Graph, NEW q
  PROVE  OnlyGraph(m, PutGraph(m, g, q), g, q)
<1> DEFINE n == PutGraph(m, g, q)
<1>1. DOMAIN m = StateFields /\ DOMAIN m.fg = Graph
  BY DEF Good, Sound, GraphsFit
<1>2. /\ DOMAIN n = StateFields /\ SameInputs(m, n)
      /\ n.out = m.out /\ n.dest = m.dest /\ n.how = m.how
      /\ n.fg = [m.fg EXCEPT ![g] = q]
  BY <1>1 DEF PutGraph, StateFields, SameInputs
<1> HIDE DEF n
<1>3. /\ DOMAIN n.fg = Graph /\ n.fg[g] = q /\ \A h \in Graph \ {g} : n.fg[h] = m.fg[h]
  BY <1>1, <1>2
<1> QED BY <1>2, <1>3 DEF n, OnlyGraph

\* It is one that fits, and its encoders are opened for what it gives.
LEMMA OnlyGraphFollows ==
  ASSUME NEW m, Good(m), NEW n, NEW g \in Graph, NEW q, OnlyGraph(m, n, g, q),
         GraphFits(g, q, m.opt), Ready(g, q),
         \A o \in OutputsOf(g) : m.out[o].initialized =>
            q.limit[o] = m.out[o].enc /\ (m.how = "ok" => q.graph)
  PROVE  Follows(m, n)
<1>1. /\ DOMAIN n = StateFields /\ DOMAIN n.fg = Graph /\ SameInputs(m, n)
      /\ n.out = m.out /\ n.dest = m.dest /\ n.how = m.how
      /\ n.fg[g] = q /\ \A h \in Graph \ {g} : n.fg[h] = m.fg[h]
  BY DEF OnlyGraph
<1>2. /\ n.ifile = m.ifile /\ n.hw = m.hw /\ n.held = m.held /\ n.opt = m.opt
  BY <1>1 DEF SameInputs
<1>3. Sound(n) /\ Headers(n) /\ n.opt \in Options
  BY <1>1, <1>2 DEF Good, Sound, OutsFit, DestsFit, Headers
<1>4. Packets(n)
  <2>1. Packets(m)
    BY DEF Good
  <2>2. \A o \in Output : SamePackets(m.out[o], n.out[o]) /\ n.out[o].finished = m.out[o].finished
    BY <1>1 DEF SamePackets
  <2> QED BY <1>1, <1>2, <2>1, <2>2, PacketsSame
<1>5. InputsFit(n)
  BY <1>2 DEF Good, InputsFit
<1>6. GraphsFit(n)
  BY <1>1, <1>2 DEF Good, GraphsFit
<1>7. ASSUME NEW o \in Output PROVE EncoderFits(n, o) /\ DeviceKnown(n, o)
  <2>1. EncoderFits(m, o) /\ DeviceKnown(m, o) /\ GraphOf[o] \in Graph
    BY FilterAssumption DEF Good, EncodersFit
  <2>2. CASE GraphOf[o] # g
    BY <1>1, <1>2, <2>1, <2>2 DEF EncoderFits, SinkFormat, DeviceKnown
  <2>3. CASE GraphOf[o] = g
    <3>1. o \in OutputsOf(g)
      BY <2>3 DEF OutputsOf
    <3> QED BY <1>1, <1>2, <2>1, <2>3, <3>1 DEF EncoderFits, SinkFormat, DeviceKnown
  <2> QED BY <2>2, <2>3
<1>8. Good(n)
  BY <1>3, <1>4, <1>5, <1>6, <1>7 DEF Good, EncodersFit
<1> QED BY <1>1, <1>8 DEF Follows

\* Only frames move in a graph.
SameGraphs(m, n) == \A h \in Graph : n.fg[h].graph = m.fg[h].graph /\ n.fg[h].format = m.fg[h].format

Reaps(m, n) == Follows(m, n) /\ SameGraphs(m, n)

LEMMA ReapsRefl ==
  ASSUME NEW m, Good(m)
  PROVE  Reaps(m, m)
BY FollowsRefl DEF Reaps, SameGraphs

LEMMA ReapsTrans ==
  ASSUME NEW l, NEW m, NEW n, Reaps(l, m), Reaps(m, n)
  PROVE  Reaps(l, n)
BY FollowsTrans DEF Reaps, SameGraphs

LEMMA QuietReaps ==
  ASSUME NEW m, Good(m), NEW n, Quiet(m, n)
  PROVE  Reaps(m, n) /\ n.fg = m.fg /\ SameEncoders(m, n)
BY QuietFollows DEF Reaps, SameGraphs

LEMMA PutGraphReaps ==
  ASSUME NEW m, Good(m), NEW g \in Graph, NEW q, Steady(g, m.fg[g], q, m.opt)
  PROVE  Reaps(m, PutGraph(m, g, q)) /\ OnlyGraph(m, PutGraph(m, g, q), g, q)
<1> DEFINE n == PutGraph(m, g, q)
<1>1. OnlyGraph(m, n, g, q)
  BY PutGraphIs
<1> HIDE DEF n
<1>2. GraphFits(g, q, m.opt) /\ Ready(g, q) /\ SameShape(m.fg[g], q)
  BY DEF Steady
<1>3. ASSUME NEW o \in OutputsOf(g), m.out[o].initialized
      PROVE  q.limit[o] = m.out[o].enc /\ (m.how = "ok" => q.graph)
  <2>1. o \in Output /\ GraphOf[o] = g
    BY DEF OutputsOf
  <2>2. EncoderFits(m, o)
    BY <2>1 DEF Good, EncodersFit
  <2> QED BY <1>2, <1>3, <2>1, <2>2 DEF EncoderFits, SinkFormat, SameShape
<1>4. Follows(m, n)
  BY <1>1, <1>2, <1>3, OnlyGraphFollows
<1>5. SameGraphs(m, n)
  BY <1>1, <1>2 DEF OnlyGraph, SameGraphs, SameShape
<1> QED BY <1>1, <1>4, <1>5 DEF Reaps, n

-----------------------------------------------------------------------------
(* The encoder that a graph is built for. *)

LEMMA ByTypeIs ==
  ASSUME NEW S, NEW list \in Seq(S), NEW type, GetByType(list, type) # NoDevice
  PROVE  GetByType(list, type) \in 1..Len(list) /\ list[GetByType(list, type)].type = type
<1> DEFINE I == {i \in 1..Len(list) : list[i].type = type}
           k == SelectInSeq(list, LAMBDA d : d.type = type)
<1>1. k = IF I # {} THEN Min(I) ELSE 0
  BY DEF SelectInSeq
<1>2. GetByType(list, type) = k
  BY DEF GetByType
<1>3. I \subseteq Nat
  BY LenProperties
<1> HIDE DEF k
<1>4. k \in I
  <2> HIDE DEF I
  <2> QED BY <1>1, <1>2, <1>3, LeastOf DEF NoDevice
<1> QED BY <1>2, <1>4

LEMMA MatchIs ==
  ASSUME NEW S, NEW list \in Seq(S), NEW configs, configs \in Seq(ToSet(configs)), MatchByCodec(list, configs) # NoDevice
  PROVE  \E c \in ToSet(configs) : c.ctx /\ c.type = list[MatchByCodec(list, configs)].type
<1> DEFINE I == {i \in 1..Len(configs) : configs[i].ctx /\ GetByType(list, configs[i].type) # NoDevice}
           k == SelectInSeq(configs, LAMBDA c : c.ctx /\ GetByType(list, c.type) # NoDevice)
<1>1. k = IF I # {} THEN Min(I) ELSE 0
  BY DEF SelectInSeq
<1>2. MatchByCodec(list, configs) = IF k = 0 THEN NoDevice ELSE GetByType(list, configs[k].type)
  BY DEF MatchByCodec
<1>3. I \subseteq Nat
  BY LenProperties
<1> HIDE DEF k
<1>4. k \in I
  <2> HIDE DEF I
  <2> QED BY <1>1, <1>2, <1>3, LeastOf
<1>5. k # 0 /\ configs[k] \in ToSet(configs)
  BY <1>4, LenProperties, ElementOfSeq
<1>6. list[GetByType(list, configs[k].type)].type = configs[k].type
  BY <1>4, ByTypeIs
<1> QED BY <1>2, <1>4, <1>5, <1>6

\* The encoder of o is opened, for what the sink of its graph gives.
LEMMA InitOutputReaps ==
  ASSUME NEW m, Good(m), NEW o \in Output, m.fg[GraphOf[o]].graph
  PROVE  LET n == InitOutput(m, o, SinkFormat(m, o))
         IN Reaps(m, n) /\ n.fg = m.fg /\ n.out[o].initialized
<1> DEFINE format == SinkFormat(m, o)
           n == InitOutput(m, o, format)
           g == GraphOf[o]
           q == m.fg[g]
<1>0. /\ g \in Graph /\ o \in OutputsOf(g) /\ Sound(m)
      /\ GraphFits(g, q, m.opt) /\ Ready(g, q) /\ EncoderFits(m, o) /\ DeviceKnown(m, o)
  BY FilterAssumption DEF Good, GraphsFit, EncodersFit, OutputsOf
<1>1. format = q.limit[o] /\ format # NoFormat /\ Takes(o, format, m.opt)
  BY <1>0 DEF SinkFormat, Ready, GraphFits, SinkFits
<1>2. Initialized(m, n, o, format)
  BY <1>0, InitOutputIs
<1> HIDE DEF n, format, q
<1>3. /\ Sound(n) /\ SameRest(m, n) /\ (n.how = m.how \/ n.how = "abort")
      /\ \A p \in Output \ {o} : SameEncoder(m.out[p], n.out[p])
      /\ n.out[o].initialized
      /\ m.out[o].initialized => SameEncoder(m.out[o], n.out[o])
      /\ ~m.out[o].initialized => /\ n.out[o].enc = format /\ n.out[o].took = m.out[o].took
                                  /\ n.out[o].device = DeviceForEncode(m, o, format)
      /\ Packets(n) /\ Headers(n)
  BY <1>2 DEF Initialized, Good
<1>4. /\ n.ifile = m.ifile /\ n.hw = m.hw /\ n.dec = m.dec /\ n.held = m.held
      /\ n.fg = m.fg /\ n.opt = m.opt /\ n.given = m.given
  BY <1>3 DEF SameRest
<1>5. InputsFit(n) /\ GraphsFit(n) /\ n.opt \in Options
  BY <1>4 DEF Good, InputsFit, GraphsFit
<1>6. ASSUME NEW p \in Output, SameEncoder(m.out[p], n.out[p])
      PROVE  EncoderFits(n, p) /\ DeviceKnown(n, p)
  <2>1. EncoderFits(m, p) /\ DeviceKnown(m, p)
    BY DEF Good, EncodersFit
  <2>2. /\ n.out[p].initialized = m.out[p].initialized /\ n.out[p].enc = m.out[p].enc
        /\ n.out[p].device = m.out[p].device /\ n.out[p].took = m.out[p].took
    BY <1>6 DEF SameEncoder
  <2>3. EncoderFits(n, p)
    BY <1>3, <1>4, <2>1, <2>2 DEF EncoderFits, SinkFormat
  <2>4. DeviceKnown(n, p)
    BY <1>4, <2>1, <2>2 DEF DeviceKnown
  <2> QED BY <2>3, <2>4
<1>7. EncoderFits(n, o) /\ DeviceKnown(n, o)
  <2>1. CASE m.out[o].initialized
    BY <1>3, <1>6, <2>1
  <2>2. CASE ~m.out[o].initialized
    <3>1. n.out[o].took = {} /\ n.out[o].enc = format
      BY <1>0, <1>3, <2>2 DEF EncoderFits
    <3>2. SinkFormat(n, o) = format
      BY <1>1, <1>4 DEF SinkFormat, q
    <3>3. m.fg[GraphOf[o]].graph
      OBVIOUS
    <3>4. EncoderFits(n, o)
      BY <1>1, <1>3, <1>4, <3>1, <3>2, <3>3 DEF EncoderFits
    <3>5. DeviceKnown(n, o)
      <4> SUFFICES ASSUME n.out[o].device # NoDevice PROVE DeviceKnown(n, o)
        BY DEF DeviceKnown
      <4>1. n.out[o].device = MatchByCodec(m.hw, EncConfigs[o])
        BY <1>3, <2>2 DEF DeviceForEncode
      <4>2. PICK S : m.hw \in Seq(S)
        BY DEF Good, InputsFit
      <4>3. EncConfigs[o] \in Seq(ToSet(EncConfigs[o]))
        BY StreamAssumption
      <4>4. MatchByCodec(m.hw, EncConfigs[o]) # NoDevice
        BY <4>1
      <4>5. \E c \in ToSet(EncConfigs[o]) : c.ctx /\ c.type = m.hw[MatchByCodec(m.hw, EncConfigs[o])].type
        BY <4>2, <4>3, <4>4, MatchIs
      <4> QED BY <1>4, <4>1, <4>5 DEF DeviceKnown
    <3> QED BY <3>4, <3>5
  <2> QED BY <2>1, <2>2
<1>8. EncodersFit(n)
  BY <1>3, <1>6, <1>7 DEF EncodersFit
<1>9. Good(n)
  BY <1>3, <1>5, <1>8 DEF Good
<1> QED BY <1>3, <1>4, <1>9 DEF Reaps, Follows, SameInputs, SameGraphs, n, format

-----------------------------------------------------------------------------
(* Reaping. *)

\* It is noted that an encoder gets frames of the format that it is opened for.
Took(q, formats) == [q EXCEPT !.took = @ \cup formats]

LEMMA TookIs ==
  ASSUME NEW q, OutFits(q), NEW formats
  PROVE  LET r == Took(q, formats)
         IN /\ OutFits(r) /\ SamePackets(q, r) /\ r.finished = q.finished
            /\ r.initialized = q.initialized /\ r.enc = q.enc /\ r.device = q.device
            /\ r.took = q.took \cup formats
<1> DEFINE r == Took(q, formats)
<1>1. /\ DOMAIN r = OutFields /\ r.finished = q.finished
      /\ r.initialized = q.initialized /\ r.frames = q.frames /\ r.sync = q.sync /\ r.nb0s = q.nb0s
      /\ r.last = q.last /\ r.queue = q.queue /\ r.held = q.held /\ r.enc = q.enc /\ r.device = q.device
      /\ r.took = q.took \cup formats /\ r.sent = q.sent /\ r.written = q.written
  BY DEF OutFits, OutFields, Took
<1> HIDE DEF r
<1>2. OutFits(r)
  BY <1>1 DEF OutFits
<1>3. SamePackets(q, r)
  BY <1>1 DEF SamePackets
<1> QED BY <1>1, <1>2, <1>3 DEF r

LEMMA TookReaps ==
  ASSUME NEW m, Good(m), NEW o \in Output, m.out[o].initialized, NEW formats \in SUBSET {m.out[o].enc}
  PROVE  LET n == PutOut(m, o, Took(m.out[o], formats))
         IN Reaps(m, n) /\ n.fg = m.fg /\ n.out[o].finished = m.out[o].finished
<1> DEFINE q == m.out[o]
           r == Took(q, formats)
           n == PutOut(m, o, r)
<1>0. Sound(m) /\ OutFits(q)
  BY DEF Good, Sound, OutsFit
<1>1. /\ OutFits(r) /\ SamePackets(q, r) /\ r.finished = q.finished
      /\ r.initialized = q.initialized /\ r.enc = q.enc /\ r.device = q.device
      /\ r.took = q.took \cup formats
  BY <1>0, TookIs
<1> HIDE DEF r
<1>2. /\ Sound(n) /\ SameRest(m, n) /\ n.dest = m.dest /\ n.how = m.how
      /\ n.out[o] = r /\ \A p \in Output \ {o} : n.out[p] = m.out[p]
  BY <1>0, <1>1, OutPut
<1> HIDE DEF n
<1>3. /\ n.ifile = m.ifile /\ n.hw = m.hw /\ n.dec = m.dec /\ n.held = m.held
      /\ n.fg = m.fg /\ n.opt = m.opt /\ n.given = m.given
  BY <1>2 DEF SameRest
<1>4. InputsFit(n) /\ GraphsFit(n) /\ n.opt \in Options
  BY <1>3 DEF Good, InputsFit, GraphsFit
<1>5. \A p \in Output : /\ SamePackets(m.out[p], n.out[p]) /\ n.out[p].finished = m.out[p].finished
                        /\ n.out[p].initialized = m.out[p].initialized
  <2>1. \A p \in Output \ {o} : SamePackets(m.out[p], n.out[p])
    BY <1>2 DEF SamePackets
  <2> QED BY <1>1, <1>2, <2>1
<1>6. Packets(n)
  <2>1. Packets(m)
    BY DEF Good
  <2> QED BY <1>2, <1>3, <1>5, <2>1, PacketsSame
<1>7. Headers(n)
  BY <1>2, <1>5 DEF Good, Headers, Siblings
<1>8. ASSUME NEW p \in Output PROVE EncoderFits(n, p) /\ DeviceKnown(n, p)
  <2>1. EncoderFits(m, p) /\ DeviceKnown(m, p)
    BY DEF Good, EncodersFit
  <2>2. CASE p # o
    BY SMTT(60), <1>2, <1>3, <2>1, <2>2 DEF EncoderFits, SinkFormat, DeviceKnown
  <2>3. CASE p = o
    <3>1. DeviceKnown(n, p)
      BY <1>1, <1>2, <1>3, <2>1, <2>3 DEF DeviceKnown
    <3>2. SinkFormat(n, o) = SinkFormat(m, o)
      BY <1>3 DEF SinkFormat
    <3>3. n.out[o].took = m.out[o].took \cup formats
      BY <1>1, <1>2
    <3>4. n.out[o].initialized /\ n.out[o].enc = m.out[o].enc
      BY <1>1, <1>2
    <3>5. EncoderFits(n, o)
      BY <1>2, <1>3, <2>1, <2>3, <3>2, <3>3, <3>4 DEF EncoderFits
    <3> QED BY <2>3, <3>1, <3>5
  <2> QED BY <2>2, <2>3
<1>9. Good(n)
  BY <1>2, <1>4, <1>6, <1>7, <1>8 DEF Good, EncodersFit
<1>10. Reaps(m, n) /\ n.fg = m.fg /\ n.out[o].finished = m.out[o].finished
  BY <1>1, <1>2, <1>3, <1>9 DEF Reaps, Follows, SameInputs, SameGraphs
<1> QED BY <1>10 DEF n, r

\* The sink of o is emptied, for its encoder.
SinkEmptied(m, o) ==
  LET g == GraphOf[o]
      q == m.fg[g]
      taken == q.sink[o] # <<>> /\ m.out[o].finished = {}
  IN PutOut(PutGraph(m, g, TakenOut(q, o)), o, Took(m.out[o], IF taken THEN {q.limit[o]} ELSE {}))

\* F lists what becomes of m as the frames in the sink of o are encoded.
IsReaping(F, m, o) ==
  LET xs == m.fg[GraphOf[o]].sink[o]
  IN /\ F[0] = SinkEmptied(m, o) /\ ReapOutput(m, o) = F[Len(xs)]
     /\ \A i \in 1..Len(xs) : F[i] = ReapOf(o, F[i - 1], xs[i])

LEMMA SinkIs ==
  ASSUME NEW m, Good(m), NEW o \in Output
  PROVE  LET xs == m.fg[GraphOf[o]].sink[o]
         IN Len(xs) \in Nat /\ DOMAIN xs = 1..Len(xs) /\ \A i \in 1..Len(xs) : xs[i] \in Frame
<1>1. GraphOf[o] \in Graph /\ o \in OutputsOf(GraphOf[o])
  BY FilterAssumption DEF OutputsOf
<1>2. m.fg[GraphOf[o]].sink[o] \in Seq(Frame)
  BY SMTT(60), <1>1 DEF Good, GraphsFit, GraphFits
<1> QED BY <1>2, LenProperties, ElementOfSeq

LEMMA ReapSteps ==
  ASSUME NEW m, Good(m), NEW o \in Output
  PROVE  \E F : IsReaping(F, m, o)
<1> DEFINE g == GraphOf[o]
           xs == m.fg[g].sink[o]
           start == SinkEmptied(m, o)
           taken == xs # <<>> /\ m.out[o].finished = {}
           emptied == [m EXCEPT !.fg[g].sink[o] = <<>>, !.fg[g].reaped[o] = @ \o xs,
                                !.out[o].took = @ \cup IF taken THEN {m.fg[g].limit[o]} ELSE {}]
<1>1. Len(xs) \in Nat /\ DOMAIN xs = 1..Len(xs)
  BY SMTT(60), SinkIs
<1>2. start = emptied
  <2>1. DOMAIN m = StateFields /\ DOMAIN m.fg = Graph /\ g \in Graph /\ DOMAIN m.fg[g] = GraphFields
    BY FilterAssumption DEF Good, Sound, GraphsFit, GraphFits
  <2> DEFINE q == m.fg[g]
             took == IF taken THEN {q.limit[o]} ELSE {}
             some == [m EXCEPT !.fg[g].sink[o] = <<>>, !.fg[g].reaped[o] = @ \o xs]
  <2>2. emptied = [some EXCEPT !.out[o].took = @ \cup took]
    OBVIOUS
  <2>3. some.fg = [m.fg EXCEPT ![g] = TakenOut(q, o)]
    <3> DEFINE first == [m EXCEPT !.fg[g].sink[o] = <<>>]
               part == [q EXCEPT !.sink[o] = <<>>]
               whole == [part EXCEPT !.reaped[o] = @ \o xs]
    <3>1. first.fg = [m.fg EXCEPT ![g] = part] /\ DOMAIN first = StateFields
      BY <2>1 DEF StateFields
    <3>2. some = [first EXCEPT !.fg[g].reaped[o] = @ \o xs]
      OBVIOUS
    <3>3. TakenOut(q, o) = whole
      BY DEF TakenOut
    <3> HIDE DEF first, part, some
    <3>4. first.fg[g] = part /\ DOMAIN first.fg = Graph
      BY <2>1, <3>1
    <3>5. some.fg = [first.fg EXCEPT ![g] = whole]
      BY <2>1, <3>1, <3>2, <3>4 DEF StateFields
    <3> HIDE DEF whole, q
    <3> QED BY <2>1, <3>1, <3>3, <3>5
  <2>4. some = PutGraph(m, g, TakenOut(q, o))
    <3> DEFINE more == TakenOut(q, o)
               first == [m EXCEPT !.fg[g].sink[o] = <<>>]
    <3>1. some = [m EXCEPT !.fg = some.fg]
      <4>1. some = [first EXCEPT !.fg[g].reaped[o] = @ \o xs]
        OBVIOUS
      <4>2. first = [m EXCEPT !.fg = first.fg] /\ DOMAIN first = StateFields
        BY <2>1 DEF StateFields
      <4> HIDE DEF first, some
      <4>3. some = [first EXCEPT !.fg = some.fg]
        BY <4>1, <4>2 DEF StateFields
      <4> QED BY <2>1, <4>2, <4>3 DEF StateFields
    <3> HIDE DEF some, more
    <3> QED BY <2>3, <3>1 DEF PutGraph, more
  <2> HIDE DEF some, took, q, taken
  <2>5. some.out[o] = m.out[o] /\ DOMAIN some = StateFields
    BY <2>1, <2>4 DEF PutGraph, StateFields
  <2>6. emptied = PutOut(some, o, Took(m.out[o], took))
    BY <2>2, <2>5 DEF PutOut, Took, StateFields
  <2> QED BY <2>4, <2>6 DEF SinkEmptied, taken, took, q
<1>3. ReapOutput(m, o) = ReapsFrames!Fold(o, emptied, xs)
  BY DEF ReapOutput, ReapOf, FoldLeft, ReapsFrames!Fold, MapThenFoldSet, Max, ReapsFrames!Greatest
<1> HIDE DEF xs, start, emptied
<1>4. PICK F : ReapsFrames!Steps(o, F, start, xs, Len(xs)) /\ ReapsFrames!Fold(o, start, xs) = F[Len(xs)]
  <2>1. Len(xs) \in Nat
    BY <1>1
  <2>2. DOMAIN xs = 1..Len(xs)
    BY <1>1
  <2> QED BY <2>1, <2>2, LeastNat, ReapsFrames!FoldSteps DEF ReapsFrames!WellOrdered
<1> QED BY <1>2, <1>3, <1>4 DEF ReapsFrames!Steps, xs, start, IsReaping

\* What every step of a list does, the whole list does.
LEMMA ListReaps ==
  ASSUME NEW m, NEW F, NEW n \in Nat, Reaps(m, F[0]),
         \A i \in 1..n : Good(F[i - 1]) => Reaps(F[i - 1], F[i])
  PROVE  Reaps(m, F[n])
<1> DEFINE T == {i \in 0..n : Reaps(m, F[i])}
<1>1. 0 \in T
  OBVIOUS
<1>2. ASSUME NEW i \in 1..n, i - 1 \in T PROVE i \in T
  <2>1. Reaps(m, F[i - 1])
    BY <1>2
  <2>2. Reaps(F[i - 1], F[i])
    BY <2>1 DEF Reaps, Follows
  <2>3. Reaps(m, F[i])
    BY <2>1, <2>2, ReapsTrans
  <2> QED BY <2>3
<1> HIDE DEF T
<1>3. \A i \in 0..n : i \in T
  BY <1>1, <1>2, UpTo
<1> QED BY <1>3 DEF T

LEMMA ListFollows ==
  ASSUME NEW m, NEW F, NEW n \in Nat, Follows(m, F[0]),
         \A i \in 1..n : Good(F[i - 1]) => Follows(F[i - 1], F[i])
  PROVE  Follows(m, F[n])
<1> DEFINE T == {i \in 0..n : Follows(m, F[i])}
<1>1. 0 \in T
  OBVIOUS
<1>2. ASSUME NEW i \in 1..n, i - 1 \in T PROVE i \in T
  <2>1. Follows(m, F[i - 1])
    BY <1>2
  <2>2. Follows(F[i - 1], F[i])
    BY <2>1 DEF Follows
  <2>3. Follows(m, F[i])
    BY <2>1, <2>2, FollowsTrans
  <2> QED BY <2>3
<1> HIDE DEF T
<1>3. \A i \in 0..n : i \in T
  BY <1>1, <1>2, UpTo
<1> QED BY <1>3 DEF T

LEMMA ReapOutputIs ==
  ASSUME NEW m, Good(m), NEW o \in Output, m.out[o].initialized
  PROVE  Reaps(m, ReapOutput(m, o))
<1> DEFINE g == GraphOf[o]
           q == m.fg[g]
           xs == q.sink[o]
           taken == xs # <<>> /\ m.out[o].finished = {}
           formats == IF taken THEN {q.limit[o]} ELSE {}
           r == TakenOut(q, o)
           k == PutGraph(m, g, r)
<1>0. g \in Graph /\ o \in OutputsOf(g)
  BY FilterAssumption DEF OutputsOf
<1>1. Len(xs) \in Nat /\ \A i \in 1..Len(xs) : xs[i] \in Frame
  BY SinkIs
<1>2. GraphFits(g, q, m.opt) /\ Ready(g, q)
  BY <1>0 DEF Good, GraphsFit
<1>3. q.limit[o] = m.out[o].enc
  BY DEF Good, EncodersFit, EncoderFits, SinkFormat
<1>4. Steady(g, q, r, m.opt)
  BY <1>0, <1>2, TakenOutSteady
<1> HIDE DEF r
<1>5. Reaps(m, k) /\ OnlyGraph(m, k, g, r)
  BY <1>0, <1>4, PutGraphReaps
<1> HIDE DEF k
<1>6. k.out = m.out /\ Good(k)
  BY <1>5 DEF OnlyGraph, Reaps, Follows
<1>7. formats \in SUBSET {k.out[o].enc}
  BY <1>3, <1>6
<1>8. SinkEmptied(m, o) = PutOut(k, o, Took(k.out[o], formats))
  BY <1>6 DEF SinkEmptied, k, r
<1> HIDE DEF formats
<1>9. Reaps(k, SinkEmptied(m, o))
  BY <1>6, <1>7, <1>8, TookReaps
<1>10. Reaps(m, SinkEmptied(m, o))
  BY <1>5, <1>9, ReapsTrans
<1>11. PICK F : IsReaping(F, m, o)
  BY ReapSteps
<1>12. F[0] = SinkEmptied(m, o) /\ ReapOutput(m, o) = F[Len(xs)]
       /\ \A i \in 1..Len(xs) : F[i] = ReapOf(o, F[i - 1], xs[i])
  BY <1>11 DEF IsReaping
<1>13. ASSUME NEW i \in 1..Len(xs), Good(F[i - 1]) PROVE Reaps(F[i - 1], F[i])
  <2> DEFINE l == F[i - 1]
             fr == xs[i]
  <2>1. F[i] = ReapOf(o, l, fr) /\ fr \in Frame /\ Good(l)
    BY <1>1, <1>12, <1>13
  <2> HIDE DEF l, fr
  <2>2. CASE l.out[o].finished # {}
    <3>1. Reaps(l, l)
      BY <2>1, ReapsRefl
    <3>2. F[i] = l
      BY <2>1, <2>2 DEF ReapOf
    <3> QED BY <3>1, <3>2 DEF l
  <2>3. CASE ~(l.out[o].finished # {})
    <3>1. F[i] = DoOut(l, o, fr)
      BY <2>1, <2>3 DEF ReapOf
    <3>2. Quiet(l, DoOut(l, o, fr))
      BY <2>1, DoOutIs DEF Good
    <3>3. Reaps(l, DoOut(l, o, fr))
      BY <2>1, <3>2, QuietReaps
    <3> QED BY <3>1, <3>3 DEF l
  <2> QED BY <2>2, <2>3
<1> DEFINE n == Len(xs)
<1> HIDE DEF xs, n
<1>14. Reaps(m, F[n])
  <2>1. n \in Nat
    BY <1>1 DEF n
  <2>2. \A i \in 1..n : Good(F[i - 1]) => Reaps(F[i - 1], F[i])
    BY <1>13 DEF n
  <2>3. Reaps(m, F[0])
    BY <1>10, <1>12
  <2> QED BY <2>1, <2>2, <2>3, ListReaps
<1> QED BY <1>12, <1>14 DEF n

LEMMA ReapIs ==
  ASSUME NEW m, Good(m), NEW o \in Output, m.fg[GraphOf[o]].graph, NEW flush
  PROVE  Reaps(m, Reap(m, o, flush))
<1> DEFINE k == InitOutput(m, o, SinkFormat(m, o))
           l == ReapOutput(k, o)
           n == Reap(m, o, flush)
<1>1. Reaps(m, k) /\ k.out[o].initialized
  BY InitOutputReaps
<1>2. n = IF flush THEN ReapEof(l, o) ELSE l
  BY DEF Reap
<1> HIDE DEF k
<1>3. Reaps(k, l)
  BY <1>1, ReapOutputIs DEF Reaps, Follows
<1> HIDE DEF l, n
<1>4. Reaps(m, l) /\ Good(l)
  BY <1>1, <1>3, ReapsTrans DEF Reaps, Follows
<1>5. Reaps(l, ReapEof(l, o))
  <2>1. CASE SinkAtEof(GraphOf[o], l.fg[GraphOf[o]]) /\ Kind[o] = "video"
    <3>1. ReapEof(l, o) = DoVideoOut(l, o, Null)
      BY <2>1 DEF ReapEof
    <3>2. Null \in Frame \cup {Null} /\ Sound(l) /\ Packets(l)
      BY <1>4 DEF Good
    <3>3. Quiet(l, DoVideoOut(l, o, Null))
      BY <2>1, <3>2, DoVideoOutIs
    <3> QED BY <1>4, <3>1, <3>3, QuietReaps
  <2>2. CASE ~(SinkAtEof(GraphOf[o], l.fg[GraphOf[o]]) /\ Kind[o] = "video")
    <3>1. ReapEof(l, o) = l
      BY <2>2 DEF ReapEof
    <3> QED BY <1>4, <3>1, ReapsRefl
  <2> QED BY <2>1, <2>2
<1>6. Reaps(m, ReapEof(l, o))
  BY <1>4, <1>5, ReapsTrans
<1> QED BY <1>2, <1>4, <1>6 DEF n

\* F lists what becomes of m as the outputs are reaped.
IsReapingAll(F, m, flush) ==
  /\ F[0] = m /\ ReapFilters(m, flush) = F[NumOutputs]
  /\ \A i \in Output : F[i] = ReapIf(flush, F[i - 1], i)

LEMMA ReapFiltersSteps ==
  ASSUME NEW m, NEW flush
  PROVE  \E F : IsReapingAll(F, m, flush)
<1> DEFINE seq == InOrder
<1>1. NumOutputs \in Nat /\ Output = 1..NumOutputs /\ \A o \in Output : seq[o] = o
  BY OutputAssumption DEF InOrder, Output
<1>2. DOMAIN seq = 1..NumOutputs
  BY DEF InOrder, Output
<1>3. ReapFilters(m, flush) = ReapsOutputs!Fold(flush, m, seq)
  BY DEF ReapFilters, ReapIf, FoldLeft, ReapsOutputs!Fold, MapThenFoldSet, Max,
         ReapsOutputs!Greatest
<1> HIDE DEF seq
<1>4. PICK F : ReapsOutputs!Steps(flush, F, m, seq, NumOutputs) /\ ReapsOutputs!Fold(flush, m, seq) = F[NumOutputs]
  <2>1. NumOutputs \in Nat
    BY <1>1
  <2> QED BY <1>2, <2>1, LeastNat, ReapsOutputs!FoldSteps DEF ReapsOutputs!WellOrdered
<1> QED BY <1>1, <1>3, <1>4 DEF ReapsOutputs!Steps, IsReapingAll

LEMMA ReapFiltersIs ==
  ASSUME NEW m, Good(m), NEW flush
  PROVE  Reaps(m, ReapFilters(m, flush))
<1>1. PICK F : IsReapingAll(F, m, flush)
  BY ReapFiltersSteps
<1>2. /\ F[0] = m /\ ReapFilters(m, flush) = F[NumOutputs]
      /\ \A i \in Output : F[i] = ReapIf(flush, F[i - 1], i)
  BY <1>1 DEF IsReapingAll
<1>3. NumOutputs \in Nat /\ Output = 1..NumOutputs
  BY OutputAssumption DEF Output
<1>4. ASSUME NEW i \in Output, Good(F[i - 1]) PROVE Reaps(F[i - 1], F[i])
  <2> DEFINE l == F[i - 1]
  <2>1. F[i] = ReapIf(flush, l, i) /\ Good(l)
    BY <1>2, <1>4
  <2> HIDE DEF l
  <2>2. CASE l.fg[GraphOf[i]].graph
    <3>1. F[i] = Reap(l, i, flush)
      BY <2>1, <2>2 DEF ReapIf
    <3>2. Reaps(l, Reap(l, i, flush))
      BY <2>1, <2>2, ReapIs
    <3> QED BY <3>1, <3>2 DEF l
  <2>3. CASE ~l.fg[GraphOf[i]].graph
    <3>1. F[i] = l
      BY <2>1, <2>3 DEF ReapIf
    <3>2. Reaps(l, l)
      BY <2>1, ReapsRefl
    <3> QED BY <3>1, <3>2 DEF l
  <2> QED BY <2>2, <2>3
<1>5. Reaps(m, F[0])
  BY <1>2, ReapsRefl
<1>6. Reaps(m, F[NumOutputs])
  BY <1>3, <1>4, <1>5, ListReaps
<1> QED BY <1>2, <1>6

-----------------------------------------------------------------------------
(* Building a graph. *)

\* The formats that its outputs give.
LEMMA OutputFormatsIs ==
  ASSUME NEW m, Good(m), NEW g \in Graph, HasAllInputFormats(m.fg[g])
  PROVE  /\ DOMAIN OutputFormats(m, g) = OutputsOf(g)
         /\ \A o \in OutputsOf(g) : Agrees(m, o, OutputFormats(m, g)[o])
<1>1. Mixed(m, g) \in Format \cup {NoFormat}
  BY MixedIs DEF Good, GraphsFit, GraphFits
<1> DEFINE format == Mixed(m, g)
<1> HIDE DEF format
<1>2. ASSUME NEW o \in OutputsOf(g)
      PROVE  Agrees(m, o, OutputFormat(m, o, format))
  <2>1. o \in Output /\ GraphOf[o] = g
    BY DEF OutputsOf
  <2>2. EncoderFits(m, o) /\ GraphFits(g, m.fg[g], m.opt) /\ m.opt \in Options
    BY <2>1 DEF Good, EncodersFit, GraphsFit
  <2>3. SinkFormat(m, o) = NoFormat \/ Takes(o, SinkFormat(m, o), m.opt)
    BY <2>1, <2>2 DEF SinkFormat, GraphFits, SinkFits
  <2>4. OpenedFor(m, o)
    BY <2>2 DEF EncoderFits, OpenedFor
  <2>5. format \in Format \cup {NoFormat}
    BY <1>1 DEF format
  <2> QED BY <2>1, <2>2, <2>3, <2>4, <2>5, OutputFormatIs
<1>3. OutputFormats(m, g) = [o \in OutputsOf(g) |-> OutputFormat(m, o, format)]
  BY DEF OutputFormats, format
<1> QED BY <1>2, <1>3

\* How the program goes on is all that changes.
PutHow(m, h) == [m EXCEPT !.how = h]

OnlyHow(m, n, h) ==
  /\ Good(n) /\ SameInputs(m, n) /\ n.fg = m.fg /\ n.out = m.out /\ n.dest = m.dest /\ n.how = h

LEMMA PutHowIs ==
  ASSUME NEW m, Good(m), NEW h, h = "abort" \/ m.how # "abort",
         h = "ok" => \A o \in Output : m.out[o].initialized => m.fg[GraphOf[o]].graph
  PROVE  OnlyHow(m, PutHow(m, h), h)
<1> DEFINE n == PutHow(m, h)
<1>0. Sound(m) /\ Packets(m)
  BY DEF Good
<1>1. /\ Sound(n) /\ SameRest(m, n) /\ SameEncoders(m, n)
      /\ n.out = m.out /\ n.dest = m.dest /\ n.how = h
  BY <1>0, HowPut DEF PutHow
<1> HIDE DEF n
<1>2. /\ n.ifile = m.ifile /\ n.hw = m.hw /\ n.dec = m.dec /\ n.held = m.held
      /\ n.fg = m.fg /\ n.opt = m.opt /\ n.given = m.given
  BY <1>1 DEF SameRest
<1>3. InputsFit(n) /\ GraphsFit(n) /\ n.opt \in Options /\ Headers(n)
  BY <1>1, <1>2 DEF Good, InputsFit, GraphsFit, Headers
<1>4. ASSUME NEW o \in Output PROVE Balanced(n, o) /\ NoneWaits(n, o)
  <2>1. Balanced(m, o) /\ NoneWaits(m, o)
    BY <1>0 DEF Packets
  <2>2. Whole(n, o) => Whole(m, o)
    BY <1>1 DEF Whole
  <2>3. Accounted(m, o, LetGo(m.out[o])) => Accounted(n, o, LetGo(m.out[o]))
    BY <1>1, <1>2 DEF Accounted, Quota
  <2>4. CountedVideo(n, o) /\ NoneWaits(n, o)
    BY <1>1, <1>2, <2>1 DEF Balanced, CountedVideo, NoneWaits
  <2> QED BY <1>1, <2>1, <2>2, <2>3, <2>4 DEF Balanced
<1>5. ASSUME NEW o \in Output PROVE EncoderFits(n, o) /\ DeviceKnown(n, o)
  <2>1. EncoderFits(m, o) /\ DeviceKnown(m, o)
    BY DEF Good, EncodersFit
  <2> QED BY <1>1, <1>2, <2>1 DEF EncoderFits, SinkFormat, DeviceKnown
<1>6. Good(n)
  BY <1>1, <1>3, <1>4, <1>5 DEF Good, Packets, EncodersFit
<1> QED BY <1>1, <1>2, <1>6 DEF OnlyHow, SameInputs, n

\* The graph g has been built, or it could not be.
Configured(m, n, g) ==
  /\ Good(n) /\ SameInputs(m, n) /\ n.out = m.out /\ n.dest = m.dest
  /\ \A h \in Graph \ {g} : n.fg[h] = m.fg[h]
  /\ \/ n.how = m.how /\ n.fg[g].graph
     \/ n.how = IF m.how = "ok" THEN "error" ELSE m.how

LEMMA ConfigureIs ==
  ASSUME NEW m, Good(m), NEW g \in Graph, HasAllInputFormats(m.fg[g])
  PROVE  Configured(m, Configure(m, g), g)
<1> DEFINE formats == OutputFormats(m, g)
           q == m.fg[g]
           r == CleanedUp(g, q)
           h == IF m.how = "ok" THEN "error" ELSE m.how
           n == Configure(m, g)
<1>1. DOMAIN formats = OutputsOf(g) /\ \A o \in OutputsOf(g) : Agrees(m, o, formats[o])
  BY OutputFormatsIs
<1>2. GraphFits(g, q, m.opt) /\ Ready(g, q) /\ DOMAIN m = StateFields /\ DOMAIN m.fg = Graph
  BY DEF Good, GraphsFit, Sound
<1>3. GraphFits(g, r, m.opt) /\ Ready(g, r) /\ r.graph = FALSE /\ r.limit = q.limit /\ r.format = q.format
  BY Zenon, <1>2, CleanedUpFits
<1>4. HasAllInputFormats(r)
  BY <1>3 DEF HasAllInputFormats
<1>5. \A o \in OutputsOf(g) : o \in Output /\ EncoderFits(m, o) /\ SinkFormat(m, o) = q.limit[o]
  BY DEF Good, EncodersFit, OutputsOf, SinkFormat
<1>6. CASE \E o \in OutputsOf(g) : formats[o] = NoFormat
  <2> DEFINE k == PutHow(m, h)
  <2>1. n = PutGraph(k, g, r)
    BY <1>2, <1>6 DEF Configure, PutHow, PutGraph, StateFields
  <2>2. OnlyHow(m, k, h)
    <3>1. h # "ok" /\ (h = "abort" \/ m.how # "abort")
      OBVIOUS
    <3> HIDE DEF h
    <3> QED BY <3>1, PutHowIs
  <2> HIDE DEF r, h, k, n, q
  <2>3. /\ Good(k) /\ SameInputs(m, k) /\ k.fg = m.fg /\ k.out = m.out /\ k.dest = m.dest /\ k.how = h
        /\ h # "ok"
    BY <2>2 DEF OnlyHow, h
  <2>4. OnlyGraph(k, n, g, r)
    BY <2>1, <2>3, PutGraphIs
  <2>5. k.opt = m.opt
    BY <2>3 DEF SameInputs
  <2>6. Follows(k, n)
    <3>1. \A o \in OutputsOf(g) : k.out[o].initialized =>
            r.limit[o] = k.out[o].enc /\ (k.how = "ok" => r.graph)
      BY <1>3, <1>5, <2>3 DEF EncoderFits
    <3> QED BY <1>3, <2>3, <2>4, <2>5, <3>1, OnlyGraphFollows
  <2> QED BY <2>3, <2>4, <2>6 DEF Configured, Follows, SameInputs, OnlyGraph, n, h
<1>7. CASE ~\E o \in OutputsOf(g) : formats[o] = NoFormat
  <2> DEFINE b == Built(g, r, formats)
  <2>1. n = PutGraph(m, g, b)
    BY <1>2, <1>7 DEF Configure, PutGraph, StateFields
  <2> HIDE DEF r, formats
  <2>2. \A o \in OutputsOf(g) : Takes(o, formats[o], m.opt) /\ (m.out[o].initialized => formats[o] = m.out[o].enc)
    BY <1>1, <1>7 DEF Agrees
  <2>3. GraphFits(g, b, m.opt) /\ Ready(g, b) /\ b.graph /\ b.limit = formats
    <3>1. AllTake(g, formats, m.opt)
      BY <1>1, <2>2 DEF AllTake
    <3> QED BY <1>3, <1>4, <3>1, BuiltFits
  <2> HIDE DEF b, n
  <2>4. OnlyGraph(m, n, g, b)
    BY <2>1, PutGraphIs
  <2>5. Follows(m, n)
    <3>1. \A o \in OutputsOf(g) : m.out[o].initialized =>
            b.limit[o] = m.out[o].enc /\ (m.how = "ok" => b.graph)
      BY <2>2, <2>3
    <3> QED BY <2>3, <2>4, <3>1, OnlyGraphFollows
  <2> QED BY <2>3, <2>4, <2>5 DEF Configured, Follows, OnlyGraph, n
<1> QED BY <1>6, <1>7

LEMMA FatalIs ==
  ASSUME NEW m, Good(m)
  PROVE  OnlyHow(m, Fatal(m), IF m.how = "error" THEN "abort" ELSE m.how)
<1>1. CASE m.how = "error"
  <2>1. Fatal(m) = PutHow(m, "abort")
    BY <1>1 DEF Fatal, PutHow
  <2>2. OnlyHow(m, PutHow(m, "abort"), "abort")
    BY PutHowIs
  <2> QED BY <1>1, <2>1, <2>2
<1>2. CASE m.how # "error"
  <2>1. Fatal(m) = m
    BY <1>2 DEF Fatal
  <2> QED BY <1>2, <2>1 DEF OnlyHow, SameInputs
<1> QED BY <1>1, <1>2

-----------------------------------------------------------------------------
(* Feeding the graphs. *)

LEMMA GraphKept ==
  ASSUME NEW m, Good(m), NEW g \in Graph, NEW q, GraphFits(g, q, m.opt), Ready(g, q),
         q.graph = m.fg[g].graph, q.limit = m.fg[g].limit
  PROVE  Follows(m, PutGraph(m, g, q)) /\ OnlyGraph(m, PutGraph(m, g, q), g, q)
<1> DEFINE n == PutGraph(m, g, q)
<1>1. OnlyGraph(m, n, g, q)
  BY PutGraphIs
<1> HIDE DEF n
<1>2. ASSUME NEW o \in OutputsOf(g), m.out[o].initialized
      PROVE  q.limit[o] = m.out[o].enc /\ (m.how = "ok" => q.graph)
  <2>1. o \in Output /\ GraphOf[o] = g
    BY DEF OutputsOf
  <2>2. EncoderFits(m, o)
    BY <2>1 DEF Good, EncodersFit
  <2> QED BY <1>2, <2>1, <2>2 DEF EncoderFits, SinkFormat
<1>3. Follows(m, n)
  BY <1>1, <1>2, OnlyGraphFollows
<1> QED BY <1>1, <1>3 DEF n

LEMMA TakenFollows ==
  ASSUME NEW m, Good(m), NEW g \in Graph, NEW frame \in Frame
  PROVE  Follows(m, Taken(m, g, frame))
<1> DEFINE q == Push(g, m.fg[g], frame)
<1>1. GraphFits(g, m.fg[g], m.opt) /\ Ready(g, m.fg[g])
  BY DEF Good, GraphsFit
<1>2. Steady(g, m.fg[g], q, m.opt)
  BY <1>1, PushSteady
<1>3. Taken(m, g, frame) = PutGraph(m, g, q)
  BY DEF Taken, PutGraph
<1> HIDE DEF q
<1> QED BY <1>2, <1>3, PutGraphReaps DEF Reaps

LEMMA TakenIfBuiltFollows ==
  ASSUME NEW m, Good(m), NEW g \in Graph, NEW frame \in Frame
  PROVE  LET n == TakenIfBuilt(m, g, frame)
         IN Follows(m, n) /\ n.how # "error"
<1> DEFINE n == TakenIfBuilt(m, g, frame)
<1>1. CASE m.how = "ok"
  <2>1. n = Taken(m, g, frame)
    BY <1>1 DEF TakenIfBuilt
  <2>2. Follows(m, Taken(m, g, frame))
    BY TakenFollows
  <2> QED BY <1>1, <2>1, <2>2 DEF Follows
<1>2. CASE m.how # "ok"
  <2>1. n = Fatal(m)
    BY <1>2 DEF TakenIfBuilt
  <2>2. OnlyHow(m, Fatal(m), IF m.how = "error" THEN "abort" ELSE m.how)
    BY FatalIs
  <2> QED BY <1>2, <2>1, <2>2 DEF OnlyHow, Follows
<1> QED BY <1>1, <1>2

LEMMA FormatNotedFollows ==
  ASSUME NEW m, Good(m), NEW g \in Graph, NEW frame \in Frame
  PROVE  LET n == FormatNoted(m, g, frame)
         IN Follows(m, n) /\ n.fg[g] = Noted(m.fg[g], SourceOf(frame), FormatIn(m, frame))
<1> DEFINE format == FormatIn(m, frame)
           s == SourceOf(frame)
           q == Noted(m.fg[g], s, format)
<1>1. format \in Format
  BY FormatInIs
<1>2. FormatNoted(m, g, frame) = PutGraph(m, g, q)
  BY DEF FormatNoted, PutGraph, Noted
<1> HIDE DEF format, s
<1>3. GraphFits(g, m.fg[g], m.opt) /\ Ready(g, m.fg[g])
  BY DEF Good, GraphsFit
<1>4. GraphFits(g, q, m.opt) /\ Ready(g, q) /\ q.graph = m.fg[g].graph /\ q.limit = m.fg[g].limit
  BY <1>1, <1>3, NotedFits
<1> HIDE DEF q
<1>5. Follows(m, PutGraph(m, g, q)) /\ OnlyGraph(m, PutGraph(m, g, q), g, q)
  BY <1>4, GraphKept
<1> QED BY <1>2, <1>5 DEF OnlyGraph, q, format, s

\* A frame is sent to the graph, which may have to be built for it.
LEMMA SendFrameFollows ==
  ASSUME NEW m, Good(m), NEW g \in Graph, NEW frame \in Frame
  PROVE  Follows(m, SendFrame(m, g, frame))
<1> DEFINE n == FormatNoted(m, g, frame)
           s == SourceOf(frame)
           r == SendFrame(m, g, frame)
<1>1. Follows(m, n) /\ Good(n)
  BY FormatNotedFollows DEF Follows
<1>2. CASE ~NeedsReinit(m, g, frame)
  BY <1>2, TakenFollows DEF SendFrame
<1>3. CASE NeedsReinit(m, g, frame) /\ HasAllInputFormats(n.fg[g])
  <2> DEFINE k == ReapFilters(n, TRUE)
             c == Configure(k, g)
  <2>1. r = TakenIfBuilt(c, g, frame)
    BY <1>3 DEF SendFrame
  <2> HIDE DEF n, r
  <2>2. Reaps(n, k)
    BY <1>1, ReapFiltersIs
  <2> HIDE DEF k
  <2>3. Follows(m, k) /\ Good(k)
    BY <1>1, <2>2, FollowsTrans DEF Reaps, Follows
  <2>4. HasAllInputFormats(k.fg[g])
    BY <1>3, <2>2 DEF Reaps, SameGraphs, HasAllInputFormats
  <2>5. Configured(k, c, g)
    BY <2>3, <2>4, ConfigureIs
  <2> HIDE DEF c
  <2>6. /\ Good(c) /\ SameInputs(k, c)
        /\ c.how = k.how \/ c.how = "error"
    BY <2>5 DEF Configured
  <2>7. Follows(c, r) /\ r.how # "error"
    BY <2>1, <2>6, TakenIfBuiltFollows
  <2>8. /\ Good(r) /\ SameInputs(c, r) /\ (r.how = c.how \/ r.how = "abort")
        /\ SameInputs(m, k) /\ (k.how = m.how \/ k.how = "abort")
    BY <2>3, <2>7 DEF Follows
  <2>9. SameInputs(m, r)
    BY <2>6, <2>8 DEF SameInputs
  <2> QED BY <2>6, <2>7, <2>8, <2>9 DEF Follows, r
<1>4. CASE NeedsReinit(m, g, frame) /\ ~HasAllInputFormats(n.fg[g])
  <2> DEFINE q == QueuedFor(n.fg[g], s, frame)
  <2>1. r = PutGraph(n, g, q)
    BY <1>4 DEF SendFrame, PutGraph, QueuedFor
  <2> HIDE DEF n, r, s
  <2>2. GraphFits(g, n.fg[g], n.opt) /\ Ready(g, n.fg[g])
    BY <1>1 DEF Good, GraphsFit
  <2>3. ~n.fg[g].graph
    BY <1>4, <2>2 DEF Ready
  <2>4. GraphFits(g, q, n.opt) /\ Ready(g, q) /\ q.graph = n.fg[g].graph /\ q.limit = n.fg[g].limit
    BY <2>2, <2>3, QueuedForFits
  <2> HIDE DEF q
  <2>5. Follows(n, r)
    BY <1>1, <2>1, <2>4, GraphKept
  <2> QED BY <1>1, <2>5, FollowsTrans DEF r
<1> QED BY <1>2, <1>3, <1>4

\* The formats of some inputs are taken from what is declared of them.
LEMMA DeclaredFollows ==
  ASSUME NEW m, Good(m), NEW g \in Graph, NEW streams
  PROVE  LET n == FormatsDeclared(m, g, streams)
         IN /\ Follows(m, n) /\ n.out = m.out /\ n.how = m.how
            /\ InputsOf(g) \subseteq streams => HasAllInputFormats(n.fg[g])
<1> DEFINE q == Filled(g, m.fg[g], streams)
           n == FormatsDeclared(m, g, streams)
<1>0. DOMAIN m = StateFields /\ DOMAIN m.fg = Graph /\ GraphFits(g, m.fg[g], m.opt) /\ Ready(g, m.fg[g])
  BY DEF Good, Sound, GraphsFit
<1>1. n = PutGraph(m, g, q)
  BY DEF FormatsDeclared, PutGraph, Filled
<1> HIDE DEF n
<1>2. /\ GraphFits(g, q, m.opt) /\ Ready(g, q) /\ q.graph = m.fg[g].graph /\ q.limit = m.fg[g].limit
      /\ InputsOf(g) \subseteq streams => HasAllInputFormats(q)
  BY <1>0, FilledFits
<1> HIDE DEF q
<1>3. Follows(m, n) /\ OnlyGraph(m, n, g, q)
  BY <1>1, <1>2, GraphKept
<1> QED BY <1>2, <1>3 DEF OnlyGraph, n

\* The end of an input is sent to the graph, which may have to wait for it.
LEMMA SendEofFollows ==
  ASSUME NEW m, Good(m), NEW g \in Graph, NEW s \in InputsOf(g)
  PROVE  Follows(m, SendEof(m, g, s))
<1> DEFINE q == m.fg[g]
<1>0. GraphFits(g, q, m.opt) /\ Ready(g, q)
  BY DEF Good, GraphsFit
<1>1. CASE q.graph
  <2> DEFINE c == Closed(q, s)
             r == Run(g, c)
  <2>1. SendEof(m, g, s) = PutGraph(m, g, r)
    BY <1>1 DEF SendEof, PutGraph
  <2> HIDE DEF q
  <2>2. GraphFits(g, c, m.opt) /\ Ready(g, c) /\ c.graph = q.graph /\ c.limit = q.limit
    BY <1>0, <1>1, ClosedFits
  <2> HIDE DEF c
  <2>3. Steady(g, c, r, m.opt)
    BY <2>2, RunSteady
  <2> HIDE DEF r
  <2>4. GraphFits(g, r, m.opt) /\ Ready(g, r) /\ r.graph = q.graph /\ r.limit = q.limit
    BY <2>2, <2>3 DEF Steady, SameShape
  <2> QED BY <2>1, <2>4, GraphKept DEF q
<1>2. CASE ~q.graph
  <2> DEFINE e == EofNoted(q, s)
             k == PutGraph(m, g, e)
  <2>1. SendEof(m, g, s) = FormatsDeclared(k, g, {s})
    BY <1>2 DEF SendEof, PutGraph, EofNoted
  <2> HIDE DEF q
  <2>2. GraphFits(g, e, m.opt) /\ Ready(g, e) /\ e.graph = q.graph /\ e.limit = q.limit
    BY <1>0, <1>2, EofNotedFits
  <2> HIDE DEF e
  <2>3. Follows(m, k)
    BY <2>2, GraphKept DEF q
  <2> HIDE DEF k
  <2>4. Follows(k, FormatsDeclared(k, g, {s}))
    BY <2>3, DeclaredFollows DEF Follows
  <2> QED BY <2>1, <2>3, <2>4, FollowsTrans
<1> QED BY <1>1, <1>2

-----------------------------------------------------------------------------
(* Reading and decoding. *)

\* A step after which the program is as good, with the same devices and options.
Goes(m, n) ==
  /\ Good(n) /\ n.hw = m.hw /\ n.dec = m.dec /\ n.opt = m.opt
  /\ n.how = m.how \/ n.how = "abort"

LEMMA GoesRefl ==
  ASSUME NEW m, Good(m)
  PROVE  Goes(m, m)
BY DEF Goes

LEMMA GoesTrans ==
  ASSUME NEW l, NEW m, NEW n, Goes(l, m), Goes(m, n)
  PROVE  Goes(l, n)
BY DEF Goes

LEMMA FollowsGoes ==
  ASSUME NEW m, NEW n, Follows(m, n)
  PROVE  Goes(m, n)
BY DEF Goes, Follows, SameInputs

\* The inputs are changed, and nothing that matters to encoders and packets.
OnlyInputs(m, n) ==
  /\ DOMAIN n = StateFields
  /\ n.hw = m.hw /\ n.dec = m.dec /\ n.fg = m.fg /\ n.dest = m.dest /\ n.how = m.how /\ n.opt = m.opt
  /\ DOMAIN n.ifile = InFile /\ \A f \in InFile : FileFits(f, n.ifile[f])
  /\ DOMAIN n.held = Stream /\ \A s \in Stream : n.held[s] \in Seq(Frame)
  /\ DOMAIN n.out = Output
  /\ \A o \in Output : /\ OutFits(n.out[o]) /\ SameEncoder(m.out[o], n.out[o])
                       /\ SamePackets(m.out[o], n.out[o]) /\ n.out[o].finished = m.out[o].finished

LEMMA OnlyInputsGoes ==
  ASSUME NEW m, Good(m), NEW n, OnlyInputs(m, n)
  PROVE  Goes(m, n)
<1>1. /\ DOMAIN n = StateFields
      /\ n.hw = m.hw /\ n.dec = m.dec /\ n.fg = m.fg /\ n.dest = m.dest /\ n.how = m.how /\ n.opt = m.opt
      /\ DOMAIN n.out = Output
      /\ \A o \in Output : /\ OutFits(n.out[o]) /\ SameEncoder(m.out[o], n.out[o])
                           /\ SamePackets(m.out[o], n.out[o]) /\ n.out[o].finished = m.out[o].finished
  BY DEF OnlyInputs
<1>2. InputsFit(n)
  <2>1. \E S : n.hw \in Seq(S)
    BY <1>1 DEF Good, InputsFit
  <2> QED BY <2>1 DEF OnlyInputs, InputsFit
<1>3. Sound(n) /\ n.opt \in Options
  BY <1>1 DEF Good, Sound, OutsFit, DestsFit
<1>4. Packets(n)
  BY <1>1, PacketsSame DEF Good
<1>5. \A o \in Output : /\ n.out[o].initialized = m.out[o].initialized /\ n.out[o].enc = m.out[o].enc
                        /\ n.out[o].device = m.out[o].device /\ n.out[o].took = m.out[o].took
  BY <1>1 DEF SameEncoder
<1>6. Headers(n)
  <2>1. \A d \in Dest : \A o \in Siblings(d) : n.out[o].initialized = m.out[o].initialized
    BY <1>5 DEF Siblings
  <2> QED BY <1>1, <2>1 DEF Good, Headers
<1>7. GraphsFit(n)
  BY <1>1 DEF Good, GraphsFit
<1>8. ASSUME NEW o \in Output PROVE EncoderFits(n, o) /\ DeviceKnown(n, o)
  <2>1. EncoderFits(m, o) /\ DeviceKnown(m, o)
    BY DEF Good, EncodersFit
  <2>2. EncoderFits(n, o)
    BY <1>1, <1>5, <2>1 DEF EncoderFits, SinkFormat
  <2>3. DeviceKnown(n, o)
    BY <1>1, <1>5, <2>1 DEF DeviceKnown
  <2> QED BY <2>2, <2>3
<1>9. Good(n)
  BY <1>2, <1>3, <1>4, <1>6, <1>7, <1>8 DEF Good, EncodersFit
<1> QED BY <1>1, <1>9 DEF Goes

\* Of the inputs, only what is read and held is changed.
LEMMA InputsPut ==
  ASSUME NEW m, Good(m), NEW n, DOMAIN n = StateFields,
         n.hw = m.hw, n.dec = m.dec, n.fg = m.fg, n.out = m.out, n.dest = m.dest, n.how = m.how, n.opt = m.opt,
         DOMAIN n.ifile = InFile, \A f \in InFile : FileFits(f, n.ifile[f]),
         DOMAIN n.held = Stream, \A s \in Stream : n.held[s] \in Seq(Frame)
  PROVE  Goes(m, n)
<1>1. DOMAIN n.out = Output /\ \A o \in Output : OutFits(n.out[o])
  BY DEF Good, Sound, OutsFit
<1>2. \A o \in Output : /\ SameEncoder(m.out[o], n.out[o]) /\ SamePackets(m.out[o], n.out[o])
                        /\ n.out[o].finished = m.out[o].finished
  BY DEF SameEncoder, SamePackets
<1>3. OnlyInputs(m, n)
  BY <1>1, <1>2 DEF OnlyInputs
<1> QED BY <1>3, OnlyInputsGoes

\* Whether an output is available, and whether its inputs are done, is changed.
Flagged(q, unavailable, done) == [[q EXCEPT !.unavailable = unavailable] EXCEPT !.inputsDone = done]

LEMMA FlaggedIs ==
  ASSUME NEW q, OutFits(q), NEW unavailable, NEW done
  PROVE  LET r == Flagged(q, unavailable, done)
         IN OutFits(r) /\ SameEncoder(q, r) /\ SamePackets(q, r) /\ r.finished = q.finished
<1> DEFINE r == Flagged(q, unavailable, done)
<1>1. /\ DOMAIN r = OutFields /\ r.finished = q.finished
      /\ r.initialized = q.initialized /\ r.frames = q.frames /\ r.sync = q.sync /\ r.nb0s = q.nb0s
      /\ r.last = q.last /\ r.queue = q.queue /\ r.held = q.held /\ r.enc = q.enc /\ r.device = q.device
      /\ r.took = q.took /\ r.sent = q.sent /\ r.written = q.written
  BY DEF OutFits, OutFields, Flagged
<1> HIDE DEF r
<1>2. OutFits(r)
  BY <1>1 DEF OutFits
<1>3. SamePackets(q, r)
  BY <1>1 DEF SamePackets
<1> QED BY <1>1, <1>2, <1>3 DEF r, SameEncoder

Reflagged(q, r) == r = q \/ \E unavailable, done : r = Flagged(q, unavailable, done)

\* The inputs are changed, and the flags of the outputs.
LEMMA FlagsPut ==
  ASSUME NEW m, Good(m), NEW n, DOMAIN n = StateFields,
         n.hw = m.hw, n.dec = m.dec, n.fg = m.fg, n.dest = m.dest, n.how = m.how, n.opt = m.opt,
         n.held = m.held, DOMAIN n.ifile = InFile, \A f \in InFile : FileFits(f, n.ifile[f]),
         DOMAIN n.out = Output, \A o \in Output : Reflagged(m.out[o], n.out[o])
  PROVE  Goes(m, n)
<1>1. ASSUME NEW o \in Output
      PROVE  /\ OutFits(n.out[o]) /\ SameEncoder(m.out[o], n.out[o])
             /\ SamePackets(m.out[o], n.out[o]) /\ n.out[o].finished = m.out[o].finished
  <2>1. OutFits(m.out[o])
    BY DEF Good, Sound, OutsFit
  <2>2. CASE n.out[o] = m.out[o]
    BY <2>1, <2>2 DEF SameEncoder, SamePackets
  <2>3. CASE n.out[o] # m.out[o]
    <3>1. PICK u, d : n.out[o] = Flagged(m.out[o], u, d)
      BY <2>3 DEF Reflagged
    <3> QED BY <2>1, <3>1, FlaggedIs
  <2> QED BY <2>2, <2>3
<1>2. DOMAIN n.held = Stream /\ \A s \in Stream : n.held[s] \in Seq(Frame)
  BY DEF Good, InputsFit
<1>3. OnlyInputs(m, n)
  BY <1>1, <1>2 DEF OnlyInputs
<1> QED BY <1>3, OnlyInputsGoes

LEMMA FlaggedOnce ==
  ASSUME NEW q, OutFits(q), NEW b
  PROVE  /\ Reflagged(q, [q EXCEPT !.unavailable = b])
         /\ Reflagged(q, [q EXCEPT !.inputsDone = b])
         /\ Reflagged(q, q)
<1>0. DOMAIN q = OutFields
  BY DEF OutFits
<1>1. [q EXCEPT !.unavailable = b] = Flagged(q, b, q.inputsDone)
  BY <1>0 DEF Flagged, OutFields
<1>2. [q EXCEPT !.inputsDone = b] = Flagged(q, q.unavailable, b)
  BY <1>0 DEF Flagged, OutFields
<1> QED BY <1>1, <1>2 DEF Reflagged

LEMMA ResetEagainGoes ==
  ASSUME NEW m, Good(m)
  PROVE  LET n == ResetEagain(m)
         IN /\ Goes(m, n) /\ n.held = m.held /\ n.given = m.given /\ n.fg = m.fg
            /\ \A f \in InFile : /\ n.ifile[f].pos = m.ifile[f].pos /\ n.ifile[f].loop = m.ifile[f].loop
                                /\ n.ifile[f].eofReached = m.ifile[f].eofReached
<1> DEFINE n == ResetEagain(m)
<1>0. DOMAIN m = StateFields /\ \A o \in Output : OutFits(m.out[o])
  BY DEF Good, Sound, OutsFit
<1>1. /\ DOMAIN n = StateFields
      /\ n.hw = m.hw /\ n.dec = m.dec /\ n.fg = m.fg /\ n.dest = m.dest /\ n.how = m.how /\ n.opt = m.opt
      /\ n.held = m.held /\ n.given = m.given
      /\ n.ifile = [f \in InFile |-> [m.ifile[f] EXCEPT !.eagain = FALSE]]
      /\ n.out = [o \in Output |-> [m.out[o] EXCEPT !.unavailable = FALSE]]
  BY <1>0 DEF ResetEagain, StateFields
<1> HIDE DEF n
<1>2. DOMAIN n.out = Output /\ \A o \in Output : Reflagged(m.out[o], n.out[o])
  <2>1. ASSUME NEW o \in Output PROVE Reflagged(m.out[o], n.out[o])
    <3>1. n.out[o] = [m.out[o] EXCEPT !.unavailable = FALSE]
      BY <1>1
    <3>2. Reflagged(m.out[o], [m.out[o] EXCEPT !.unavailable = FALSE])
      BY <1>0, FlaggedOnce
    <3> QED BY <3>1, <3>2
  <2> QED BY <1>1, <2>1
<1>3. ASSUME NEW f \in InFile
      PROVE  /\ FileFits(f, n.ifile[f])
             /\ n.ifile[f].pos = m.ifile[f].pos /\ n.ifile[f].loop = m.ifile[f].loop
             /\ n.ifile[f].eofReached = m.ifile[f].eofReached
  <2>1. FileFits(f, m.ifile[f])
    BY DEF Good, InputsFit
  <2>2. n.ifile[f] = [m.ifile[f] EXCEPT !.eagain = FALSE]
    BY <1>1
  <2> QED BY <2>1, <2>2 DEF FileFits, FileFields
<1>4. DOMAIN n.ifile = InFile
  BY <1>1
<1>5. Goes(m, n)
  BY <1>1, <1>2, <1>3, <1>4, FlagsPut
<1> QED BY <1>1, <1>3, <1>5 DEF n

-----------------------------------------------------------------------------
(* A packet comes out of a decoder. *)

SentToAll(m, s, frame) == FoldLeft(LAMBDA k, g : SendFrameTo(k, g, s, frame), m, GraphsInOrder)

EndedForAll(m, s) == FoldLeft(LAMBDA k, g : SendEofTo(k, g, s), m, GraphsInOrder)

\* F lists what becomes of m as a frame of s is sent to the graphs.
IsSending(F, m, s, frame) ==
  /\ F[0] = m /\ SentToAll(m, s, frame) = F[NumGraphs]
  /\ \A g \in Graph : F[g] = SendFrameTo(F[g - 1], g, s, frame)

LEMMA SendingSteps ==
  ASSUME NEW m, NEW s, NEW frame
  PROVE  \E F : IsSending(F, m, s, frame)
<1> DEFINE seq == GraphsInOrder
           c == <<s, frame>>
<1>1. NumGraphs \in Nat /\ Graph = 1..NumGraphs /\ \A g \in Graph : seq[g] = g
  BY FilterAssumption DEF GraphsInOrder, Graph
<1>2. DOMAIN seq = 1..NumGraphs
  BY DEF GraphsInOrder, Graph
<1>3. SentToAll(m, s, frame) = Sends!Fold(c, m, seq)
  BY DEF SentToAll, SendOf, FoldLeft, Sends!Fold, MapThenFoldSet, Max,
         Sends!Greatest
<1>4. c[1] = s /\ c[2] = frame
  OBVIOUS
<1> HIDE DEF seq, c
<1>5. PICK F : Sends!Steps(c, F, m, seq, NumGraphs) /\ Sends!Fold(c, m, seq) = F[NumGraphs]
  <2>1. NumGraphs \in Nat
    BY <1>1
  <2> QED BY <1>2, <2>1, LeastNat, Sends!FoldSteps DEF Sends!WellOrdered
<1>6. /\ F[0] = m
      /\ \A g \in Graph : F[g] = SendFrameTo(F[g - 1], g, s, frame)
  BY <1>1, <1>4, <1>5 DEF Sends!Steps, SendOf
<1> QED BY <1>3, <1>5, <1>6 DEF IsSending, seq

LEMMA SendingFollows ==
  ASSUME NEW m, Good(m), NEW s, NEW frame \in Frame
  PROVE  Follows(m, SentToAll(m, s, frame))
<1>1. PICK F : IsSending(F, m, s, frame)
  BY SendingSteps
<1>2. /\ F[0] = m
      /\ \A g \in Graph : F[g] = SendFrameTo(F[g - 1], g, s, frame)
  BY <1>1 DEF IsSending
<1>3. NumGraphs \in Nat /\ Graph = 1..NumGraphs
  BY FilterAssumption DEF Graph
<1>4. ASSUME NEW g \in Graph, Good(F[g - 1]) PROVE Follows(F[g - 1], F[g])
  <2> DEFINE l == F[g - 1]
  <2>1. F[g] = SendFrameTo(l, g, s, frame) /\ Good(l)
    BY <1>2, <1>4
  <2> HIDE DEF l
  <2>2. Follows(l, SendFrame(l, g, frame)) /\ Follows(l, l)
    BY <2>1, SendFrameFollows, FollowsRefl
  <2>3. F[g] = SendFrame(l, g, frame) \/ F[g] = l
    BY <2>1 DEF SendFrameTo
  <2> QED BY <2>2, <2>3 DEF l
<1>5. Follows(m, F[0])
  BY <1>2, FollowsRefl
<1>6. Follows(m, F[NumGraphs])
  BY <1>3, <1>4, <1>5, ListFollows
<1> QED BY <1>1, <1>6 DEF IsSending

\* F lists what becomes of m as the end of s is sent to the graphs.
IsEnding(F, m, s) ==
  /\ F[0] = m /\ EndedForAll(m, s) = F[NumGraphs]
  /\ \A g \in Graph : F[g] = SendEofTo(F[g - 1], g, s)

LEMMA EndingSteps ==
  ASSUME NEW m, NEW s
  PROVE  \E F : IsEnding(F, m, s)
<1> DEFINE seq == GraphsInOrder
<1>1. NumGraphs \in Nat /\ Graph = 1..NumGraphs /\ \A g \in Graph : seq[g] = g
  BY FilterAssumption DEF GraphsInOrder, Graph
<1>2. DOMAIN seq = 1..NumGraphs
  BY DEF GraphsInOrder, Graph
<1>3. EndedForAll(m, s) = SendsEof!Fold(s, m, seq)
  BY DEF EndedForAll, SendEofOf, FoldLeft, SendsEof!Fold, MapThenFoldSet, Max,
         SendsEof!Greatest
<1> HIDE DEF seq
<1>5. PICK F : SendsEof!Steps(s, F, m, seq, NumGraphs) /\ SendsEof!Fold(s, m, seq) = F[NumGraphs]
  <2>1. NumGraphs \in Nat
    BY <1>1
  <2> QED BY <1>2, <2>1, LeastNat, SendsEof!FoldSteps DEF SendsEof!WellOrdered
<1>6. /\ F[0] = m
      /\ \A g \in Graph : F[g] = SendEofTo(F[g - 1], g, s)
  BY <1>1, <1>5 DEF SendsEof!Steps, SendEofOf
<1> QED BY <1>3, <1>5, <1>6 DEF IsEnding, seq

LEMMA EndingFollows ==
  ASSUME NEW m, Good(m), NEW s
  PROVE  Follows(m, EndedForAll(m, s))
<1>1. PICK F : IsEnding(F, m, s)
  BY EndingSteps
<1>2. /\ F[0] = m
      /\ \A g \in Graph : F[g] = SendEofTo(F[g - 1], g, s)
  BY <1>1 DEF IsEnding
<1>3. NumGraphs \in Nat /\ Graph = 1..NumGraphs
  BY FilterAssumption DEF Graph
<1>4. ASSUME NEW g \in Graph, Good(F[g - 1]) PROVE Follows(F[g - 1], F[g])
  <2> DEFINE l == F[g - 1]
  <2>1. F[g] = SendEofTo(l, g, s) /\ Good(l)
    BY <1>2, <1>4
  <2> HIDE DEF l
  <2>2. CASE s \in InputsOf(g)
    <3>1. F[g] = SendEof(l, g, s)
      BY <2>1, <2>2 DEF SendEofTo
    <3> QED BY <2>1, <2>2, <3>1, SendEofFollows DEF l
  <2>3. CASE s \notin InputsOf(g)
    <3>1. F[g] = l
      BY <2>1, <2>3 DEF SendEofTo
    <3> QED BY <2>1, <3>1, FollowsRefl DEF l
  <2> QED BY <2>2, <2>3
<1>5. Follows(m, F[0])
  BY <1>2, FollowsRefl
<1>6. Follows(m, F[NumGraphs])
  BY <1>3, <1>4, <1>5, ListFollows
<1> QED BY <1>1, <1>6 DEF IsEnding

\* What the decoder of s holds is changed, and what is known of it.
HoldsNow(m, n, s, frames) ==
  n = [m EXCEPT !.held[s] = frames] \/ \E xs : n = [m EXCEPT !.held[s] = frames, !.given[s] = xs]

LEMMA HeldPut ==
  ASSUME NEW m, Good(m), NEW s \in Stream, NEW frames \in Seq(Frame), NEW n, HoldsNow(m, n, s, frames)
  PROVE  Goes(m, n) /\ n.ifile = m.ifile /\ n.held[s] = frames
<1>0. DOMAIN m = StateFields
  BY DEF Good, Sound
<1>1. /\ DOMAIN n = StateFields /\ n.ifile = m.ifile
      /\ n.hw = m.hw /\ n.dec = m.dec /\ n.fg = m.fg /\ n.out = m.out /\ n.dest = m.dest
      /\ n.how = m.how /\ n.opt = m.opt
      /\ n.held = [m.held EXCEPT ![s] = frames]
  BY <1>0 DEF StateFields, HoldsNow
<1>2. /\ DOMAIN m.ifile = InFile /\ \A f \in InFile : FileFits(f, m.ifile[f])
      /\ DOMAIN m.held = Stream /\ \A t \in Stream : m.held[t] \in Seq(Frame)
  BY DEF Good, InputsFit
<1>3. DOMAIN n.held = Stream /\ n.held[s] = frames /\ \A t \in Stream : n.held[t] \in Seq(Frame)
  BY <1>1, <1>2
<1>4. DOMAIN n.ifile = InFile /\ \A f \in InFile : FileFits(f, n.ifile[f])
  BY <1>1, <1>2
<1>5. Goes(m, n)
  BY <1>1, <1>3, <1>4, InputsPut
<1> QED BY <1>1, <1>3, <1>5

\* The head of what a decoder holds is decoded.
LEMMA DecodedGoes ==
  ASSUME NEW m, Good(m), NEW s \in Stream, m.held[s] # <<>>
  PROVE  LET n == Decoded(m, s)
         IN Goes(m, n) /\ n.ifile = m.ifile
<1> DEFINE frame == Head(m.held[s])
           k == [m EXCEPT !.held[s] = Tail(@)]
           n == Decoded(m, s)
<1>1. m.held[s] \in Seq(Frame)
  BY DEF Good, InputsFit
<1>2. frame \in Frame /\ Tail(m.held[s]) \in Seq(Frame)
  BY <1>1
<1>3. Goes(m, k) /\ k.ifile = m.ifile
  <2> DEFINE xs == Tail(m.held[s])
  <2>1. HoldsNow(m, k, s, xs) /\ xs \in Seq(Frame)
    BY <1>2 DEF k, HoldsNow
  <2> HIDE DEF k, xs
  <2> QED BY <2>1, HeldPut
<1>4. n = k \/ n = SentToAll(k, s, frame)
  BY DEF Decoded, SentToAll
<1> HIDE DEF n, k, frame
<1>5. Follows(k, SentToAll(k, s, frame))
  BY <1>2, <1>3, SendingFollows DEF Goes
<1>6. Goes(k, n) /\ n.ifile = k.ifile
  BY <1>3, <1>4, <1>5, FollowsGoes, GoesRefl DEF Follows, SameInputs, Goes
<1> QED BY <1>3, <1>6, GoesTrans DEF n

\* A packet goes into a decoder, and one may come out of it.
LEMMA ProcessPacketGoes ==
  ASSUME NEW m, Good(m), NEW s \in Stream, NEW frame \in Frame
  PROVE  Goes(m, ProcessPacket(m, s, frame))
<1> DEFINE k == [m EXCEPT !.held[s] = Append(@, frame), !.given[s] = Append(@, frame)]
           xs == Append(m.held[s], frame)
           n == ProcessPacket(m, s, frame)
<1>1. m.held[s] \in Seq(Frame)
  BY DEF Good, InputsFit
<1>2. xs \in Seq(Frame) /\ xs # <<>>
  BY <1>1
<1>3. Goes(m, k) /\ k.held[s] = xs
  <2>1. HoldsNow(m, k, s, xs)
    BY DEF k, xs, HoldsNow
  <2> HIDE DEF k, xs
  <2> QED BY <1>2, <2>1, HeldPut
<1>4. n = k \/ n = Decoded(k, s)
  BY DEF ProcessPacket
<1> HIDE DEF n, k, xs
<1>5. Goes(k, Decoded(k, s)) /\ Goes(k, k)
  BY <1>2, <1>3, DecodedGoes, GoesRefl DEF Goes
<1> QED BY <1>3, <1>4, <1>5, GoesTrans DEF n

\* A decoder is asked for a frame that it held, or ends.
LEMMA ProcessEofGoes ==
  ASSUME NEW m, Good(m), NEW s \in Stream, NEW noEof
  PROVE  LET n == ProcessEof(m, s, noEof)
         IN Goes(m, n) /\ n.ifile = m.ifile
<1> DEFINE n == ProcessEof(m, s, noEof)
           e == EndedForAll(m, s)
<1>1. CASE m.held[s] # <<>>
  <2>1. n = Decoded(m, s)
    BY <1>1 DEF ProcessEof
  <2> QED BY <1>1, <2>1, DecodedGoes
<1>2. CASE m.held[s] = <<>>
  <2>1. n = m \/ n = e
    BY <1>2 DEF ProcessEof, EndedForAll
  <2> HIDE DEF n
  <2>2. Follows(m, e)
    BY EndingFollows
  <2> HIDE DEF e
  <2>3. Goes(m, n) /\ n.ifile = m.ifile
    BY <2>1, <2>2, FollowsGoes, GoesRefl DEF Follows, SameInputs
  <2> QED BY <2>3 DEF n
<1> QED BY <1>1, <1>2

\* F lists what becomes of m as the streams of f are drained.
IsDraining(F, m, f, noEof) ==
  LET xs == Streams[f]
  IN /\ F[0] = m /\ Drained(m, f, noEof) = F[Len(xs)]
     /\ \A i \in 1..Len(xs) : F[i] = DrainStream(F[i - 1], xs[i], noEof)

LEMMA DrainingSteps ==
  ASSUME NEW m, NEW f \in InFile, NEW noEof
  PROVE  \E F : IsDraining(F, m, f, noEof)
<1> DEFINE seq == Streams[f]
           k == Len(seq)
<1>1. seq \in Seq(Stream)
  BY MediaAssumption
<1>2. Drained(m, f, noEof) = Drains!Fold(noEof, m, seq)
  BY DEF Drained, DrainOf, FoldLeft, Drains!Fold, MapThenFoldSet, Max,
         Drains!Greatest
<1> HIDE DEF seq
<1>3. k \in Nat /\ DOMAIN seq = 1..k
  BY <1>1, LenProperties
<1> HIDE DEF k
<1>4. PICK F : Drains!Steps(noEof, F, m, seq, k) /\ Drains!Fold(noEof, m, seq) = F[k]
  BY <1>3, LeastNat, Drains!FoldSteps DEF Drains!WellOrdered
<1>5. F[0] = m /\ \A i \in 1..k : F[i] = DrainStream(F[i - 1], seq[i], noEof)
  BY <1>4 DEF Drains!Steps, DrainOf
<1> QED BY <1>2, <1>4, <1>5 DEF IsDraining, seq, k

\* A list of such steps, over which the files stay as they are.
LEMMA ListGoes ==
  ASSUME NEW m, NEW F, NEW n \in Nat, Good(m), F[0] = m,
         \A i \in 1..n : Good(F[i - 1]) => Goes(F[i - 1], F[i]) /\ F[i].ifile = F[i - 1].ifile
  PROVE  Goes(m, F[n]) /\ F[n].ifile = m.ifile
<1> DEFINE P(i) == Goes(m, F[i]) /\ F[i].ifile = m.ifile
           T == {i \in 0..n : P(i)}
<1>1. P(0)
  BY GoesRefl
<1>2. ASSUME NEW i \in 1..n, P(i - 1) PROVE P(i)
  <2>1. Good(F[i - 1])
    BY <1>2 DEF Goes
  <2>2. Goes(F[i - 1], F[i]) /\ F[i].ifile = F[i - 1].ifile
    BY <2>1
  <2> QED BY <1>2, <2>2, GoesTrans
<1> HIDE DEF P
<1>3. 0 \in T /\ \A i \in 1..n : i - 1 \in T => i \in T
  BY <1>1, <1>2
<1> HIDE DEF T
<1>4. \A i \in 0..n : i \in T
  BY <1>3, UpTo
<1>5. P(n)
  BY <1>4 DEF T
<1> QED BY <1>5 DEF P

LEMMA DrainedGoes ==
  ASSUME NEW m, Good(m), NEW f \in InFile, NEW noEof
  PROVE  LET n == Drained(m, f, noEof)
         IN Goes(m, n) /\ n.ifile = m.ifile
<1> DEFINE xs == Streams[f]
           k == Len(xs)
<1>1. PICK F : IsDraining(F, m, f, noEof)
  BY DrainingSteps
<1>2. F[0] = m /\ \A i \in 1..k : F[i] = DrainStream(F[i - 1], xs[i], noEof)
  BY <1>1 DEF IsDraining
<1>3. k \in Nat /\ \A i \in 1..k : xs[i] \in Stream
  BY MediaAssumption, ElementOfSeq
<1> HIDE DEF k, xs
<1>4. ASSUME NEW i \in 1..k, Good(F[i - 1]) PROVE Goes(F[i - 1], F[i]) /\ F[i].ifile = F[i - 1].ifile
  <2> DEFINE l == F[i - 1]
             n == ProcessEof(l, xs[i], noEof)
  <2>1. Good(l) /\ (F[i] = l \/ F[i] = n)
    BY <1>2, <1>4 DEF DrainStream
  <2>2. xs[i] \in Stream
    BY <1>3
  <2>3. Goes(l, n) /\ n.ifile = l.ifile
    BY <2>1, <2>2, ProcessEofGoes
  <2> HIDE DEF n, l
  <2> QED BY <2>1, <2>3, GoesRefl DEF l
<1>5. Goes(m, F[k]) /\ F[k].ifile = m.ifile
  BY <1>2, <1>3, <1>4, ListGoes
<1> QED BY <1>1, <1>5 DEF IsDraining, k, xs

-----------------------------------------------------------------------------
(* A file is read. *)

\* No more than what is known of file f is changed.
FileNow(m, n, f, r) ==
  /\ DOMAIN n = StateFields
  /\ n.hw = m.hw /\ n.dec = m.dec /\ n.fg = m.fg /\ n.out = m.out /\ n.dest = m.dest
  /\ n.how = m.how /\ n.opt = m.opt /\ n.held = m.held
  /\ n.ifile = [m.ifile EXCEPT ![f] = r]

LEMMA FileNowGoes ==
  ASSUME NEW m, Good(m), NEW f \in InFile, NEW r, FileFits(f, r), NEW n, FileNow(m, n, f, r)
  PROVE  Goes(m, n) /\ n.ifile[f] = r
<1>1. /\ DOMAIN m.ifile = InFile /\ \A e \in InFile : FileFits(e, m.ifile[e])
      /\ DOMAIN m.held = Stream /\ \A t \in Stream : m.held[t] \in Seq(Frame)
  BY DEF Good, InputsFit
<1>2. /\ DOMAIN n = StateFields
      /\ n.hw = m.hw /\ n.dec = m.dec /\ n.fg = m.fg /\ n.out = m.out /\ n.dest = m.dest
      /\ n.how = m.how /\ n.opt = m.opt /\ n.held = m.held
      /\ n.ifile = [m.ifile EXCEPT ![f] = r]
  BY DEF FileNow
<1>3. DOMAIN n.ifile = InFile /\ n.ifile[f] = r /\ \A e \in InFile : FileFits(e, n.ifile[e])
  BY <1>1, <1>2
<1>4. Goes(m, n)
  BY <1>1, <1>2, <1>3, InputsPut
<1> QED BY <1>3, <1>4

\* A packet of file f is left, unless it is at its end for good.
Left(m, f) == m.ifile[f].eofReached \/ m.ifile[f].pos <= Len(Media[f])

LEMMA MediaIs ==
  ASSUME NEW f \in InFile
  PROVE  /\ Len(Media[f]) \in Nat \ {0} /\ DOMAIN Media[f] = 1..Len(Media[f])
         /\ \A k \in 1..Len(Media[f]) : Media[f][k].stream \in Stream
<1> DEFINE xs == Media[f]
           S == ToSet(Media[f])
<1>1. xs \in Seq(S) /\ xs # <<>> /\ \A p \in S : p.stream \in Stream
  BY MediaAssumption, PacketFits
<1>2. \A k \in DOMAIN xs : xs[k] \in S
  BY DEF ToSet
<1> HIDE DEF S, xs
<1>3. Len(xs) \in Nat /\ DOMAIN xs = 1..Len(xs) /\ Len(xs) # 0
  BY <1>1, LenProperties, EmptySeq
<1> QED BY <1>1, <1>2, <1>3 DEF xs

LEMMA StartedOverGoes ==
  ASSUME NEW m, Good(m), NEW f \in InFile, m.ifile[f].loop > 0
  PROVE  LET n == StartedOver(m, f)
         IN Goes(m, n) /\ Left(n, f)
<1> DEFINE r == m.ifile[f]
           back == [[r EXCEPT !.pos = 1] EXCEPT !.loop = @ - 1]
           n == StartedOver(m, f)
<1>0. /\ DOMAIN r = FileFields /\ r.loop \in Nat /\ (r.eofReached => r.loop = 0)
      /\ DOMAIN m = StateFields /\ DOMAIN m.ifile = InFile
      /\ \A e \in InFile : FileFits(e, m.ifile[e])
      /\ \A t \in Stream : m.held[t] \in Seq(Frame)
  BY DEF Good, Sound, InputsFit, FileFits
<1>1. /\ DOMAIN n = StateFields
      /\ n.hw = m.hw /\ n.dec = m.dec /\ n.fg = m.fg /\ n.out = m.out /\ n.dest = m.dest
      /\ n.how = m.how /\ n.opt = m.opt
      /\ n.held = [s \in Stream |-> IF FileOf(s) = f THEN <<>> ELSE m.held[s]]
      /\ n.ifile = [m.ifile EXCEPT ![f] = back]
  BY ZenonT(60), <1>0 DEF StartedOver, StateFields
<1> HIDE DEF n
<1>2. Len(Media[f]) \in Nat \ {0}
  BY MediaIs
<1>3. FileFits(f, back) /\ back.pos = 1
  <2>1. /\ DOMAIN back = FileFields /\ back.pos = 1 /\ back.loop = r.loop - 1
        /\ back.eofReached = r.eofReached
    BY <1>0 DEF FileFields
  <2>2. r.loop - 1 \in Nat /\ ~r.eofReached
    BY <1>0
  <2>3. 1 \in 1..(Len(Media[f]) + 1)
    BY <1>2
  <2> HIDE DEF back, r
  <2> QED BY <2>1, <2>2, <2>3 DEF FileFits
<1> HIDE DEF back
<1>4. DOMAIN n.ifile = InFile /\ n.ifile[f] = back /\ \A e \in InFile : FileFits(e, n.ifile[e])
  BY <1>0, <1>1, <1>3
<1>5. DOMAIN n.held = Stream /\ \A t \in Stream : n.held[t] \in Seq(Frame)
  BY <1>0, <1>1
<1>6. Goes(m, n)
  BY <1>1, <1>4, <1>5, InputsPut
<1>7. Left(n, f)
  BY <1>2, <1>3, <1>4 DEF Left
<1> QED BY <1>6, <1>7 DEF n

LEMMA RewoundGoes ==
  ASSUME NEW m, Good(m), NEW f \in InFile, AtMediaEnd(m, f)
  PROVE  LET n == Rewound(m, f)
         IN Goes(m, n) /\ Left(n, f)
<1> DEFINE again == m.ifile[f].loop > 0
           k == Drained(m, f, again)
           n == Rewound(m, f)
<1>1. Goes(m, k) /\ k.ifile = m.ifile /\ Good(k)
  BY DrainedGoes DEF Goes
<1>2. CASE again
  <2>1. n = StartedOver(k, f)
    BY <1>2 DEF Rewound
  <2> HIDE DEF k, n
  <2>2. Goes(k, StartedOver(k, f)) /\ Left(StartedOver(k, f), f)
    BY <1>1, <1>2, StartedOverGoes
  <2> HIDE DEF again
  <2> QED BY <1>1, <2>1, <2>2, GoesTrans DEF n
<1>3. CASE ~again
  <2> DEFINE r == k.ifile[f]
             ended == [r EXCEPT !.eofReached = TRUE]
  <2>0. n = [k EXCEPT !.ifile[f].eofReached = TRUE]
    BY <1>3 DEF Rewound
  <2> HIDE DEF k, n
  <2>1. /\ DOMAIN r = FileFields /\ r.pos \in 1..(Len(Media[f]) + 1) /\ r.loop \in Nat
        /\ DOMAIN k = StateFields /\ DOMAIN k.ifile = InFile
    BY <1>1 DEF Good, Sound, InputsFit, FileFits
  <2>2. r.loop = 0 /\ r.pos > Len(Media[f])
    BY <1>1, <1>3, <2>1 DEF AtMediaEnd
  <2>3. FileNow(k, n, f, ended)
    BY <2>0, <2>1 DEF FileNow, StateFields
  <2>4. FileFits(f, ended) /\ ended.eofReached
    <3>1. /\ DOMAIN ended = FileFields /\ ended.pos = r.pos /\ ended.loop = r.loop
          /\ ended.eofReached = TRUE
      BY <2>1 DEF FileFields
    <3> HIDE DEF ended, r
    <3> QED BY <2>1, <2>2, <3>1 DEF FileFits
  <2> HIDE DEF ended, r, again
  <2>5. Goes(k, n) /\ n.ifile[f] = ended
    BY <1>1, <2>3, <2>4, FileNowGoes
  <2> QED BY <1>1, <2>4, <2>5, GoesTrans DEF n, Left
<1> QED BY <1>2, <1>3

LEMMA LocatedGoes ==
  ASSUME NEW m, Good(m), NEW f \in InFile
  PROVE  LET n == Located(m, f)
         IN Goes(m, n) /\ Left(n, f)
<1>1. CASE AtMediaEnd(m, f)
  BY <1>1, RewoundGoes DEF Located
<1>2. CASE ~AtMediaEnd(m, f)
  <2>1. m.ifile[f].pos \in Int /\ Len(Media[f]) \in Nat
    BY MediaIs DEF Good, InputsFit, FileFits
  <2>2. Left(m, f)
    BY <1>2, <2>1 DEF Left, AtMediaEnd
  <2> QED BY <1>2, <2>2, GoesRefl DEF Located
<1> QED BY <1>1, <1>2

-----------------------------------------------------------------------------
(* A round of the loop. *)

\* A flag of output o is set.
LEMMA UnavailableGoes ==
  ASSUME NEW m, Good(m), NEW o \in Output, NEW b
  PROVE  LET n == [m EXCEPT !.out[o].unavailable = b]
         IN Goes(m, n) /\ SameInputs(m, n) /\ n.fg = m.fg
<1> DEFINE n == [m EXCEPT !.out[o].unavailable = b]
           r == [m.out[o] EXCEPT !.unavailable = b]
<1>0. /\ DOMAIN m = StateFields /\ DOMAIN m.out = Output /\ OutFits(m.out[o])
      /\ DOMAIN m.ifile = InFile /\ \A f \in InFile : FileFits(f, m.ifile[f])
  BY DEF Good, Sound, OutsFit, InputsFit
<1>1. /\ DOMAIN n = StateFields
      /\ n.hw = m.hw /\ n.dec = m.dec /\ n.fg = m.fg /\ n.dest = m.dest /\ n.how = m.how /\ n.opt = m.opt
      /\ n.held = m.held /\ n.ifile = m.ifile /\ n.given = m.given
      /\ n.out = [m.out EXCEPT ![o] = r]
  BY <1>0 DEF StateFields
<1> HIDE DEF n
<1>2. Reflagged(m.out[o], r)
  BY <1>0, FlaggedOnce
<1> HIDE DEF r
<1>3. DOMAIN n.out = Output /\ \A p \in Output : Reflagged(m.out[p], n.out[p])
  BY <1>0, <1>1, <1>2 DEF Reflagged
<1>4. Goes(m, n)
  BY <1>0, <1>1, <1>3, FlagsPut
<1>5. SameInputs(m, n)
  BY <1>1 DEF SameInputs
<1> QED BY <1>1, <1>4, <1>5 DEF n

LEMMA InputsDoneGoes ==
  ASSUME NEW m, Good(m), NEW o \in Output, NEW b
  PROVE  LET n == [m EXCEPT !.out[o].inputsDone = b]
         IN Goes(m, n) /\ SameInputs(m, n) /\ n.fg = m.fg
<1> DEFINE n == [m EXCEPT !.out[o].inputsDone = b]
           r == [m.out[o] EXCEPT !.inputsDone = b]
<1>0. /\ DOMAIN m = StateFields /\ DOMAIN m.out = Output /\ OutFits(m.out[o])
      /\ DOMAIN m.ifile = InFile /\ \A f \in InFile : FileFits(f, m.ifile[f])
  BY DEF Good, Sound, OutsFit, InputsFit
<1>1. /\ DOMAIN n = StateFields
      /\ n.hw = m.hw /\ n.dec = m.dec /\ n.fg = m.fg /\ n.dest = m.dest /\ n.how = m.how /\ n.opt = m.opt
      /\ n.held = m.held /\ n.ifile = m.ifile /\ n.given = m.given
      /\ n.out = [m.out EXCEPT ![o] = r]
  BY <1>0 DEF StateFields
<1> HIDE DEF n
<1>2. Reflagged(m.out[o], r)
  BY <1>0, FlaggedOnce
<1> HIDE DEF r
<1>3. DOMAIN n.out = Output /\ \A p \in Output : Reflagged(m.out[p], n.out[p])
  BY <1>0, <1>1, <1>2 DEF Reflagged
<1>4. Goes(m, n)
  BY <1>0, <1>1, <1>3, FlagsPut
<1>5. SameInputs(m, n)
  BY <1>1 DEF SameInputs
<1> QED BY <1>1, <1>4, <1>5 DEF n

\* The outputs of some graph are unavailable.
LEMMA AllUnavailableGoes ==
  ASSUME NEW m, Good(m), NEW g
  PROVE  LET n == [m EXCEPT !.out = [p \in Output |-> [m.out[p] EXCEPT !.unavailable = @ \/ GraphOf[p] = g]]]
         IN Goes(m, n) /\ SameInputs(m, n) /\ n.fg = m.fg
<1> DEFINE n == [m EXCEPT !.out = [p \in Output |-> [m.out[p] EXCEPT !.unavailable = @ \/ GraphOf[p] = g]]]
<1>0. /\ DOMAIN m = StateFields /\ \A o \in Output : OutFits(m.out[o])
      /\ DOMAIN m.ifile = InFile /\ \A f \in InFile : FileFits(f, m.ifile[f])
  BY DEF Good, Sound, OutsFit, InputsFit
<1>1. /\ DOMAIN n = StateFields
      /\ n.hw = m.hw /\ n.dec = m.dec /\ n.fg = m.fg /\ n.dest = m.dest /\ n.how = m.how /\ n.opt = m.opt
      /\ n.held = m.held /\ n.ifile = m.ifile /\ n.given = m.given
      /\ n.out = [p \in Output |-> [m.out[p] EXCEPT !.unavailable = @ \/ GraphOf[p] = g]]
  BY <1>0 DEF StateFields
<1> HIDE DEF n
<1>2. ASSUME NEW p \in Output PROVE Reflagged(m.out[p], n.out[p])
  <2> DEFINE b == m.out[p].unavailable \/ GraphOf[p] = g
  <2>1. n.out[p] = [m.out[p] EXCEPT !.unavailable = b]
    BY <1>1
  <2> HIDE DEF b
  <2>2. Reflagged(m.out[p], [m.out[p] EXCEPT !.unavailable = b])
    BY <1>0, FlaggedOnce
  <2> QED BY <2>1, <2>2
<1>3. DOMAIN n.out = Output
  BY <1>1
<1>4. Goes(m, n)
  BY <1>0, <1>1, <1>2, <1>3, FlagsPut
<1>5. SameInputs(m, n)
  BY <1>1 DEF SameInputs
<1> QED BY <1>1, <1>4, <1>5 DEF n

\* There is nothing to be read yet.
LEMMA NotReadyGoes ==
  ASSUME NEW m, Good(m), NEW o \in Output, NEW f \in InFile
  PROVE  Goes(m, NotReady(m, o, f))
<1> DEFINE r == [m.ifile[f] EXCEPT !.eagain = TRUE]
           k == [m EXCEPT !.ifile[f].eagain = TRUE]
           n == [k EXCEPT !.out[o].unavailable = TRUE]
<1>0. /\ DOMAIN m = StateFields /\ DOMAIN m.ifile = InFile /\ FileFits(f, m.ifile[f])
  BY DEF Good, Sound, InputsFit
<1>1. NotReady(m, o, f) = n
  BY DEF NotReady
<1>2. FileFits(f, r)
  BY <1>0 DEF FileFits, FileFields
<1>3. FileNow(m, k, f, r)
  BY <1>0 DEF FileNow, StateFields
<1> HIDE DEF k, r
<1>4. Goes(m, k) /\ Good(k)
  BY <1>2, <1>3, FileNowGoes DEF Goes
<1>5. Goes(k, n)
  BY <1>4, UnavailableGoes
<1> HIDE DEF n
<1> QED BY <1>1, <1>4, <1>5, GoesTrans

\* F lists what need_output() has come to at each output.
IsNeeding(F, m) ==
  /\ F[0] = [m |-> m, needed |-> FALSE] /\ NeedOutput(m) = F[NumOutputs]
  /\ \A o \in Output : F[o] = NeedOf(0, F[o - 1], o)

LEMMA NeedingSteps ==
  ASSUME NEW m
  PROVE  \E F : IsNeeding(F, m)
<1> DEFINE seq == InOrder
           start == [m |-> m, needed |-> FALSE]
<1>1. NumOutputs \in Nat /\ Output = 1..NumOutputs /\ \A o \in Output : seq[o] = o
  BY OutputAssumption DEF InOrder, Output
<1>2. DOMAIN seq = 1..NumOutputs
  BY DEF InOrder, Output
<1>3. NeedOutput(m) = Needs!Fold(0, start, seq)
  BY DEF NeedOutput, NeedOf, FoldLeft, Needs!Fold, MapThenFoldSet, Max,
         Needs!Greatest
<1> HIDE DEF seq, start
<1>4. PICK F : Needs!Steps(0, F, start, seq, NumOutputs) /\ Needs!Fold(0, start, seq) = F[NumOutputs]
  <2>1. NumOutputs \in Nat
    BY <1>1
  <2> QED BY <1>2, <2>1, LeastNat, Needs!FoldSteps DEF Needs!WellOrdered
<1>5. F[0] = start /\ \A o \in Output : F[o] = NeedOf(0, F[o - 1], o)
  BY <1>1, <1>4 DEF Needs!Steps
<1> QED BY <1>3, <1>4, <1>5 DEF IsNeeding, start

\* What need_output() comes to, from m on.
Needing(m, c) == DOMAIN c = {"m", "needed"} /\ Follows(m, c.m) /\ c.m.fg = m.fg

LEMMA NeedingNext ==
  ASSUME NEW m, NEW c, Needing(m, c), NEW o \in Output
  PROVE  Needing(m, NeedOf(0, c, o))
<1> DEFINE k == CloseOutputs(c.m, Siblings(DestOf[o]))
           n == NeedOf(0, c, o)
<1>1. DOMAIN c = {"m", "needed"} /\ Follows(m, c.m) /\ Good(c.m)
  BY DEF Needing, Follows
<1>2. Follows(c.m, k) /\ k.fg = c.m.fg
  BY <1>1, CloseOutputsIs, QuietFollows DEF Good
<1>3. n = c \/ n = [c EXCEPT !.needed = TRUE] \/ n = [c EXCEPT !.m = k]
  BY DEF NeedOf
<1> HIDE DEF n, k
<1>4. DOMAIN n = {"m", "needed"} /\ (n.m = c.m \/ n.m = k)
  BY <1>1, <1>3
<1>5. Follows(m, n.m) /\ n.m.fg = m.fg
  <2>1. c.m.fg = m.fg
    BY DEF Needing
  <2> QED BY <1>1, <1>2, <1>4, <2>1, FollowsTrans
<1> QED BY <1>4, <1>5 DEF Needing, n

LEMMA NeedOutputIs ==
  ASSUME NEW m, Good(m)
  PROVE  LET n == NeedOutput(m).m
         IN Follows(m, n) /\ n.fg = m.fg
<1>1. PICK F : IsNeeding(F, m)
  BY NeedingSteps
<1>2. /\ F[0] = [m |-> m, needed |-> FALSE] /\ NeedOutput(m) = F[NumOutputs]
      /\ \A o \in Output : F[o] = NeedOf(0, F[o - 1], o)
  BY <1>1 DEF IsNeeding
<1>3. NumOutputs \in Nat /\ Output = 1..NumOutputs
  BY OutputAssumption DEF Output
<1> DEFINE T == {i \in 0..NumOutputs : Needing(m, F[i])}
<1>4. 0 \in T
  <2>1. Follows(m, m)
    BY FollowsRefl
  <2>2. DOMAIN F[0] = {"m", "needed"} /\ F[0].m = m
    BY <1>2
  <2> QED BY <1>3, <2>1, <2>2 DEF Needing
<1>5. ASSUME NEW i \in 1..NumOutputs, i - 1 \in T PROVE i \in T
  <2>1. Needing(m, F[i - 1]) /\ i \in Output /\ i \in 0..NumOutputs
    BY <1>3, <1>5
  <2>2. Needing(m, NeedOf(0, F[i - 1], i))
    BY <2>1, NeedingNext
  <2>3. F[i] = NeedOf(0, F[i - 1], i)
    BY <1>2, <2>1
  <2> QED BY <2>1, <2>2, <2>3
<1> HIDE DEF T
<1>6. \A i \in 0..NumOutputs : i \in T
  BY <1>3, <1>4, <1>5, UpTo
<1>7. Needing(m, F[NumOutputs])
  BY <1>3, <1>6 DEF T
<1> QED BY <1>2, <1>7 DEF Needing

-----------------------------------------------------------------------------
(* The filters of a graph run. *)

LEMMA RequestedReaps ==
  ASSUME NEW m, Good(m), NEW g \in Graph
  PROVE  Reaps(m, Requested(m, g))
<1> DEFINE q == Run(g, m.fg[g])
<1>1. GraphFits(g, m.fg[g], m.opt) /\ Ready(g, m.fg[g])
  BY DEF Good, GraphsFit
<1>2. Requested(m, g) = PutGraph(m, g, q)
  BY DEF Requested, PutGraph
<1>3. Steady(g, m.fg[g], q, m.opt)
  BY <1>1, RunSteady
<1> HIDE DEF q
<1> QED BY <1>2, <1>3, PutGraphReaps

\* F lists what becomes of m as the files are drained.
IsDrainingAll(F, m) ==
  /\ F[0] = m /\ FoldLeft(DrainFile, m, FilesInOrder) = F[NumFiles]
  /\ \A f \in InFile : F[f] = DrainFile(F[f - 1], f)

LEMMA DrainingAllSteps ==
  ASSUME NEW m
  PROVE  \E F : IsDrainingAll(F, m)
<1> DEFINE seq == FilesInOrder
<1>1. NumFiles \in Nat /\ InFile = 1..NumFiles /\ \A f \in InFile : seq[f] = f
  BY MediaAssumption DEF FilesInOrder, InFile
<1>2. DOMAIN seq = 1..NumFiles
  BY DEF FilesInOrder, InFile
<1>3. FoldLeft(DrainFile, m, seq) = DrainsFiles!Fold(0, m, seq)
  BY DEF DrainFileOf, FoldLeft, DrainsFiles!Fold, MapThenFoldSet, Max,
         DrainsFiles!Greatest
<1> HIDE DEF seq
<1>4. PICK F : DrainsFiles!Steps(0, F, m, seq, NumFiles) /\ DrainsFiles!Fold(0, m, seq) = F[NumFiles]
  <2>1. NumFiles \in Nat
    BY <1>1
  <2> QED BY <1>2, <2>1, LeastNat, DrainsFiles!FoldSteps DEF DrainsFiles!WellOrdered
<1>5. F[0] = m /\ \A f \in InFile : F[f] = DrainFile(F[f - 1], f)
  BY <1>1, <1>4 DEF DrainsFiles!Steps, DrainFileOf
<1> QED BY <1>3, <1>4, <1>5 DEF IsDrainingAll, seq

-----------------------------------------------------------------------------
(* The devices. *)

NamesDiffer(list) == \A i, j \in DOMAIN list : list[i].name = list[j].name => i = j

\* A list of devices
HwFits(list) == (\E S : list \in Seq(S)) /\ NamesDiffer(list)

\* The devices are still where they were.
Grown(list, more) == \A i \in DOMAIN list : i \in DOMAIN more /\ more[i] = list[i]

LEMMA ByNameIs ==
  ASSUME NEW list, HwFits(list), NEW name
  PROVE  IF \E i \in 1..Len(list) : list[i].name = name
         THEN GetByName(list, name) \in 1..Len(list) /\ list[GetByName(list, name)].name = name
         ELSE GetByName(list, name) = NoDevice
<1> DEFINE I == {i \in 1..Len(list) : list[i].name = name}
           k == SelectInSeq(list, LAMBDA d : d.name = name)
<1>1. k = IF I # {} THEN Min(I) ELSE 0
  BY DEF SelectInSeq
<1>2. GetByName(list, name) = k
  BY DEF GetByName
<1>3. I \subseteq Nat
  OBVIOUS
<1> HIDE DEF k
<1>4. IF I # {} THEN k \in I ELSE k = 0
  <2> HIDE DEF I
  <2> QED BY <1>1, <1>3, LeastOf
<1> QED BY <1>2, <1>4 DEF NoDevice

\* The name that the program makes is new: there are more numbers than devices.
LEMMA DefaultNameIs ==
  ASSUME NEW list, HwFits(list), NEW type
  PROVE  GetByName(list, DefaultName(list, type)) = NoDevice
<1> DEFINE k == Len(list)
           N == {n \in 0..k : GetByName(list, <<type, n>>) = NoDevice}
           at == [n \in 0..k |-> GetByName(list, <<type, n>>)]
<1>1. k \in Nat
  BY LenProperties DEF HwFits
<1>2. N # {}
  <2> SUFFICES ASSUME N = {} PROVE FALSE
    OBVIOUS
  <2>1. ASSUME NEW n \in 0..k PROVE at[n] \in 1..k /\ list[at[n]].name = <<type, n>>
    <3>1. GetByName(list, <<type, n>>) # NoDevice
      OBVIOUS
    <3>2. GetByName(list, <<type, n>>) \in 1..k /\ list[GetByName(list, <<type, n>>)].name = <<type, n>>
      BY <3>1, ByNameIs
    <3> QED BY <3>2
  <2>2. at \in [0..k -> 1..k]
    <3>1. at = [n \in 0..k |-> at[n]]
      OBVIOUS
    <3> HIDE DEF at, N
    <3> QED BY <2>1, <3>1
  <2> HIDE DEF at, N
  <2>3. IsFiniteSet(0..k) /\ IsFiniteSet(1..k) /\ Cardinality(1..k) < Cardinality(0..k)
    <3>1. /\ IsFiniteSet(0..k) /\ Cardinality(0..k) = IF 0 > k THEN 0 ELSE k - 0 + 1
          /\ IsFiniteSet(1..k) /\ Cardinality(1..k) = IF 1 > k THEN 0 ELSE k - 1 + 1
      BY SMTT(60), <1>1, FS_Interval
    <3> HIDE DEF k
    <3> QED BY <1>1, <3>1
  <2>4. PICK a \in 0..k, b \in 0..k : a # b /\ at[a] = at[b]
    BY <2>2, <2>3, FS_PigeonHole
  <2>5. <<type, a>> = <<type, b>>
    BY <2>1, <2>4
  <2> QED BY <2>4, <2>5
<1>3. DefaultName(list, type) = <<type, Min(N)>>
  BY DEF DefaultName
<1>4. Min(N) \in N
  <2>1. N \subseteq Nat
    BY <1>1
  <2> HIDE DEF N
  <2> QED BY <1>2, <2>1, LeastOf
<1>5. \A n \in N : GetByName(list, <<type, n>>) = NoDevice
  OBVIOUS
<1> HIDE DEF N
<1> QED BY <1>3, <1>4, <1>5

\* A device of a new name is added.
LEMMA AddDeviceIs ==
  ASSUME NEW list, HwFits(list), NEW name, GetByName(list, name) = NoDevice, NEW type
  PROVE  LET more == AddDevice(list, name, type)
         IN /\ HwFits(more) /\ Grown(list, more)
            /\ Len(list) + 1 \in DOMAIN more /\ more[Len(list) + 1].type = type
<1> DEFINE e == [name |-> name, type |-> type]
           k == Len(list)
           more == AddDevice(list, name, type)
<1>1. PICK S : list \in Seq(S)
  BY DEF HwFits
<1>2. k \in Nat /\ DOMAIN list = 1..k
  BY <1>1, LenProperties
<1>3. more = Append(list, e) /\ list \in Seq(S \cup {e}) /\ e \in S \cup {e}
  <2>1. list \in Seq(S \cup {e})
    BY <1>1
  <2> QED BY <2>1 DEF AddDevice
<1> HIDE DEF more
<1>4. e.name = name /\ e.type = type
  OBVIOUS
<1> HIDE DEF e, k
<1>5. /\ more \in Seq(S \cup {e}) /\ Len(more) = k + 1 /\ more[k + 1] = e
      /\ \A i \in 1..k : more[i] = list[i]
  BY <1>3, AppendProperties DEF k
<1>6. DOMAIN more = 1..(k + 1)
  BY <1>5, LenProperties
<1>7. \A i \in 1..k : list[i].name # name
  <2> SUFFICES ASSUME NEW i \in 1..k, list[i].name = name PROVE FALSE
    OBVIOUS
  <2>1. GetByName(list, name) \in 1..k
    BY ByNameIs DEF k
  <2> QED BY <1>2, <2>1 DEF NoDevice
<1>8. NamesDiffer(more)
  <2> SUFFICES ASSUME NEW i \in 1..(k + 1), NEW j \in 1..(k + 1), more[i].name = more[j].name PROVE i = j
    BY <1>6 DEF NamesDiffer
  <2>1. CASE i \in 1..k /\ j \in 1..k
    BY <1>2, <1>5, <2>1 DEF HwFits, NamesDiffer
  <2>2. CASE i = k + 1 \/ j = k + 1
    <3>1. \A h \in 1..k : more[h].name # name
      BY <1>5, <1>7
    <3>2. more[k + 1].name = name
      BY <1>4, <1>5
    <3>3. i \in 1..k \/ i = k + 1
      BY <1>2
    <3>4. j \in 1..k \/ j = k + 1
      BY <1>2
    <3> QED BY <2>2, <3>1, <3>2, <3>3, <3>4
  <2> QED BY <1>2, <2>1, <2>2
<1>9. Grown(list, more)
  BY <1>2, <1>5, <1>6 DEF Grown
<1>10. k + 1 \in DOMAIN more /\ more[k + 1].type = type
  BY <1>2, <1>4, <1>5, <1>6
<1> QED BY <1>5, <1>8, <1>9, <1>10 DEF more, k, HwFits

LEMMA GrownRefl ==
  ASSUME NEW list
  PROVE  Grown(list, list)
BY DEF Grown

LEMMA InitFromStringIs ==
  ASSUME NEW list, HwFits(list), NEW spec
  PROVE  HwFits(InitFromString(list, spec))
<1> DEFINE taken == spec.name # Null /\ GetByName(list, spec.name) # NoDevice
           name == IF spec.name = Null THEN DefaultName(list, spec.type) ELSE spec.name
           n == InitFromString(list, spec)
<1>1. n = list \/ (~taken /\ n = AddDevice(list, name, spec.type))
  BY DEF InitFromString
<1>2. ~taken => GetByName(list, name) = NoDevice
  BY DefaultNameIs
<1> HIDE DEF n, name, taken
<1>3. ~taken => HwFits(AddDevice(list, name, spec.type))
  BY <1>2, AddDeviceIs
<1> QED BY <1>1, <1>3 DEF n

\* F lists the devices as those of specs are made.
IsMaking(F, specs) ==
  /\ F[0] = <<>> /\ FoldLeft(InitFromString, <<>>, specs) = F[Len(specs)]
  /\ \A i \in 1..Len(specs) : F[i] = InitFromString(F[i - 1], specs[i])

LEMMA MakingSteps ==
  ASSUME NEW S, NEW specs \in Seq(S)
  PROVE  \E F : IsMaking(F, specs)
<1> DEFINE k == Len(specs)
<1>1. k \in Nat /\ DOMAIN specs = 1..k
  BY LenProperties
<1>2. FoldLeft(InitFromString, <<>>, specs) = InitsDevices!Fold(0, <<>>, specs)
  BY DEF DeviceOf, FoldLeft, InitsDevices!Fold, MapThenFoldSet, Max,
         InitsDevices!Greatest
<1> HIDE DEF k
<1>3. PICK F : InitsDevices!Steps(0, F, <<>>, specs, k) /\ InitsDevices!Fold(0, <<>>, specs) = F[k]
  BY <1>1, LeastNat, InitsDevices!FoldSteps DEF InitsDevices!WellOrdered
<1>4. F[0] = <<>> /\ \A i \in 1..k : F[i] = InitFromString(F[i - 1], specs[i])
  BY <1>3 DEF InitsDevices!Steps, DeviceOf
<1> QED BY <1>2, <1>3, <1>4 DEF IsMaking, k

LEMMA MakingIs ==
  ASSUME NEW S, NEW specs \in Seq(S)
  PROVE  HwFits(FoldLeft(InitFromString, <<>>, specs))
<1> DEFINE k == Len(specs)
<1>1. PICK F : IsMaking(F, specs)
  BY MakingSteps
<1>2. F[0] = <<>> /\ \A i \in 1..k : F[i] = InitFromString(F[i - 1], specs[i])
  BY <1>1 DEF IsMaking
<1>3. k \in Nat
  BY LenProperties
<1> HIDE DEF k
<1> DEFINE T == {i \in 0..k : HwFits(F[i])}
<1>4. 0 \in T
  <2>1. <<>> \in Seq({}) /\ NamesDiffer(<<>>)
    BY DEF NamesDiffer
  <2>2. HwFits(<<>>)
    BY <2>1 DEF HwFits
  <2> QED BY <1>2, <1>3, <2>2
<1>5. ASSUME NEW i \in 1..k, i - 1 \in T PROVE i \in T
  <2>1. HwFits(F[i - 1]) /\ F[i] = InitFromString(F[i - 1], specs[i]) /\ i \in 0..k
    BY <1>2, <1>5
  <2> QED BY <2>1, InitFromStringIs
<1> HIDE DEF T
<1>6. \A i \in 0..k : i \in T
  BY <1>3, <1>4, <1>5, UpTo
<1>7. HwFits(F[k])
  BY <1>3, <1>6 DEF T
<1> QED BY <1>1, <1>7 DEF IsMaking, k

-----------------------------------------------------------------------------
(* The devices of the decoders. *)

DecFields == {"id", "type", "name", "device", "output"}

DecsFit(m) == HwFits(m.hw) /\ DOMAIN m.dec = Stream /\ \A s \in Stream : DOMAIN m.dec[s] = DecFields

\* A decoder of stream s that takes the formats of its configurations, for the
\* options d, has a device of the type that they name.
Equipped(list, d, s) ==
  d.id \in {"auto", "generic"} /\ DecConfigs[s] # <<>> =>
    d.device \in DOMAIN list /\ list[d.device].type = d.type

OnlyDevices(m, n) ==
  /\ n.ifile = m.ifile /\ n.held = m.held /\ n.fg = m.fg /\ n.out = m.out /\ n.dest = m.dest
  /\ n.opt = m.opt /\ n.given = m.given

\* The decoders of the streams in S are opened.
Opening(m, n, S) ==
  /\ DOMAIN n = StateFields /\ OnlyDevices(m, n) /\ DecsFit(n)
  /\ n.how = m.how \/ n.how = "abort"
  /\ n.how = "ok" =>
       \A s \in Stream : s \in S \/ Equipped(m.hw, m.dec[s], s) => Equipped(n.hw, n.dec[s], s)

Openable(m) == DOMAIN m = StateFields /\ DecsFit(m) /\ m.how \in {"ok", "abort"}

LEMMA OpeningRefl ==
  ASSUME NEW m, Openable(m), NEW S, m.how = "ok" => \A s \in Stream : s \in S => Equipped(m.hw, m.dec[s], s)
  PROVE  Opening(m, m, S)
BY DEF Opening, Openable, OnlyDevices

LEMMA OpeningTrans ==
  ASSUME NEW l, Openable(l), NEW m, NEW n, NEW S, NEW T, Opening(l, m, S), Opening(m, n, T)
  PROVE  Opening(l, n, S \cup T)
BY DEF Opening, OnlyDevices, Openable

LEMMA OpeningOpenable ==
  ASSUME NEW m, Openable(m), NEW n, NEW S, Opening(m, n, S)
  PROVE  Openable(n)
BY DEF Opening, Openable

LEMMA StillEquipped ==
  ASSUME NEW list, NEW more, Grown(list, more), NEW d, NEW s, Equipped(list, d, s)
  PROVE  Equipped(more, d, s)
BY DEF Equipped, Grown

\* Stream s gets a device.
LEMMA GivenOpens ==
  ASSUME NEW m, Openable(m), NEW s \in Stream, NEW list, HwFits(list), Grown(m.hw, list), NEW dev, NEW type,
         m.dec[s].id \in {"auto", "generic"} => dev \in DOMAIN list /\ list[dev].type = type
  PROVE  Opening(m, Given(m, s, list, dev, type), {s})
<1> DEFINE d == m.dec[s]
           e == [[d EXCEPT !.device = dev] EXCEPT !.type = type]
           n == Given(m, s, list, dev, type)
<1>0. DOMAIN m = StateFields /\ DOMAIN m.dec = Stream /\ \A t \in Stream : DOMAIN m.dec[t] = DecFields
  BY DEF Openable, DecsFit
<1>1. /\ DOMAIN n = StateFields /\ OnlyDevices(m, n) /\ n.how = m.how /\ n.hw = list
      /\ n.dec = [m.dec EXCEPT ![s] = e]
  BY <1>0 DEF Given, StateFields, OnlyDevices
<1>2. DOMAIN e = DecFields /\ e.id = d.id /\ e.device = dev /\ e.type = type
  BY <1>0 DEF DecFields
<1> HIDE DEF n, e
<1>3. DOMAIN n.dec = Stream /\ n.dec[s] = e /\ \A t \in Stream \ {s} : n.dec[t] = m.dec[t]
  BY <1>0, <1>1
<1>4. DecsFit(n)
  BY <1>0, <1>1, <1>2, <1>3 DEF DecsFit
<1>5. Equipped(n.hw, n.dec[s], s)
  BY <1>1, <1>2, <1>3 DEF Equipped
<1>6. \A t \in Stream \ {s} : Equipped(m.hw, m.dec[t], t) => Equipped(n.hw, n.dec[t], t)
  BY <1>1, <1>3, StillEquipped
<1>7. \A t \in Stream : t \in {s} \/ Equipped(m.hw, m.dec[t], t) => Equipped(n.hw, n.dec[t], t)
  BY <1>5, <1>6
<1> QED BY <1>1, <1>4, <1>7 DEF Opening, n

\* An exception ends the program.
LEMMA AbortOpens ==
  ASSUME NEW m, Openable(m), NEW S
  PROVE  Opening(m, [m EXCEPT !.how = "abort"], S)
<1> DEFINE n == [m EXCEPT !.how = "abort"]
<1>1. /\ DOMAIN n = StateFields /\ OnlyDevices(m, n) /\ n.how = "abort" /\ n.hw = m.hw /\ n.dec = m.dec
  BY DEF Openable, StateFields, OnlyDevices
<1> HIDE DEF n
<1>2. DecsFit(n)
  BY <1>1 DEF Openable, DecsFit
<1> QED BY <1>1, <1>2 DEF Opening, n

LEMMA MadeOpens ==
  ASSUME NEW m, Openable(m), NEW s \in Stream, NEW type
  PROVE  Opening(m, Made(m, s, type), {s})
<1>1. CASE type \in Creatable
  <2> DEFINE name == DefaultName(m.hw, type)
             list == AddDevice(m.hw, name, type)
             dev == Len(m.hw) + 1
  <2>1. HwFits(m.hw)
    BY DEF Openable, DecsFit
  <2>2. Made(m, s, type) = Given(m, s, list, dev, type)
    BY <1>1 DEF Made, InitFromType
  <2>3. GetByName(m.hw, name) = NoDevice
    BY <2>1, DefaultNameIs
  <2> HIDE DEF name
  <2>4. HwFits(list) /\ Grown(m.hw, list) /\ dev \in DOMAIN list /\ list[dev].type = type
    BY <2>1, <2>3, AddDeviceIs
  <2> HIDE DEF list, dev
  <2>5. Opening(m, Given(m, s, list, dev, type), {s})
    BY <2>4, GivenOpens
  <2> QED BY <2>2, <2>5
<1>2. CASE type \notin Creatable
  BY <1>2, AbortOpens DEF Made
<1> QED BY <1>1, <1>2

LEMMA FoundOpens ==
  ASSUME NEW m, Openable(m), NEW s \in Stream, NEW dev, dev \in DOMAIN m.hw,
         m.dec[s].id = "auto" => m.dec[s].name # Null,
         m.dec[s].id = "generic" /\ m.dec[s].name = Null => m.hw[dev].type = m.dec[s].type
  PROVE  Opening(m, Found(m, s, dev), {s})
<1> DEFINE d == m.dec[s]
           type == IF d.name # Null /\ d.id = "auto" THEN m.hw[dev].type ELSE d.type
<1>1. CASE d.name # Null /\ ~Usable(d, m.hw[dev].type)
  BY <1>1, AbortOpens DEF Found
<1>2. CASE ~(d.name # Null /\ ~Usable(d, m.hw[dev].type))
  <2>1. Found(m, s, dev) = Given(m, s, m.hw, dev, type)
    BY <1>2 DEF Found
  <2>2. d.id \in {"auto", "generic"} => m.hw[dev].type = type
    BY <1>2 DEF Usable
  <2> HIDE DEF type
  <2>3. HwFits(m.hw) /\ Grown(m.hw, m.hw)
    BY GrownRefl DEF Openable, DecsFit
  <2>4. Opening(m, Given(m, s, m.hw, dev, type), {s})
    BY <2>2, <2>3, GivenOpens
  <2> QED BY <2>1, <2>4
<1> QED BY <1>1, <1>2

\* There is no acceleration.
LEMMA DisabledOpens ==
  ASSUME NEW m, Openable(m), NEW s \in Stream
  PROVE  Opening(m, [m EXCEPT !.dec[s].id = "none"], {s})
<1> DEFINE e == [m.dec[s] EXCEPT !.id = "none"]
           n == [m EXCEPT !.dec[s].id = "none"]
<1>0. DOMAIN m = StateFields /\ DOMAIN m.dec = Stream /\ \A t \in Stream : DOMAIN m.dec[t] = DecFields
  BY DEF Openable, DecsFit
<1>1. /\ DOMAIN n = StateFields /\ OnlyDevices(m, n) /\ n.how = m.how /\ n.hw = m.hw
      /\ n.dec = [m.dec EXCEPT ![s] = e]
  BY <1>0 DEF StateFields, OnlyDevices
<1>2. DOMAIN e = DecFields /\ e.id = "none"
  BY <1>0 DEF DecFields
<1> HIDE DEF n, e
<1>3. DOMAIN n.dec = Stream /\ n.dec[s] = e /\ \A t \in Stream \ {s} : n.dec[t] = m.dec[t]
  BY <1>0, <1>1
<1>4. DecsFit(n)
  BY <1>0, <1>1, <1>2, <1>3 DEF DecsFit, Openable
<1>5. Equipped(n.hw, n.dec[s], s)
  BY <1>2, <1>3 DEF Equipped
<1>6. \A t \in Stream : t \in {s} \/ Equipped(m.hw, m.dec[t], t) => Equipped(n.hw, n.dec[t], t)
  BY <1>1, <1>3, <1>5
<1> QED BY <1>1, <1>4, <1>6 DEF Opening, n

LEMMA AutoDeviceOpens ==
  ASSUME NEW m, Openable(m), NEW s \in Stream
  PROVE  Opening(m, AutoDevice(m, s), {s})
<1> DEFINE configs == DecConfigs[s]
           I == {i \in 1..Len(configs) : GetByType(m.hw, configs[i].type) # NoDevice}
           old == SelectInSeq(configs, LAMBDA c : GetByType(m.hw, c.type) # NoDevice)
           new == SelectInSeq(configs, LAMBDA c : c.type \in Creatable)
           J == {i \in 1..Len(configs) : configs[i].type \in Creatable}
           n == AutoDevice(m, s)
<1>0. configs \in Seq(ToSet(configs)) /\ HwFits(m.hw)
  BY StreamAssumption DEF Openable, DecsFit
<1>9. configs = <<>> => old = 0 /\ new = 0
  <2>1. old = (IF I # {} THEN Min(I) ELSE 0) /\ new = IF J # {} THEN Min(J) ELSE 0
    BY DEF SelectInSeq
  <2>2. configs = <<>> => I = {} /\ J = {}
    OBVIOUS
  <2> HIDE DEF I, J, old, new
  <2> QED BY <2>1, <2>2
<1>1. /\ configs = <<>> => n = m
      /\ configs # <<>> /\ old # 0 => n = Given(m, s, m.hw, GetByType(m.hw, configs[old].type), configs[old].type)
      /\ configs # <<>> /\ old = 0 /\ new # 0 => n = Made(m, s, configs[new].type)
      /\ configs # <<>> /\ old = 0 /\ new = 0 => n = [m EXCEPT !.dec[s].id = "none"]
  <2>1. n = CASE configs = <<>> -> m
              [] old # 0 -> Given(m, s, m.hw, GetByType(m.hw, configs[old].type), configs[old].type)
              [] old = 0 /\ new # 0 -> Made(m, s, configs[new].type)
              [] OTHER -> [m EXCEPT !.dec[s].id = "none"]
    BY DEF AutoDevice
  <2> HIDE DEF n, new, old, configs
  <2> QED BY <1>9, <2>1
<1>2. old = IF I # {} THEN Min(I) ELSE 0
  BY DEF SelectInSeq
<1> HIDE DEF n, new, old
<1>3. CASE configs = <<>>
  <2>1. Opening(m, m, {s})
    BY <1>3, OpeningRefl DEF Equipped
  <2> QED BY <1>1, <1>3, <2>1 DEF n
<1>4. CASE configs # <<>> /\ old # 0
  <2> DEFINE type == configs[old].type
             dev == GetByType(m.hw, type)
  <2>1. n = Given(m, s, m.hw, dev, type)
    BY <1>1, <1>4
  <2>2. dev # NoDevice
    <3>1. I \subseteq Nat
      OBVIOUS
    <3>2. \A i \in I : GetByType(m.hw, configs[i].type) # NoDevice
      OBVIOUS
    <3> HIDE DEF I, configs
    <3>3. old \in I
      BY <1>2, <1>4, <3>1, LeastOf
    <3> QED BY <3>2, <3>3
  <2> HIDE DEF type, dev, configs, I
  <2>3. PICK S : m.hw \in Seq(S)
    BY <1>0 DEF HwFits
  <2>4. dev \in DOMAIN m.hw /\ m.hw[dev].type = type
    <3>1. GetByType(m.hw, type) \in 1..Len(m.hw) /\ m.hw[GetByType(m.hw, type)].type = type
      BY <2>2, <2>3, ByTypeIs DEF dev
    <3>2. DOMAIN m.hw = 1..Len(m.hw)
      BY <2>3, LenProperties
    <3> QED BY <3>1, <3>2 DEF dev
  <2>5. Opening(m, Given(m, s, m.hw, dev, type), {s})
    BY <1>0, <2>4, GrownRefl, GivenOpens
  <2> QED BY <2>1, <2>5 DEF n
<1>5. CASE configs # <<>> /\ old = 0 /\ new # 0
  <2>1. n = Made(m, s, configs[new].type)
    BY <1>1, <1>5
  <2>2. Opening(m, Made(m, s, configs[new].type), {s})
    BY MadeOpens
  <2> QED BY <2>1, <2>2 DEF n
<1>6. CASE configs # <<>> /\ old = 0 /\ new = 0
  <2>1. n = [m EXCEPT !.dec[s].id = "none"]
    BY <1>1, <1>6
  <2> QED BY <2>1, DisabledOpens DEF n
<1> QED BY <1>3, <1>4, <1>5, <1>6

LEMMA OpenDecoderOpens ==
  ASSUME NEW m, Openable(m), NEW s \in Stream
  PROVE  Opening(m, OpenDecoder(m, s), {s})
<1> DEFINE d == m.dec[s]
           dev == Present(m.hw, d, DecConfigs[s])
           n == OpenDecoder(m, s)
<1>0. HwFits(m.hw)
  BY DEF Openable, DecsFit
<1>1. CASE m.how # "ok"
  BY <1>1, OpeningRefl DEF OpenDecoder
<1>2. CASE m.how = "ok" /\ dev # NoDevice /\ d.id \in {"auto", "generic"}
  <2>1. n = Found(m, s, dev)
    BY <1>2 DEF OpenDecoder, SetupForDecode
  <2> HIDE DEF n
  <2>2. PICK S : m.hw \in Seq(S)
    BY <1>0 DEF HwFits
  <2>3. DOMAIN m.hw = 1..Len(m.hw)
    BY <2>2, LenProperties
  <2>4. CASE d.name # Null
    <3>1. dev = GetByName(m.hw, d.name)
      BY <2>4 DEF Present
    <3> HIDE DEF dev
    <3>2. dev \in DOMAIN m.hw
      BY <1>0, <1>2, <2>3, <3>1, ByNameIs
    <3>3. Opening(m, Found(m, s, dev), {s})
      BY <2>4, <3>2, FoundOpens
    <3> QED BY <2>1, <3>3 DEF n
  <2>5. CASE d.name = Null
    <3>1. d.id = "generic" /\ dev = GetByType(m.hw, d.type)
      BY <1>2, <2>5 DEF Present
    <3> HIDE DEF dev
    <3>2. dev \in 1..Len(m.hw) /\ m.hw[dev].type = d.type
      BY <1>2, <2>2, <3>1, ByTypeIs
    <3>3. Opening(m, Found(m, s, dev), {s})
      BY <2>3, <2>5, <3>1, <3>2, FoundOpens
    <3> QED BY <2>1, <3>3 DEF n
  <2> QED BY <2>4, <2>5
<1>3. CASE m.how = "ok" /\ dev # NoDevice /\ d.id \notin {"auto", "generic"}
  <2> DEFINE type == IF d.name # Null /\ d.id = "auto" THEN m.hw[dev].type ELSE d.type
  <2>1. n = [m EXCEPT !.how = "abort"] \/ n = Given(m, s, m.hw, dev, type)
    BY <1>3 DEF OpenDecoder, SetupForDecode, Found
  <2> HIDE DEF n, dev, type
  <2>2. Opening(m, Given(m, s, m.hw, dev, type), {s})
    BY <1>0, <1>3, GrownRefl, GivenOpens
  <2> QED BY <2>1, <2>2, AbortOpens DEF n
<1>4. CASE m.how = "ok" /\ dev = NoDevice
  <2>1. /\ d.id = "auto" => n = AutoDevice(m, s)
        /\ d.id = "generic" => n = Made(m, s, d.type)
        /\ d.id \notin {"auto", "generic"} => n = m
    BY <1>4 DEF OpenDecoder, SetupForDecode
  <2> HIDE DEF n
  <2>2. d.id \notin {"auto", "generic"} => Opening(m, m, {s})
    BY OpeningRefl DEF Equipped
  <2>3. Opening(m, AutoDevice(m, s), {s}) /\ Opening(m, Made(m, s, d.type), {s})
    BY AutoDeviceOpens, MadeOpens
  <2> QED BY <2>1, <2>2, <2>3 DEF n
<1> QED BY <1>1, <1>2, <1>3, <1>4

\* A list of such steps.
OpensInTurn(F, S, n) == \A i \in 1..n : Openable(F[i - 1]) => Opening(F[i - 1], F[i], S[i])

AllUpTo(S, n) == UNION {S[i] : i \in 1..n}

LEMMA ListOpens ==
  ASSUME NEW m, Openable(m), NEW F, NEW n \in Nat, F[0] = m, NEW S, OpensInTurn(F, S, n)
  PROVE  Opening(m, F[n], AllUpTo(S, n))
<1> DEFINE U(k) == UNION {S[i] : i \in 1..k}
           T == {k \in 0..n : Opening(m, F[k], U(k))}
<1>1. 0 \in T
  <2>1. U(0) = {}
    OBVIOUS
  <2> HIDE DEF U
  <2>2. Opening(m, m, {})
    BY OpeningRefl
  <2> QED BY <2>1, <2>2
<1>2. ASSUME NEW k \in 1..n, k - 1 \in T PROVE k \in T
  <2>1. Opening(m, F[k - 1], U(k - 1)) /\ k \in 0..n
    BY <1>2
  <2>2. Openable(F[k - 1])
    BY <2>1, OpeningOpenable
  <2>3. Opening(F[k - 1], F[k], S[k])
    BY <2>2 DEF OpensInTurn
  <2>4. U(k) = U(k - 1) \cup S[k]
    <3>1. \A i : i \in 1..k <=> i \in 1..(k - 1) \/ i = k
      OBVIOUS
    <3> QED BY <3>1
  <2> HIDE DEF U
  <2>5. Opening(m, F[k], U(k - 1) \cup S[k])
    BY <2>1, <2>3, OpeningTrans
  <2> QED BY <2>1, <2>4, <2>5
<1> HIDE DEF T
<1>3. \A k \in 0..n : k \in T
  BY <1>1, <1>2, UpTo
<1>4. n \in 0..n
  OBVIOUS
<1>5. Opening(m, F[n], U(n))
  <2>1. n \in T
    BY <1>3, <1>4
  <2> HIDE DEF U
  <2> QED BY <2>1 DEF T
<1> QED BY <1>5 DEF AllUpTo

\* F lists what becomes of m as the decoders of file f are opened.
IsOpening(F, m, f) ==
  LET xs == Streams[f]
  IN /\ F[0] = m /\ OpenDecoders(m, f) = F[Len(xs)]
     /\ \A i \in 1..Len(xs) : F[i] = OpenDecoder(F[i - 1], xs[i])

LEMMA OpeningSteps ==
  ASSUME NEW m, NEW f \in InFile
  PROVE  \E F : IsOpening(F, m, f)
<1> DEFINE seq == Streams[f]
           k == Len(seq)
<1>1. seq \in Seq(Stream)
  BY MediaAssumption
<1>2. OpenDecoders(m, f) = Opens!Fold(0, m, seq)
  BY DEF OpenDecoders, OpenOf, FoldLeft, Opens!Fold, MapThenFoldSet, Max,
         Opens!Greatest
<1> HIDE DEF seq
<1>3. k \in Nat /\ DOMAIN seq = 1..k
  BY <1>1, LenProperties
<1> HIDE DEF k
<1>4. PICK F : Opens!Steps(0, F, m, seq, k) /\ Opens!Fold(0, m, seq) = F[k]
  BY <1>3, LeastNat, Opens!FoldSteps DEF Opens!WellOrdered
<1>5. F[0] = m /\ \A i \in 1..k : F[i] = OpenDecoder(F[i - 1], seq[i])
  BY <1>4 DEF Opens!Steps, OpenOf
<1> QED BY <1>2, <1>4, <1>5 DEF IsOpening, seq, k

LEMMA OpenDecodersOpens ==
  ASSUME NEW m, Openable(m), NEW f \in InFile
  PROVE  Opening(m, OpenDecoders(m, f), ToSet(Streams[f]))
<1> DEFINE xs == Streams[f]
           k == Len(xs)
           S == [i \in 1..k |-> {xs[i]}]
<1>1. PICK F : IsOpening(F, m, f)
  BY OpeningSteps
<1>2. F[0] = m /\ \A i \in 1..k : F[i] = OpenDecoder(F[i - 1], xs[i])
  BY <1>1 DEF IsOpening
<1>3. k \in Nat /\ DOMAIN xs = 1..k /\ \A i \in 1..k : xs[i] \in Stream
  BY MediaAssumption, ElementOfSeq, LenProperties
<1>4. AllUpTo(S, k) = ToSet(xs)
  <2> HIDE DEF xs, k
  <2>1. AllUpTo(S, k) = {xs[i] : i \in 1..k}
    BY DEF AllUpTo
  <2> QED BY <1>3, <2>1 DEF ToSet
<1> HIDE DEF xs, k
<1>5. ASSUME NEW i \in 1..k, Openable(F[i - 1]) PROVE Opening(F[i - 1], F[i], S[i])
  <2>1. xs[i] \in Stream /\ F[i] = OpenDecoder(F[i - 1], xs[i]) /\ S[i] = {xs[i]}
    BY <1>2, <1>3
  <2>2. Opening(F[i - 1], OpenDecoder(F[i - 1], xs[i]), {xs[i]})
    BY <1>5, <2>1, OpenDecoderOpens
  <2> QED BY <2>1, <2>2
<1> HIDE DEF S
<1>6. OpensInTurn(F, S, k)
  BY <1>5 DEF OpensInTurn
<1>7. Opening(m, F[k], AllUpTo(S, k))
  BY <1>2, <1>3, <1>6, ListOpens
<1> QED BY <1>1, <1>4, <1>7 DEF IsOpening, k, xs

\* F lists what becomes of m as the decoders of all files are opened.
IsOpeningAll(F, m) ==
  /\ F[0] = m /\ FoldLeft(OpenDecoders, m, FilesInOrder) = F[NumFiles]
  /\ \A f \in InFile : F[f] = OpenDecoders(F[f - 1], f)

LEMMA OpeningAllSteps ==
  ASSUME NEW m
  PROVE  \E F : IsOpeningAll(F, m)
<1> DEFINE seq == FilesInOrder
<1>1. NumFiles \in Nat /\ InFile = 1..NumFiles /\ \A f \in InFile : seq[f] = f
  BY MediaAssumption DEF FilesInOrder, InFile
<1>2. DOMAIN seq = 1..NumFiles
  BY DEF FilesInOrder, InFile
<1>3. FoldLeft(OpenDecoders, m, seq) = OpensFiles!Fold(0, m, seq)
  BY DEF OpenFileOf, FoldLeft, OpensFiles!Fold, MapThenFoldSet, Max,
         OpensFiles!Greatest
<1> HIDE DEF seq
<1>4. PICK F : OpensFiles!Steps(0, F, m, seq, NumFiles) /\ OpensFiles!Fold(0, m, seq) = F[NumFiles]
  <2>1. NumFiles \in Nat
    BY <1>1
  <2> QED BY <1>2, <2>1, LeastNat, OpensFiles!FoldSteps DEF OpensFiles!WellOrdered
<1>5. F[0] = m /\ \A f \in InFile : F[f] = OpenDecoders(F[f - 1], f)
  BY <1>1, <1>4 DEF OpensFiles!Steps, OpenFileOf
<1> QED BY <1>3, <1>4, <1>5 DEF IsOpeningAll, seq

LEMMA OpeningAllOpens ==
  ASSUME NEW m, Openable(m)
  PROVE  Opening(m, FoldLeft(OpenDecoders, m, FilesInOrder), Stream)
<1> DEFINE S == [f \in InFile |-> ToSet(Streams[f])]
<1>1. PICK F : IsOpeningAll(F, m)
  BY OpeningAllSteps
<1>2. F[0] = m /\ \A f \in InFile : F[f] = OpenDecoders(F[f - 1], f)
  BY <1>1 DEF IsOpeningAll
<1>3. NumFiles \in Nat /\ InFile = 1..NumFiles
  BY MediaAssumption DEF InFile
<1>4. AllUpTo(S, NumFiles) = Stream
  <2>1. UNION {S[f] : f \in InFile} = Stream
    BY DEF Stream
  <2> QED BY <1>3, <2>1 DEF AllUpTo
<1>5. ASSUME NEW f \in 1..NumFiles, Openable(F[f - 1]) PROVE Opening(F[f - 1], F[f], S[f])
  <2>1. f \in InFile /\ F[f] = OpenDecoders(F[f - 1], f) /\ S[f] = ToSet(Streams[f])
    BY <1>2, <1>3
  <2>2. Opening(F[f - 1], OpenDecoders(F[f - 1], f), ToSet(Streams[f]))
    BY <1>5, <2>1, OpenDecodersOpens
  <2> QED BY <2>1, <2>2
<1> HIDE DEF S
<1>6. OpensInTurn(F, S, NumFiles)
  BY <1>5 DEF OpensInTurn
<1>7. Opening(m, F[NumFiles], AllUpTo(S, NumFiles))
  BY <1>2, <1>3, <1>6, ListOpens
<1> QED BY <1>1, <1>4, <1>7 DEF IsOpeningAll

\* The devices change, before there is an encoder that has one.
LEMMA DevicesGood ==
  ASSUME NEW m, Good(m), NEW n, DOMAIN n = StateFields, OnlyDevices(m, n), HwFits(n.hw),
         n.how = m.how \/ n.how = "abort", \A o \in Output : m.out[o].device = NoDevice
  PROVE  Good(n)
<1>0. Sound(m) /\ Packets(m)
  BY DEF Good
<1>1. /\ n.ifile = m.ifile /\ n.held = m.held /\ n.fg = m.fg /\ n.out = m.out /\ n.dest = m.dest
      /\ n.opt = m.opt
  BY DEF OnlyDevices
<1>2. Sound(n) /\ GraphsFit(n) /\ n.opt \in Options /\ Headers(n)
  BY <1>0, <1>1 DEF Good, Sound, OutsFit, DestsFit, GraphsFit, Headers
<1>3. InputsFit(n)
  BY <1>1 DEF Good, InputsFit, HwFits
<1>4. ASSUME NEW o \in Output PROVE Balanced(n, o) /\ NoneWaits(n, o)
  <2>1. Balanced(m, o) /\ NoneWaits(m, o)
    BY <1>0 DEF Packets
  <2>2. Whole(n, o) => Whole(m, o)
    BY <1>1 DEF Whole
  <2>3. Accounted(m, o, LetGo(m.out[o])) => Accounted(n, o, LetGo(m.out[o]))
    BY <1>1 DEF Accounted, Quota
  <2>4. CountedVideo(n, o) /\ NoneWaits(n, o)
    BY <1>1, <2>1 DEF Balanced, CountedVideo, NoneWaits
  <2> QED BY <1>1, <2>1, <2>2, <2>3, <2>4 DEF Balanced
<1>5. ASSUME NEW o \in Output PROVE EncoderFits(n, o) /\ DeviceKnown(n, o)
  <2>1. EncoderFits(m, o)
    BY DEF Good, EncodersFit
  <2> QED BY <1>1, <2>1 DEF EncoderFits, SinkFormat, DeviceKnown
<1> QED BY <1>2, <1>3, <1>4, <1>5 DEF Good, Packets, EncodersFit

\* The file of an input stream.
LEMMA FileOfIs ==
  ASSUME NEW s \in Stream
  PROVE  FileOf(s) \in InFile
BY DEF FileOf, Stream

-----------------------------------------------------------------------------
(* Some of the frames of a sequence. *)

\* F lists what is kept of frames, one after the other.
IsKeeping(F, P, frames) ==
  /\ F[0] = <<>> /\ Only(P, frames) = F[Len(frames)]
  /\ \A i \in 1..Len(frames) : F[i] = KeepOf(P, F[i - 1], frames[i])

LEMMA KeepSteps ==
  ASSUME NEW S, NEW frames \in Seq(S), NEW P
  PROVE  \E F : IsKeeping(F, P, frames)
<1> DEFINE start == <<>>
<1>1. Len(frames) \in Nat /\ DOMAIN frames = 1..Len(frames)
  BY LenProperties
<1>2. Only(P, frames) = Keeps!Fold(P, start, frames)
  BY DEF Only, KeepOf, FoldLeft, Keeps!Fold, MapThenFoldSet, Max, Keeps!Greatest
<1> HIDE DEF start
<1>3. PICK F : Keeps!Steps(P, F, start, frames, Len(frames)) /\ Keeps!Fold(P, start, frames) = F[Len(frames)]
  BY <1>1, LeastNat, Keeps!FoldSteps DEF Keeps!WellOrdered
<1> QED BY <1>2, <1>3 DEF Keeps!Steps, start, IsKeeping

\* Nothing is kept of nothing.
LEMMA OnlyEmpty ==
  ASSUME NEW P
  PROVE  Only(P, <<>>) = <<>>
<1>1. <<>> \in Seq({}) /\ Len(<<>>) = 0
  BY EmptySeq
<1>2. PICK F : IsKeeping(F, P, <<>>)
  BY <1>1, KeepSteps
<1> QED BY <1>1, <1>2 DEF IsKeeping

\* One more is kept, or is not.
LEMMA OnlyMore ==
  ASSUME NEW S, NEW xs \in Seq(S), NEW x \in S, NEW P
  PROVE  Only(P, Append(xs, x)) = IF x \in P THEN Append(Only(P, xs), x) ELSE Only(P, xs)
<1> DEFINE n == Len(xs)
           ys == Append(xs, x)
<1>1. n \in Nat /\ ys \in Seq(S) /\ Len(ys) = n + 1 /\ ys[n + 1] = x /\ \A i \in 1..n : ys[i] = xs[i]
  BY AppendProperties, LenProperties
<1>2. PICK F : IsKeeping(F, P, xs)
  BY KeepSteps
<1> HIDE DEF ys
<1>3. PICK G : IsKeeping(G, P, ys)
  BY <1>1, KeepSteps
<1>4. /\ F[0] = <<>> /\ Only(P, xs) = F[n]
      /\ \A i \in 1..n : F[i] = KeepOf(P, F[i - 1], xs[i])
  BY <1>2 DEF IsKeeping
<1>5. /\ G[0] = <<>> /\ Only(P, ys) = G[n + 1]
      /\ \A i \in 1..(n + 1) : G[i] = KeepOf(P, G[i - 1], ys[i])
  BY <1>1, <1>3 DEF IsKeeping
<1> DEFINE T == {i \in 0..n : F[i] = G[i]}
<1> HIDE DEF n
<1>6. \A i \in 0..n : i \in T
  <2>1. 0 \in T
    BY <1>1, <1>4, <1>5
  <2>2. ASSUME NEW i \in 1..n, i - 1 \in T PROVE i \in T
    <3>1. F[i - 1] = G[i - 1] /\ ys[i] = xs[i] /\ i \in 1..(n + 1) /\ i \in 0..n
      BY <1>1, <2>2
    <3> QED BY <1>4, <1>5, <3>1
  <2> HIDE DEF T
  <2> QED BY <1>1, <2>1, <2>2, UpTo
<1>7. F[n] = G[n] /\ G[n + 1] = KeepOf(P, G[n], x)
  <2>1. n \in 0..n /\ n + 1 \in 1..(n + 1) /\ (n + 1) - 1 = n
    BY <1>1
  <2>2. F[n] = G[n]
    BY <1>6, <2>1
  <2>3. G[n + 1] = KeepOf(P, G[(n + 1) - 1], ys[n + 1])
    BY <1>5, <2>1
  <2> QED BY <1>1, <2>1, <2>2, <2>3
<1> QED BY <1>4, <1>5, <1>7 DEF KeepOf, ys

\* What is kept are elements of the sequence.
LEMMA OnlyIn ==
  ASSUME NEW S, NEW xs \in Seq(S), NEW P
  PROVE  Only(P, xs) \in Seq(S)
<1> DEFINE T == {i \in 0..Len(xs) : Only(P, SubSeq(xs, 1, i)) \in Seq(S)}
           n == Len(xs)
<1>0. n \in Nat /\ SubSeq(xs, 1, 0) = <<>> /\ SubSeq(xs, 1, n) = xs
  BY LenProperties, SubSeqFull, SubSeqEmpty
<1>1. 0 \in T
  <2>1. Only(P, SubSeq(xs, 1, 0)) \in Seq(S)
    BY <1>0, OnlyEmpty, EmptySeq
  <2> QED BY <1>0, <2>1
<1>2. ASSUME NEW i \in 1..n, i - 1 \in T PROVE i \in T
  <2> DEFINE ys == SubSeq(xs, 1, i - 1)
  <2>1. ys \in Seq(S) /\ xs[i] \in S /\ SubSeq(xs, 1, i) = Append(ys, xs[i])
    BY OneMore
  <2>2. Only(P, ys) \in Seq(S)
    BY <1>2
  <2> HIDE DEF ys
  <2>3. Append(Only(P, ys), xs[i]) \in Seq(S)
    BY <2>1, <2>2, AppendProperties
  <2>4. Only(P, Append(ys, xs[i])) \in Seq(S)
    BY Zenon, <2>1, <2>2, <2>3, OnlyMore
  <2>5. Only(P, SubSeq(xs, 1, i)) \in Seq(S)
    BY Zenon, <2>1, <2>4
  <2>6. i \in 0..n
    BY <1>0
  <2> QED BY <2>5, <2>6
<1> HIDE DEF T, n
<1>3. n \in T
  <2>1. n \in 0..n
    BY <1>0
  <2> QED BY <1>0, <1>1, <1>2, <2>1, UpTo
<1> QED BY <1>0, <1>3 DEF T, n

\* What is kept of one sequence behind another.
LEMMA OnlyConcat ==
  ASSUME NEW S, NEW xs \in Seq(S), NEW ys \in Seq(S), NEW P
  PROVE  Only(P, xs \o ys) = Only(P, xs) \o Only(P, ys)
<1> DEFINE T == {i \in 0..Len(ys) : Only(P, xs \o SubSeq(ys, 1, i)) = Only(P, xs) \o Only(P, SubSeq(ys, 1, i))}
           n == Len(ys)
<1>0. n \in Nat /\ SubSeq(ys, 1, 0) = <<>> /\ SubSeq(ys, 1, n) = ys
  BY LenProperties, SubSeqFull, SubSeqEmpty
<1>1. 0 \in T
  <2>1. Only(P, xs) \in Seq(S)
    BY OnlyIn
  <2>2. xs \o <<>> = xs /\ Only(P, xs) \o <<>> = Only(P, xs)
    BY <2>1, ConcatEmptySeq
  <2>3. Only(P, xs \o SubSeq(ys, 1, 0)) = Only(P, xs) \o Only(P, SubSeq(ys, 1, 0))
    BY Zenon, <1>0, <2>2, OnlyEmpty
  <2>4. 0 \in 0..Len(ys)
    BY <1>0
  <2> QED BY <2>3, <2>4
<1>2. ASSUME NEW i \in 1..n, i - 1 \in T PROVE i \in T
  <2> DEFINE zs == SubSeq(ys, 1, i - 1)
             y == ys[i]
  <2>1. zs \in Seq(S) /\ y \in S /\ SubSeq(ys, 1, i) = Append(zs, y)
    BY OneMore
  <2>2. Only(P, xs \o zs) = Only(P, xs) \o Only(P, zs)
    BY <1>2
  <2>3. i \in 0..n
    BY <1>0
  <2> HIDE DEF zs, y, n
  <2>4. xs \o zs \in Seq(S) /\ xs \o Append(zs, y) = Append(xs \o zs, y)
    BY <2>1, ConcatAppend
  <2>5. Only(P, xs) \in Seq(S) /\ Only(P, zs) \in Seq(S)
    BY <2>1, OnlyIn
  <2>6. Only(P, xs) \o Append(Only(P, zs), y) = Append(Only(P, xs) \o Only(P, zs), y)
    BY <2>1, <2>5, ConcatAppend
  <2>7. /\ Only(P, Append(xs \o zs, y)) = IF y \in P THEN Append(Only(P, xs \o zs), y) ELSE Only(P, xs \o zs)
        /\ Only(P, Append(zs, y)) = IF y \in P THEN Append(Only(P, zs), y) ELSE Only(P, zs)
    BY <2>1, <2>4, OnlyMore
  <2>8. Only(P, xs \o Append(zs, y)) = Only(P, xs) \o Only(P, Append(zs, y))
    BY Zenon, <2>2, <2>4, <2>6, <2>7
  <2>9. Only(P, xs \o SubSeq(ys, 1, i)) = Only(P, xs) \o Only(P, SubSeq(ys, 1, i))
    BY Zenon, <2>1, <2>8
  <2> QED BY <2>3, <2>9 DEF n
<1> HIDE DEF T, n
<1>3. n \in T
  <2>1. n \in 0..n
    BY <1>0
  <2> QED BY <1>0, <1>1, <1>2, <2>1, UpTo
<1> QED BY <1>0, <1>3 DEF T, n

\* Two sets that do not differ on the sequence keep the same of it.
LEMMA OnlyAgrees ==
  ASSUME NEW S, NEW xs \in Seq(S), NEW P, NEW Q, \A i \in 1..Len(xs) : xs[i] \in P <=> xs[i] \in Q
  PROVE  Only(P, xs) = Only(Q, xs)
<1> DEFINE n == Len(xs)
<1>1. PICK F : IsKeeping(F, P, xs)
  BY KeepSteps
<1>2. PICK G : IsKeeping(G, Q, xs)
  BY KeepSteps
<1>3. /\ F[0] = <<>> /\ Only(P, xs) = F[n] /\ G[0] = <<>> /\ Only(Q, xs) = G[n]
      /\ \A i \in 1..n : F[i] = KeepOf(P, F[i - 1], xs[i]) /\ G[i] = KeepOf(Q, G[i - 1], xs[i])
  BY <1>1, <1>2 DEF IsKeeping
<1>4. n \in Nat
  BY LenProperties
<1> DEFINE T == {i \in 0..n : F[i] = G[i]}
<1> HIDE DEF n
<1>5. 0 \in T
  BY <1>3, <1>4
<1>6. ASSUME NEW i \in 1..n, i - 1 \in T PROVE i \in T
  <2>1. F[i - 1] = G[i - 1] /\ i \in 0..n /\ (xs[i] \in P <=> xs[i] \in Q)
    BY <1>4, <1>6 DEF n
  <2>2. F[i] = G[i]
    BY <1>3, <2>1 DEF KeepOf
  <2> QED BY <2>1, <2>2
<1> HIDE DEF T
<1>7. n \in T
  <2>1. n \in 0..n
    BY <1>4
  <2> QED BY <1>4, <1>5, <1>6, <2>1, UpTo
<1> QED BY <1>3, <1>7 DEF T

\* Nothing is kept of what is not in the set.
LEMMA OnlyNone ==
  ASSUME NEW S, NEW xs \in Seq(S), NEW P, \A i \in 1..Len(xs) : xs[i] \notin P
  PROVE  Only(P, xs) = <<>>
<1> DEFINE n == Len(xs)
<1>1. PICK F : IsKeeping(F, P, xs)
  BY KeepSteps
<1>2. F[0] = <<>> /\ Only(P, xs) = F[n] /\ \A i \in 1..n : F[i] = KeepOf(P, F[i - 1], xs[i])
  BY <1>1 DEF IsKeeping
<1>3. n \in Nat
  BY LenProperties
<1> DEFINE T == {i \in 0..n : F[i] = <<>>}
<1> HIDE DEF n
<1>4. 0 \in T
  BY <1>2, <1>3
<1>5. ASSUME NEW i \in 1..n, i - 1 \in T PROVE i \in T
  <2>1. F[i - 1] = <<>> /\ i \in 0..n /\ xs[i] \notin P
    BY <1>3, <1>5 DEF n
  <2>2. F[i] = <<>>
    BY <1>2, <2>1 DEF KeepOf
  <2> QED BY <2>1, <2>2
<1> HIDE DEF T
<1>6. n \in T
  <2>1. n \in 0..n
    BY <1>3
  <2> QED BY <1>3, <1>4, <1>5, <2>1, UpTo
<1> QED BY <1>2, <1>6 DEF T

\* Sequences may be put together in any order.
LEMMA Regroup ==
  \A a \in Seq(Frame), b \in Seq(Frame), c \in Seq(Frame) : a \o (b \o c) = (a \o b) \o c
BY SMTT(60), ConcatAssociative

-----------------------------------------------------------------------------
(* The frames in a graph. *)

From(s) == {fr \in Frame : SourceOf(fr) = s}

\* Frames wait in the queue of their input, and a graph that is not built has none.
FramesFit(g, q) ==
  /\ q.reaped \in [OutputsOf(g) -> Seq(Frame)]
  /\ \A s \in InputsOf(g) : \A i \in 1..Len(q.queue[s]) : SourceOf(q.queue[s][i]) = s
  /\ ~q.graph => q.inside = <<>> /\ q.pending = <<>> /\ \A o \in OutputsOf(g) : q.sink[o] = <<>>

\* The frames that have got from the input s to the output o, the first one first, and
\* those that are on their way.
Line(q, s, o) == q.reaped[o] \o q.sink[o] \o q.inside \o q.pending \o q.queue[s]

LEMMA LineIs ==
  ASSUME NEW g \in Graph, NEW q, NEW opts, GraphFits(g, q, opts), FramesFit(g, q),
         NEW s \in InputsOf(g), NEW o \in OutputsOf(g)
  PROVE  /\ q.reaped[o] \in Seq(Frame) /\ q.sink[o] \in Seq(Frame) /\ q.inside \in Seq(Frame)
         /\ q.pending \in Seq(Frame) /\ q.queue[s] \in Seq(Frame)
         /\ Line(q, s, o) \in Seq(Frame)
         /\ \A P : Only(P, Line(q, s, o)) =
                     Only(P, q.reaped[o]) \o Only(P, q.sink[o]) \o Only(P, q.inside) \o Only(P, q.pending)
                       \o Only(P, q.queue[s])
<1> DEFINE a == q.reaped[o]
           b == q.sink[o]
           c == q.inside
           d == q.pending
           e == q.queue[s]
<1>1. a \in Seq(Frame) /\ b \in Seq(Frame) /\ c \in Seq(Frame) /\ d \in Seq(Frame) /\ e \in Seq(Frame)
  BY DEF GraphFits, FramesFit
<1>2. Line(q, s, o) = a \o b \o c \o d \o e
  BY DEF Line
<1> HIDE DEF a, b, c, d, e
<1>3. a \o b \in Seq(Frame)
  BY <1>1, ConcatProperties
<1>4. a \o b \o c \in Seq(Frame)
  BY <1>1, <1>3, ConcatProperties
<1>5. a \o b \o c \o d \in Seq(Frame)
  BY <1>1, <1>4, ConcatProperties
<1>6. a \o b \o c \o d \o e \in Seq(Frame)
  BY <1>1, <1>5, ConcatProperties
<1>7. ASSUME NEW P
      PROVE  Only(P, a \o b \o c \o d \o e) = Only(P, a) \o Only(P, b) \o Only(P, c) \o Only(P, d) \o Only(P, e)
  <2>1. Only(P, a \o b) = Only(P, a) \o Only(P, b)
    BY <1>1, OnlyConcat
  <2>2. Only(P, a \o b \o c) = Only(P, a \o b) \o Only(P, c)
    BY <1>1, <1>3, OnlyConcat
  <2>3. Only(P, a \o b \o c \o d) = Only(P, a \o b \o c) \o Only(P, d)
    BY <1>1, <1>4, OnlyConcat
  <2>4. Only(P, a \o b \o c \o d \o e) = Only(P, a \o b \o c \o d) \o Only(P, e)
    BY <1>1, <1>5, OnlyConcat
  <2> QED BY Zenon, <2>1, <2>2, <2>3, <2>4
<1> QED BY Zenon, <1>1, <1>2, <1>6, <1>7 DEF a, b, c, d, e

\* The frames of q go on in r; those that r has lost do not count.
Passes(g, q, r) ==
  /\ FramesFit(g, r) /\ q.lost \subseteq r.lost
  /\ \A s \in InputsOf(g), o \in OutputsOf(g) : \A P \in SUBSET (From(s) \ r.lost) :
       Only(P, Line(r, s, o)) = Only(P, Line(q, s, o))

\* They do, with another one behind them.
Gains(g, q, r, frame) ==
  /\ FramesFit(g, r) /\ q.lost \subseteq r.lost
  /\ \A s \in InputsOf(g), o \in OutputsOf(g) : \A P \in SUBSET (From(s) \ r.lost) :
       Only(P, Line(r, s, o)) = Only(P, Line(q, s, o)) \o Only(P, <<frame>>)

LEMMA PassesTrans ==
  ASSUME NEW g, NEW q, NEW r, NEW t, Passes(g, q, r)
  PROVE  /\ Passes(g, r, t) => Passes(g, q, t)
         /\ \A frame : Gains(g, r, t, frame) => Gains(g, q, t, frame)
<1>1. \A s : r.lost \subseteq t.lost => SUBSET (From(s) \ t.lost) \subseteq SUBSET (From(s) \ r.lost)
  OBVIOUS
<1>2. Passes(g, r, t) => Passes(g, q, t)
  BY <1>1 DEF Passes
<1>3. ASSUME NEW frame, Gains(g, r, t, frame) PROVE Gains(g, q, t, frame)
  <2>1. /\ FramesFit(g, t) /\ r.lost \subseteq t.lost /\ q.lost \subseteq r.lost
        /\ \A s \in InputsOf(g), o \in OutputsOf(g) : \A P \in SUBSET (From(s) \ t.lost) :
             Only(P, Line(t, s, o)) = Only(P, Line(r, s, o)) \o Only(P, <<frame>>)
    BY <1>3 DEF Passes, Gains
  <2>2. ASSUME NEW s \in InputsOf(g), NEW o \in OutputsOf(g), NEW P \in SUBSET (From(s) \ t.lost)
        PROVE  Only(P, Line(t, s, o)) = Only(P, Line(q, s, o)) \o Only(P, <<frame>>)
    <3>1. P \in SUBSET (From(s) \ r.lost)
      BY <2>1
    <3>2. Only(P, Line(r, s, o)) = Only(P, Line(q, s, o))
      BY <3>1 DEF Passes
    <3> QED BY Zenon, <2>1, <3>2
  <2>3. q.lost \subseteq t.lost
    BY <2>1
  <2> QED BY Zenon, <2>1, <2>2, <2>3 DEF Gains
<1> QED BY <1>2, <1>3

\* A frame that goes into a graph goes on with the others.
LEMMA GainsPasses ==
  ASSUME NEW g, NEW q, NEW r, NEW t, NEW frame, Gains(g, q, r, frame), Passes(g, r, t)
  PROVE  Gains(g, q, t, frame)
<1>1. \A s : r.lost \subseteq t.lost => SUBSET (From(s) \ t.lost) \subseteq SUBSET (From(s) \ r.lost)
  OBVIOUS
<1> QED BY <1>1 DEF Passes, Gains

SameFrames(q, r) ==
  /\ r.reaped = q.reaped /\ r.sink = q.sink /\ r.inside = q.inside /\ r.pending = q.pending
  /\ r.queue = q.queue /\ r.lost = q.lost /\ r.graph = q.graph

LEMMA SameFramesPass ==
  ASSUME NEW g, NEW q, NEW r, FramesFit(g, q), SameFrames(q, r)
  PROVE  Passes(g, q, r)
BY DEF SameFrames, Passes, FramesFit, Line

\* The filters run: frames go from the sources to the sinks.
LEMMA RunPasses ==
  ASSUME NEW g \in Graph, NEW q, NEW opts, GraphFits(g, q, opts), FramesFit(g, q), q.graph
  PROVE  Passes(g, q, Run(g, q)) /\ Run(g, q).lost = q.lost
<1> DEFINE all == q.inside \o q.pending
           kept == IF AllClosed(g, q) THEN 0 ELSE Least(Lag[g], Len(all))
           ready == SubSeq(all, 1, Len(all) - kept)
           rest == SubSeq(all, Len(ready) + 1, Len(all))
           r == Run(g, q)
<1>1. q.inside \in Seq(Frame) /\ q.pending \in Seq(Frame)
  BY DEF GraphFits
<1>2. all \in Seq(Frame) /\ Len(all) \in Nat
  <2>1. all \in Seq(Frame)
    BY <1>1, ConcatProperties
  <2> HIDE DEF all
  <2> QED BY <2>1, LenProperties
<1>3. r = [q EXCEPT !.inside = rest, !.pending = <<>>, !.sink = [o \in DOMAIN @ |-> @[o] \o ready]]
  BY DEF Run
<1>4. all = q.inside \o q.pending
  OBVIOUS
<1> HIDE DEF r, all
<1>5. kept \in Nat /\ kept <= Len(all)
  <2>1. Lag[g] \in Nat
    BY FilterAssumption
  <2> QED BY <1>2, <2>1 DEF Least
<1> HIDE DEF kept
<1>6. ready \in Seq(Frame) /\ Len(ready) = Len(all) - kept
  BY <1>2, <1>5, Cut
<1>7. rest \in Seq(Frame) /\ ready \o rest = all
  <2>1. Len(all) - kept \in 0..Len(all)
    BY <1>2, <1>5
  <2>2. /\ SubSeq(all, Len(all) - kept + 1, Len(all)) \in Seq(Frame)
        /\ ready \o SubSeq(all, Len(all) - kept + 1, Len(all)) = all
    BY <1>2, <2>1, Cut
  <2> HIDE DEF ready
  <2> QED BY <1>6, <2>2
<1> HIDE DEF ready, rest
<1>8. /\ r.reaped = q.reaped /\ r.sink = [o \in OutputsOf(g) |-> q.sink[o] \o ready] /\ r.inside = rest
      /\ r.pending = <<>> /\ r.queue = q.queue /\ r.lost = q.lost /\ r.graph
  BY <1>3 DEF GraphFits, GraphFields
<1>9. FramesFit(g, r)
  BY <1>8 DEF FramesFit
<1>10. ASSUME NEW s \in InputsOf(g), NEW o \in OutputsOf(g) PROVE Line(r, s, o) = Line(q, s, o)
  <2> DEFINE a == q.reaped[o]
             b == q.sink[o]
             e == q.queue[s]
             c == q.inside
             d == q.pending
  <2>1. a \in Seq(Frame) /\ b \in Seq(Frame) /\ e \in Seq(Frame) /\ c \in Seq(Frame) /\ d \in Seq(Frame)
    BY LineIs
  <2>2. Line(r, s, o) = a \o (b \o ready) \o rest \o <<>> \o e /\ Line(q, s, o) = a \o b \o c \o d \o e
    BY <1>8 DEF Line
  <2>3. ready \o rest = c \o d
    BY <1>4, <1>7
  <2>4. ready \in Seq(Frame) /\ rest \in Seq(Frame)
    BY <1>6, <1>7
  <2> HIDE DEF a, b, c, d, e
  <2> DEFINE ab == a \o b
  <2>5. ab \in Seq(Frame)
    BY <2>1, ConcatProperties
  <2>6. a \o (b \o ready) = ab \o ready
    <3>1. \A z \in Seq(Frame) : a \o (b \o z) = a \o b \o z
      BY Zenon, <2>1, Regroup
    <3> QED BY Zenon, <2>4, <3>1
  <2> HIDE DEF ab
  <2>7. ab \o (ready \o rest) = ab \o ready \o rest
    BY Zenon, <2>4, <2>5, Regroup
  <2>8. ab \o (c \o d) = ab \o c \o d
    BY Zenon, <2>1, <2>5, Regroup
  <2>9. ab \o ready \o rest \in Seq(Frame)
    BY <2>4, <2>5, ConcatProperties
  <2>10. ab \o ready \o rest \o <<>> = ab \o ready \o rest
    BY <2>9, ConcatEmptySeq
  <2> QED BY Zenon, <2>2, <2>3, <2>6, <2>7, <2>8, <2>10 DEF ab
<1> QED BY <1>8, <1>9, <1>10 DEF Passes, r

\* A frame goes into the graph behind all that are there.
LEMMA PushGains ==
  ASSUME NEW g \in Graph, NEW q, NEW opts, GraphFits(g, q, opts), Ready(g, q), FramesFit(g, q), q.graph,
         NEW frame \in Frame
  PROVE  Gains(g, q, Push(g, q, frame), frame) /\ Push(g, q, frame).lost = q.lost
<1> DEFINE xs == Append(q.pending, frame)
           r == [q EXCEPT !.pending = xs]
<1>1. xs \in Seq(Frame)
  BY AppendProperties DEF GraphFits
<1> HIDE DEF xs
<1>2. /\ DOMAIN r = GraphFields /\ r.pending = xs /\ r.inside = q.inside /\ r.sink = q.sink /\ r.reaped = q.reaped
      /\ r.queue = q.queue /\ r.lost = q.lost /\ r.graph = q.graph /\ r.format = q.format /\ r.eof = q.eof
      /\ r.limit = q.limit /\ r.closed = q.closed
  BY DEF GraphFits, GraphFields
<1>3. Push(g, q, frame) = Run(g, r)
  BY DEF Push, xs
<1> HIDE DEF r
<1>4. GraphFits(g, r, opts) /\ FramesFit(g, r)
  BY <1>1, <1>2 DEF GraphFits, FramesFit, SinkFits
<1>5. Passes(g, r, Run(g, r)) /\ Run(g, r).lost = r.lost
  BY <1>2, <1>4, RunPasses
<1>6. ASSUME NEW s \in InputsOf(g), NEW o \in OutputsOf(g), NEW P
      PROVE  Only(P, Line(r, s, o)) = Only(P, Line(q, s, o)) \o Only(P, <<frame>>)
  <2> DEFINE abc == q.reaped[o] \o q.sink[o] \o q.inside
             d == q.pending
  <2>1. q.queue[s] = <<>>
    BY DEF Ready
  <2>2. Line(r, s, o) = abc \o Append(d, frame) \o <<>> /\ Line(q, s, o) = abc \o d \o <<>>
    BY <1>2, <2>1 DEF Line, xs
  <2>3. /\ q.reaped[o] \in Seq(Frame) /\ q.sink[o] \in Seq(Frame) /\ q.inside \in Seq(Frame)
        /\ q.pending \in Seq(Frame)
    BY LineIs
  <2>4. abc \in Seq(Frame) /\ d \in Seq(Frame)
    BY <2>3, ConcatProperties
  <2> HIDE DEF abc, d
  <2>5. /\ abc \o d \in Seq(Frame) /\ abc \o Append(d, frame) = Append(abc \o d, frame)
    BY <2>4, ConcatAppend
  <2>6. Append(abc \o d, frame) = (abc \o d) \o <<frame>> /\ Append(abc \o d, frame) \in Seq(Frame)
    BY <2>5, AppendIsConcat, AppendProperties
  <2>7. abc \o d \o <<>> = abc \o d
    BY <2>5, ConcatEmptySeq
  <2>8. Append(abc \o d, frame) \o <<>> = Append(abc \o d, frame)
    BY <2>6, ConcatEmptySeq
  <2>9. <<frame>> \in Seq(Frame)
    OBVIOUS
  <2>10. Only(P, (abc \o d) \o <<frame>>) = Only(P, abc \o d) \o Only(P, <<frame>>)
    BY <2>5, <2>9, OnlyConcat
  <2> QED BY Zenon, <2>2, <2>5, <2>6, <2>7, <2>8, <2>10
<1>7. Gains(g, q, r, frame)
  BY <1>2, <1>4, <1>6 DEF Gains
<1> QED BY <1>2, <1>3, <1>5, <1>7, GainsPasses

\* Frames are taken out of a sink.
LEMMA TakenOutPasses ==
  ASSUME NEW g \in Graph, NEW q, NEW opts, GraphFits(g, q, opts), FramesFit(g, q), NEW o \in OutputsOf(g)
  PROVE  Passes(g, q, TakenOut(q, o)) /\ TakenOut(q, o).lost = q.lost
<1> DEFINE r == TakenOut(q, o)
           ab == q.reaped[o] \o q.sink[o]
<1>1. /\ r.pending = q.pending /\ r.inside = q.inside /\ r.queue = q.queue /\ r.lost = q.lost /\ r.graph = q.graph
      /\ r.sink = [q.sink EXCEPT ![o] = <<>>] /\ r.reaped = [q.reaped EXCEPT ![o] = ab]
  BY DEF GraphFits, GraphFields, TakenOut
<1>2. ab \in Seq(Frame)
  BY ConcatProperties DEF GraphFits, FramesFit
<1> HIDE DEF r
<1>3. FramesFit(g, r)
  <2> HIDE DEF ab
  <2> QED BY <1>1, <1>2 DEF FramesFit, GraphFits
<1>4. ASSUME NEW s \in InputsOf(g), NEW p \in OutputsOf(g) PROVE Line(r, s, p) = Line(q, s, p)
  <2>1. CASE p # o
    <3>1. r.sink[p] = q.sink[p] /\ r.reaped[p] = q.reaped[p]
      BY <1>1, <2>1 DEF GraphFits, FramesFit
    <3> QED BY Zenon, <1>1, <3>1 DEF Line
  <2>2. CASE p = o
    <3>1. r.sink[o] = <<>> /\ r.reaped[o] = ab
      BY <1>1 DEF GraphFits, FramesFit
    <3>2. ab \o <<>> = ab
      BY <1>2, ConcatEmptySeq
    <3>3. r.reaped[o] \o r.sink[o] = q.reaped[o] \o q.sink[o]
      BY Zenon, <3>1, <3>2
    <3> QED BY Zenon, <1>1, <2>2, <3>3 DEF Line
  <2> QED BY SMTT(60), <2>1, <2>2
<1> QED BY <1>1, <1>3, <1>4 DEF Passes, r

\* A frame waits behind the others of its input.
LEMMA QueuedForGains ==
  ASSUME NEW g \in Graph, NEW q, NEW opts, GraphFits(g, q, opts), FramesFit(g, q),
         NEW frame \in Frame, SourceOf(frame) \in InputsOf(g)
  PROVE  LET r == QueuedFor(q, SourceOf(frame), frame)
         IN Gains(g, q, r, frame) /\ r.lost = q.lost
<1> DEFINE s0 == SourceOf(frame)
           r == QueuedFor(q, s0, frame)
<1>1. /\ r.pending = q.pending /\ r.inside = q.inside /\ r.lost = q.lost /\ r.graph = q.graph
      /\ r.sink = q.sink /\ r.reaped = q.reaped /\ r.queue = [q.queue EXCEPT ![s0] = Append(q.queue[s0], frame)]
  BY DEF GraphFits, GraphFields, QueuedFor
<1> HIDE DEF r
<1>2. q.queue \in [InputsOf(g) -> Seq(Frame)] /\ <<frame>> \in Seq(Frame)
  BY DEF GraphFits
<1>3. FramesFit(g, r)
  <2>1. ASSUME NEW s \in InputsOf(g), NEW i \in 1..Len(r.queue[s]) PROVE SourceOf(r.queue[s][i]) = s
    <3>1. CASE s # s0
      BY <1>1, <1>2, <3>1 DEF FramesFit
    <3>2. CASE s = s0
      <4> DEFINE xs == q.queue[s0]
                 n == Len(xs)
      <4>1. xs \in Seq(Frame) /\ r.queue[s0] = Append(xs, frame)
        BY <1>1, <1>2
      <4>2. \A j \in 1..Len(xs) : SourceOf(xs[j]) = s0
        BY DEF FramesFit
      <4> HIDE DEF xs
      <4>3. /\ n \in Nat /\ Len(Append(xs, frame)) = n + 1 /\ Append(xs, frame)[n + 1] = frame
            /\ \A j \in 1..n : Append(xs, frame)[j] = xs[j]
        BY <4>1, AppendProperties, LenProperties
      <4> QED BY <2>1, <3>2, <4>1, <4>2, <4>3
    <3> QED BY <3>1, <3>2
  <2> QED BY <1>1, <2>1 DEF FramesFit
<1>4. ASSUME NEW s \in InputsOf(g), NEW o \in OutputsOf(g), NEW P \in SUBSET From(s)
      PROVE  Only(P, Line(r, s, o)) = Only(P, Line(q, s, o)) \o Only(P, <<frame>>)
  <2>1. Line(q, s, o) \in Seq(Frame)
    BY LineIs
  <2>2. CASE s # s0
    <3>1. r.queue[s] = q.queue[s]
      BY <1>1, <1>2, <2>2
    <3>2. Line(r, s, o) = Line(q, s, o)
      BY Zenon, <1>1, <3>1 DEF Line
    <3>3. Only(P, <<frame>>) = <<>>
      <4>1. frame \notin P
        BY <2>2 DEF From
      <4>2. \A i \in 1..Len(<<frame>>) : <<frame>>[i] \notin P
        BY <4>1
      <4> QED BY <1>2, <4>2, OnlyNone
    <3>4. Only(P, Line(q, s, o)) \o <<>> = Only(P, Line(q, s, o))
      BY <2>1, OnlyIn, ConcatEmptySeq
    <3> QED BY Zenon, <3>2, <3>3, <3>4
  <2>3. CASE s = s0
    <3> DEFINE ad == q.reaped[o] \o q.sink[o] \o q.inside \o q.pending
               e == q.queue[s]
    <3>1. /\ q.reaped[o] \in Seq(Frame) /\ q.sink[o] \in Seq(Frame) /\ q.inside \in Seq(Frame)
          /\ q.pending \in Seq(Frame) /\ e \in Seq(Frame)
      BY LineIs
    <3>2. ad \in Seq(Frame)
      BY <3>1, ConcatProperties
    <3>3. r.queue[s] = Append(e, frame)
      BY <1>1, <1>2, <2>3
    <3>4. Line(r, s, o) = ad \o Append(e, frame) /\ Line(q, s, o) = ad \o e
      BY Zenon, <1>1, <3>3 DEF Line
    <3> HIDE DEF ad, e
    <3>5. ad \o e \in Seq(Frame) /\ ad \o Append(e, frame) = Append(ad \o e, frame)
      BY <3>1, <3>2, ConcatAppend
    <3>6. Append(ad \o e, frame) = (ad \o e) \o <<frame>>
      BY <3>5, AppendIsConcat
    <3>7. Only(P, (ad \o e) \o <<frame>>) = Only(P, ad \o e) \o Only(P, <<frame>>)
      BY <1>2, <3>5, OnlyConcat
    <3> QED BY Zenon, <3>4, <3>5, <3>6, <3>7
  <2> QED BY <2>2, <2>3
<1> QED BY <1>1, <1>3, <1>4 DEF Gains, r

\* The frames in a graph that is freed are lost, but not those that wait for it.
LEMMA CleanedUpPasses ==
  ASSUME NEW g \in Graph, NEW q, NEW opts, GraphFits(g, q, opts), FramesFit(g, q),
         \A o \in OutputsOf(g) : q.sink[o] = <<>>
  PROVE  LET r == CleanedUp(g, q)
         IN Passes(g, q, r) /\ (~q.graph => r.lost = q.lost)
<1> DEFINE r == CleanedUp(g, q)
           all == q.inside \o q.pending
<1>1. /\ r.graph = FALSE /\ r.pending = <<>> /\ r.inside = <<>> /\ r.reaped = q.reaped /\ r.queue = q.queue
      /\ r.sink = [o \in OutputsOf(g) |-> <<>>] /\ r.lost = q.lost \cup ToSet(all)
  BY DEF GraphFits, GraphFields, CleanedUp
<1>2. GraphFits(g, r, opts)
  BY CleanedUpFits
<1> HIDE DEF r
<1>3. FramesFit(g, r)
  BY <1>1 DEF FramesFit
<1>4. q.inside \in Seq(Frame) /\ q.pending \in Seq(Frame)
  BY DEF GraphFits
<1>5. /\ \A i \in 1..Len(q.inside) : q.inside[i] \in ToSet(all)
      /\ \A i \in 1..Len(q.pending) : q.pending[i] \in ToSet(all)
  <2> DEFINE c == q.inside
             d == q.pending
  <2>1. /\ Len(c) \in Nat /\ Len(d) \in Nat /\ Len(all) = Len(c) + Len(d) /\ DOMAIN all = 1..Len(all)
        /\ \A i \in 1..Len(c) : all[i] = c[i]
        /\ \A i \in 1..Len(d) : all[Len(c) + i] = d[i]
    <3>1. c \in Seq(Frame) /\ d \in Seq(Frame) /\ all = c \o d
      BY <1>4
    <3> HIDE DEF c, d, all
    <3>2. /\ c \o d \in Seq(Frame) /\ Len(c) \in Nat /\ Len(d) \in Nat
          /\ Len(c \o d) = Len(c) + Len(d)
          /\ \A i \in 1..(Len(c) + Len(d)) : (c \o d)[i] = IF i <= Len(c) THEN c[i] ELSE d[i - Len(c)]
      BY <3>1, ConcatProperties, LenProperties
    <3>3. \A i \in 1..Len(d) : Len(c) + i \in 1..(Len(c) + Len(d)) /\ ~(Len(c) + i <= Len(c)) /\ (Len(c) + i) - Len(c) = i
      BY <3>2
    <3>4. \A i \in 1..Len(c) : i \in 1..(Len(c) + Len(d)) /\ i <= Len(c)
      BY <3>2
    <3>5. DOMAIN (c \o d) = 1..Len(c \o d)
      BY <3>2, LenProperties
    <3> QED BY <3>1, <3>2, <3>3, <3>4, <3>5
  <2> HIDE DEF all, c, d
  <2>2. \A i \in 1..Len(all) : all[i] \in ToSet(all)
    BY <2>1 DEF ToSet
  <2>3. \A i \in 1..Len(c) : c[i] \in ToSet(all)
    BY <2>1, <2>2
  <2>4. \A i \in 1..Len(d) : d[i] \in ToSet(all)
    <3>1. \A i \in 1..Len(d) : Len(c) + i \in 1..Len(all) /\ all[Len(c) + i] = d[i]
      BY <2>1
    <3> QED BY <2>2, <3>1
  <2> QED BY <2>3, <2>4 DEF c, d
<1> HIDE DEF all
<1>6. ASSUME NEW s \in InputsOf(g), NEW o \in OutputsOf(g), NEW P \in SUBSET (From(s) \ r.lost)
      PROVE  Only(P, Line(r, s, o)) = Only(P, Line(q, s, o))
  <2>1. \A x \in ToSet(all) : x \notin P
    BY <1>1
  <2>2. Only(P, q.inside) = <<>>
    BY <1>4, <1>5, <2>1, OnlyNone
  <2>3. Only(P, q.pending) = <<>>
    BY <1>4, <1>5, <2>1, OnlyNone
  <2>4. Only(P, Line(q, s, o)) =
          Only(P, q.reaped[o]) \o Only(P, q.sink[o]) \o Only(P, q.inside) \o Only(P, q.pending) \o Only(P, q.queue[s])
    BY SMTT(60), LineIs
  <2>5. Only(P, Line(r, s, o)) =
          Only(P, r.reaped[o]) \o Only(P, r.sink[o]) \o Only(P, r.inside) \o Only(P, r.pending) \o Only(P, r.queue[s])
    BY <1>2, <1>3, LineIs
  <2>6. r.sink[o] = q.sink[o]
    BY <1>1
  <2> QED BY Zenon, <1>1, <2>2, <2>3, <2>4, <2>5, <2>6, OnlyEmpty
<1>7. ~q.graph => r.lost = q.lost
  <2> SUFFICES ASSUME ~q.graph PROVE r.lost = q.lost
    OBVIOUS
  <2>1. all = <<>>
    <3>1. q.inside = <<>> /\ q.pending = <<>>
      BY DEF FramesFit
    <3> QED BY <3>1 DEF all
  <2>2. ToSet(all) = {}
    BY <2>1 DEF ToSet
  <2> QED BY <1>1, <2>2
<1> QED BY <1>1, <1>3, <1>6, <1>7 DEF Passes, r

\* Of an input, a graph that is built gets the frames that have waited for it, once.
LEMMA GatheredOnly ==
  ASSUME NEW g \in Graph, NEW q, NEW opts, GraphFits(g, q, opts), FramesFit(g, q),
         NEW s \in InputsOf(g), NEW P \in SUBSET From(s)
  PROVE  Only(P, Gathered(g, q)) = Only(P, q.queue[s])
<1> DEFINE xs == Inputs[g]
           n == Len(xs)
           S == InputsOf(g)
<1>1. xs \in Seq(S) /\ \A i, j \in DOMAIN xs : xs[i] = xs[j] => i = j
  BY FilterAssumption
<1>2. n \in Nat /\ DOMAIN xs = 1..n /\ \A i \in 1..n : xs[i] \in S
  <2> HIDE DEF xs, S
  <2> QED BY <1>1, LenProperties, ElementOfSeq DEF n
<1>3. \E j \in 1..n : xs[j] = s
  <2>1. s \in {xs[j] : j \in DOMAIN xs}
    BY DEF InputsOf, ToSet
  <2> QED BY <1>2, <2>1
<1>4. q.queue \in [S -> Seq(Frame)] /\ \A t \in S : \A i \in 1..Len(q.queue[t]) : SourceOf(q.queue[t][i]) = t
  BY DEF GraphFits, FramesFit
<1>5. PICK F : IsGathering(F, g, q)
  BY GatherSteps
<1>6. F[0] = <<>> /\ Gathered(g, q) = F[n] /\ \A i \in 1..n : F[i] = F[i - 1] \o q.queue[xs[i]]
  BY <1>5 DEF IsGathering
<1> HIDE DEF xs, n, S
<1> DEFINE kept == Only(P, q.queue[s])
           Got(i) == IF \E j \in 1..i : xs[j] = s THEN kept ELSE <<>>
           T == {i \in 0..n : F[i] \in Seq(Frame) /\ Only(P, F[i]) = Got(i)}
<1>7. kept \in Seq(Frame) /\ s \in S
  BY <1>4, OnlyIn DEF S
<1> HIDE DEF kept
<1>8. 0 \in T
  <2>1. Got(0) = <<>>
    OBVIOUS
  <2>2. F[0] \in Seq(Frame) /\ Only(P, F[0]) = <<>>
    BY <1>6, OnlyEmpty, EmptySeq
  <2>3. 0 \in 0..n
    BY <1>2
  <2> HIDE DEF Got
  <2> QED BY <2>1, <2>2, <2>3
<1>9. ASSUME NEW i \in 1..n, i - 1 \in T PROVE i \in T
  <2> HIDE DEF Got
  <2> DEFINE t == xs[i]
             ys == q.queue[t]
             f == F[i - 1]
  <2>1. f \in Seq(Frame) /\ Only(P, f) = Got(i - 1)
    BY <1>9
  <2>2. F[i] = f \o ys /\ t \in S /\ ys \in Seq(Frame) /\ i \in 0..n
    <3>1. F[i] = f \o ys
      BY Zenon, <1>6
    <3>2. t \in S /\ i \in 0..n
      BY <1>2
    <3>3. ys \in Seq(Frame)
      BY <1>4, <3>2
    <3> QED BY <3>1, <3>2, <3>3
  <2>3. \A k \in 1..Len(ys) : SourceOf(ys[k]) = t
    BY <1>4, <2>2
  <2>4. t = s => Only(P, ys) = kept
    BY DEF kept
  <2> HIDE DEF ys, f
  <2>5. f \o ys \in Seq(Frame)
    BY <2>1, <2>2, ConcatProperties
  <2>6. ys \in Seq(Frame)
    BY <2>2
  <2>7. Only(P, f \o ys) = Only(P, f) \o Only(P, ys)
    BY <2>1, <2>6, OnlyConcat
  <2>8. Only(P, F[i]) = Got(i)
    <3>1. CASE t = s
      <4>1. Got(i - 1) = <<>> /\ Got(i) = kept
        <5>1. ~\E j \in 1..(i - 1) : xs[j] = s
          BY <1>1, <1>2, <3>1
        <5>2. \E j \in 1..i : xs[j] = s
          BY <1>2, <3>1
        <5> QED BY <5>1, <5>2 DEF Got
      <4>2. <<>> \o kept = kept
        BY <1>7, ConcatEmptySeq
      <4> QED BY Zenon, <2>1, <2>2, <2>4, <2>7, <3>1, <4>1, <4>2
    <3>2. CASE t # s
      <4>1. \A k \in 1..Len(ys) : ys[k] \notin P
        BY <2>3, <3>2 DEF From
      <4>2. Only(P, ys) = <<>>
        BY <2>6, <4>1, OnlyNone
      <4>3. Only(P, f) \in Seq(Frame)
        BY <2>1, OnlyIn
      <4>4. Only(P, f) \o <<>> = Only(P, f)
        BY <4>3, ConcatEmptySeq
      <4>5. Got(i) = Got(i - 1)
        <5>1. (\E j \in 1..i : xs[j] = s) <=> (\E j \in 1..(i - 1) : xs[j] = s)
          BY <1>2, <3>2
        <5> QED BY <5>1 DEF Got
      <4> QED BY Zenon, <2>1, <2>2, <2>7, <4>2, <4>4, <4>5
    <3> QED BY <3>1, <3>2
  <2>9. F[i] \in Seq(Frame) /\ i \in 0..n
    BY <2>2, <2>5
  <2> QED BY <2>8, <2>9
<1> HIDE DEF T
<1>10. n \in T
  <2>1. n \in 0..n
    BY <1>2
  <2> QED BY <1>2, <1>8, <1>9, <2>1, UpTo
<1> QED BY <1>3, <1>6, <1>10 DEF T, Got, kept

\* A graph that is built gets them, and nothing else.
LEMMA BuiltPasses ==
  ASSUME NEW g \in Graph, NEW q, NEW opts, GraphFits(g, q, opts), FramesFit(g, q), ~q.graph,
         NEW formats, GraphFits(g, Built(g, q, formats), opts)
  PROVE  Passes(g, q, Built(g, q, formats)) /\ Built(g, q, formats).lost = q.lost
<1> DEFINE all == Gathered(g, q)
           r == Built(g, q, formats)
<1>1. r = [q EXCEPT !.graph = TRUE, !.limit = formats, !.pending = all,
                    !.queue = [s \in InputsOf(g) |-> <<>>], !.closed = {s \in InputsOf(g) : q.eof[s]}]
  BY DEF Built, Gathered
<1> HIDE DEF all, r
<1>2. /\ r.graph = TRUE /\ r.pending = all /\ r.inside = q.inside /\ r.sink = q.sink /\ r.reaped = q.reaped
      /\ r.queue = [s \in InputsOf(g) |-> <<>>] /\ r.lost = q.lost
  BY <1>1 DEF GraphFits, GraphFields
<1>3. FramesFit(g, r)
  <2>1. \A s \in InputsOf(g) : \A i \in 1..Len(r.queue[s]) : SourceOf(r.queue[s][i]) = s
    BY <1>2
  <2> QED BY <1>2, <2>1 DEF FramesFit
<1>4. GraphFits(g, r, opts)
  BY DEF r
<1>5. ASSUME NEW s \in InputsOf(g), NEW o \in OutputsOf(g), NEW P \in SUBSET From(s)
      PROVE  Only(P, Line(r, s, o)) = Only(P, Line(q, s, o))
  <2> DEFINE a == Only(P, q.reaped[o])
             e == Only(P, q.queue[s])
  <2>1. q.inside = <<>> /\ q.pending = <<>> /\ q.sink[o] = <<>>
    BY DEF FramesFit
  <2>2. Only(P, all) = e
    BY GatheredOnly DEF all
  <2>3. Only(P, Line(q, s, o)) =
          a \o Only(P, q.sink[o]) \o Only(P, q.inside) \o Only(P, q.pending) \o e
    BY LineIs
  <2>4. Only(P, Line(r, s, o)) =
          Only(P, r.reaped[o]) \o Only(P, r.sink[o]) \o Only(P, r.inside) \o Only(P, r.pending) \o Only(P, r.queue[s])
    BY <1>3, <1>4, LineIs
  <2>5. r.queue[s] = <<>> /\ r.sink[o] = <<>>
    BY <1>2, <2>1
  <2>6. q.reaped[o] \in Seq(Frame) /\ q.queue[s] \in Seq(Frame)
    BY LineIs
  <2>7. a \in Seq(Frame) /\ e \in Seq(Frame)
    BY <2>6, OnlyIn
  <2>8. Only(P, Line(q, s, o)) = a \o <<>> \o <<>> \o <<>> \o e
    BY Zenon, <2>1, <2>3, OnlyEmpty
  <2>9. Only(P, Line(r, s, o)) = a \o <<>> \o <<>> \o e \o <<>>
    BY Zenon, <1>2, <2>1, <2>2, <2>4, <2>5, OnlyEmpty
  <2> HIDE DEF a, e
  <2>10. a \o <<>> = a /\ a \o e \in Seq(Frame)
    BY <2>7, ConcatEmptySeq, ConcatProperties
  <2>11. (a \o e) \o <<>> = a \o e
    BY <2>10, ConcatEmptySeq
  <2> QED BY Zenon, <2>8, <2>9, <2>10, <2>11
<1>6. r.lost = q.lost /\ q.lost \subseteq r.lost
  BY <1>2
<1>7. Passes(g, q, r)
  BY <1>3, <1>5, <1>6 DEF Passes
<1> QED BY <1>6, <1>7 DEF r

-----------------------------------------------------------------------------
(* The frames in the graphs. *)

AllFramesFit(m) == \A g \in Graph : FramesFit(g, m.fg[g])

\* In every graph the frames go on.
Carries(m, n) == \A g \in Graph : Passes(g, m.fg[g], n.fg[g])

\* What decides on whether frames get lost.
SameFate(q, r) == r.format = q.format /\ r.eof = q.eof /\ r.lost = q.lost

SameFates(m, n) == \A g \in Graph : SameFate(m.fg[g], n.fg[g])

LEMMA CarriesRefl ==
  ASSUME NEW m, AllFramesFit(m), NEW n, n.fg = m.fg
  PROVE  Carries(m, n) /\ SameFates(m, n) /\ AllFramesFit(n)
BY SameFramesPass DEF AllFramesFit, Carries, SameFrames, SameFates, SameFate

LEMMA CarriesTrans ==
  ASSUME NEW l, NEW m, NEW n, Carries(l, m)
  PROVE  /\ Carries(m, n) => Carries(l, n)
         /\ SameFates(l, m) /\ SameFates(m, n) => SameFates(l, n)
BY PassesTrans DEF Carries, SameFates, SameFate

LEMMA CarriesFit ==
  ASSUME NEW m, NEW n, Carries(m, n)
  PROVE  AllFramesFit(n)
BY DEF Carries, Passes, AllFramesFit

\* They go on in one graph; nothing happens in the others.
LEMMA OneGraphCarries ==
  ASSUME NEW m, AllFramesFit(m), NEW n, NEW g \in Graph, NEW q, n.fg[g] = q,
         \A h \in Graph \ {g} : n.fg[h] = m.fg[h], Passes(g, m.fg[g], q)
  PROVE  Carries(m, n) /\ (SameFate(m.fg[g], q) => SameFates(m, n))
<1>1. n.fg[g] = q /\ \A h \in Graph \ {g} : n.fg[h] = m.fg[h]
  OBVIOUS
<1>2. ASSUME NEW h \in Graph, h # g PROVE Passes(h, m.fg[h], n.fg[h]) /\ SameFate(m.fg[h], n.fg[h])
  <2>1. n.fg[h] = m.fg[h] /\ FramesFit(h, m.fg[h])
    BY <1>1, <1>2 DEF AllFramesFit
  <2>2. SameFrames(m.fg[h], m.fg[h])
    BY DEF SameFrames
  <2>3. Passes(h, m.fg[h], m.fg[h])
    BY <2>1, <2>2, SameFramesPass
  <2> QED BY <2>1, <2>3 DEF SameFate
<1> QED BY <1>1, <1>2 DEF Carries, SameFates

\* An output is reaped: the frames in its sink are taken out, whatever the encoder says.
LEMMA ReapTakesOut ==
  ASSUME NEW m, Good(m), NEW o \in Output, m.fg[GraphOf[o]].graph, NEW flush
  PROVE  LET g == GraphOf[o]
             n == Reap(m, o, flush)
         IN /\ n.fg[g] = TakenOut(m.fg[g], o)
            /\ \A h \in Graph \ {g} : n.fg[h] = m.fg[h]
<1> DEFINE g == GraphOf[o]
           k == InitOutput(m, o, SinkFormat(m, o))
           l == ReapOutput(k, o)
           n == Reap(m, o, flush)
           q == k.fg[g]
           xs == q.sink[o]
           r == TakenOut(q, o)
           p == PutGraph(k, g, r)
<1>0. g \in Graph /\ o \in OutputsOf(g)
  BY FilterAssumption DEF OutputsOf
<1>1. Reaps(m, k) /\ k.fg = m.fg /\ k.out[o].initialized
  BY InitOutputReaps
<1>2. n = IF flush THEN ReapEof(l, o) ELSE l
  BY DEF Reap
<1>3. Good(k)
  BY <1>1 DEF Reaps, Follows
<1> HIDE DEF k, n
<1>4. Reaps(k, l)
  BY <1>1, <1>3, ReapOutputIs
<1>5. PICK F : IsReaping(F, k, o)
  BY <1>3, ReapSteps
<1>6. F[0] = SinkEmptied(k, o) /\ l = F[Len(xs)]
       /\ \A i \in 1..Len(xs) : F[i] = ReapOf(o, F[i - 1], xs[i])
  BY <1>5 DEF IsReaping
<1>7. Len(xs) \in Nat /\ \A i \in 1..Len(xs) : xs[i] \in Frame
  BY <1>3, SinkIs
<1>8. Good(p) /\ OnlyGraph(k, p, g, r) /\ p.out = k.out
  <2>1. GraphFits(g, q, k.opt) /\ Ready(g, q)
    BY <1>0, <1>3 DEF Good, GraphsFit
  <2>2. Steady(g, q, r, k.opt)
    BY <1>0, <2>1, TakenOutSteady
  <2> HIDE DEF q, r
  <2>3. Reaps(k, p) /\ OnlyGraph(k, p, g, r)
    BY <1>0, <1>3, <2>2, PutGraphReaps DEF q
  <2> QED BY <2>3 DEF Reaps, Follows, OnlyGraph
<1> DEFINE taken == xs # <<>> /\ k.out[o].finished = {}
           formats == IF taken THEN {q.limit[o]} ELSE {}
<1>9. SinkEmptied(k, o) = PutOut(p, o, Took(p.out[o], formats))
  BY <1>8 DEF SinkEmptied
<1>10. Good(SinkEmptied(k, o)) /\ SinkEmptied(k, o).fg = p.fg
  <2>1. q.limit[o] = k.out[o].enc
    BY <1>1, <1>3 DEF Good, EncodersFit, EncoderFits, SinkFormat
  <2>2. p.out[o].initialized /\ formats \in SUBSET {p.out[o].enc}
    BY <1>1, <1>8, <2>1
  <2>3. Good(p)
    BY <1>8
  <2> DEFINE e == PutOut(p, o, Took(p.out[o], formats))
  <2> HIDE DEF p, formats
  <2>4. Reaps(p, e) /\ e.fg = p.fg
    BY <2>2, <2>3, TookReaps
  <2>5. Good(e) /\ e.fg = p.fg
    BY <2>4 DEF Reaps, Follows
  <2>6. SinkEmptied(k, o) = e
    BY Zenon, <1>9
  <2> QED BY Zenon, <2>5, <2>6
<1> HIDE DEF xs, p, l
<1> DEFINE T == {i \in 0..Len(xs) : Good(F[i]) /\ F[i].fg = p.fg}
<1>11. 0 \in T
  BY <1>6, <1>7, <1>10
<1>12. ASSUME NEW i \in 1..Len(xs), i - 1 \in T PROVE i \in T
  <2> DEFINE f == F[i - 1]
  <2>1. Good(f) /\ f.fg = p.fg /\ F[i] = ReapOf(o, f, xs[i]) /\ xs[i] \in Frame /\ i \in 0..Len(xs)
    BY <1>6, <1>7, <1>12
  <2> HIDE DEF f
  <2>2. Quiet(f, DoOut(f, o, xs[i]))
    BY <2>1, DoOutIs DEF Good
  <2>3. Good(DoOut(f, o, xs[i])) /\ DoOut(f, o, xs[i]).fg = f.fg
    BY <2>1, <2>2, QuietFollows DEF Follows
  <2> QED BY <2>1, <2>3 DEF ReapOf
<1> HIDE DEF T
<1>13. Len(xs) \in T
  <2>1. Len(xs) \in 0..Len(xs)
    BY <1>7
  <2> QED BY <1>7, <1>11, <1>12, <2>1, UpTo
<1>14. Good(l) /\ l.fg = p.fg
  BY <1>6, <1>13 DEF T
<1>15. n.fg = l.fg
  <2>1. ReapEof(l, o).fg = l.fg
    <3>1. CASE SinkAtEof(GraphOf[o], l.fg[GraphOf[o]]) /\ Kind[o] = "video"
      <4>1. Null \in Frame \cup {Null} /\ Sound(l) /\ Packets(l)
        BY <1>14 DEF Good
      <4>2. Quiet(l, DoVideoOut(l, o, Null))
        BY <3>1, <4>1, DoVideoOutIs
      <4> QED BY <1>14, <3>1, <4>2, QuietFollows DEF ReapEof
    <3>2. CASE ~(SinkAtEof(GraphOf[o], l.fg[GraphOf[o]]) /\ Kind[o] = "video")
      BY <3>2 DEF ReapEof
    <3> QED BY <3>1, <3>2
  <2> QED BY <1>2, <2>1
<1> QED BY <1>1, <1>8, <1>14, <1>15 DEF OnlyGraph, n

LEMMA TakenOutOf ==
  ASSUME NEW g, NEW q, NEW opts, GraphFits(g, q, opts), NEW o \in OutputsOf(g)
  PROVE  LET r == TakenOut(q, o)
         IN /\ SameFate(q, r) /\ r.sink[o] = <<>>
            /\ \A p \in OutputsOf(g) : q.sink[p] = <<>> => r.sink[p] = <<>>
<1> DEFINE r == TakenOut(q, o)
<1>1. /\ r.format = q.format /\ r.eof = q.eof /\ r.lost = q.lost
      /\ r.sink = [q.sink EXCEPT ![o] = <<>>]
  BY DEF GraphFits, GraphFields, TakenOut
<1> HIDE DEF r
<1>2. DOMAIN q.sink = OutputsOf(g)
  BY DEF GraphFits
<1> QED BY <1>1, <1>2 DEF r, SameFate

\* One output is reaped, if its graph is built: its sink is empty, and so are those
\* that were.
LEMMA ReapIfCarries ==
  ASSUME NEW m, Good(m), AllFramesFit(m), NEW o \in Output, NEW flush
  PROVE  LET n == ReapIf(flush, m, o)
         IN /\ Reaps(m, n) /\ Carries(m, n) /\ SameFates(m, n)
            /\ n.fg[GraphOf[o]].sink[o] = <<>>
            /\ \A p \in Output : m.fg[GraphOf[p]].sink[p] = <<>> => n.fg[GraphOf[p]].sink[p] = <<>>
<1> DEFINE g == GraphOf[o]
           q == m.fg[g]
           n == ReapIf(flush, m, o)
<1>0. g \in Graph /\ o \in OutputsOf(g) /\ \A p \in Output : GraphOf[p] \in Graph
  BY FilterAssumption DEF OutputsOf
<1>1. GraphFits(g, q, m.opt) /\ FramesFit(g, q)
  BY <1>0 DEF Good, GraphsFit, AllFramesFit
<1>2. CASE ~q.graph
  <2>1. n = m
    BY <1>2 DEF ReapIf
  <2>2. q.sink[o] = <<>>
    BY <1>0, <1>1, <1>2 DEF FramesFit
  <2> HIDE DEF n
  <2>3. Reaps(m, n) /\ Carries(m, n) /\ SameFates(m, n)
    BY <2>1, ReapsRefl, CarriesRefl
  <2> QED BY <2>1, <2>2, <2>3 DEF n
<1>3. CASE q.graph
  <2> DEFINE r == TakenOut(q, o)
  <2>1. n = Reap(m, o, flush)
    BY <1>3 DEF ReapIf
  <2> HIDE DEF n
  <2>2. Reaps(m, n)
    BY <1>3, <2>1, ReapIs
  <2>3. n.fg[g] = r /\ \A h \in Graph \ {g} : n.fg[h] = m.fg[h]
    BY <1>3, <2>1, ReapTakesOut
  <2>4. Passes(g, q, r)
    BY <1>0, <1>1, TakenOutPasses
  <2>5. SameFate(q, r) /\ r.sink[o] = <<>> /\ \A p \in OutputsOf(g) : q.sink[p] = <<>> => r.sink[p] = <<>>
    BY <1>0, <1>1, TakenOutOf
  <2> HIDE DEF r, q
  <2>6. Carries(m, n) /\ SameFates(m, n)
    BY <1>0, <2>3, <2>4, <2>5, OneGraphCarries DEF q
  <2>7. ASSUME NEW p \in Output, m.fg[GraphOf[p]].sink[p] = <<>> PROVE n.fg[GraphOf[p]].sink[p] = <<>>
    <3>1. CASE GraphOf[p] = g
      <4>1. p \in OutputsOf(g)
        BY <3>1 DEF OutputsOf
      <4> QED BY <2>3, <2>5, <2>7, <3>1, <4>1 DEF q
    <3>2. CASE GraphOf[p] # g
      BY <1>0, <2>3, <2>7, <3>2
    <3> QED BY <3>1, <3>2
  <2> QED BY <2>2, <2>3, <2>5, <2>6, <2>7 DEF n
<1> QED BY <1>2, <1>3

\* The graphs are reaped: then the sinks are empty.
LEMMA ReapFiltersCarries ==
  ASSUME NEW m, Good(m), AllFramesFit(m), NEW flush
  PROVE  LET n == ReapFilters(m, flush)
         IN Carries(m, n) /\ SameFates(m, n) /\ \A o \in Output : n.fg[GraphOf[o]].sink[o] = <<>>
<1>1. PICK F : IsReapingAll(F, m, flush)
  BY ReapFiltersSteps
<1>2. /\ F[0] = m /\ ReapFilters(m, flush) = F[NumOutputs]
      /\ \A i \in Output : F[i] = ReapIf(flush, F[i - 1], i)
  BY <1>1 DEF IsReapingAll
<1>3. NumOutputs \in Nat /\ Output = 1..NumOutputs
  BY OutputAssumption DEF Output
<1> DEFINE Moves(n) == Good(n) /\ Carries(m, n) /\ SameFates(m, n)
           EmptyTo(n, i) == \A o \in 1..i : n.fg[GraphOf[o]].sink[o] = <<>>
           T == {i \in 0..NumOutputs : Moves(F[i]) /\ EmptyTo(F[i], i)}
<1>4. 0 \in T
  <2>1. Moves(F[0])
    BY <1>2, CarriesRefl
  <2>2. EmptyTo(F[0], 0)
    OBVIOUS
  <2> HIDE DEF Moves, EmptyTo
  <2> QED BY <1>3, <2>1, <2>2
<1>5. ASSUME NEW i \in 1..NumOutputs, i - 1 \in T PROVE i \in T
  <2> DEFINE l == F[i - 1]
             n == F[i]
  <2>1. Moves(l) /\ EmptyTo(l, i - 1)
    BY <1>5
  <2>2. i \in Output /\ n = ReapIf(flush, l, i)
    BY <1>2, <1>3
  <2> HIDE DEF l, n
  <2>3. AllFramesFit(l)
    BY <2>1, CarriesFit
  <2>4. /\ Reaps(l, n) /\ Carries(l, n) /\ SameFates(l, n) /\ n.fg[GraphOf[i]].sink[i] = <<>>
        /\ \A p \in Output : l.fg[GraphOf[p]].sink[p] = <<>> => n.fg[GraphOf[p]].sink[p] = <<>>
    BY <2>1, <2>2, <2>3, ReapIfCarries
  <2>5. Carries(m, n) /\ SameFates(m, n)
    BY <2>1, <2>4, CarriesTrans
  <2>6. Moves(n)
    BY <2>4, <2>5 DEF Reaps, Follows
  <2>7. EmptyTo(n, i)
    <3>1. \A o \in 1..i : o = i \/ o \in 1..(i - 1)
      BY <1>3
    <3>2. \A o \in 1..(i - 1) : o \in Output /\ l.fg[GraphOf[o]].sink[o] = <<>>
      BY <1>3, <2>1
    <3> QED BY <2>4, <3>1, <3>2
  <2> HIDE DEF Moves, EmptyTo
  <2>8. i \in 0..NumOutputs
    BY <1>3
  <2> QED BY <2>6, <2>7, <2>8 DEF n
<1> HIDE DEF T
<1>6. NumOutputs \in T
  <2>1. NumOutputs \in 0..NumOutputs
    BY <1>3
  <2> QED BY <1>3, <1>4, <1>5, <2>1, UpTo
<1>7. Moves(F[NumOutputs]) /\ EmptyTo(F[NumOutputs], NumOutputs)
  BY <1>6 DEF T
<1> QED BY <1>2, <1>3, <1>7

\* A graph is built, again if there was one: then the frames in it are lost, if its
\* sinks are empty no others.
LEMMA ConfigureCarries ==
  ASSUME NEW m, Good(m), AllFramesFit(m), NEW g \in Graph, HasAllInputFormats(m.fg[g]),
         \A o \in OutputsOf(g) : m.fg[g].sink[o] = <<>>
  PROVE  LET n == Configure(m, g)
         IN /\ Carries(m, n)
            /\ n.fg[g].format = m.fg[g].format /\ n.fg[g].eof = m.fg[g].eof
            /\ ~m.fg[g].graph => SameFates(m, n)
            /\ \A h \in Graph \ {g} : n.fg[h] = m.fg[h]
<1> DEFINE formats == OutputFormats(m, g)
           q == m.fg[g]
           r == CleanedUp(g, q)
           b == Built(g, r, formats)
           n == Configure(m, g)
<1>1. Configured(m, n, g)
  BY ConfigureIs
<1>2. GraphFits(g, q, m.opt) /\ FramesFit(g, q) /\ DOMAIN m = StateFields /\ DOMAIN m.fg = Graph
  BY DEF Good, GraphsFit, Sound, AllFramesFit
<1>3. n.fg[g] = r \/ n.fg[g] = b
  <2>1. CASE \E o \in OutputsOf(g) : formats[o] = NoFormat
    BY <1>2, <2>1 DEF Configure, StateFields
  <2>2. CASE ~\E o \in OutputsOf(g) : formats[o] = NoFormat
    BY <1>2, <2>2 DEF Configure, StateFields
  <2> QED BY <2>1, <2>2
<1> HIDE DEF n
<1>4. /\ GraphFits(g, n.fg[g], m.opt)
      /\ \A h \in Graph \ {g} : n.fg[h] = m.fg[h]
  BY <1>1 DEF Configured, Good, GraphsFit, SameInputs
<1>5. GraphFits(g, r, m.opt) /\ r.graph = FALSE /\ r.format = q.format
  BY <1>2, CleanedUpFits
<1>6. Passes(g, q, r) /\ (~q.graph => r.lost = q.lost)
  BY <1>2, CleanedUpPasses
<1>7. r.eof = q.eof
  BY <1>2 DEF CleanedUp, GraphFits, GraphFields
<1> HIDE DEF r
<1>8. FramesFit(g, r)
  BY <1>6 DEF Passes
<1>9. b.eof = r.eof /\ b.format = r.format
  BY <1>5 DEF Built, GraphFits, GraphFields
<1>10. n.fg[g] = b => Passes(g, r, b) /\ b.lost = r.lost
  BY <1>4, <1>5, <1>8, BuiltPasses
<1> HIDE DEF b, q
<1>11. Passes(g, q, n.fg[g])
  BY <1>3, <1>6, <1>10, PassesTrans
<1>12. n.fg[g].format = q.format /\ n.fg[g].eof = q.eof /\ (~q.graph => n.fg[g].lost = q.lost)
  BY <1>3, <1>5, <1>6, <1>7, <1>9, <1>10
<1>13. Carries(m, n) /\ (SameFate(q, n.fg[g]) => SameFates(m, n))
  BY <1>4, <1>11, OneGraphCarries DEF q
<1> QED BY <1>4, <1>12, <1>13 DEF n, q, SameFate

-----------------------------------------------------------------------------
(* Frames on their way from a decoder to the graphs. *)

\* The graph g has got the frame, and the other graphs go on; frames are lost at most
\* when g is there and the frame is of another format than those before it.
Fed(m, n, g, frame) ==
  LET s == SourceOf(frame)
      q == m.fg[g]
      r == n.fg[g]
  IN /\ Gains(g, q, r, frame)
     /\ \A h \in Graph \ {g} : Passes(h, m.fg[h], n.fg[h]) /\ SameFate(m.fg[h], n.fg[h])
     /\ r.eof = q.eof
     /\ r.format[s] = FormatIn(m, frame) /\ \A t \in InputsOf(g) \ {s} : r.format[t] = q.format[t]
     /\ ~q.graph \/ q.format[s] = FormatIn(m, frame) => r.lost = q.lost

\* The graph that is built takes the frame.
LEMMA TakenFeeds ==
  ASSUME NEW m, Good(m), AllFramesFit(m), NEW g \in Graph, m.fg[g].graph, NEW frame \in Frame
  PROVE  LET n == Taken(m, g, frame)
         IN /\ Gains(g, m.fg[g], n.fg[g], frame)
            /\ \A h \in Graph \ {g} : n.fg[h] = m.fg[h]
            /\ SameFate(m.fg[g], n.fg[g]) /\ n.how = m.how
<1> DEFINE q == m.fg[g]
           r == Push(g, q, frame)
           n == Taken(m, g, frame)
<1>1. GraphFits(g, q, m.opt) /\ Ready(g, q) /\ FramesFit(g, q)
  BY DEF Good, GraphsFit, AllFramesFit
<1>2. n = PutGraph(m, g, r)
  BY DEF Taken, PutGraph
<1>3. OnlyGraph(m, PutGraph(m, g, r), g, r)
  BY PutGraphIs
<1> HIDE DEF n
<1>4. n.fg[g] = r /\ n.how = m.how /\ \A h \in Graph \ {g} : n.fg[h] = m.fg[h]
  BY <1>2, <1>3 DEF OnlyGraph
<1>5. Gains(g, q, r, frame) /\ r.lost = q.lost
  BY <1>1, PushGains
<1>6. r.format = q.format /\ r.eof = q.eof
  BY <1>1, PushSteady DEF Steady, SameShape
<1> HIDE DEF r
<1> QED BY <1>4, <1>5, <1>6 DEF n, SameFate

\* The format of the frame is noted.
LEMMA NotedCarries ==
  ASSUME NEW m, Good(m), AllFramesFit(m), NEW g \in Graph, NEW frame \in Frame, SourceOf(frame) \in InputsOf(g)
  PROVE  LET n == FormatNoted(m, g, frame)
             s == SourceOf(frame)
             q == m.fg[g]
             r == n.fg[g]
         IN /\ Good(n) /\ n.how = m.how /\ Carries(m, n)
            /\ \A h \in Graph \ {g} : n.fg[h] = m.fg[h]
            /\ r.graph = q.graph /\ r.eof = q.eof /\ r.lost = q.lost
            /\ r.format[s] = FormatIn(m, frame) /\ \A t \in InputsOf(g) \ {s} : r.format[t] = q.format[t]
<1> DEFINE s == SourceOf(frame)
           q == m.fg[g]
           format == FormatIn(m, frame)
           r == Noted(q, s, format)
           n == FormatNoted(m, g, frame)
<1>1. Good(n)
  BY FormatNotedFollows DEF Follows
<1>2. n = PutGraph(m, g, r)
  BY DEF FormatNoted, PutGraph, Noted
<1>3. OnlyGraph(m, PutGraph(m, g, r), g, r)
  BY PutGraphIs
<1> HIDE DEF n
<1>4. n.fg[g] = r /\ n.how = m.how /\ \A h \in Graph \ {g} : n.fg[h] = m.fg[h]
  BY <1>2, <1>3 DEF OnlyGraph
<1>5. GraphFits(g, q, m.opt) /\ FramesFit(g, q)
  BY DEF Good, GraphsFit, AllFramesFit
<1> HIDE DEF format
<1>6. /\ r.graph = q.graph /\ r.eof = q.eof /\ r.queue = q.queue /\ r.lost = q.lost
      /\ r.pending = q.pending /\ r.inside = q.inside
      /\ r.sink = q.sink /\ r.reaped = q.reaped /\ r.format = [q.format EXCEPT ![s] = format]
  BY <1>5 DEF GraphFits, GraphFields, Noted
<1> HIDE DEF r
<1>7. r.format[s] = format /\ \A t \in InputsOf(g) \ {s} : r.format[t] = q.format[t]
  BY <1>5, <1>6 DEF GraphFits
<1>8. Passes(g, q, r)
  BY <1>5, <1>6, SameFramesPass DEF SameFrames
<1> HIDE DEF q, s
<1>9. Carries(m, n)
  BY <1>4, <1>8, OneGraphCarries DEF q
<1> QED BY <1>1, <1>4, <1>6, <1>7, <1>9 DEF n, q, s, format

\* A frame is sent to a graph.
LEMMA SendFrameFeeds ==
  ASSUME NEW m, Good(m), AllFramesFit(m), NEW g \in Graph, NEW frame \in Frame, SourceOf(frame) \in InputsOf(g),
         SendFrame(m, g, frame).how = "ok"
  PROVE  Fed(m, SendFrame(m, g, frame), g, frame)
<1> DEFINE s == SourceOf(frame)
           q == m.fg[g]
           format == FormatIn(m, frame)
           n == FormatNoted(m, g, frame)
           r == SendFrame(m, g, frame)
<1>0. GraphFits(g, q, m.opt) /\ Ready(g, q) /\ FramesFit(g, q) /\ s \in InputsOf(g) /\ r.how = "ok"
  BY DEF Good, GraphsFit, AllFramesFit
<1>1. /\ Good(n) /\ n.how = m.how /\ Carries(m, n)
      /\ \A h \in Graph \ {g} : n.fg[h] = m.fg[h]
      /\ n.fg[g].graph = q.graph /\ n.fg[g].eof = q.eof /\ n.fg[g].lost = q.lost
      /\ n.fg[g].format[s] = format /\ \A t \in InputsOf(g) \ {s} : n.fg[g].format[t] = q.format[t]
  BY NotedCarries
<1>2. AllFramesFit(n)
  BY <1>1, CarriesFit
<1>3. CASE ~NeedsReinit(m, g, frame)
  <2>1. q.graph /\ q.format[s] = format /\ r = Taken(m, g, frame)
    BY <1>3 DEF NeedsReinit, SendFrame
  <2> HIDE DEF r, format, q, s
  <2>2. /\ Gains(g, q, r.fg[g], frame)
        /\ \A h \in Graph \ {g} : r.fg[h] = m.fg[h]
        /\ SameFate(q, r.fg[g])
    BY <2>1, TakenFeeds DEF q
  <2>3. \A h \in Graph \ {g} : Passes(h, m.fg[h], r.fg[h]) /\ SameFate(m.fg[h], r.fg[h])
    BY <2>2, SameFramesPass DEF AllFramesFit, SameFrames, SameFate
  <2> QED BY <2>1, <2>2, <2>3 DEF Fed, SameFate, r, format, q, s
<1>4. CASE NeedsReinit(m, g, frame) /\ HasAllInputFormats(n.fg[g])
  <2> DEFINE k == ReapFilters(n, TRUE)
             c == Configure(k, g)
  <2>0. ~q.graph \/ q.format[s] # format
    BY <1>4 DEF NeedsReinit
  <2>1. r = TakenIfBuilt(c, g, frame)
    BY <1>4 DEF SendFrame
  <2>2. \A o \in OutputsOf(g) : o \in Output /\ GraphOf[o] = g
    BY DEF OutputsOf
  <2> HIDE DEF n, r, q, format, s
  <2>3. Reaps(n, k) /\ Carries(n, k) /\ SameFates(n, k) /\ \A o \in Output : k.fg[GraphOf[o]].sink[o] = <<>>
    <3>1. Good(n) /\ AllFramesFit(n)
      BY <1>1, <1>2
    <3>2. Reaps(n, k)
      BY <3>1, ReapFiltersIs
    <3>3. Carries(n, k) /\ SameFates(n, k) /\ \A o \in Output : k.fg[GraphOf[o]].sink[o] = <<>>
      BY <3>1, ReapFiltersCarries
    <3> QED BY <3>2, <3>3
  <2> HIDE DEF k
  <2>4. Good(k) /\ AllFramesFit(k) /\ HasAllInputFormats(k.fg[g]) /\ k.fg[g].graph = q.graph
    BY <1>1, <1>4, <2>3, CarriesFit DEF Reaps, Follows, SameGraphs, HasAllInputFormats
  <2>5. \A o \in OutputsOf(g) : k.fg[g].sink[o] = <<>>
    BY <2>2, <2>3
  <2>6. Configured(k, c, g)
    BY <2>4, ConfigureIs
  <2>7. /\ Carries(k, c) /\ c.fg[g].format = k.fg[g].format /\ c.fg[g].eof = k.fg[g].eof
        /\ ~k.fg[g].graph => SameFates(k, c)
        /\ \A h \in Graph \ {g} : c.fg[h] = k.fg[h]
    BY <2>4, <2>5, ConfigureCarries
  <2> HIDE DEF c
  <2>8. Carries(m, c) /\ AllFramesFit(c)
    BY <1>1, <2>3, <2>7, CarriesTrans, CarriesFit
  <2>9. Good(c) /\ (c.how = "ok" => c.fg[g].graph)
    BY <2>6 DEF Configured
  <2>10. c.how = "ok" /\ r = Taken(c, g, frame)
    <3>1. CASE c.how = "ok"
      BY <2>1, <3>1 DEF TakenIfBuilt
    <3>2. CASE c.how # "ok"
      <4>1. r = Fatal(c)
        BY <2>1, <3>2 DEF TakenIfBuilt
      <4>2. Fatal(c).how = IF c.how = "error" THEN "abort" ELSE c.how
        BY <2>9, FatalIs DEF OnlyHow
      <4> QED BY <1>0, <3>2, <4>1, <4>2
    <3> QED BY <3>1, <3>2
  <2>11. /\ Gains(g, c.fg[g], r.fg[g], frame) /\ SameFate(c.fg[g], r.fg[g])
         /\ \A h \in Graph \ {g} : r.fg[h] = c.fg[h]
    BY <2>8, <2>9, <2>10, TakenFeeds
  <2>12. Gains(g, q, r.fg[g], frame)
    <3>1. Passes(g, q, c.fg[g])
      BY <2>8 DEF Carries, q
    <3> QED BY <2>11, <3>1, PassesTrans
  <2>13. ASSUME NEW h \in Graph \ {g} PROVE Passes(h, m.fg[h], r.fg[h]) /\ SameFate(m.fg[h], r.fg[h])
    <3>1. r.fg[h] = c.fg[h] /\ c.fg[h] = k.fg[h] /\ n.fg[h] = m.fg[h]
      BY <1>1, <2>7, <2>11
    <3>2. Passes(h, m.fg[h], c.fg[h]) /\ SameFate(n.fg[h], k.fg[h])
      BY <2>3, <2>8 DEF Carries, SameFates
    <3> QED BY <3>1, <3>2
  <2>14. SameFate(n.fg[g], k.fg[g]) /\ (~k.fg[g].graph => SameFate(k.fg[g], c.fg[g]))
    BY <2>3, <2>7 DEF SameFates
  <2>15. /\ r.fg[g].eof = n.fg[g].eof /\ r.fg[g].format = n.fg[g].format
         /\ ~q.graph => r.fg[g].lost = n.fg[g].lost
    BY <2>4, <2>7, <2>11, <2>14 DEF SameFate
  <2>16. /\ r.fg[g].eof = q.eof /\ r.fg[g].format[s] = format
         /\ \A t \in InputsOf(g) \ {s} : r.fg[g].format[t] = q.format[t]
         /\ ~q.graph \/ q.format[s] = format => r.fg[g].lost = q.lost
    BY <1>1, <2>0, <2>15
  <2> QED BY <2>12, <2>13, <2>16 DEF Fed, r, format, q, s
<1>5. CASE NeedsReinit(m, g, frame) /\ ~HasAllInputFormats(n.fg[g])
  <2> DEFINE p == n.fg[g]
             b == QueuedFor(p, s, frame)
  <2>1. r = PutGraph(n, g, b)
    BY <1>5 DEF SendFrame, PutGraph, QueuedFor
  <2>2. OnlyGraph(n, PutGraph(n, g, b), g, b)
    BY <1>1, PutGraphIs
  <2> HIDE DEF n, r, q, format
  <2>3. r.fg[g] = b /\ \A h \in Graph \ {g} : r.fg[h] = n.fg[h]
    BY <2>1, <2>2 DEF OnlyGraph
  <2>4. GraphFits(g, p, n.opt) /\ FramesFit(g, p)
    BY <1>1, <1>2 DEF Good, GraphsFit, AllFramesFit
  <2>5. Gains(g, p, b, frame) /\ b.lost = p.lost
    BY <1>0, <2>4, QueuedForGains
  <2>6. b.eof = p.eof /\ b.format = p.format
    BY <2>4 DEF QueuedFor, GraphFits, GraphFields
  <2> HIDE DEF b, s
  <2>7. Gains(g, q, r.fg[g], frame)
    <3>1. Passes(g, q, p)
      BY <1>1 DEF Carries, q
    <3>2. Gains(g, q, b, frame)
      BY <2>5, <3>1, PassesTrans
    <3> QED BY <2>3, <3>2
  <2>8. \A h \in Graph \ {g} : Passes(h, m.fg[h], r.fg[h]) /\ SameFate(m.fg[h], r.fg[h])
    <3>1. \A h \in Graph \ {g} : r.fg[h] = m.fg[h]
      BY <1>1, <2>3
    <3> QED BY <3>1, SameFramesPass DEF AllFramesFit, SameFrames, SameFate
  <2> QED BY <1>1, <2>3, <2>5, <2>6, <2>7, <2>8 DEF Fed, r, format, q, s
<1> QED BY <1>3, <1>4, <1>5

\* Declared formats are taken for those of some inputs.
LEMMA DeclaredCarries ==
  ASSUME NEW m, Good(m), AllFramesFit(m), NEW g \in Graph, NEW streams
  PROVE  LET n == FormatsDeclared(m, g, streams)
             q == m.fg[g]
             r == n.fg[g]
         IN /\ Carries(m, n) /\ \A h \in Graph \ {g} : n.fg[h] = m.fg[h]
            /\ r.graph = q.graph /\ r.eof = q.eof /\ r.lost = q.lost
            /\ \A t \in InputsOf(g) \ streams : r.format[t] = q.format[t]
<1> DEFINE q == m.fg[g]
           r == Filled(g, q, streams)
           formats == [s \in InputsOf(g) |-> IF s \in streams /\ q.format[s] = NoFormat THEN Declared[s] ELSE q.format[s]]
           n == FormatsDeclared(m, g, streams)
<1>1. DOMAIN m = StateFields /\ DOMAIN m.fg = Graph /\ GraphFits(g, q, m.opt) /\ FramesFit(g, q)
  BY DEF Good, Sound, GraphsFit, AllFramesFit
<1>2. n = PutGraph(m, g, r)
  BY DEF FormatsDeclared, PutGraph, Filled
<1>3. OnlyGraph(m, PutGraph(m, g, r), g, r)
  BY PutGraphIs
<1> HIDE DEF n
<1>4. n.fg[g] = r /\ \A h \in Graph \ {g} : n.fg[h] = m.fg[h]
  BY <1>2, <1>3 DEF OnlyGraph
<1>5. r = [q EXCEPT !.format = formats]
  BY DEF Filled
<1> HIDE DEF r, formats
<1>6. /\ r.graph = q.graph /\ r.eof = q.eof /\ r.queue = q.queue /\ r.lost = q.lost
      /\ r.pending = q.pending /\ r.inside = q.inside
      /\ r.sink = q.sink /\ r.reaped = q.reaped /\ r.format = formats
  BY <1>1, <1>5 DEF GraphFits, GraphFields
<1>7. \A t \in InputsOf(g) \ streams : r.format[t] = q.format[t]
  BY <1>6 DEF formats
<1>8. Passes(g, q, r)
  BY <1>1, <1>6, SameFramesPass DEF SameFrames
<1> HIDE DEF q
<1>9. Carries(m, n)
  BY <1>4, <1>8, OneGraphCarries DEF q
<1> QED BY <1>4, <1>6, <1>7, <1>9 DEF n, q

\* The graph g has got the end of s; no frame is lost.
EndNoted(m, n, g, s) ==
  LET q == m.fg[g]
      r == n.fg[g]
  IN /\ Carries(m, n) /\ \A h \in Graph \ {g} : n.fg[h] = m.fg[h]
     /\ r.lost = q.lost /\ r.eof[s]
     /\ \A t \in InputsOf(g) \ {s} : r.eof[t] = q.eof[t] /\ r.format[t] = q.format[t]

LEMMA SendEofCarries ==
  ASSUME NEW m, Good(m), AllFramesFit(m), NEW g \in Graph, NEW s \in InputsOf(g)
  PROVE  EndNoted(m, SendEof(m, g, s), g, s)
<1> DEFINE q == m.fg[g]
           n == SendEof(m, g, s)
<1>0. GraphFits(g, q, m.opt) /\ Ready(g, q) /\ FramesFit(g, q)
  BY DEF Good, GraphsFit, AllFramesFit
<1>1. CASE q.graph
  <2> DEFINE c == Closed(q, s)
             r == Run(g, c)
  <2>1. n = PutGraph(m, g, r)
    BY <1>1 DEF SendEof, PutGraph
  <2>2. OnlyGraph(m, PutGraph(m, g, r), g, r)
    BY PutGraphIs
  <2> HIDE DEF n
  <2>3. n.fg[g] = r /\ \A h \in Graph \ {g} : n.fg[h] = m.fg[h]
    BY <2>1, <2>2 DEF OnlyGraph
  <2>4. /\ c.graph = q.graph /\ c.queue = q.queue /\ c.lost = q.lost /\ c.pending = q.pending /\ c.inside = q.inside
        /\ c.sink = q.sink /\ c.reaped = q.reaped /\ c.format = q.format /\ c.eof = [q.eof EXCEPT ![s] = TRUE]
    BY <1>0 DEF GraphFits, GraphFields, Closed
  <2> HIDE DEF q
  <2>5. GraphFits(g, c, m.opt)
    BY <1>0, <1>1, ClosedFits
  <2> HIDE DEF c
  <2>6. Passes(g, q, c) /\ FramesFit(g, c)
    BY <1>0, <2>4, SameFramesPass DEF SameFrames, Passes
  <2>7. Passes(g, c, r) /\ r.lost = c.lost
    BY <1>1, <2>4, <2>5, <2>6, RunPasses
  <2>8. r.format = c.format /\ r.eof = c.eof
    BY <2>5, RunIs DEF SameShape
  <2> HIDE DEF r
  <2>9. Passes(g, q, r)
    BY <2>6, <2>7, PassesTrans
  <2>10. Carries(m, n)
    BY <2>3, <2>9, OneGraphCarries DEF q
  <2>11. r.eof[s] /\ \A t \in InputsOf(g) \ {s} : r.eof[t] = q.eof[t]
    BY <1>0, <2>4, <2>8 DEF GraphFits
  <2> QED BY <2>3, <2>4, <2>7, <2>8, <2>10, <2>11 DEF EndNoted, q, n
<1>2. CASE ~q.graph
  <2> DEFINE e == EofNoted(q, s)
             k == PutGraph(m, g, e)
  <2>1. n = FormatsDeclared(k, g, {s})
    BY <1>2 DEF SendEof, PutGraph, EofNoted
  <2>2. OnlyGraph(m, k, g, e)
    BY PutGraphIs
  <2> HIDE DEF n, q
  <2>3. GraphFits(g, e, m.opt) /\ Ready(g, e) /\ e.graph = q.graph /\ e.limit = q.limit
    BY <1>0, <1>2, EofNotedFits
  <2>4. Follows(m, k) /\ Good(k)
    BY <2>3, GraphKept DEF q, Follows
  <2>5. /\ e.queue = q.queue /\ e.lost = q.lost /\ e.pending = q.pending /\ e.inside = q.inside
        /\ e.sink = q.sink /\ e.reaped = q.reaped /\ e.format = q.format /\ e.eof = [q.eof EXCEPT ![s] = TRUE]
    BY <1>0 DEF GraphFits, GraphFields, EofNoted
  <2> HIDE DEF e, k
  <2>6. k.fg[g] = e /\ \A h \in Graph \ {g} : k.fg[h] = m.fg[h]
    BY <2>2 DEF OnlyGraph
  <2>7. Passes(g, q, e)
    BY <1>0, <2>3, <2>5, SameFramesPass DEF SameFrames
  <2>8. Carries(m, k) /\ AllFramesFit(k)
    BY <2>6, <2>7, OneGraphCarries, CarriesFit DEF q
  <2>9. /\ Carries(k, n) /\ \A h \in Graph \ {g} : n.fg[h] = k.fg[h]
        /\ n.fg[g].eof = e.eof /\ n.fg[g].lost = e.lost
        /\ \A t \in InputsOf(g) \ {s} : n.fg[g].format[t] = e.format[t]
    BY <2>1, <2>4, <2>6, <2>8, DeclaredCarries
  <2>10. Carries(m, n)
    BY <2>8, <2>9, CarriesTrans
  <2>11. e.eof[s] /\ \A t \in InputsOf(g) \ {s} : e.eof[t] = q.eof[t]
    BY <1>0, <2>5 DEF GraphFits
  <2> QED BY <2>5, <2>6, <2>9, <2>10, <2>11 DEF EndNoted, q, n
<1> QED BY <1>1, <1>2

-----------------------------------------------------------------------------
(* What has become of the frames that the decoders got. *)

\* A frame is of a file that its stream is of.
LEMMA FileOfFrame ==
  ASSUME NEW fr \in Frame
  PROVE  fr[1] \in InFile /\ fr[2] \in DOMAIN Media[fr[1]] /\ FileOf(SourceOf(fr)) = fr[1]
<1> DEFINE f == fr[1]
           s == SourceOf(fr)
<1>1. f \in InFile /\ fr[2] \in DOMAIN Media[f]
  BY DEF Frame
<1>2. s \in ToSet(Streams[f])
  <2>1. Media[f][fr[2]] \in ToSet(Media[f])
    BY <1>1 DEF ToSet
  <2> QED BY <1>1, <2>1, MediaAssumption DEF SourceOf, PacketAt
<1> HIDE DEF f, s
<1>3. \A e \in InFile : s \in ToSet(Streams[e]) => e = f
  BY <1>1, <1>2, MediaAssumption
<1> QED BY <1>1, <1>2, <1>3 DEF FileOf, f, s

\* All packets of an input of the graph have one format.
Uniform(g) ==
  \A r \in InputsOf(g) : \A k, l \in DOMAIN Media[FileOf(r)] :
    LET x == Media[FileOf(r)][k]
        y == Media[FileOf(r)][l]
    IN x.stream = r /\ y.stream = r => x.format = y.format

LEMMA UniformFrames ==
  ASSUME NEW g \in Graph, Uniform(g), NEW s \in InputsOf(g), NEW fr \in From(s), NEW frame \in From(s), NEW m
  PROVE  FormatIn(m, fr) = FormatIn(m, frame)
<1>1. fr \in Frame /\ frame \in Frame /\ SourceOf(fr) = s /\ SourceOf(frame) = s
  BY DEF From
<1>2. fr[1] = FileOf(s) /\ frame[1] = FileOf(s) /\ fr[2] \in DOMAIN Media[fr[1]] /\ frame[2] \in DOMAIN Media[frame[1]]
  BY <1>1, FileOfFrame
<1>3. FormatOf(fr) = FormatOf(frame)
  BY <1>1, <1>2 DEF Uniform, FormatOf, SourceOf, PacketAt
<1> QED BY <1>1, <1>3 DEF FormatIn

\* A frame comes out of the decoder for it.
Sane(fr, opts) == PacketAt(fr).intact /\ SourceOf(fr) \notin opts.broken

\* Those that come out of the decoder of s and are not lost in the graph q.
Wanted(q, s, opts) == {fr \in From(s) : Sane(fr, opts) /\ fr \notin q.lost}

\* Those that the decoder of s got, each has come out at each output of each graph, or
\* is on its way there, or is held by the decoder.
Account(m) ==
  \A g \in Graph : \A s \in InputsOf(g), o \in OutputsOf(g) : \A P \in SUBSET Wanted(m.fg[g], s, m.opt) :
    Only(P, m.given[s]) = Only(P, Line(m.fg[g], s, o)) \o Only(P, m.held[s])

\* A decoder holds the last that it got.
HeldFit(m, s) ==
  /\ m.given[s] \in Seq(Frame)
  /\ \A i \in 1..Len(m.held[s]) : SourceOf(m.held[s][i]) = s
  /\ \E xs \in Seq(Frame) : m.given[s] = xs \o m.held[s]

Accounts(m) ==
  /\ AllFramesFit(m) /\ Account(m)
  /\ DOMAIN m.given = Stream /\ \A s \in Stream : HeldFit(m, s)
  /\ \A g \in Graph : Uniform(g) => m.fg[g].lost = {}

\* What is known of the format of an input is that of all its frames, until its end; by
\* then the decoder has let go all.
Expects(m, g, s) ==
  /\ Uniform(g) /\ m.fg[g].format[s] # NoFormat /\ ~m.fg[g].eof[s] =>
       \A fr \in From(s) : FormatIn(m, fr) = m.fg[g].format[s]
  /\ m.fg[g].eof[s] => m.held[s] = <<>>

Tale(m) == Accounts(m) /\ \A g \in Graph : \A s \in InputsOf(g) : Expects(m, g, s)

\* The accounts stay right while frames go on in the graphs.
LEMMA CarriesAccounts ==
  ASSUME NEW m, Accounts(m), NEW n, Carries(m, n), n.held = m.held, n.given = m.given, n.opt = m.opt,
         \A g \in Graph : n.fg[g].lost = m.fg[g].lost
  PROVE  Accounts(n)
<1>1. ASSUME NEW g \in Graph, NEW s \in InputsOf(g), NEW o \in OutputsOf(g), NEW P \in SUBSET Wanted(n.fg[g], s, n.opt)
      PROVE  Only(P, n.given[s]) = Only(P, Line(n.fg[g], s, o)) \o Only(P, n.held[s])
  <2>1. P \in SUBSET Wanted(m.fg[g], s, m.opt) /\ P \in SUBSET (From(s) \ n.fg[g].lost)
    BY DEF Wanted
  <2>2. Only(P, m.given[s]) = Only(P, Line(m.fg[g], s, o)) \o Only(P, m.held[s])
    BY <2>1 DEF Accounts, Account
  <2>3. Only(P, Line(n.fg[g], s, o)) = Only(P, Line(m.fg[g], s, o))
    BY <2>1 DEF Carries, Passes
  <2> QED BY Zenon, <2>2, <2>3
<1>2. Account(n)
  BY <1>1 DEF Account
<1>3. AllFramesFit(n)
  BY CarriesFit
<1>4. \A s \in Stream : HeldFit(n, s)
  BY DEF Accounts, HeldFit
<1> QED BY <1>2, <1>3, <1>4 DEF Accounts

\* So does the tale, if nothing is learnt of the inputs.
LEMMA CarriesTale ==
  ASSUME NEW m, Tale(m), NEW n, Carries(m, n), SameFates(m, n),
         n.held = m.held, n.given = m.given, n.opt = m.opt, n.dec = m.dec
  PROVE  Tale(n)
<1>1. Accounts(n)
  BY CarriesAccounts DEF Tale, SameFates, SameFate
<1>2. ASSUME NEW g \in Graph, NEW s \in InputsOf(g) PROVE Expects(n, g, s)
  <2>1. n.fg[g].format = m.fg[g].format /\ n.fg[g].eof = m.fg[g].eof
    BY DEF SameFates, SameFate
  <2>2. \A fr : FormatIn(n, fr) = FormatIn(m, fr)
    BY DEF FormatIn
  <2> QED BY <2>1, <2>2 DEF Tale, Expects
<1> QED BY <1>1, <1>2 DEF Tale

-----------------------------------------------------------------------------
(* A frame for all graphs. *)

\* The graph q has become r, with a frame of s, of this format, if s is one of its inputs.
Got(g, q, r, s, frame, format) ==
  IF s \in InputsOf(g)
  THEN /\ Gains(g, q, r, frame) /\ r.eof = q.eof
       /\ r.format[s] = format /\ \A t \in InputsOf(g) \ {s} : r.format[t] = q.format[t]
       /\ q.format[s] \in {NoFormat, format} => r.lost = q.lost
  ELSE Passes(g, q, r) /\ SameFate(q, r)

LEMMA GotPasses ==
  ASSUME NEW g, NEW q, NEW r, NEW t, NEW s, NEW frame, NEW format
  PROVE  /\ Got(g, q, r, s, frame, format) /\ Passes(g, r, t) /\ SameFate(r, t) => Got(g, q, t, s, frame, format)
         /\ Passes(g, q, r) /\ SameFate(q, r) /\ Got(g, r, t, s, frame, format) => Got(g, q, t, s, frame, format)
<1>1. ASSUME Got(g, q, r, s, frame, format), Passes(g, r, t), SameFate(r, t) PROVE Got(g, q, t, s, frame, format)
  <2>1. Gains(g, q, r, frame) => Gains(g, q, t, frame)
    BY <1>1, GainsPasses
  <2>2. Passes(g, q, r) => Passes(g, q, t)
    BY <1>1, PassesTrans
  <2> QED BY <1>1, <2>1, <2>2 DEF Got, SameFate
<1>2. ASSUME Passes(g, q, r), SameFate(q, r), Got(g, r, t, s, frame, format) PROVE Got(g, q, t, s, frame, format)
  <2>1. Gains(g, r, t, frame) => Gains(g, q, t, frame)
    BY <1>2, PassesTrans
  <2>2. Passes(g, r, t) => Passes(g, q, t)
    BY <1>2, PassesTrans
  <2> QED BY <1>2, <2>1, <2>2 DEF Got, SameFate
<1> QED BY <1>1, <1>2

\* The graph gets what it is sent; the others go on.
LEMMA SendFrameToGives ==
  ASSUME NEW m, Good(m), AllFramesFit(m), NEW g \in Graph, NEW frame \in Frame, NEW s, s = SourceOf(frame),
         SendFrameTo(m, g, s, frame).how = "ok"
  PROVE  LET n == SendFrameTo(m, g, s, frame)
         IN /\ Follows(m, n) /\ AllFramesFit(n)
            /\ Got(g, m.fg[g], n.fg[g], s, frame, FormatIn(m, frame))
            /\ \A h \in Graph \ {g} : Passes(h, m.fg[h], n.fg[h]) /\ SameFate(m.fg[h], n.fg[h])
<1> DEFINE n == SendFrameTo(m, g, s, frame)
           format == FormatIn(m, frame)
<1>1. CASE s \notin InputsOf(g)
  <2>1. n = m
    BY <1>1 DEF SendFrameTo
  <2>2. Follows(m, m) /\ Carries(m, m) /\ SameFates(m, m)
    BY FollowsRefl, CarriesRefl
  <2> HIDE DEF n
  <2> QED BY <1>1, <2>1, <2>2 DEF n, Got, Carries, SameFates
<1>2. CASE s \in InputsOf(g)
  <2>1. n = SendFrame(m, g, frame)
    BY <1>2 DEF SendFrameTo
  <2> HIDE DEF n
  <2>2. Follows(m, n) /\ Fed(m, n, g, frame)
    BY <1>2, <2>1, SendFrameFollows, SendFrameFeeds DEF n
  <2>3. m.fg[g].format[s] = NoFormat => ~m.fg[g].graph
    <3>1. GraphFits(g, m.fg[g], m.opt) /\ Ready(g, m.fg[g])
      BY DEF Good, GraphsFit
    <3>2. DOMAIN m.fg[g].format = InputsOf(g)
      BY <3>1 DEF GraphFits
    <3> QED BY <1>2, <3>1, <3>2 DEF Ready, HasAllInputFormats
  <2>4. Got(g, m.fg[g], n.fg[g], s, frame, format)
    BY <1>2, <2>2, <2>3 DEF Fed, Got
  <2>5. AllFramesFit(n)
    BY <2>2 DEF Fed, AllFramesFit, Gains, Passes
  <2> QED BY <2>2, <2>4, <2>5 DEF Fed, n
<1> QED BY <1>1, <1>2

\* All graphs that s feeds get the frame.
LEMMA SendingGives ==
  ASSUME NEW m, Good(m), AllFramesFit(m), NEW frame \in Frame, NEW s, s = SourceOf(frame),
         SentToAll(m, s, frame).how = "ok"
  PROVE  LET n == SentToAll(m, s, frame)
         IN \A g \in Graph : Got(g, m.fg[g], n.fg[g], s, frame, FormatIn(m, frame))
<1> DEFINE format == FormatIn(m, frame)
           Has(n, g) == Got(g, m.fg[g], n.fg[g], s, frame, format)
           Waits(n, g) == Passes(g, m.fg[g], n.fg[g]) /\ SameFate(m.fg[g], n.fg[g])
           UpTo2(n, i) == AllFramesFit(n) /\ \A g \in Graph : IF g <= i THEN Has(n, g) ELSE Waits(n, g)
           T(F) == {i \in 0..NumGraphs : Follows(m, F[i]) /\ (F[i].how = "ok" => UpTo2(F[i], i))}
<1>1. PICK F : IsSending(F, m, s, frame)
  BY SendingSteps
<1>2. F[0] = m /\ SentToAll(m, s, frame) = F[NumGraphs] /\ \A g \in Graph : F[g] = SendFrameTo(F[g - 1], g, s, frame)
  BY <1>1 DEF IsSending
<1>3. NumGraphs \in Nat /\ Graph = 1..NumGraphs
  BY FilterAssumption DEF Graph
<1>4. 0 \in T(F)
  <2>1. Follows(m, m) /\ Carries(m, m) /\ SameFates(m, m)
    BY FollowsRefl, CarriesRefl
  <2>2. \A g \in Graph : Waits(m, g) /\ ~(g <= 0)
    BY <1>3, <2>1 DEF Carries, SameFates
  <2> HIDE DEF Has, Waits
  <2>3. UpTo2(F[0], 0)
    BY <1>2, <2>2
  <2> HIDE DEF UpTo2
  <2> QED BY <1>2, <1>3, <2>1, <2>3
<1>5. ASSUME NEW i \in 1..NumGraphs, i - 1 \in T(F) PROVE i \in T(F)
  <2> DEFINE l == F[i - 1]
             n == F[i]
  <2>1. Follows(m, l) /\ (l.how = "ok" => UpTo2(l, i - 1)) /\ i \in Graph /\ n = SendFrameTo(l, i, s, frame)
    BY <1>2, <1>3, <1>5
  <2> HIDE DEF l, n, Has, Waits
  <2>2. Good(l) /\ l.dec = m.dec
    BY <2>1 DEF Follows, SameInputs
  <2>3. Follows(l, n)
    BY <2>1, <2>2, SendFrameFollows, FollowsRefl DEF SendFrameTo
  <2>4. ASSUME n.how = "ok" PROVE UpTo2(n, i)
    <3>1. l.how = "ok"
      BY <2>3, <2>4 DEF Follows
    <3>2. AllFramesFit(l) /\ \A g \in Graph : IF g <= i - 1 THEN Has(l, g) ELSE Waits(l, g)
      BY <2>1, <3>1
    <3>3. FormatIn(l, frame) = format
      BY <2>2 DEF FormatIn
    <3> HIDE DEF format
    <3>4. /\ AllFramesFit(n) /\ Got(i, l.fg[i], n.fg[i], s, frame, format)
          /\ \A h \in Graph \ {i} : Passes(h, l.fg[h], n.fg[h]) /\ SameFate(l.fg[h], n.fg[h])
      BY <2>1, <2>2, <2>4, <3>2, <3>3, SendFrameToGives
    <3>5. Has(n, i)
      <4>1. Waits(l, i)
        BY <1>3, <2>1, <3>2
      <4> QED BY <3>4, <4>1, GotPasses DEF Has, Waits
    <3>6. ASSUME NEW g \in Graph, g # i PROVE IF g <= i THEN Has(n, g) ELSE Waits(n, g)
      <4>1. Passes(g, l.fg[g], n.fg[g]) /\ SameFate(l.fg[g], n.fg[g])
        BY <3>4, <3>6
      <4>2. Has(l, g) => Has(n, g)
        BY <4>1, GotPasses DEF Has
      <4>3. Waits(l, g) => Waits(n, g)
        BY <4>1, PassesTrans DEF Waits, SameFate
      <4>4. (g <= i - 1) <=> (g <= i)
        BY <1>3, <3>6
      <4> QED BY <3>2, <4>2, <4>3, <4>4
    <3>7. i <= i
      BY <1>3
    <3> QED BY <3>4, <3>5, <3>6, <3>7
  <2> HIDE DEF UpTo2
  <2>5. Follows(m, n) /\ i \in 0..NumGraphs
    BY <1>3, <2>1, <2>3, FollowsTrans
  <2> QED BY <2>4, <2>5 DEF n
<1> HIDE DEF T
<1>6. NumGraphs \in T(F)
  <2>1. NumGraphs \in 0..NumGraphs
    BY <1>3
  <2>2. \A i \in 1..NumGraphs : i - 1 \in T(F) => i \in T(F)
    BY <1>5
  <2> DEFINE X == T(F)
  <2> HIDE DEF X
  <2> QED BY <1>3, <1>4, <2>1, <2>2, UpTo DEF X
<1>7. UpTo2(F[NumGraphs], NumGraphs)
  BY <1>2, <1>6 DEF T
<1> HIDE DEF Has
<1>8. \A g \in Graph : Has(F[NumGraphs], g)
  BY <1>3, <1>7
<1> QED BY <1>2, <1>8 DEF Has

-----------------------------------------------------------------------------
(* The tale goes on. *)

\* A step after which the tale is still true, if the program goes on, and over which
\* no inputs but those in S come to their end.
Tells(m, n, S) ==
  /\ Goes(m, n)
  /\ n.how = "ok" /\ m.opt = opt /\ Tale(m) =>
       Tale(n) /\ \A g \in Graph : \A s \in InputsOf(g) \ S : n.fg[g].eof[s] = m.fg[g].eof[s]

LEMMA TellsRefl ==
  ASSUME NEW m, Good(m), NEW S
  PROVE  Tells(m, m, S)
BY GoesRefl DEF Tells

LEMMA TellsTrans ==
  ASSUME NEW l, NEW m, NEW n, NEW R, NEW S, Tells(l, m, R), Tells(m, n, S), R \subseteq S
  PROVE  Tells(l, n, S)
<1>1. Goes(l, n)
  BY GoesTrans DEF Tells
<1>2. ASSUME n.how = "ok", l.opt = opt, Tale(l)
      PROVE  Tale(n) /\ \A g \in Graph : \A s \in InputsOf(g) \ S : n.fg[g].eof[s] = l.fg[g].eof[s]
  <2>1. m.how = "ok" /\ m.opt = opt
    BY <1>2 DEF Tells, Goes
  <2>2. Tale(m) /\ \A g \in Graph : \A s \in InputsOf(g) \ R : m.fg[g].eof[s] = l.fg[g].eof[s]
    BY <1>2, <2>1 DEF Tells
  <2>3. Tale(n) /\ \A g \in Graph : \A s \in InputsOf(g) \ S : n.fg[g].eof[s] = m.fg[g].eof[s]
    BY <1>2, <2>1, <2>2 DEF Tells
  <2> QED BY <2>2, <2>3
<1> QED BY <1>1, <1>2 DEF Tells

\* Frames go on in the graphs.
LEMMA CarriesTells ==
  ASSUME NEW m, NEW n, NEW S, Goes(m, n), n.held = m.held, n.given = m.given,
         AllFramesFit(m) => Carries(m, n) /\ SameFates(m, n)
  PROVE  Tells(m, n, S)
<1>1. ASSUME Tale(m) PROVE Tale(n) /\ \A g \in Graph : n.fg[g].eof = m.fg[g].eof
  <2>1. Carries(m, n) /\ SameFates(m, n)
    BY <1>1 DEF Tale, Accounts
  <2>2. n.opt = m.opt /\ n.dec = m.dec
    BY DEF Goes
  <2> QED BY <1>1, <2>1, <2>2, CarriesTale DEF SameFates, SameFate
<1> QED BY <1>1 DEF Tells

\* The graphs stay as they are.
LEMMA GraphsStay ==
  ASSUME NEW m, NEW n, NEW S, Goes(m, n), n.held = m.held, n.given = m.given, n.fg = m.fg
  PROVE  Tells(m, n, S)
<1>1. AllFramesFit(m) => Carries(m, n) /\ SameFates(m, n)
  BY SameFramesPass DEF AllFramesFit, Carries, SameFates, SameFate, SameFrames
<1> QED BY <1>1, CarriesTells

\* The head and the tail of what a decoder holds.
LEMMA HeldParts ==
  ASSUME NEW xs \in Seq(Frame), xs # <<>>
  PROVE  /\ Head(xs) \in Frame /\ Tail(xs) \in Seq(Frame) /\ <<Head(xs)>> \o Tail(xs) = xs
         /\ 1 \in 1..Len(xs) /\ Head(xs) = xs[1]
         /\ \A i \in 1..Len(Tail(xs)) : i + 1 \in 1..Len(xs) /\ Tail(xs)[i] = xs[i + 1]
<1> DEFINE h == Head(xs)
           t == Tail(xs)
<1>1. h \in Frame /\ t \in Seq(Frame) /\ Len(t) = Len(xs) - 1 /\ \A i \in 1..Len(t) : t[i] = xs[i + 1]
  BY HeadTailProperties
<1>2. Len(xs) \in Nat /\ Len(xs) # 0 /\ h = xs[1]
  BY LenProperties, EmptySeq
<1> HIDE DEF h, t
<1>3. <<h>> \in Seq(Frame) /\ Len(<<h>>) = 1 /\ <<h>>[1] = h
  BY <1>1
<1> DEFINE ys == <<h>> \o t
<1>4. /\ ys \in Seq(Frame) /\ Len(ys) = 1 + Len(t)
      /\ \A i \in 1..(1 + Len(t)) : ys[i] = IF i <= 1 THEN <<h>>[i] ELSE t[i - 1]
  BY <1>1, <1>3, ConcatProperties
<1> HIDE DEF ys
<1>5. Len(t) \in Nat
  BY <1>1, LenProperties
<1>6. ys = xs
  <2>1. ASSUME NEW i \in 1..Len(ys) PROVE ys[i] = xs[i]
    <3>1. CASE i = 1
      BY <1>2, <1>3, <1>4, <1>5, <3>1
    <3>2. CASE i # 1
      <4>1. i - 1 \in 1..Len(t) /\ ~(i <= 1) /\ i \in 1..(1 + Len(t)) /\ (i - 1) + 1 = i
        BY <1>4, <1>5, <3>2
      <4>2. ys[i] = t[i - 1] /\ t[i - 1] = xs[(i - 1) + 1]
        BY <1>1, <1>4, <4>1
      <4> QED BY <4>1, <4>2
    <3> QED BY <3>1, <3>2
  <2>2. Len(ys) = Len(xs)
    BY <1>1, <1>2, <1>4, <1>5
  <2> QED BY <1>4, <2>1, <2>2, SeqEqual
<1>7. 1 \in 1..Len(xs) /\ \A i \in 1..Len(t) : i + 1 \in 1..Len(xs)
  BY <1>1, <1>2, <1>5
<1> QED BY <1>1, <1>2, <1>6, <1>7 DEF ys, h, t

\* A graph gets the frame that comes out of the decoder of s, if it does.
Receives(g, m, n, s, frame) ==
  IF Sane(frame, m.opt) THEN Got(g, m.fg[g], n.fg[g], s, frame, FormatIn(m, frame)) ELSE n.fg[g] = m.fg[g]

\* Of the frames in P, one more has gone in at t for o.
Grows(q, r, s, t, o, P, frame) ==
  /\ Only(P, Line(r, t, o)) = Only(P, Line(q, t, o)) \o Only(P, <<frame>>)
  /\ t # s => Only(P, <<frame>>) = <<>>

\* What one frame more is for the frames of an input that are to get to an output.
LEMMA LineGrows ==
  ASSUME NEW m, Good(m), AllFramesFit(m), NEW n, NEW frame \in Frame, NEW s, s = SourceOf(frame),
         NEW g \in Graph, Receives(g, m, n, s, frame),
         NEW t \in InputsOf(g), NEW o \in OutputsOf(g), NEW P \in SUBSET Wanted(n.fg[g], t, m.opt)
  PROVE  Grows(m.fg[g], n.fg[g], s, t, o, P, frame)
<1> DEFINE q == m.fg[g]
           r == n.fg[g]
<1>1. P \in SUBSET (From(t) \ r.lost) /\ (frame \in P => t = s /\ Sane(frame, m.opt))
  BY DEF Wanted, From
<1>2. frame \notin P => Only(P, <<frame>>) = <<>>
  <2> DEFINE one == <<frame>>
  <2>1. one \in Seq(Frame) /\ Len(one) = 1 /\ one[1] = frame
    OBVIOUS
  <2> HIDE DEF one
  <2>2. frame \notin P => \A i \in 1..Len(one) : one[i] \notin P
    BY <2>1
  <2>3. frame \notin P => Only(P, one) = <<>>
    BY <2>1, <2>2, OnlyNone
  <2> QED BY <2>3 DEF one
<1>3. GraphFits(g, q, m.opt) /\ FramesFit(g, q)
  BY DEF Good, GraphsFit, AllFramesFit
<1> HIDE DEF q, r
<1> DEFINE a == Only(P, Line(q, t, o))
           b == Only(P, Line(r, t, o))
<1>4. a \in Seq(Frame)
  <2>1. Line(q, t, o) \in Seq(Frame)
    BY <1>3, LineIs
  <2> QED BY <2>1, OnlyIn
<1>5. b = a /\ frame \notin P => b = a \o Only(P, <<frame>>)
  <2> HIDE DEF a, b
  <2>1. a \o <<>> = a
    BY <1>4, ConcatEmptySeq
  <2> QED BY Zenon, <1>2, <2>1
<1>6. CASE ~Sane(frame, m.opt)
  <2>1. r = q
    BY <1>6 DEF Receives, q, r
  <2> QED BY <1>1, <1>2, <1>5, <1>6, <2>1 DEF a, b, q, r, Grows
<1>7. CASE Sane(frame, m.opt) /\ s \in InputsOf(g)
  <2>1. Gains(g, q, r, frame)
    BY <1>7 DEF Receives, Got, q, r
  <2>2. b = a \o Only(P, <<frame>>)
    BY <1>1, <2>1 DEF Gains
  <2> QED BY <1>1, <1>2, <2>2 DEF a, b, q, r, Grows
<1>8. CASE Sane(frame, m.opt) /\ s \notin InputsOf(g)
  <2>1. Passes(g, q, r)
    BY <1>8 DEF Receives, Got, q, r
  <2>2. b = a
    BY <1>1, <2>1 DEF Passes
  <2>3. frame \notin P
    BY <1>1, <1>8
  <2> QED BY <1>1, <1>2, <1>5, <2>2, <2>3 DEF a, b, q, r, Grows
<1> QED BY <1>6, <1>7, <1>8

\* The frame leaves the decoder of s.
Leaves(m, n, s, frame, xs) == m.held[s] = <<frame>> \o xs /\ n.held[s] = xs

LEMMA AccountsOut ==
  ASSUME NEW m, Good(m), AllFramesFit(m), Account(m), NEW n, NEW frame \in Frame, NEW s, s = SourceOf(frame),
         \A g \in Graph : m.fg[g].lost \subseteq n.fg[g].lost /\ Receives(g, m, n, s, frame),
         NEW xs \in Seq(Frame), Leaves(m, n, s, frame, xs),
         \A t \in Stream \ {s} : n.held[t] = m.held[t], n.given = m.given, n.opt = m.opt
  PROVE  Account(n)
<1> SUFFICES ASSUME NEW g \in Graph, NEW t \in InputsOf(g), NEW o \in OutputsOf(g),
                    NEW P \in SUBSET Wanted(n.fg[g], t, n.opt)
             PROVE  Only(P, n.given[t]) = Only(P, Line(n.fg[g], t, o)) \o Only(P, n.held[t])
  BY DEF Account
<1> DEFINE q == m.fg[g]
           a == Only(P, Line(q, t, o))
           b == Only(P, <<frame>>)
           c == Only(P, n.held[t])
<1>1. Only(P, m.given[t]) = a \o Only(P, m.held[t])
  <2>1. P \in SUBSET Wanted(m.fg[g], t, m.opt)
    BY DEF Wanted
  <2> QED BY <2>1 DEF Account
<1>2. P \in SUBSET Wanted(n.fg[g], t, m.opt)
  OBVIOUS
<1>3. Only(P, Line(n.fg[g], t, o)) = a \o b /\ (t # s => b = <<>>)
  <2>1. Receives(g, m, n, s, frame)
    OBVIOUS
  <2>2. Grows(q, n.fg[g], s, t, o, P, frame)
    BY <1>2, <2>1, LineGrows
  <2> QED BY Zenon, <2>2 DEF Grows
<1>4. GraphFits(g, q, m.opt) /\ FramesFit(g, q) /\ t \in Stream /\ \A u \in Stream : m.held[u] \in Seq(Frame)
  BY StreamAssumption DEF Good, GraphsFit, AllFramesFit, InputsFit
<1>5. Line(q, t, o) \in Seq(Frame) /\ <<frame>> \in Seq(Frame) /\ n.held[t] \in Seq(Frame)
  <2>1. Line(q, t, o) \in Seq(Frame)
    BY <1>4, LineIs
  <2>2. n.held[t] \in Seq(Frame)
    <3>1. n.held[s] \in Seq(Frame)
      BY Zenon DEF Leaves
    <3> QED BY <1>4, <3>1
  <2>3. <<frame>> \in Seq(Frame)
    OBVIOUS
  <2> QED BY <2>1, <2>2, <2>3
<1>6. a \in Seq(Frame) /\ b \in Seq(Frame) /\ c \in Seq(Frame)
  <2> DEFINE line == Line(q, t, o)
             hold == n.held[t]
             one == <<frame>>
  <2>1. line \in Seq(Frame) /\ hold \in Seq(Frame) /\ one \in Seq(Frame)
    BY <1>5
  <2> HIDE DEF line, hold, one, q
  <2>2. Only(P, line) \in Seq(Frame) /\ Only(P, one) \in Seq(Frame) /\ Only(P, hold) \in Seq(Frame)
    BY <2>1, OnlyIn
  <2> QED BY <2>2 DEF line, hold, one
<1>7. Only(P, m.held[t]) = b \o c
  <2>1. CASE t = s
    <3> DEFINE one == <<frame>>
    <3>1. one \in Seq(Frame)
      BY <1>5
    <3>2. one \o xs = m.held[s] /\ n.held[s] = xs
      BY Zenon DEF Leaves
    <3> HIDE DEF one
    <3>3. Only(P, one \o xs) = Only(P, one) \o Only(P, xs)
      BY <3>1, OnlyConcat
    <3> QED BY Zenon, <2>1, <3>2, <3>3 DEF one
  <2>2. CASE t # s
    <3>1. n.held[t] = m.held[t] /\ b = <<>>
      BY <1>3, <1>4, <2>2
    <3> HIDE DEF b
    <3>2. Only(P, m.held[t]) = c
      BY <3>1
    <3> HIDE DEF c
    <3>3. <<>> \o c = c
      BY <1>6, ConcatEmptySeq
    <3> QED BY Zenon, <3>1, <3>2, <3>3
  <2> QED BY <2>1, <2>2
<1> HIDE DEF a, b, c, q
<1>8. a \o (b \o c) = (a \o b) \o c
  BY SMTT(60), <1>6, Regroup
<1> QED BY Zenon, <1>1, <1>3, <1>7, <1>8 DEF c

LEMMA HeldFitOut ==
  ASSUME NEW m, NEW n, NEW s, HeldFit(m, s), m.held[s] \in Seq(Frame), m.held[s] # <<>>,
         n.held[s] = Tail(m.held[s]), n.given[s] = m.given[s]
  PROVE  HeldFit(n, s)
<1> DEFINE h == m.held[s]
           one == <<Head(h)>>
           t == Tail(h)
<1>1. /\ Head(h) \in Frame /\ t \in Seq(Frame) /\ one \o t = h
      /\ \A i \in 1..Len(t) : i + 1 \in 1..Len(h) /\ t[i] = h[i + 1]
  BY HeldParts
<1>2. one \in Seq(Frame)
  BY <1>1
<1>3. PICK xs \in Seq(Frame) : m.given[s] = xs \o h
  BY DEF HeldFit
<1>4. \A i \in 1..Len(h) : SourceOf(h[i]) = s
  BY DEF HeldFit
<1> HIDE DEF h, one, t
<1>5. xs \o (one \o t) = (xs \o one) \o t /\ xs \o one \in Seq(Frame)
  BY <1>1, <1>2, Regroup, ConcatProperties
<1>6. n.given[s] = (xs \o one) \o t /\ n.given[s] \in Seq(Frame)
  <2>1. n.given[s] = xs \o h
    BY <1>3
  <2>2. n.given[s] = (xs \o one) \o t
    BY Zenon, <1>1, <1>5, <2>1
  <2> QED BY <2>2 DEF HeldFit
<1>7. \A i \in 1..Len(t) : SourceOf(t[i]) = s
  BY <1>1, <1>4
<1>8. n.held[s] = t
  BY DEF t, h
<1> QED BY <1>5, <1>6, <1>7, <1>8 DEF HeldFit

\* What is known of an input after a frame came out of a decoder, which has not ended
\* before.
LEMMA ExpectsOut ==
  ASSUME NEW m, NEW n, NEW frame \in Frame, NEW s, s = SourceOf(frame),
         NEW g \in Graph, Receives(g, m, n, s, frame),
         NEW t \in InputsOf(g), Expects(m, g, t), n.dec = m.dec,
         t # s => n.held[t] = m.held[t], t = s => ~m.fg[g].eof[t]
  PROVE  Expects(n, g, t) /\ n.fg[g].eof[t] = m.fg[g].eof[t]
<1> DEFINE q == m.fg[g]
           r == n.fg[g]
<1>1. \A fr : FormatIn(n, fr) = FormatIn(m, fr)
  BY DEF FormatIn
<1>2. r.eof = q.eof /\ (r.format[t] = q.format[t] \/ (t = s /\ r.format[t] = FormatIn(m, frame)))
  <2>1. CASE ~Sane(frame, m.opt)
    BY <2>1 DEF Receives
  <2>2. CASE Sane(frame, m.opt)
    BY <2>2 DEF Receives, Got, SameFate
  <2> QED BY <2>1, <2>2
<1> HIDE DEF q, r
<1>3. r.eof[t] => n.held[t] = <<>>
  BY <1>2 DEF Expects, q
<1>4. ASSUME Uniform(g), r.format[t] # NoFormat, ~r.eof[t] PROVE \A fr \in From(t) : FormatIn(n, fr) = r.format[t]
  <2>1. CASE r.format[t] = q.format[t]
    BY <1>1, <1>2, <1>4, <2>1 DEF Expects, q
  <2>2. CASE t = s /\ r.format[t] = FormatIn(m, frame)
    <3>1. frame \in From(t)
      BY <2>2 DEF From
    <3> QED BY <1>1, <1>4, <2>2, <3>1, UniformFrames
  <2> QED BY <1>2, <2>1, <2>2
<1> QED BY <1>2, <1>3, <1>4 DEF Expects, q, r

\* The head of what a decoder holds is decoded.
LEMMA DecodedTells ==
  ASSUME NEW m, Good(m), NEW s \in Stream, m.held[s] # <<>>, NEW S
  PROVE  Tells(m, Decoded(m, s), S)
<1> DEFINE h == m.held[s]
           frame == Head(h)
           xs == Tail(h)
           k == [m EXCEPT !.held[s] = xs]
           n == Decoded(m, s)
<1>1. Goes(m, n)
  BY DecodedGoes
<1> SUFFICES ASSUME n.how = "ok", m.opt = opt, Tale(m)
             PROVE  Tale(n) /\ \A g \in Graph : \A t \in InputsOf(g) \ S : n.fg[g].eof[t] = m.fg[g].eof[t]
  BY <1>1 DEF Tells
<1>2. DOMAIN m = StateFields /\ DOMAIN m.held = Stream /\ h \in Seq(Frame)
  BY DEF Good, Sound, InputsFit
<1>3. Goes(m, k)
  <2>1. HoldsNow(m, k, s, xs) /\ xs \in Seq(Frame)
    BY <1>2, HeldParts DEF k, HoldsNow
  <2> HIDE DEF k, xs
  <2> QED BY <2>1, HeldPut
<1>4. /\ k.fg = m.fg /\ k.dec = m.dec /\ k.opt = m.opt /\ k.given = m.given
      /\ k.held = [m.held EXCEPT ![s] = xs]
  BY <1>2 DEF StateFields
<1>5. frame \in Frame /\ s = SourceOf(frame)
  <2>1. frame \in Frame /\ 1 \in 1..Len(h) /\ frame = h[1]
    BY <1>2, HeldParts
  <2>2. HeldFit(m, s)
    BY DEF Tale, Accounts
  <2> QED BY <2>1, <2>2 DEF HeldFit
<1>6. n = IF Sane(frame, m.opt) THEN SentToAll(k, s, frame) ELSE k
  BY DEF Decoded, Intact, Sane, SentToAll
<1> HIDE DEF n, k
<1>7. AllFramesFit(k) /\ Good(k)
  BY <1>3, <1>4 DEF Tale, Accounts, AllFramesFit, Goes
<1> HIDE DEF frame
<1>8. /\ n.given = m.given /\ n.held = k.held /\ n.opt = m.opt /\ n.dec = m.dec
      /\ \A g \in Graph : Receives(g, m, n, s, frame)
  <2>1. CASE ~Sane(frame, m.opt)
    BY <1>4, <1>6, <2>1 DEF Receives
  <2>2. CASE Sane(frame, m.opt)
    <3>1. n = SentToAll(k, s, frame)
      BY <1>6, <2>2
    <3>2. Follows(k, n)
      BY <1>5, <1>7, <3>1, SendingFollows
    <3>3. FormatIn(k, frame) = FormatIn(m, frame)
      BY <1>4 DEF FormatIn
    <3>4. \A g \in Graph : Got(g, k.fg[g], n.fg[g], s, frame, FormatIn(k, frame))
      BY <1>5, <1>7, <3>1, SendingGives
    <3> QED BY <1>4, <2>2, <3>2, <3>3, <3>4 DEF Follows, SameInputs, Receives
  <2> QED BY <2>1, <2>2
<1> HIDE DEF xs, h
<1>9. n.held[s] = xs /\ \A t \in Stream \ {s} : n.held[t] = m.held[t]
  BY <1>2, <1>4, <1>8
<1>16. xs \in Seq(Frame) /\ Leaves(m, n, s, frame, xs)
  <2>1. xs \in Seq(Frame) /\ <<frame>> \o xs = h
    BY <1>2, HeldParts DEF frame, xs, h
  <2> QED BY Zenon, <1>9, <2>1 DEF Leaves, h
<1>10. \A g \in Graph : s \in InputsOf(g) => ~m.fg[g].eof[s]
  BY DEF Tale, Expects
<1>11. ASSUME NEW g \in Graph, NEW t \in InputsOf(g) PROVE Expects(n, g, t) /\ n.fg[g].eof[t] = m.fg[g].eof[t]
  <2>1. Expects(m, g, t) /\ t \in Stream
    BY StreamAssumption DEF Tale
  <2> QED BY <1>5, <1>8, <1>9, <1>10, <2>1, ExpectsOut
<1>12. ASSUME NEW g \in Graph
       PROVE  FramesFit(g, n.fg[g]) /\ m.fg[g].lost \subseteq n.fg[g].lost /\ (Uniform(g) => n.fg[g].lost = {})
  <2>1. FramesFit(g, m.fg[g]) /\ (Uniform(g) => m.fg[g].lost = {})
    BY DEF Tale, Accounts, AllFramesFit
  <2>2. CASE ~Sane(frame, m.opt)
    BY <1>8, <2>1, <2>2 DEF Receives
  <2>3. CASE Sane(frame, m.opt)
    <3>1. Got(g, m.fg[g], n.fg[g], s, frame, FormatIn(m, frame))
      BY <1>8, <2>3 DEF Receives
    <3>2. FramesFit(g, n.fg[g]) /\ m.fg[g].lost \subseteq n.fg[g].lost
      BY <3>1 DEF Got, Gains, Passes
    <3>3. ASSUME Uniform(g) PROVE n.fg[g].lost = m.fg[g].lost
      <4>1. CASE s \in InputsOf(g)
        <5>1. frame \in From(s) /\ Expects(m, g, s) /\ ~m.fg[g].eof[s]
          BY <1>5, <1>10, <4>1 DEF From, Tale
        <5>2. m.fg[g].format[s] \in {NoFormat, FormatIn(m, frame)}
          BY <3>3, <5>1 DEF Expects
        <5> QED BY <3>1, <4>1, <5>2 DEF Got
      <4>2. CASE s \notin InputsOf(g)
        BY <3>1, <4>2 DEF Got, SameFate
      <4> QED BY <4>1, <4>2
    <3> QED BY <2>1, <3>2, <3>3
  <2> QED BY <2>2, <2>3
<1>13. Account(n)
  BY <1>5, <1>8, <1>9, <1>12, <1>16, AccountsOut DEF Tale, Accounts
<1>14. \A t \in Stream : HeldFit(n, t)
  <2>1. HeldFit(n, s)
    <3>1. HeldFit(m, s)
      BY DEF Tale, Accounts
    <3> QED BY <1>2, <1>8, <1>9, <3>1, HeldFitOut DEF h, xs
  <2>2. ASSUME NEW t \in Stream \ {s} PROVE HeldFit(n, t)
    <3>1. HeldFit(m, t)
      BY DEF Tale, Accounts
    <3> QED BY <1>8, <1>9, <3>1 DEF HeldFit
  <2> QED BY <2>1, <2>2
<1>15. Accounts(n)
  BY <1>8, <1>12, <1>13, <1>14 DEF Tale, Accounts, AllFramesFit
<1> QED BY <1>11, <1>15 DEF Tale

\* The graph q has become r as it got the end of s, if s is one of its inputs.
Ends1(g, q, r, s) ==
  IF s \in InputsOf(g)
  THEN /\ Passes(g, q, r) /\ r.lost = q.lost /\ r.eof[s]
       /\ \A t \in InputsOf(g) \ {s} : r.eof[t] = q.eof[t] /\ r.format[t] = q.format[t]
  ELSE r = q

\* All graphs that s feeds get its end.
LEMMA EndingEnds ==
  ASSUME NEW m, Good(m), AllFramesFit(m), NEW s
  PROVE  LET n == EndedForAll(m, s)
         IN AllFramesFit(n) /\ \A g \in Graph : Ends1(g, m.fg[g], n.fg[g], s)
<1> DEFINE Has(n, g) == Ends1(g, m.fg[g], n.fg[g], s)
           UpTo3(n, i) == AllFramesFit(n) /\ \A g \in Graph : IF g <= i THEN Has(n, g) ELSE n.fg[g] = m.fg[g]
           T(F) == {i \in 0..NumGraphs : Good(F[i]) /\ UpTo3(F[i], i)}
<1>1. PICK F : IsEnding(F, m, s)
  BY EndingSteps
<1>2. F[0] = m /\ EndedForAll(m, s) = F[NumGraphs] /\ \A g \in Graph : F[g] = SendEofTo(F[g - 1], g, s)
  BY <1>1 DEF IsEnding
<1>3. NumGraphs \in Nat /\ Graph = 1..NumGraphs
  BY FilterAssumption DEF Graph
<1>4. 0 \in T(F)
  BY <1>2, <1>3
<1>5. ASSUME NEW i \in 1..NumGraphs, i - 1 \in T(F) PROVE i \in T(F)
  <2> DEFINE l == F[i - 1]
             n == F[i]
  <2>1. Good(l) /\ UpTo3(l, i - 1) /\ i \in Graph /\ n = SendEofTo(l, i, s)
    BY <1>2, <1>3, <1>5
  <2> HIDE DEF l, n, Has
  <2>2. AllFramesFit(l) /\ (\A g \in Graph : IF g <= i - 1 THEN Has(l, g) ELSE l.fg[g] = m.fg[g]) /\ l.fg[i] = m.fg[i]
    BY <1>3, <2>1
  <2>3. Good(n) /\ AllFramesFit(n) /\ Has(n, i) /\ \A h \in Graph \ {i} : n.fg[h] = l.fg[h]
    <3>1. CASE s \in InputsOf(i)
      <4>1. n = SendEof(l, i, s)
        BY <2>1, <3>1 DEF SendEofTo
      <4>2. Follows(l, n) /\ EndNoted(l, n, i, s)
        BY <2>1, <2>2, <3>1, <4>1, SendEofFollows, SendEofCarries
      <4>3. AllFramesFit(n) /\ Passes(i, l.fg[i], n.fg[i])
        BY <2>1, <4>2, CarriesFit DEF EndNoted, Carries
      <4> QED BY <2>1, <2>2, <3>1, <4>2, <4>3 DEF EndNoted, Follows, Has, Ends1
    <3>2. CASE s \notin InputsOf(i)
      <4>1. n = l
        BY <2>1, <3>2 DEF SendEofTo
      <4> QED BY <2>1, <2>2, <3>2, <4>1 DEF Has, Ends1
    <3> QED BY <3>1, <3>2
  <2>4. ASSUME NEW g \in Graph PROVE IF g <= i THEN Has(n, g) ELSE n.fg[g] = m.fg[g]
    <3>1. CASE g = i
      BY <1>3, <2>3, <3>1
    <3>2. CASE g # i
      <4>1. n.fg[g] = l.fg[g] /\ ((g <= i - 1) <=> (g <= i))
        BY <1>3, <2>3, <3>2
      <4>2. Has(l, g) => Has(n, g)
        BY <4>1 DEF Has
      <4> QED BY <2>2, <4>1, <4>2
    <3> QED BY <3>1, <3>2
  <2>5. i \in 0..NumGraphs
    BY <1>3
  <2> QED BY <2>3, <2>4, <2>5 DEF n
<1> HIDE DEF T
<1>6. NumGraphs \in T(F)
  <2>1. NumGraphs \in 0..NumGraphs
    BY <1>3
  <2>2. \A i \in 1..NumGraphs : i - 1 \in T(F) => i \in T(F)
    BY <1>5
  <2> DEFINE X == T(F)
  <2> HIDE DEF X
  <2> QED BY <1>3, <1>4, <2>1, <2>2, UpTo DEF X
<1>7. UpTo3(F[NumGraphs], NumGraphs)
  BY <1>6 DEF T
<1> HIDE DEF Has
<1>8. AllFramesFit(F[NumGraphs]) /\ \A g \in Graph : Has(F[NumGraphs], g)
  BY <1>3, <1>7
<1> QED BY <1>2, <1>8 DEF Has

\* An input comes to its end, when its decoder holds nothing any more.
LEMMA EndingTells ==
  ASSUME NEW m, Good(m), NEW s \in Stream, m.held[s] = <<>>, NEW S, s \in S
  PROVE  Tells(m, EndedForAll(m, s), S)
<1> DEFINE n == EndedForAll(m, s)
<1>1. Follows(m, n) /\ Goes(m, n)
  BY EndingFollows, FollowsGoes
<1> SUFFICES ASSUME n.how = "ok", m.opt = opt, Tale(m)
             PROVE  Tale(n) /\ \A g \in Graph : \A t \in InputsOf(g) \ S : n.fg[g].eof[t] = m.fg[g].eof[t]
  BY <1>1 DEF Tells
<1>2. AllFramesFit(n) /\ \A g \in Graph : Ends1(g, m.fg[g], n.fg[g], s)
  BY EndingEnds DEF Tale, Accounts
<1>3. n.held = m.held /\ n.given = m.given /\ n.opt = m.opt /\ n.dec = m.dec
  BY <1>1 DEF Follows, SameInputs
<1> HIDE DEF n
<1>4. Carries(m, n) /\ \A g \in Graph : n.fg[g].lost = m.fg[g].lost
  <2>1. ASSUME NEW g \in Graph PROVE Passes(g, m.fg[g], n.fg[g]) /\ n.fg[g].lost = m.fg[g].lost
    <3>1. FramesFit(g, m.fg[g])
      BY DEF Tale, Accounts, AllFramesFit
    <3>2. n.fg[g] = m.fg[g] => Passes(g, m.fg[g], n.fg[g])
      BY <3>1, SameFramesPass DEF SameFrames
    <3> QED BY <1>2, <3>2 DEF Ends1
  <2> QED BY <2>1 DEF Carries
<1>5. Accounts(n)
  BY <1>3, <1>4, CarriesAccounts DEF Tale
<1>6. ASSUME NEW g \in Graph, NEW t \in InputsOf(g)
      PROVE  Expects(n, g, t) /\ (t \notin S => n.fg[g].eof[t] = m.fg[g].eof[t])
  <2>1. Expects(m, g, t)
    BY DEF Tale
  <2>2. CASE t = s
    BY <1>2, <1>3, <2>2 DEF Ends1, Expects
  <2>3. CASE t # s
    <3>1. n.fg[g].eof[t] = m.fg[g].eof[t] /\ n.fg[g].format[t] = m.fg[g].format[t]
      BY <1>2, <2>3 DEF Ends1
    <3> QED BY <1>3, <2>1, <3>1 DEF Expects, FormatIn
  <2> QED BY <2>2, <2>3
<1> QED BY <1>5, <1>6 DEF Tale

\* A list of such steps.
LEMMA ListTells ==
  ASSUME NEW m, NEW F, NEW S, NEW n \in Nat, Good(m), F[0] = m,
         \A i \in 1..n : Good(F[i - 1]) => Tells(F[i - 1], F[i], S)
  PROVE  Tells(m, F[n], S)
<1> DEFINE T == {i \in 0..n : Tells(m, F[i], S)}
<1>1. 0 \in T
  BY TellsRefl
<1>2. ASSUME NEW i \in 1..n, i - 1 \in T PROVE i \in T
  <2>1. Tells(m, F[i - 1], S) /\ Good(F[i - 1]) /\ i \in 0..n
    BY <1>2 DEF Tells, Goes
  <2>2. Tells(F[i - 1], F[i], S)
    BY <2>1
  <2>3. Tells(m, F[i], S)
    BY <2>1, <2>2, TellsTrans
  <2> QED BY <2>1, <2>3
<1> HIDE DEF T
<1>3. \A i \in 0..n : i \in T
  BY <1>1, <1>2, UpTo
<1> QED BY <1>3 DEF T

\* The streams of a file are drained.
LEMMA DrainedTells ==
  ASSUME NEW m, Good(m), NEW f \in InFile, NEW noEof \in BOOLEAN, NEW S, noEof \/ ToSet(Streams[f]) \subseteq S
  PROVE  Tells(m, Drained(m, f, noEof), S)
<1> DEFINE xs == Streams[f]
           k == Len(xs)
<1>1. PICK F : IsDraining(F, m, f, noEof)
  BY DrainingSteps
<1>2. F[0] = m /\ \A i \in 1..k : F[i] = DrainStream(F[i - 1], xs[i], noEof)
  BY <1>1 DEF IsDraining
<1>3. k \in Nat /\ \A i \in 1..k : xs[i] \in Stream /\ xs[i] \in ToSet(xs)
  <2>1. xs \in Seq(Stream)
    BY MediaAssumption
  <2>2. k \in Nat /\ DOMAIN xs = 1..k /\ \A i \in 1..k : xs[i] \in Stream
    BY <2>1, LenProperties, ElementOfSeq
  <2> QED BY <2>2 DEF ToSet
<1>4. ASSUME NEW i \in 1..k, Good(F[i - 1]) PROVE Tells(F[i - 1], F[i], S)
  <2> DEFINE l == F[i - 1]
             n == F[i]
             s == xs[i]
  <2>1. Good(l) /\ s \in Stream /\ (noEof \/ s \in S) /\ (n = l \/ n = ProcessEof(l, s, noEof))
    BY <1>2, <1>3, <1>4 DEF DrainStream
  <2> HIDE DEF l, n, s
  <2>2. Tells(l, l, S)
    BY <2>1, TellsRefl
  <2>3. l.held[s] # <<>> => Tells(l, Decoded(l, s), S)
    BY <2>1, DecodedTells
  <2>4. l.held[s] = <<>> /\ ~noEof => Tells(l, EndedForAll(l, s), S)
    BY <2>1, EndingTells
  <2>5. Tells(l, ProcessEof(l, s, noEof), S)
    BY <2>2, <2>3, <2>4 DEF ProcessEof, EndedForAll
  <2> QED BY <2>1, <2>2, <2>5 DEF l, n
<1> HIDE DEF k, xs
<1>5. Tells(m, F[k], S)
  BY <1>2, <1>3, <1>4, ListTells
<1> QED BY <1>1, <1>5 DEF IsDraining, k, xs

\* All are.
LEMMA DrainingAllTells ==
  ASSUME NEW m, Good(m)
  PROVE  Tells(m, FoldLeft(DrainFile, m, FilesInOrder), Stream)
<1>1. PICK F : IsDrainingAll(F, m)
  BY DrainingAllSteps
<1>2. F[0] = m /\ \A f \in InFile : F[f] = DrainFile(F[f - 1], f)
  BY <1>1 DEF IsDrainingAll
<1>3. NumFiles \in Nat /\ InFile = 1..NumFiles
  BY MediaAssumption DEF InFile
<1>4. ASSUME NEW f \in 1..NumFiles, Good(F[f - 1]) PROVE Tells(F[f - 1], F[f], Stream)
  <2> DEFINE l == F[f - 1]
             k == Drained(l, f, FALSE)
  <2>1. f \in InFile /\ Good(l) /\ (F[f] = l \/ F[f] = k)
    BY <1>2, <1>3, <1>4 DEF DrainFile
  <2>2. ToSet(Streams[f]) \subseteq Stream
    BY <2>1 DEF Stream
  <2>3. Tells(l, k, Stream) /\ Tells(l, l, Stream)
    BY <2>1, <2>2, DrainedTells, TellsRefl
  <2> HIDE DEF l, k
  <2> QED BY <2>1, <2>3 DEF l
<1>5. Tells(m, F[NumFiles], Stream)
  BY <1>2, <1>3, <1>4, ListTells
<1> QED BY <1>1, <1>5 DEF IsDrainingAll

\* A packet goes into the decoder of s, which has not come to its end.
LEMMA PutInTells ==
  ASSUME NEW m, Good(m), NEW s \in Stream, NEW frame \in Frame, s = SourceOf(frame), NEW S,
         \A g \in Graph : s \in InputsOf(g) => ~m.fg[g].eof[s]
  PROVE  Tells(m, [m EXCEPT !.held[s] = Append(@, frame), !.given[s] = Append(@, frame)], S)
<1> DEFINE h == m.held[s]
           v == m.given[s]
           n == [m EXCEPT !.held[s] = Append(h, frame), !.given[s] = Append(v, frame)]
           one == <<frame>>
<1>1. DOMAIN m = StateFields /\ DOMAIN m.held = Stream /\ \A t \in Stream : m.held[t] \in Seq(Frame)
  BY DEF Good, Sound, InputsFit
<1>2. Goes(m, n)
  <2> DEFINE xs == Append(h, frame)
  <2>1. HoldsNow(m, n, s, xs)
    BY DEF HoldsNow
  <2>2. xs \in Seq(Frame)
    BY <1>1
  <2> HIDE DEF n, xs
  <2> QED BY <2>1, <2>2, HeldPut
<1> SUFFICES ASSUME m.opt = opt, Tale(m)
             PROVE  Tale(n) /\ \A g \in Graph : \A t \in InputsOf(g) \ S : n.fg[g].eof[t] = m.fg[g].eof[t]
  BY <1>2 DEF Tells
<1>3. HeldFit(m, s) /\ AllFramesFit(m) /\ DOMAIN m.given = Stream /\ Account(m)
  BY DEF Tale, Accounts
<1>4. /\ n.fg = m.fg /\ n.dec = m.dec /\ n.opt = m.opt
      /\ n.held = [m.held EXCEPT ![s] = Append(h, frame)] /\ n.given = [m.given EXCEPT ![s] = Append(v, frame)]
  BY <1>1 DEF StateFields
<1> HIDE DEF n
<1>5. h \in Seq(Frame) /\ v \in Seq(Frame) /\ one \in Seq(Frame)
  BY <1>1, <1>3 DEF HeldFit
<1>6. n.held[s] = h \o one /\ n.given[s] = v \o one
  <2>1. n.held[s] = Append(h, frame) /\ n.given[s] = Append(v, frame)
    BY <1>1, <1>3, <1>4
  <2>2. Append(h, frame) = h \o one /\ Append(v, frame) = v \o one
    BY <1>5, AppendIsConcat
  <2> QED BY Zenon, <2>1, <2>2
<1>7. \A t \in Stream \ {s} : n.held[t] = m.held[t] /\ n.given[t] = m.given[t]
  BY <1>1, <1>3, <1>4
<1>8. ASSUME NEW g \in Graph, NEW t \in InputsOf(g), NEW o \in OutputsOf(g), NEW P \in SUBSET Wanted(n.fg[g], t, n.opt)
      PROVE  Only(P, n.given[t]) = Only(P, Line(n.fg[g], t, o)) \o Only(P, n.held[t])
  <2> DEFINE line == Line(m.fg[g], t, o)
             a == Only(P, line)
  <2>1. Only(P, m.given[t]) = a \o Only(P, m.held[t])
    <3>1. P \in SUBSET Wanted(m.fg[g], t, m.opt)
      BY <1>4
    <3>2. Account(m)
      BY <1>3
    <3> QED BY Zenon, <3>1, <3>2 DEF Account
  <2>2. GraphFits(g, m.fg[g], m.opt) /\ FramesFit(g, m.fg[g]) /\ t \in Stream
    BY <1>3, StreamAssumption DEF Good, GraphsFit, AllFramesFit
  <2>3. Line(n.fg[g], t, o) = line
    BY <1>4
  <2>4. CASE t # s
    <3>1. n.held[t] = m.held[t] /\ n.given[t] = m.given[t]
      BY <1>7, <2>2, <2>4
    <3> QED BY Zenon, <2>1, <2>3, <3>1
  <2>5. CASE t = s
    <3>1. line \in Seq(Frame)
      BY <2>2, LineIs
    <3> HIDE DEF h, v, one, line
    <3>2. Only(P, h \o one) = Only(P, h) \o Only(P, one)
      BY <1>5, OnlyConcat
    <3>3. Only(P, v \o one) = Only(P, v) \o Only(P, one)
      BY <1>5, OnlyConcat
    <3>4. a \in Seq(Frame) /\ Only(P, h) \in Seq(Frame) /\ Only(P, one) \in Seq(Frame)
      BY <1>5, <3>1, OnlyIn
    <3>5. a \o (Only(P, h) \o Only(P, one)) = (a \o Only(P, h)) \o Only(P, one)
      BY <3>4, Regroup
    <3>6. Only(P, v) = a \o Only(P, h)
      BY Zenon, <2>1, <2>5 DEF h, v
    <3> QED BY Zenon, <1>6, <2>3, <2>5, <3>2, <3>3, <3>5, <3>6
  <2> QED BY <2>4, <2>5
<1>9. HeldFit(n, s)
  <2>1. PICK xs \in Seq(Frame) : v = xs \o h
    BY <1>3 DEF HeldFit
  <2>2. \A i \in 1..Len(h) : SourceOf(h[i]) = s
    BY <1>3 DEF HeldFit
  <2>3. Len(one) = 1 /\ one[1] = frame
    OBVIOUS
  <2> DEFINE ys == h \o one
  <2> HIDE DEF h, v, one
  <2>4. xs \o (h \o one) = (xs \o h) \o one
    BY <1>5, Regroup
  <2>5. n.given[s] = xs \o ys
    BY Zenon, <1>6, <2>1, <2>4
  <2>6. /\ ys \in Seq(Frame) /\ Len(ys) = Len(h) + Len(one)
        /\ \A i \in 1..(Len(h) + Len(one)) : ys[i] = IF i <= Len(h) THEN h[i] ELSE one[i - Len(h)]
    BY <1>5, ConcatProperties
  <2>7. n.given[s] \in Seq(Frame)
    BY <1>5, <1>6, ConcatProperties
  <2>8. n.held[s] = ys
    BY <1>6
  <2> HIDE DEF ys
  <2>9. Len(h) \in Nat
    BY <1>5, LenProperties
  <2>10. ASSUME NEW i \in 1..Len(ys) PROVE SourceOf(ys[i]) = s
    <3>1. CASE i <= Len(h)
      BY <2>2, <2>3, <2>6, <2>9, <3>1
    <3>2. CASE ~(i <= Len(h))
      <4>1. i - Len(h) = 1 /\ i \in 1..(Len(h) + Len(one))
        BY <2>3, <2>6, <2>9, <3>2
      <4>2. ys[i] = one[1]
        BY <2>6, <3>2, <4>1
      <4> QED BY <2>3, <4>2
    <3> QED BY <3>1, <3>2
  <2> QED BY <2>5, <2>7, <2>8, <2>10 DEF HeldFit
<1>10. ASSUME NEW t \in Stream PROVE HeldFit(n, t)
  <2>1. HeldFit(m, t)
    BY DEF Tale, Accounts
  <2> QED BY <1>7, <1>9, <2>1 DEF HeldFit
<1>11. ASSUME NEW g \in Graph, NEW t \in InputsOf(g) PROVE Expects(n, g, t)
  <2>1. Expects(m, g, t) /\ t \in Stream /\ n.fg[g] = m.fg[g] /\ (t = s => ~m.fg[g].eof[t])
    BY <1>4, StreamAssumption DEF Tale
  <2>2. t # s => n.held[t] = m.held[t]
    BY <1>7, <2>1
  <2>3. \A fr : FormatIn(n, fr) = FormatIn(m, fr)
    BY <1>4 DEF FormatIn
  <2> QED BY <2>1, <2>2, <2>3 DEF Expects
<1>12. AllFramesFit(n) /\ DOMAIN n.given = Stream /\ \A g \in Graph : Uniform(g) => n.fg[g].lost = {}
  BY <1>3, <1>4 DEF AllFramesFit, Tale, Accounts
<1>13. Account(n)
  BY <1>8 DEF Account
<1> QED BY <1>4, <1>10, <1>11, <1>12, <1>13 DEF Tale, Accounts

\* What follows xs is cut off again.
LEMMA CutOff ==
  ASSUME NEW xs \in Seq(Frame), NEW ys \in Seq(Frame), NEW v, v = xs \o ys
  PROVE  SubSeq(v, 1, Len(v) - Len(ys)) = xs
<1>1. /\ v \in Seq(Frame) /\ Len(v) = Len(xs) + Len(ys)
      /\ \A i \in 1..(Len(xs) + Len(ys)) : v[i] = IF i <= Len(xs) THEN xs[i] ELSE ys[i - Len(xs)]
  BY ConcatProperties
<1>2. Len(xs) \in Nat /\ Len(ys) \in Nat
  BY LenProperties
<1> DEFINE k == Len(v) - Len(ys)
           w == SubSeq(v, 1, k)
<1>3. k = Len(xs) /\ k \in 0..Len(v)
  BY <1>1, <1>2
<1> HIDE DEF k
<1>4. w \in Seq(Frame) /\ Len(w) = k /\ \A i \in 1..k : w[i] = v[i]
  BY <1>1, <1>3, SubSeqProperties, ElementOfSeq
<1>5. \A i \in 1..Len(xs) : w[i] = xs[i]
  BY <1>1, <1>2, <1>3, <1>4
<1> HIDE DEF w
<1>6. w = xs
  BY <1>3, <1>4, <1>5, SeqEqual
<1> QED BY <1>6 DEF w, k

-----------------------------------------------------------------------------
(* The tale, and how far the files are. *)

\* An input has come to its end in a graph only if its file has.
Finished(m) ==
  \A g \in Graph : \A s \in InputsOf(g) : m.fg[g].eof[s] => m.ifile[FileOf(s)].eofReached

\* A step over which this stays true, with the tale.
Moves(m, n) ==
  /\ Goes(m, n)
  /\ n.how = "ok" /\ m.opt = opt /\ Tale(m) /\ Finished(m) => Tale(n) /\ Finished(n)

LEMMA MovesRefl ==
  ASSUME NEW m, Good(m)
  PROVE  Moves(m, m)
BY GoesRefl DEF Moves

LEMMA MovesTrans ==
  ASSUME NEW l, NEW m, NEW n, Moves(l, m), Moves(m, n)
  PROVE  Moves(l, n)
<1>1. Goes(l, n)
  BY GoesTrans DEF Moves
<1>2. n.how = "ok" => m.how = "ok"
  BY DEF Moves, Goes
<1>3. m.opt = l.opt
  BY DEF Moves, Goes
<1> QED BY <1>1, <1>2, <1>3 DEF Moves

\* No input ends, and no file starts again that is at its end.
LEMMA TellsMoves ==
  ASSUME NEW m, NEW n, Tells(m, n, {}), \A f \in InFile : m.ifile[f].eofReached => n.ifile[f].eofReached
  PROVE  Moves(m, n)
<1>1. \A g \in Graph : \A s \in InputsOf(g) : FileOf(s) \in InFile
  BY FileOfIs, StreamAssumption
<1> QED BY <1>1 DEF Tells, Moves, Finished

\* The graphs and the files stay as they are.
LEMMA StayMoves ==
  ASSUME NEW m, NEW n, Goes(m, n), n.held = m.held, n.given = m.given, n.fg = m.fg,
         \A f \in InFile : n.ifile[f].eofReached = m.ifile[f].eofReached
  PROVE  Moves(m, n)
BY GraphsStay, TellsMoves

LEMMA ProcessPacketMoves ==
  ASSUME NEW m, Good(m), NEW s \in Stream, NEW frame \in Frame, s = SourceOf(frame), ~m.ifile[FileOf(s)].eofReached
  PROVE  Moves(m, ProcessPacket(m, s, frame))
<1> DEFINE k == [m EXCEPT !.held[s] = Append(@, frame), !.given[s] = Append(@, frame)]
           xs == Append(m.held[s], frame)
           n == ProcessPacket(m, s, frame)
<1>1. Goes(m, n)
  BY ProcessPacketGoes
<1>2. xs \in Seq(Frame) /\ xs # <<>>
  <2>1. m.held[s] \in Seq(Frame)
    BY DEF Good, InputsFit
  <2> QED BY <2>1
<1>3. Good(k) /\ k.held[s] = xs /\ k.ifile = m.ifile
  <2>1. HoldsNow(m, k, s, xs)
    BY DEF k, xs, HoldsNow
  <2> HIDE DEF k, xs
  <2> QED BY <1>2, <2>1, HeldPut DEF Goes
<1>4. n = k \/ n = Decoded(k, s)
  BY DEF ProcessPacket
<1>5. ASSUME Finished(m) PROVE Tells(m, k, {})
  <2>1. \A g \in Graph : s \in InputsOf(g) => ~m.fg[g].eof[s]
    BY <1>5 DEF Finished
  <2> QED BY <2>1, PutInTells
<1> HIDE DEF n, k, xs
<1>6. Tells(k, k, {}) /\ Tells(k, Decoded(k, s), {}) /\ Decoded(k, s).ifile = k.ifile
  BY <1>2, <1>3, TellsRefl, DecodedTells, DecodedGoes
<1>7. ASSUME Finished(m) PROVE Moves(m, n)
  <2>1. Tells(m, n, {}) /\ n.ifile = m.ifile
    BY <1>3, <1>4, <1>5, <1>6, <1>7, TellsTrans
  <2> QED BY <2>1, TellsMoves
<1> QED BY <1>1, <1>7 DEF Moves, n

\* A packet is read.
LEMMA ReadPacketMoves ==
  ASSUME NEW m, Good(m), NEW f \in InFile, m.ifile[f].pos <= Len(Media[f]), ~m.ifile[f].eofReached
  PROVE  Moves(m, ReadPacket(m, f))
<1> DEFINE r == m.ifile[f]
           frame == <<f, r.pos, r.loop>>
           s == PacketAt(frame).stream
           k == [m EXCEPT !.ifile[f].pos = @ + 1]
           l == ResetEagain(k)
           n == ReadPacket(m, f)
<1>0. /\ DOMAIN r = FileFields /\ r.pos \in 1..(Len(Media[f]) + 1) /\ r.loop \in Nat
      /\ DOMAIN m = StateFields /\ DOMAIN m.ifile = InFile
  BY DEF Good, Sound, InputsFit, FileFits
<1>1. Len(Media[f]) \in Nat /\ DOMAIN Media[f] = 1..Len(Media[f])
      /\ \A i \in 1..Len(Media[f]) : Media[f][i].stream \in Stream
  BY MediaIs
<1>2. r.pos \in 1..Len(Media[f]) /\ r.pos \in Nat
  BY <1>0, <1>1
<1>3. frame \in Frame /\ s \in Stream /\ s = SourceOf(frame)
  <2>1. frame[1] = f /\ frame[2] = r.pos /\ frame[3] = r.loop
    OBVIOUS
  <2>2. frame \in InFile \X Nat \X Nat
    BY <1>0, <1>2
  <2>3. s = Media[f][r.pos].stream
    BY <2>1 DEF PacketAt
  <2> QED BY <1>1, <1>2, <2>1, <2>2, <2>3 DEF Frame, SourceOf
<1>4. FileOf(s) = f
  <2>1. frame[1] = f
    OBVIOUS
  <2> HIDE DEF frame, s
  <2> QED BY <1>3, <2>1, FileOfFrame
<1>5. Moves(m, l) /\ ~l.ifile[f].eofReached
  <2> DEFINE moved == [r EXCEPT !.pos = @ + 1]
  <2>1. FileFits(f, moved) /\ moved.eofReached = r.eofReached
    BY <1>0, <1>1, <1>2 DEF FileFits, FileFields
  <2>2. FileNow(m, k, f, moved) /\ k.given = m.given
    BY <1>0 DEF FileNow, StateFields
  <2> HIDE DEF k, moved, r
  <2>3. Goes(m, k) /\ Good(k) /\ k.ifile[f] = moved
    BY <2>1, <2>2, FileNowGoes DEF Goes
  <2>4. \A e \in InFile : k.ifile[e].eofReached = m.ifile[e].eofReached
    BY <1>0, <2>1, <2>2 DEF FileNow, r
  <2>5. Moves(m, k)
    <3>1. k.held = m.held /\ k.given = m.given /\ k.fg = m.fg
      BY <2>2 DEF FileNow
    <3> QED BY <2>3, <2>4, <3>1, StayMoves
  <2>6. Goes(k, l) /\ l.held = k.held /\ l.given = k.given /\ l.fg = k.fg
        /\ \A e \in InFile : l.ifile[e].eofReached = k.ifile[e].eofReached
    BY <2>3, ResetEagainGoes
  <2>7. Moves(k, l)
    BY <2>6, StayMoves
  <2> QED BY <2>4, <2>5, <2>6, <2>7, MovesTrans DEF r
<1>6. n = l \/ n = ProcessPacket(l, s, frame)
  BY DEF ReadPacket
<1> HIDE DEF n, l, k, s, frame, r
<1>7. Good(l)
  BY <1>5 DEF Moves, Goes
<1>8. Moves(l, ProcessPacket(l, s, frame)) /\ Moves(l, l)
  BY <1>3, <1>4, <1>5, <1>7, ProcessPacketMoves, MovesRefl
<1> QED BY <1>5, <1>6, <1>8, MovesTrans DEF n

\* A file starts over: what the decoders of its streams still hold is lost.
LEMMA StartedOverMoves ==
  ASSUME NEW m, Good(m), NEW f \in InFile, m.ifile[f].loop > 0
  PROVE  Moves(m, StartedOver(m, f))
<1> DEFINE r == m.ifile[f]
           n == StartedOver(m, f)
<1>1. Goes(m, n)
  BY StartedOverGoes
<1>2. /\ DOMAIN m = StateFields /\ DOMAIN m.ifile = InFile /\ DOMAIN r = FileFields
      /\ \A t \in Stream : m.held[t] \in Seq(Frame)
  BY DEF Good, Sound, InputsFit, FileFits
<1>3. /\ n.fg = m.fg /\ n.dec = m.dec /\ n.opt = m.opt
      /\ n.held = [s \in Stream |-> IF FileOf(s) = f THEN <<>> ELSE m.held[s]]
      /\ n.given = [s \in Stream |-> IF FileOf(s) = f
                                     THEN SubSeq(m.given[s], 1, Len(m.given[s]) - Len(m.held[s])) ELSE m.given[s]]
      /\ n.ifile = [m.ifile EXCEPT ![f] = [[r EXCEPT !.pos = 1] EXCEPT !.loop = @ - 1]]
  BY ZenonT(60), <1>2 DEF StartedOver, StateFields
<1> HIDE DEF n
<1>4. \A e \in InFile : n.ifile[e].eofReached = m.ifile[e].eofReached
  BY <1>2, <1>3 DEF FileFields
<1>13. Finished(m) => Finished(n)
  BY <1>3, <1>4, FileOfIs, StreamAssumption DEF Finished
<1> SUFFICES ASSUME Tale(m) PROVE Tale(n)
  BY <1>1, <1>13 DEF Moves, n
<1>5. AllFramesFit(m) /\ Account(m) /\ \A t \in Stream : HeldFit(m, t)
  BY DEF Tale, Accounts
<1>6. ASSUME NEW t \in Stream, FileOf(t) = f
      PROVE  /\ n.held[t] = <<>> /\ n.given[t] \in Seq(Frame)
             /\ m.given[t] = n.given[t] \o m.held[t]
  <2> DEFINE v == m.given[t]
             ys == m.held[t]
  <2>1. n.held[t] = <<>> /\ n.given[t] = SubSeq(v, 1, Len(v) - Len(ys))
    BY <1>3, <1>6
  <2>2. PICK xs \in Seq(Frame) : v = xs \o ys
    BY <1>5 DEF HeldFit
  <2>3. ys \in Seq(Frame)
    BY <1>2
  <2> HIDE DEF v, ys
  <2>4. n.given[t] = xs
    BY <2>1, <2>2, <2>3, CutOff
  <2> QED BY Zenon, <2>1, <2>2, <2>4 DEF v, ys
<1>7. \A t \in Stream : FileOf(t) # f => n.held[t] = m.held[t] /\ n.given[t] = m.given[t]
  BY <1>3
<1>8. ASSUME NEW g \in Graph, NEW t \in InputsOf(g), NEW o \in OutputsOf(g), NEW P \in SUBSET Wanted(n.fg[g], t, n.opt)
      PROVE  Only(P, n.given[t]) = Only(P, Line(n.fg[g], t, o)) \o Only(P, n.held[t])
  <2> DEFINE a == Only(P, Line(m.fg[g], t, o))
  <2>1. Only(P, m.given[t]) = a \o Only(P, m.held[t])
    <3>1. P \in SUBSET Wanted(m.fg[g], t, m.opt)
      BY <1>3
    <3> QED BY Zenon, <1>5, <3>1 DEF Account
  <2>2. GraphFits(g, m.fg[g], m.opt) /\ FramesFit(g, m.fg[g]) /\ t \in Stream
    BY <1>5, StreamAssumption DEF Good, GraphsFit, AllFramesFit
  <2>3. Line(n.fg[g], t, o) = Line(m.fg[g], t, o)
    BY <1>3
  <2>4. CASE FileOf(t) # f
    BY Zenon, <1>7, <2>1, <2>2, <2>3, <2>4
  <2>5. CASE FileOf(t) = f
    <3> DEFINE line == Line(m.fg[g], t, o)
               xs == n.given[t]
               ys == m.held[t]
    <3>1. line \in Seq(Frame) /\ xs \in Seq(Frame) /\ ys \in Seq(Frame)
      BY <1>2, <1>6, <2>2, <2>5, LineIs
    <3>2. m.given[t] = xs \o ys
      BY Zenon, <1>6, <2>2, <2>5
    <3> HIDE DEF line, xs, ys
    <3>3. Only(P, xs \o ys) = Only(P, xs) \o Only(P, ys)
      BY <3>1, OnlyConcat
    <3>4. a \in Seq(Frame) /\ Only(P, xs) \in Seq(Frame) /\ Only(P, ys) \in Seq(Frame)
      BY <3>1, OnlyIn DEF line
    <3>5. Only(P, xs) \o Only(P, ys) = a \o Only(P, ys)
      BY Zenon, <2>1, <3>2, <3>3 DEF ys
    <3> HIDE DEF a
    <3>6. Only(P, xs) = a
      <4>1. \A u, v, w \in Seq(Frame) : u \o v = w \o v => u = w
        BY Zenon, ConcatSimplifications
      <4> QED BY Zenon, <3>4, <3>5, <4>1
    <3>7. a \o <<>> = a
      BY <3>4, ConcatEmptySeq
    <3>8. n.held[t] = <<>>
      BY <1>6, <2>2, <2>5
    <3> QED BY Zenon, <2>3, <3>6, <3>7, <3>8, OnlyEmpty DEF xs, a
  <2> QED BY <2>4, <2>5
<1>9. ASSUME NEW t \in Stream PROVE HeldFit(n, t)
  <2>1. CASE FileOf(t) # f
    BY <1>5, <1>7, <2>1 DEF HeldFit
  <2>2. CASE FileOf(t) = f
    <3> DEFINE xs == n.given[t]
    <3>1. n.held[t] = <<>> /\ xs \in Seq(Frame)
      BY <1>6, <2>2
    <3> HIDE DEF xs
    <3>2. xs = xs \o <<>>
      BY <3>1, ConcatEmptySeq
    <3>3. xs = xs \o n.held[t]
      BY Zenon, <3>1, <3>2
    <3>4. \A i \in 1..Len(n.held[t]) : SourceOf(n.held[t][i]) = t
      BY <3>1
    <3> QED BY Zenon, <3>1, <3>3, <3>4 DEF HeldFit, xs
  <2> QED BY <2>1, <2>2
<1>10. ASSUME NEW g \in Graph, NEW t \in InputsOf(g) PROVE Expects(n, g, t)
  <2>1. Expects(m, g, t) /\ n.held[t] \in {m.held[t], <<>>} /\ n.fg[g] = m.fg[g]
    BY <1>3, <1>6, <1>7, StreamAssumption DEF Tale
  <2>2. \A fr : FormatIn(n, fr) = FormatIn(m, fr)
    BY <1>3 DEF FormatIn
  <2> QED BY <2>1, <2>2 DEF Expects
<1>11. AllFramesFit(n) /\ DOMAIN n.given = Stream /\ \A g \in Graph : Uniform(g) => n.fg[g].lost = {}
  BY <1>3 DEF AllFramesFit, Tale, Accounts
<1>12. Account(n)
  BY <1>8 DEF Account
<1> QED BY <1>9, <1>10, <1>11, <1>12 DEF Tale, Accounts

\* A file is at its end, for now or for good.
LEMMA RewoundMoves ==
  ASSUME NEW m, Good(m), NEW f \in InFile, AtMediaEnd(m, f)
  PROVE  Moves(m, Rewound(m, f))
<1> DEFINE again == m.ifile[f].loop > 0
           k == Drained(m, f, again)
           n == Rewound(m, f)
           S == ToSet(Streams[f])
<1>1. Goes(m, n)
  BY RewoundGoes
<1>2. Goes(m, k) /\ k.ifile = m.ifile /\ Good(k)
  BY DrainedGoes DEF Goes
<1>3. CASE again
  <2>1. n = StartedOver(k, f)
    BY <1>3 DEF Rewound
  <2>2. Tells(m, k, {})
    BY <1>3, DrainedTells
  <2> HIDE DEF k, n
  <2>3. Moves(m, k) /\ Moves(k, n)
    BY <1>2, <1>3, <2>1, <2>2, StartedOverMoves, TellsMoves
  <2> QED BY <2>3, MovesTrans DEF n
<1>4. CASE ~again
  <2>1. n = [k EXCEPT !.ifile[f].eofReached = TRUE]
    BY <1>4 DEF Rewound
  <2>2. Tells(m, k, S)
    <3>1. again \in BOOLEAN /\ ToSet(Streams[f]) \subseteq S
      OBVIOUS
    <3> HIDE DEF again, S
    <3> QED BY <3>1, DrainedTells
  <2> HIDE DEF k, n, again
  <2>3. DOMAIN k = StateFields /\ DOMAIN k.ifile = InFile /\ DOMAIN k.ifile[f] = FileFields
    BY <1>2 DEF Good, Sound, InputsFit, FileFits
  <2>4. /\ n.held = k.held /\ n.given = k.given /\ n.fg = k.fg /\ n.dec = k.dec /\ n.opt = k.opt /\ n.how = k.how
        /\ n.ifile[f].eofReached /\ \A e \in InFile \ {f} : n.ifile[e] = k.ifile[e]
    BY <2>1, <2>3 DEF StateFields, FileFields
  <2> SUFFICES ASSUME n.how = "ok", m.opt = opt, Tale(m), Finished(m) PROVE Tale(n) /\ Finished(n)
    BY <1>1 DEF Moves, n
  <2>5. Tale(k) /\ \A g \in Graph : \A s \in InputsOf(g) \ S : k.fg[g].eof[s] = m.fg[g].eof[s]
    BY <2>2, <2>4 DEF Tells
  <2>6. Tale(n)
    <3>1. Carries(k, n) /\ SameFates(k, n)
      BY <2>4, <2>5, SameFramesPass DEF AllFramesFit, Tale, Accounts, Carries, SameFates, SameFate, SameFrames
    <3> QED BY <2>4, <2>5, <3>1, CarriesTale
  <2>7. ASSUME NEW g \in Graph, NEW s \in InputsOf(g), n.fg[g].eof[s] PROVE n.ifile[FileOf(s)].eofReached
    <3>1. s \in Stream /\ FileOf(s) \in InFile
      BY StreamAssumption, FileOfIs
    <3>2. CASE s \in S
      <4>1. FileOf(s) = f
        BY <3>2, MediaAssumption DEF FileOf, S
      <4> QED BY <2>4, <4>1
    <3>3. CASE s \notin S
      <4>1. m.ifile[FileOf(s)].eofReached
        BY <2>4, <2>5, <2>7, <3>3 DEF Finished
      <4> QED BY <1>2, <2>4, <3>1, <4>1
    <3> QED BY <3>2, <3>3
  <2> QED BY <2>6, <2>7 DEF Finished
<1> QED BY <1>3, <1>4

LEMMA LocatedMoves ==
  ASSUME NEW m, Good(m), NEW f \in InFile
  PROVE  Moves(m, Located(m, f))
BY RewoundMoves, MovesRefl DEF Located

-----------------------------------------------------------------------------
(* A round of the loop, with the tale. *)

LEMMA ReapFiltersMoves ==
  ASSUME NEW m, Good(m), NEW flush
  PROVE  Moves(m, ReapFilters(m, flush))
<1> DEFINE n == ReapFilters(m, flush)
<1>1. Follows(m, n) /\ Goes(m, n)
  BY ReapFiltersIs, FollowsGoes DEF Reaps
<1>2. AllFramesFit(m) => Carries(m, n) /\ SameFates(m, n)
  BY ReapFiltersCarries
<1> HIDE DEF n
<1>3. n.ifile = m.ifile /\ n.held = m.held /\ n.given = m.given
  BY <1>1 DEF Follows, SameInputs
<1>4. Tells(m, n, {})
  BY <1>1, <1>2, <1>3, CarriesTells
<1>5. Moves(m, n)
  BY <1>3, <1>4, TellsMoves
<1> QED BY <1>5 DEF n

\* Only the outputs change.
LEMMA QuietMoves ==
  ASSUME NEW m, NEW n, Goes(m, n), SameInputs(m, n), n.fg = m.fg
  PROVE  Moves(m, n)
BY StayMoves DEF SameInputs

LEMMA StepInputMoves ==
  ASSUME NEW m, Good(m), NEW o \in Output, NEW f \in InFile, Left(m, f)
  PROVE  Moves(m, StepInput(m, o, f))
<1>1. CASE m.ifile[f].eofReached
  <2> DEFINE b == m.out[o].unavailable \/ m.ifile[f].eagain
             n == [m EXCEPT !.out[o].unavailable = b]
  <2>1. StepInput(m, o, f) = n
    BY <1>1 DEF StepInput
  <2> HIDE DEF b
  <2>2. Goes(m, n) /\ SameInputs(m, n) /\ n.fg = m.fg
    BY UnavailableGoes
  <2> HIDE DEF n
  <2> QED BY <2>1, <2>2, QuietMoves
<1>2. CASE ~m.ifile[f].eofReached
  <2> DEFINE k == ReadPacket(m, f)
  <2>1. StepInput(m, o, f) = ReapFilters(k, FALSE)
    BY <1>2 DEF StepInput
  <2>2. Moves(m, k) /\ Good(k)
    BY <1>2, ReadPacketMoves DEF Moves, Goes, Left
  <2> HIDE DEF k
  <2>3. Moves(k, ReapFilters(k, FALSE))
    BY <2>2, ReapFiltersMoves
  <2> QED BY <2>1, <2>2, <2>3, MovesTrans
<1> QED BY <1>1, <1>2

LEMMA NotReadyMoves ==
  ASSUME NEW m, Good(m), NEW o \in Output, NEW f \in InFile
  PROVE  Moves(m, NotReady(m, o, f))
<1> DEFINE n == NotReady(m, o, f)
<1>1. DOMAIN m = StateFields /\ DOMAIN m.ifile = InFile /\ DOMAIN m.ifile[f] = FileFields
  BY DEF Good, Sound, InputsFit, FileFits
<1>2. Goes(m, n)
  BY NotReadyGoes
<1>3. /\ n.held = m.held /\ n.given = m.given /\ n.fg = m.fg
      /\ \A e \in InFile : n.ifile[e].eofReached = m.ifile[e].eofReached
  BY <1>1 DEF NotReady, StateFields, FileFields
<1> HIDE DEF n
<1>4. Moves(m, n)
  BY <1>2, <1>3, StayMoves
<1> QED BY <1>4 DEF n

\* What Read makes of m.
LEMMA ReadMoves ==
  ASSUME NEW m, Good(m), NEW o \in Output, NEW f \in InFile
  PROVE  /\ Moves(m, StepInput(Located(m, f), o, f))
         /\ Moves(m, NotReady(m, o, f))
         /\ AtMediaEnd(m, f) => Moves(m, NotReady(Rewound(m, f), o, f))
<1>1. Moves(m, StepInput(Located(m, f), o, f))
  <2> DEFINE k == Located(m, f)
  <2>1. Moves(m, k) /\ Good(k) /\ Left(k, f)
    BY LocatedMoves, LocatedGoes DEF Goes
  <2> HIDE DEF k
  <2>2. Moves(k, StepInput(k, o, f))
    BY <2>1, StepInputMoves
  <2>3. Moves(m, StepInput(k, o, f))
    BY <2>1, <2>2, MovesTrans
  <2> QED BY <2>3 DEF k
<1>2. ASSUME AtMediaEnd(m, f) PROVE Moves(m, NotReady(Rewound(m, f), o, f))
  <2> DEFINE k == Rewound(m, f)
  <2>1. Moves(m, k) /\ Good(k)
    BY <1>2, RewoundMoves DEF Moves, Goes
  <2> HIDE DEF k
  <2>2. Moves(k, NotReady(k, o, f))
    BY <2>1, NotReadyMoves
  <2>3. Moves(m, NotReady(k, o, f))
    BY <2>1, <2>2, MovesTrans
  <2> QED BY <2>3 DEF k
<1> QED BY <1>1, <1>2, NotReadyMoves

-----------------------------------------------------------------------------
(* A round with a graph, with the tale. *)

\* The filters of a graph run, whatever it has.
LEMMA RequestedCarries ==
  ASSUME NEW m, Good(m), NEW g \in Graph, m.fg[g].graph, AllFramesFit(m)
  PROVE  Carries(m, Requested(m, g)) /\ SameFates(m, Requested(m, g))
<1> DEFINE q == m.fg[g]
           r == Run(g, q)
           n == Requested(m, g)
<1>1. GraphFits(g, q, m.opt) /\ Ready(g, q) /\ FramesFit(g, q)
  BY DEF Good, GraphsFit, AllFramesFit
<1>2. Passes(g, q, r) /\ SameFate(q, r)
  <2>1. Passes(g, q, r) /\ r.lost = q.lost /\ Steady(g, q, r, m.opt)
    BY <1>1, RunPasses, RunSteady
  <2> HIDE DEF q, r
  <2> QED BY <2>1 DEF Steady, SameShape, SameFate
<1>3. n = PutGraph(m, g, r)
  BY DEF Requested, PutGraph
<1> HIDE DEF r, n
<1>4. OnlyGraph(m, n, g, r)
  BY <1>3, PutGraphIs
<1>5. n.fg[g] = r /\ \A h \in Graph \ {g} : n.fg[h] = m.fg[h]
  BY <1>4 DEF OnlyGraph
<1> QED BY <1>2, <1>5, OneGraphCarries DEF n

\* The graph of o is there, or the error is one that the loop ends with.
LEMMA AtGraphIs ==
  ASSUME NEW m, Good(m), m.how # "error", NEW o \in Output, CanFilter(m, GraphOf[o])
  PROVE  LET n == AtGraph(m, o)
         IN /\ n.how # "error" => Goes(m, n)
            /\ n.how = "error" => (Goes(m, PutHow(n, "ok")) /\ OnlyHow(n, PutHow(n, "ok"), "ok"))
            /\ SameInputs(m, n) /\ (AllFramesFit(m) => Carries(m, n) /\ SameFates(m, n))
<1> DEFINE g == GraphOf[o]
           k == IF m.fg[g].graph THEN m ELSE Configure(m, g)
           n == AtGraph(m, o)
<1>0. g \in Graph /\ n = Opened(k, o)
  BY FilterAssumption DEF AtGraph
<1>1. /\ Good(k) /\ SameInputs(m, k) /\ (k.how = "ok" => k.fg[g].graph)
      /\ (k.how = m.how \/ (k.how = "error" /\ m.how = "ok"))
      /\ k.how = "error" => /\ k.out = m.out /\ ~m.fg[g].graph
                            /\ \A h \in Graph \ {g} : k.fg[h] = m.fg[h]
      /\ (AllFramesFit(m) => Carries(m, k) /\ SameFates(m, k))
  <2>1. CASE m.fg[g].graph
    BY <2>1, CarriesRefl DEF SameInputs
  <2>2. CASE ~m.fg[g].graph
    <3>1. k = Configure(m, g) /\ HasAllInputFormats(m.fg[g])
      BY <2>2 DEF CanFilter
    <3> HIDE DEF k, n
    <3>2. Configured(m, k, g)
      BY <1>0, <3>1, ConfigureIs
    <3>3. /\ Good(k) /\ SameInputs(m, k) /\ k.out = m.out
          /\ \A h \in Graph \ {g} : k.fg[h] = m.fg[h]
          /\ \/ k.how = m.how /\ k.fg[g].graph
             \/ k.how = IF m.how = "ok" THEN "error" ELSE m.how
      BY <3>2 DEF Configured
    <3> HIDE DEF g
    <3>4. ASSUME AllFramesFit(m) PROVE Carries(m, k) /\ SameFates(m, k)
      <4>1. \A p \in OutputsOf(g) : m.fg[g].sink[p] = <<>>
        BY <1>0, <2>2, <3>4 DEF AllFramesFit, FramesFit
      <4> QED BY <1>0, <2>2, <3>1, <3>4, <4>1, ConfigureCarries
    <3> QED BY <2>2, <3>3, <3>4
  <2> QED BY <2>1, <2>2
<1> HIDE DEF k, n
<1>2. Goes(m, k) \/ k.how = "error"
  BY <1>1 DEF Goes, SameInputs
<1>3. CASE k.how = "ok"
  <2> DEFINE i == InitOutput(k, o, SinkFormat(k, o))
             r == Requested(i, g)
  <2>1. n = r
    BY <1>0, <1>3 DEF Opened
  <2>2. Reaps(k, i) /\ i.fg = k.fg
    BY <1>1, <1>3, InitOutputReaps DEF g
  <2> HIDE DEF i
  <2>3. Good(i) /\ i.fg[g].graph
    BY <1>1, <1>3, <2>2 DEF Reaps, Follows
  <2>4. Reaps(i, r)
    BY <1>0, <2>3, RequestedReaps
  <2>5. AllFramesFit(m) => Carries(m, r) /\ SameFates(m, r)
    <3>1. AllFramesFit(k) => Carries(k, i) /\ SameFates(k, i) /\ AllFramesFit(i)
      BY <2>2, CarriesRefl
    <3>2. AllFramesFit(i) => Carries(i, r) /\ SameFates(i, r)
      BY <1>0, <2>3, RequestedCarries
    <3>3. AllFramesFit(m) => AllFramesFit(k)
      BY <1>1, CarriesFit
    <3> HIDE DEF r
    <3> QED BY <1>1, <3>1, <3>2, <3>3, CarriesTrans
  <2> HIDE DEF r
  <2>6. Follows(k, n)
    BY <2>1, <2>2, <2>4, FollowsTrans DEF Reaps
  <2>7. Goes(k, n) /\ n.how # "error" /\ SameInputs(m, n)
    BY <1>1, <1>3, <2>6, FollowsGoes DEF Follows, SameInputs
  <2>8. Goes(m, n)
    BY <1>2, <1>3, <2>7, GoesTrans
  <2> QED BY <2>1, <2>5, <2>7, <2>8 DEF n
<1>4. CASE k.how # "ok"
  <2>1. n = k
    BY <1>0, <1>4 DEF Opened
  <2>2. CASE k.how # "error"
    BY <1>1, <1>2, <2>1, <2>2 DEF n
  <2>3. CASE k.how = "error"
    <3>1. m.how = "ok"
      BY <1>1, <2>3
    <3>2. ASSUME NEW p \in Output, k.out[p].initialized PROVE k.fg[GraphOf[p]].graph
      <4>1. EncoderFits(m, p) /\ GraphOf[p] \in Graph
        BY FilterAssumption DEF Good, EncodersFit
      <4>2. m.fg[GraphOf[p]].graph
        BY <1>1, <2>3, <3>1, <3>2, <4>1 DEF EncoderFits
      <4>3. GraphOf[p] # g
        BY <1>1, <2>3, <4>2
      <4> QED BY <1>1, <2>3, <4>1, <4>2, <4>3
    <3>3. OnlyHow(k, PutHow(k, "ok"), "ok")
      <4>1. "ok" = "abort" \/ k.how # "abort"
        BY <2>3
      <4>2. "ok" = "ok" => \A p \in Output : k.out[p].initialized => k.fg[GraphOf[p]].graph
        BY <3>2
      <4> QED BY <1>1, <4>1, <4>2, PutHowIs
    <3>4. Goes(m, PutHow(k, "ok"))
      BY <1>1, <3>1, <3>3 DEF OnlyHow, SameInputs, Goes
    <3> QED BY <1>1, <2>1, <2>3, <3>3, <3>4 DEF n
  <2> QED BY <2>2, <2>3
<1> QED BY <1>3, <1>4

LEMMA AtGraphMoves ==
  ASSUME NEW m, Good(m), m.how # "error", NEW o \in Output, CanFilter(m, GraphOf[o])
  PROVE  LET n == AtGraph(m, o)
         IN /\ n.how # "error" => Moves(m, n)
            /\ n.how = "error" => Moves(m, PutHow(n, "ok"))
<1> DEFINE n == AtGraph(m, o)
           k == IF n.how = "error" THEN PutHow(n, "ok") ELSE n
<1>1. Goes(m, k) /\ SameInputs(m, n) /\ (AllFramesFit(m) => Carries(m, n) /\ SameFates(m, n))
  BY AtGraphIs
<1>2. SameInputs(n, k) /\ k.fg = n.fg
  BY AtGraphIs DEF OnlyHow, SameInputs
<1> HIDE DEF n, k
<1>3. AllFramesFit(m) => Carries(m, k) /\ SameFates(m, k)
  BY <1>1, <1>2 DEF Carries, SameFates
<1>4. k.held = m.held /\ k.given = m.given /\ k.ifile = m.ifile
  BY <1>1, <1>2 DEF SameInputs
<1>5. Tells(m, k, {})
  BY <1>1, <1>3, <1>4, CarriesTells
<1>6. Moves(m, k)
  BY <1>4, <1>5, TellsMoves
<1> QED BY <1>6 DEF k, n

-----------------------------------------------------------------------------
(* After the loop, with the accounts. *)

\* F lists what becomes of m as the encoders are flushed.
IsFlushingAll(F, m) ==
  /\ F[0] = m /\ FoldLeft(Flushed, m, InOrder) = F[NumOutputs]
  /\ \A o \in Output : F[o] = Flushed(F[o - 1], o)

LEMMA FlushingAllSteps ==
  ASSUME NEW m
  PROVE  \E F : IsFlushingAll(F, m)
<1> DEFINE seq == InOrder
<1>1. NumOutputs \in Nat /\ Output = 1..NumOutputs /\ \A o \in Output : seq[o] = o
  BY OutputAssumption DEF InOrder, Output
<1>2. DOMAIN seq = 1..NumOutputs
  BY DEF InOrder, Output
<1>3. FoldLeft(Flushed, m, seq) = FlushesAll!Fold(0, m, seq)
  BY DEF FlushedOf, FoldLeft, FlushesAll!Fold, MapThenFoldSet, Max,
         FlushesAll!Greatest
<1> HIDE DEF seq
<1>4. PICK F : FlushesAll!Steps(0, F, m, seq, NumOutputs) /\ FlushesAll!Fold(0, m, seq) = F[NumOutputs]
  <2>1. NumOutputs \in Nat
    BY <1>1
  <2> QED BY <1>2, <2>1, LeastNat, FlushesAll!FoldSteps DEF FlushesAll!WellOrdered
<1>5. F[0] = m /\ \A o \in Output : F[o] = Flushed(F[o - 1], o)
  BY <1>1, <1>4 DEF FlushesAll!Steps, FlushedOf
<1> QED BY <1>3, <1>4, <1>5 DEF IsFlushingAll, seq

\* A step over which the accounts stay right.
Bears(m, n) == Goes(m, n) /\ (Accounts(m) => Accounts(n))

\* A list of such steps.
LEMMA ListBears ==
  ASSUME NEW m, NEW F, NEW n \in Nat, Good(m), F[0] = m,
         \A i \in 1..n : Goes(m, F[i - 1]) => Bears(F[i - 1], F[i])
  PROVE  Bears(m, F[n])
<1> DEFINE T == {i \in 0..n : Bears(m, F[i])}
<1>1. 0 \in T
  BY GoesRefl DEF Bears
<1>2. ASSUME NEW i \in 1..n, i - 1 \in T PROVE i \in T
  <2>1. Bears(m, F[i - 1]) /\ i \in 0..n
    BY <1>2
  <2>2. Bears(F[i - 1], F[i])
    BY <2>1 DEF Bears
  <2>3. Bears(m, F[i])
    BY <2>1, <2>2, GoesTrans DEF Bears
  <2> QED BY <2>1, <2>3
<1> HIDE DEF T
<1>3. \A i \in 0..n : i \in T
  BY <1>1, <1>2, UpTo
<1> QED BY <1>3 DEF T

\* The output side goes on.
LEMMA OutputBears ==
  ASSUME NEW m, NEW n, Goes(m, n), SameInputs(m, n), n.fg = m.fg
  PROVE  Bears(m, n)
<1>1. ASSUME Accounts(m) PROVE Accounts(n)
  <2>1. Carries(m, n) /\ SameFates(m, n)
    BY <1>1, CarriesRefl DEF Accounts
  <2> QED BY <1>1, <2>1, CarriesAccounts DEF SameInputs, SameFates, SameFate
<1> QED BY <1>1 DEF Bears

\* An output without a frame is finished, from a graph that is built now.
LEMMA FinishedEmptyIs ==
  ASSUME NEW m, Good(m), m.how # "error", NEW o \in Output
  PROVE  LET n == FinishedEmpty(m, o)
         IN Bears(m, n) /\ (n.how = "ok" => n.fg[GraphOf[o]].graph)
<1> DEFINE g == GraphOf[o]
           n == FinishedEmpty(m, o)
<1>0. g \in Graph
  BY FilterAssumption
<1>1. CASE m.fg[g].graph
  <2>1. n = m
    BY <1>1 DEF FinishedEmpty
  <2> QED BY <1>1, <2>1, GoesRefl DEF Bears
<1>2. CASE ~m.fg[g].graph
  <2> DEFINE d == FormatsDeclared(m, g, InputsOf(g))
             c == Configure(d, g)
             k == FinishOutput(c, o)
             h == IF k.how = "error" THEN "abort" ELSE k.how
  <2>1. n = Fatal(k)
    BY <1>2 DEF FinishedEmpty
  <2> HIDE DEF n
  <2>2. Follows(m, d) /\ Good(d) /\ d.how = m.how /\ HasAllInputFormats(d.fg[g])
    BY <1>0, DeclaredFollows DEF Follows
  <2>3. ASSUME AllFramesFit(m)
        PROVE  /\ Carries(m, d) /\ ~d.fg[g].graph
               /\ \A e \in Graph : d.fg[e].lost = m.fg[e].lost
    BY <1>0, <1>2, <2>3, DeclaredCarries
  <2> HIDE DEF d
  <2>4. Configured(d, c, g)
    BY <1>0, <2>2, ConfigureIs
  <2>5. ASSUME AllFramesFit(m) PROVE Carries(d, c) /\ SameFates(d, c)
    <3>1. AllFramesFit(d) /\ \A p \in OutputsOf(g) : d.fg[g].sink[p] = <<>>
      BY <1>0, <2>3, <2>5, CarriesFit DEF AllFramesFit, FramesFit
    <3> QED BY <1>0, <2>2, <2>3, <2>5, <3>1, ConfigureCarries
  <2> HIDE DEF c
  <2>6. /\ Good(c) /\ SameInputs(d, c)
        /\ \/ c.how = d.how /\ c.fg[g].graph
           \/ c.how = IF d.how = "ok" THEN "error" ELSE d.how
    BY <2>4 DEF Configured
  <2>7. Quiet(c, k)
    BY <2>6, FinishOutputIs DEF Good
  <2> HIDE DEF k
  <2>8. Follows(c, k) /\ k.fg = c.fg /\ Good(k)
    BY <2>6, <2>7, QuietFollows DEF Follows
  <2>9. OnlyHow(k, Fatal(k), h)
    BY <2>8, FatalIs
  <2>10. Good(n) /\ SameInputs(k, n) /\ n.fg = k.fg /\ n.how = h
    BY <2>1, <2>9 DEF OnlyHow
  <2>11. SameInputs(m, n)
    BY <2>2, <2>6, <2>8, <2>10 DEF Follows, SameInputs
  <2>12. k.how = c.how \/ k.how = "abort"
    BY <2>8 DEF Follows
  <2>13. n.how = m.how \/ n.how = "abort"
    BY <2>2, <2>6, <2>10, <2>12
  <2>14. n.how = "ok" => n.fg[g].graph
    BY <2>2, <2>6, <2>8, <2>10, <2>12
  <2>15. ASSUME Accounts(m) PROVE Accounts(n)
    <3>1. AllFramesFit(m) /\ Carries(m, d) /\ Carries(d, c) /\ SameFates(d, c)
      BY <2>3, <2>5, <2>15 DEF Accounts
    <3>2. Carries(m, c) /\ \A e \in Graph : c.fg[e].lost = m.fg[e].lost
      BY <2>3, <3>1, CarriesTrans DEF SameFates, SameFate
    <3>3. Carries(m, n) /\ \A e \in Graph : n.fg[e].lost = m.fg[e].lost
      BY <2>8, <2>10, <3>2 DEF Carries
    <3> QED BY <2>11, <2>15, <3>3, CarriesAccounts DEF SameInputs
  <2> QED BY <2>10, <2>11, <2>13, <2>14, <2>15 DEF Goes, Bears, SameInputs, n
<1> QED BY <1>1, <1>2

LEMMA FlushedBears ==
  ASSUME NEW m, Good(m), m.how # "error", NEW o \in Output
  PROVE  Bears(m, Flushed(m, o))
<1> DEFINE k == IF m.out[o].initialized THEN m ELSE FinishedEmpty(m, o)
           i == InitOutput(k, o, SinkFormat(k, o))
           n == FlushEncoder(i, o)
<1>0. Flushed(m, o) = IF k.how # "ok" THEN k ELSE n
  BY DEF Flushed
<1>1. Bears(m, k) /\ (k.how = "ok" => k.fg[GraphOf[o]].graph)
  <2>1. CASE m.out[o].initialized
    <3>1. EncoderFits(m, o)
      BY DEF Good, EncodersFit
    <3> QED BY <2>1, <3>1, GoesRefl DEF EncoderFits, Bears
  <2>2. CASE ~m.out[o].initialized
    BY <2>2, FinishedEmptyIs
  <2> QED BY <2>1, <2>2
<1> HIDE DEF k
<1>2. CASE k.how # "ok"
  BY <1>0, <1>1, <1>2
<1>3. CASE k.how = "ok"
  <2>1. Good(k) /\ k.fg[GraphOf[o]].graph
    BY <1>1, <1>3 DEF Goes, Bears
  <2>2. Reaps(k, i) /\ i.fg = k.fg
    BY <2>1, InitOutputReaps
  <2> HIDE DEF i
  <2>3. Follows(k, i) /\ Good(i)
    BY <2>2 DEF Reaps, Follows
  <2>4. Quiet(i, n)
    BY <2>3, FlushEncoderIs DEF Good
  <2> HIDE DEF n
  <2>5. Follows(i, n) /\ n.fg = i.fg
    BY <2>3, <2>4, QuietFollows
  <2>6. Follows(k, n) /\ n.fg = k.fg
    BY <2>2, <2>3, <2>5, FollowsTrans
  <2>7. Bears(k, n)
    BY <2>6, FollowsGoes, OutputBears DEF Follows
  <2> QED BY <1>0, <1>1, <1>3, <2>7, GoesTrans DEF Bears
<1> QED BY <1>2, <1>3

LEMMA FlushingAllBears ==
  ASSUME NEW m, Good(m), m.how # "error"
  PROVE  Bears(m, FoldLeft(Flushed, m, InOrder))
<1>1. PICK F : IsFlushingAll(F, m)
  BY FlushingAllSteps
<1>2. F[0] = m /\ \A o \in Output : F[o] = Flushed(F[o - 1], o)
  BY <1>1 DEF IsFlushingAll
<1>3. NumOutputs \in Nat /\ Output = 1..NumOutputs
  BY OutputAssumption DEF Output
<1>4. ASSUME NEW o \in 1..NumOutputs, Goes(m, F[o - 1]) PROVE Bears(F[o - 1], F[o])
  <2>1. o \in Output /\ Good(F[o - 1]) /\ F[o - 1].how # "error"
    BY <1>3, <1>4 DEF Goes
  <2>2. Bears(F[o - 1], Flushed(F[o - 1], o))
    BY <2>1, FlushedBears
  <2> QED BY <1>2, <2>1, <2>2
<1>5. Bears(m, F[NumOutputs])
  BY <1>2, <1>3, <1>4, ListBears
<1> QED BY <1>1, <1>5 DEF IsFlushingAll

-----------------------------------------------------------------------------
(* The invariant. *)

Phases == {"open", "run", "drain", "flush", "done"}

\* What holds of the program between two of its steps, in this phase.  There is no
\* encoder with a device before the devices are there, and a decoder that takes the
\* formats of its configurations has one once they all are open.
Alive(m, p) ==
  /\ Good(m) /\ DecsFit(m)
  /\ m.how \in {"ok", "abort"} /\ p \in Phases
  /\ p = "open" => \A o \in Output : m.out[o].device = NoDevice
  /\ p # "open" /\ m.how = "ok" => \A s \in Stream : Equipped(m.hw, m.dec[s], s)

\* No decoder got anything yet.
Fresh(m) ==
  /\ \A g \in Graph : m.fg[g] = NewGraph(g)
  /\ DOMAIN m.given = Stream /\ \A s \in Stream : m.held[s] = <<>> /\ m.given[s] = <<>>

\* What is told of the frames in this phase.
Told(m, p) ==
  /\ Accounts(m)
  /\ p # "done" => Tale(m)
  /\ p \in {"open", "run"} => Finished(m)
  /\ p = "open" => Fresh(m)

IInv == Alive(Now, phase) /\ (how = "ok" => Told(Now, phase))

LEMMA GoesAlive ==
  ASSUME NEW m, NEW n, NEW p, NEW q, Alive(m, p), Goes(m, n), p # "open", q \in Phases \ {"open"}
  PROVE  Alive(n, q)
BY DEF Alive, Goes, DecsFit

\* Two states are one.
Alike(m, n) == SameInputs(m, n) /\ n.fg = m.fg /\ n.out = m.out /\ n.dest = m.dest /\ n.how = m.how

LEMMA AlikeGood ==
  ASSUME NEW m, NEW n, Good(m), Alike(m, n), DOMAIN n = StateFields
  PROVE  Good(n)
<1>0. Sound(m) /\ Packets(m)
  BY DEF Good
<1>1. /\ n.ifile = m.ifile /\ n.hw = m.hw /\ n.dec = m.dec /\ n.held = m.held /\ n.how = m.how
      /\ n.fg = m.fg /\ n.opt = m.opt /\ n.given = m.given /\ n.out = m.out /\ n.dest = m.dest
  BY DEF Alike, SameInputs
<1>2. Sound(n) /\ GraphsFit(n) /\ n.opt \in Options /\ Headers(n) /\ InputsFit(n)
  BY <1>0, <1>1 DEF Good, Sound, OutsFit, DestsFit, GraphsFit, Headers, InputsFit
<1>3. ASSUME NEW o \in Output PROVE Balanced(n, o) /\ NoneWaits(n, o)
  <2>1. Balanced(m, o) /\ NoneWaits(m, o)
    BY <1>0 DEF Packets
  <2>2. Whole(n, o) => Whole(m, o)
    BY <1>1 DEF Whole
  <2>3. Accounted(m, o, LetGo(m.out[o])) => Accounted(n, o, LetGo(m.out[o]))
    BY <1>1 DEF Accounted, Quota
  <2>4. CountedVideo(n, o) /\ NoneWaits(n, o)
    BY SMTT(60), <1>1, <2>1 DEF Balanced, CountedVideo, NoneWaits
  <2> QED BY <1>1, <2>1, <2>2, <2>3, <2>4 DEF Balanced
<1>4. ASSUME NEW o \in Output PROVE EncoderFits(n, o) /\ DeviceKnown(n, o)
  <2>1. EncoderFits(m, o) /\ DeviceKnown(m, o)
    BY DEF Good, EncodersFit
  <2> QED BY <1>1, <2>1 DEF EncoderFits, SinkFormat, DeviceKnown
<1> QED BY <1>2, <1>3, <1>4 DEF Good, Packets, EncodersFit

LEMMA AlikeAlive ==
  ASSUME NEW m, NEW n, NEW p, Alive(m, p), Alike(m, n), DOMAIN n = StateFields
  PROVE  Alive(n, p) /\ (Told(m, p) => Told(n, p))
<1>1. Good(n)
  BY AlikeGood DEF Alive
<1>2. /\ n.hw = m.hw /\ n.dec = m.dec /\ n.out = m.out /\ n.how = m.how
      /\ n.fg = m.fg /\ n.held = m.held /\ n.given = m.given /\ n.opt = m.opt /\ n.ifile = m.ifile
  BY DEF Alike, SameInputs
<1>3. Alive(n, p)
  BY <1>1, <1>2 DEF Alive, DecsFit
<1>4. (Finished(m) => Finished(n)) /\ (Fresh(m) => Fresh(n))
  BY <1>2 DEF Finished, Fresh
<1>5. ASSUME Accounts(m) PROVE Accounts(n) /\ (Tale(m) => Tale(n))
  <2>1. Carries(m, n) /\ SameFates(m, n)
    BY <1>2, <1>5, CarriesRefl DEF Accounts
  <2> QED BY <1>2, <1>5, <2>1, CarriesAccounts, CarriesTale DEF SameFates, SameFate
<1> QED BY <1>2, <1>3, <1>4, <1>5 DEF Told

\* The state of the program is a record of its parts.
LEMMA NowIs ==
  /\ DOMAIN Now = StateFields
  /\ Now.ifile = ifile /\ Now.hw = hw /\ Now.dec = dec /\ Now.held = held /\ Now.fg = fg /\ Now.out = out
  /\ Now.dest = dest /\ Now.how = how /\ Now.opt = opt /\ Now.given = given
BY DEF Now, StateFields

LEMMA Becomes ==
  ASSUME NEW m, NEW p, Become(m), Alive(m, p), m.how = "ok" => Told(m, p), phase' = p
  PROVE  IInv'
<1>1. /\ DOMAIN Now' = StateFields
      /\ Now'.ifile = ifile' /\ Now'.hw = hw' /\ Now'.dec = dec' /\ Now'.held = held' /\ Now'.fg = fg'
      /\ Now'.out = out' /\ Now'.dest = dest' /\ Now'.how = how' /\ Now'.opt = opt' /\ Now'.given = given'
  BY DEF Now, StateFields
<1>2. Alike(m, Now') /\ how' = m.how
  BY <1>1 DEF Become, Alike, SameInputs
<1>3. Alive(Now', p) /\ (how' = "ok" => Told(Now', p))
  BY <1>1, <1>2, AlikeAlive
<1> QED BY <1>3 DEF IInv

LEMMA Unchanged ==
  ASSUME IInv, ifile' = ifile, hw' = hw, dec' = dec, held' = held, fg' = fg, out' = out, dest' = dest,
         how' = how, opt' = opt, given' = given, NEW p \in Phases, phase' = p,
         p = phase \/ (p = "drain" /\ phase = "run")
  PROVE  IInv'
<1>1. Become(Now) /\ Now.how = how
  BY NowIs DEF Become
<1>2. Alive(Now, p) /\ (how = "ok" => Told(Now, p))
  BY DEF IInv, Alive, Told
<1> QED BY <1>1, <1>2, Becomes

-----------------------------------------------------------------------------
(* The beginning. *)

LEMMA Empty ==
  /\ <<>> \in Seq(Frame) /\ <<>> \o <<>> = <<>> /\ Len(<<>>) = 0
  /\ SubSeq(<<>>, 1, 0) = <<>>
<1>1. <<>> \in Seq(Frame) /\ Len(<<>>) = 0
  OBVIOUS
<1>2. SubSeq(<<>>, 1, 0) = <<>>
  BY <1>1, SubSeqEmpty
<1> QED BY <1>1, <1>2, ConcatEmptySeq

LEMMA NewOutputIs ==
  /\ OutFits(NewOutput)
  /\ ~NewOutput.initialized /\ NewOutput.finished = {} /\ NewOutput.frames = 0
  /\ NewOutput.queue = <<>> /\ NewOutput.held = <<>> /\ NewOutput.sent = <<>> /\ NewOutput.written = <<>>
  /\ NewOutput.device = NoDevice /\ NewOutput.took = {}
<1>1. <<>> \in Seq(Frame)
  OBVIOUS
<1>2. <<0, 0, 0>> \in Int \X Int \X Int
  OBVIOUS
<1> QED BY <1>1, <1>2 DEF OutFits, OutFields, NewOutput

LEMMA NewGraphIs ==
  ASSUME NEW g \in Graph, NEW opts
  PROVE  GraphFits(g, NewGraph(g), opts) /\ Ready(g, NewGraph(g))
<1>1. <<>> \in Seq(Frame)
  OBVIOUS
<1> DEFINE q == NewGraph(g)
<1>2. DOMAIN q = GraphFields /\ q.graph = FALSE /\ q.closed = {} /\ q.pending = <<>> /\ q.inside = <<>>
  BY DEF GraphFields, NewGraph
<1>3. /\ q.format = [s \in InputsOf(g) |-> NoFormat] /\ q.eof = [s \in InputsOf(g) |-> FALSE]
      /\ q.queue = [s \in InputsOf(g) |-> <<>>] /\ q.limit = [o \in OutputsOf(g) |-> NoFormat]
      /\ q.sink = [o \in OutputsOf(g) |-> <<>>] /\ q.reaped = [o \in OutputsOf(g) |-> <<>>]
  BY DEF NewGraph
<1> HIDE DEF q
<1>4. GraphFits(g, q, opts)
  BY <1>1, <1>2, <1>3 DEF GraphFits, SinkFits
<1>5. Ready(g, q)
  BY <1>2 DEF Ready
<1> QED BY <1>4, <1>5 DEF q

LEMMA FreshTold ==
  ASSUME NEW m, Fresh(m)
  PROVE  Tale(m) /\ Finished(m)
<1>1. ASSUME NEW g \in Graph
      PROVE  LET q == m.fg[g]
             IN /\ q.reaped = [o \in OutputsOf(g) |-> <<>>] /\ q.sink = [o \in OutputsOf(g) |-> <<>>]
                /\ q.inside = <<>> /\ q.pending = <<>> /\ q.lost = {}
                /\ \A s \in InputsOf(g) : q.queue[s] = <<>> /\ q.format[s] = NoFormat /\ ~q.eof[s]
  <2> DEFINE r == NewGraph(g)
  <2>1. /\ r.reaped = [o \in OutputsOf(g) |-> <<>>] /\ r.sink = [o \in OutputsOf(g) |-> <<>>]
        /\ r.inside = <<>> /\ r.pending = <<>> /\ r.lost = {}
    BY DEF NewGraph
  <2>2. /\ r.queue = [s \in InputsOf(g) |-> <<>>] /\ r.format = [s \in InputsOf(g) |-> NoFormat]
        /\ r.eof = [s \in InputsOf(g) |-> FALSE]
    BY DEF NewGraph
  <2>3. m.fg[g] = r
    BY DEF Fresh
  <2> HIDE DEF r
  <2> QED BY <2>1, <2>2, <2>3
<1>2. <<>> \o <<>> = <<>> /\ <<>> \in Seq(Frame)
  BY Empty
<1>3. AllFramesFit(m)
  <2>1. <<>> \in Seq(Frame) /\ Len(<<>>) = 0
    BY Empty
  <2>2. ASSUME NEW g \in Graph PROVE FramesFit(g, m.fg[g])
    <3>1. m.fg[g].reaped \in [OutputsOf(g) -> Seq(Frame)]
      BY <1>1, <2>1
    <3>2. \A s \in InputsOf(g) : \A i \in 1..Len(m.fg[g].queue[s]) : FALSE
      <4>1. \A s \in InputsOf(g) : Len(m.fg[g].queue[s]) = 0
        BY Zenon, <1>1, <2>1
      <4> QED BY <4>1
    <3>3. m.fg[g].inside = <<>> /\ m.fg[g].pending = <<>> /\ \A o \in OutputsOf(g) : m.fg[g].sink[o] = <<>>
      BY <1>1
    <3> QED BY Zenon, <3>1, <3>2, <3>3 DEF FramesFit
  <2> QED BY <2>2 DEF AllFramesFit
<1>4. ASSUME NEW s \in Stream PROVE HeldFit(m, s)
  <2>1. m.held[s] = <<>> /\ m.given[s] = <<>>
    BY DEF Fresh
  <2>2. m.given[s] = <<>> \o m.held[s]
    BY Zenon, <1>2, <2>1
  <2>3. \A i \in 1..Len(m.held[s]) : SourceOf(m.held[s][i]) = s
    BY <2>1
  <2> QED BY Zenon, <1>2, <2>1, <2>2, <2>3 DEF HeldFit
<1>5. ASSUME NEW g \in Graph, NEW s \in InputsOf(g), NEW o \in OutputsOf(g), NEW P \in SUBSET Wanted(m.fg[g], s, m.opt)
      PROVE  Only(P, m.given[s]) = Only(P, Line(m.fg[g], s, o)) \o Only(P, m.held[s])
  <2>1. m.held[s] = <<>> /\ m.given[s] = <<>>
    BY StreamAssumption DEF Fresh
  <2>2. Line(m.fg[g], s, o) = <<>>
    <3>1. /\ m.fg[g].reaped[o] = <<>> /\ m.fg[g].sink[o] = <<>> /\ m.fg[g].inside = <<>>
          /\ m.fg[g].pending = <<>> /\ m.fg[g].queue[s] = <<>>
      BY <1>1
    <3> QED BY Zenon, <1>2, <3>1 DEF Line
  <2> QED BY Zenon, <1>2, <2>1, <2>2, OnlyEmpty
<1>6. Account(m)
  BY <1>5 DEF Account
<1>7. \A g \in Graph : \A s \in InputsOf(g) : Expects(m, g, s)
  BY <1>1 DEF Expects
<1> QED BY <1>1, <1>3, <1>4, <1>6, <1>7 DEF Tale, Accounts, Finished, Fresh

LEMMA InitAlive ==
  ASSUME Init
  PROVE  IInv
<1> DEFINE m == Now
<1>0. /\ DOMAIN m = StateFields
      /\ m.ifile = ifile /\ m.hw = <<>> /\ m.dec = opt.accel /\ m.held = [s \in Stream |-> <<>>]
      /\ m.fg = [g \in Graph |-> NewGraph(g)] /\ m.out = [o \in Output |-> NewOutput]
      /\ m.dest = [d \in Dest |-> NewDest] /\ m.how = "ok" /\ m.opt = opt
      /\ opt \in Options /\ phase = "open"
      /\ ifile = [f \in InFile |-> [pos |-> 1, loop |-> opt.loop[f], eagain |-> FALSE, eofReached |-> FALSE]]
  BY NowIs DEF Init
<1> HIDE DEF m
<1>1. Sound(m)
  <2>1. DestFits(NewDest)
    BY DEF DestFits, DestFields, NewDest, Never
  <2>2. OptFits(opt)
    BY <1>0, OptionsAssumption DEF OptFits
  <2>3. OutsFit(m)
    BY <1>0, NewOutputIs DEF OutsFit
  <2> QED BY <1>0, <2>1, <2>2, <2>3 DEF Sound, DestsFit
<1>2. ASSUME NEW o \in Output PROVE Balanced(m, o) /\ NoneWaits(m, o)
  <2> DEFINE r == m.out[o]
  <2>1. r = NewOutput
    BY <1>0
  <2>2. /\ r.frames = 0 /\ r.queue = <<>> /\ r.held = <<>> /\ r.sent = <<>> /\ r.written = <<>>
    BY <2>1, NewOutputIs
  <2>3. opt.maxFrames[o] \in Nat /\ Delay[o] \in Nat
    BY <1>0, OptionsAssumption, OutputAssumption
  <2>4. LetGo(r) = 0
    BY <2>2, Empty DEF LetGo
  <2>5. Quota(m, o, 0) = 0
    BY <1>0, <2>3 DEF Quota, Least
  <2> HIDE DEF r
  <2>6. Holding(r, o)
    <3>1. SubSeq(<<>>, 1, 0) = <<>> /\ Len(<<>>) = 0 /\ 0 + 1 = 1
      BY Empty
    <3> QED BY <2>2, <2>3, <2>4, <3>1 DEF Holding
  <2>7. Accounted(m, o, 0)
    <3>1. SubSeq(<<>>, 1, 0) = <<>> /\ <<>> \o <<>> = <<>>
      BY Empty
    <3> QED BY <2>2, <2>5, <3>1 DEF Accounted, r
  <2>8. CountedVideo(m, o)
    BY <1>0, <2>2, <2>3, Empty DEF CountedVideo, r
  <2> QED BY <2>2, <2>4, <2>6, <2>7, <2>8 DEF Balanced, NoneWaits, r
<1>3. Headers(m)
  <2>1. ASSUME NEW d \in Dest PROVE ~m.dest[d].header /\ \E o \in Siblings(d) : ~m.out[o].initialized
    <3>1. PICK o \in Siblings(d) : TRUE
      BY OutputAssumption
    <3>2. o \in Output
      BY DEF Siblings
    <3> QED BY <1>0, <3>2, NewOutputIs DEF NewDest
  <2> QED BY <2>1 DEF Headers
<1>4. InputsFit(m)
  <2>1. ASSUME NEW f \in InFile PROVE FileFits(f, m.ifile[f])
    <3>1. opt.loop[f] \in Nat
      BY <1>0, OptionsAssumption
    <3>2. 1 \in 1..(Len(Media[f]) + 1)
      BY MediaAssumption, LenProperties
    <3> QED BY <1>0, <3>1, <3>2 DEF FileFits, FileFields
  <2>2. <<>> \in Seq(Frame) /\ <<>> \in Seq({})
    OBVIOUS
  <2> QED BY <1>0, <2>1, <2>2 DEF InputsFit
<1>5. GraphsFit(m)
  BY <1>0, NewGraphIs DEF GraphsFit
<1>6. ASSUME NEW o \in Output PROVE EncoderFits(m, o) /\ DeviceKnown(m, o) /\ m.out[o].device = NoDevice
  <2>1. m.out[o] = NewOutput
    BY <1>0
  <2> QED BY <2>1, NewOutputIs DEF EncoderFits, DeviceKnown
<1>7. Good(m)
  BY <1>0, <1>1, <1>2, <1>3, <1>4, <1>5, <1>6 DEF Good, Packets, EncodersFit
<1>8. DecsFit(m)
  <2>1. HwFits(<<>>)
    <3>1. <<>> \in Seq({})
      OBVIOUS
    <3> QED BY <3>1 DEF HwFits, NamesDiffer
  <2>2. DOMAIN opt.accel = Stream /\ \A s \in Stream : DOMAIN opt.accel[s] = DecFields
    BY <1>0, OptionsAssumption DEF DecFields
  <2> QED BY SMTT(60), <1>0, <2>1, <2>2 DEF DecsFit
<1>9. Alive(m, "open")
  BY <1>0, <1>6, <1>7, <1>8 DEF Alive, Phases
<1>10. Told(m, "open")
  <2>1. m.given = [s \in Stream |-> <<>>]
    BY NowIs DEF Init, m
  <2>2. Fresh(m)
    BY <1>0, <2>1 DEF Fresh
  <2> QED BY <2>2, FreshTold DEF Told, Tale
<1> QED BY <1>0, <1>9, <1>10 DEF IInv, m

-----------------------------------------------------------------------------
(* The steps. *)

LEMMA InitStep ==
  ASSUME IInv, TranscodeInit
  PROVE  IInv'
<1> DEFINE devices == FoldLeft(InitFromString, <<>>, opt.devices)
           m == Now
           k == [m EXCEPT !.hw = devices]
           n == FoldLeft(OpenDecoders, k, FilesInOrder)
<1>1. Become(n) /\ phase = "open" /\ how = "ok" /\ phase' = "run"
  BY DEF TranscodeInit
<1>2. Good(m) /\ DecsFit(m) /\ m.how = "ok" /\ \A o \in Output : m.out[o].device = NoDevice
  BY <1>1, NowIs DEF IInv, Alive
<1>3. HwFits(devices)
  <2>1. opt \in Options
    BY <1>2, NowIs DEF Good
  <2>2. opt.devices \in Seq(ToSet(opt.devices))
    BY <2>1, OptionsAssumption
  <2> QED BY <2>2, MakingIs
<1>4. DOMAIN m = StateFields
  BY SMTT(60), NowIs
<1> HIDE DEF m, devices
<1>5. /\ DOMAIN k = StateFields /\ k.hw = devices /\ k.dec = m.dec /\ k.how = m.how /\ OnlyDevices(m, k)
  BY <1>4 DEF StateFields, OnlyDevices
<1> HIDE DEF k
<1>6. Openable(k)
  BY <1>2, <1>3, <1>5 DEF Openable, DecsFit
<1>7. Opening(k, n, Stream)
  BY <1>6, OpeningAllOpens
<1> HIDE DEF n
<1>8. DOMAIN n = StateFields /\ OnlyDevices(m, n) /\ DecsFit(n) /\ (n.how = m.how \/ n.how = "abort")
  BY <1>5, <1>7 DEF Opening, OnlyDevices
<1>9. Good(n)
  BY <1>2, <1>8, DevicesGood DEF DecsFit
<1>10. n.how = "ok" => \A s \in Stream : Equipped(n.hw, n.dec[s], s)
  BY <1>7 DEF Opening
<1>11. Alive(n, "run")
  BY <1>2, <1>8, <1>9, <1>10 DEF Alive, Phases
<1>12. Told(n, "run")
  <2>1. Fresh(m)
    BY <1>1 DEF IInv, Told, m
  <2>2. Fresh(n)
    BY <1>8, <2>1 DEF Fresh, OnlyDevices
  <2> QED BY <2>2, FreshTold DEF Told, Tale
<1> QED BY <1>1, <1>11, <1>12, Becomes

\* The state of a round is as good as the one before.
LEMMA RoundIs ==
  ASSUME IInv, phase = "run", how = "ok"
  PROVE  Good(Now) /\ Alive(Now, "run") /\ Moves(Now, Round) /\ Good(Round) /\ Round.how \in {"ok", "abort"}
<1>1. Good(Now) /\ Alive(Now, "run") /\ Now.how = "ok"
  BY NowIs DEF IInv, Alive
<1>2. Follows(Now, Round) /\ Round.fg = Now.fg
  BY <1>1, NeedOutputIs DEF Round
<1>3. Goes(Now, Round) /\ Moves(Now, Round)
  BY <1>1, <1>2, FollowsGoes, QuietMoves DEF Follows
<1> QED BY <1>1, <1>3 DEF Goes

\* What goes on from a round is as good.
LEMMA RoundMoves ==
  ASSUME IInv, phase = "run", how = "ok", NEW n, Moves(Round, n), Become(n), phase' \in {"run", "drain"}
  PROVE  IInv'
<1>1. Alive(Now, "run") /\ Moves(Now, n)
  BY RoundIs, MovesTrans
<1> DEFINE p == phase'
<1>2. p \in {"run", "drain"} /\ p \in Phases \ {"open"}
  BY DEF Phases
<1> HIDE DEF p
<1>3. Alive(n, p)
  BY <1>1, <1>2, GoesAlive DEF Moves
<1>4. ASSUME n.how = "ok" PROVE Told(n, p)
  <2>1. Tale(Now) /\ Finished(Now) /\ Now.opt = opt
    BY NowIs DEF IInv, Told
  <2>2. Tale(n) /\ Finished(n)
    BY <1>1, <1>4, <2>1 DEF Moves
  <2> QED BY <1>2, <2>2 DEF Told, Tale
<1> QED BY <1>3, <1>4, Becomes DEF p

LEMMA SleepStep ==
  ASSUME IInv, Sleep
  PROVE  IInv'
<1>1. phase = "run" /\ how = "ok" /\ Become(ResetEagain(Round)) /\ phase' = "run"
  BY DEF Sleep, Running
<1> DEFINE n == ResetEagain(Round)
<1>2. /\ Goes(Round, n) /\ n.held = Round.held /\ n.given = Round.given /\ n.fg = Round.fg
      /\ \A f \in InFile : n.ifile[f].eofReached = Round.ifile[f].eofReached
  BY <1>1, RoundIs, ResetEagainGoes
<1> HIDE DEF n
<1>3. Moves(Round, n)
  BY <1>2, StayMoves
<1> QED BY <1>1, <1>3, RoundMoves DEF n

LEMMA LoopEndsStep ==
  ASSUME IInv, LoopEnds
  PROVE  IInv'
<1>1. phase = "run" /\ how = "ok" /\ Become(Round) /\ phase' = "drain"
  BY DEF LoopEnds
<1>2. Moves(Round, Round)
  BY <1>1, RoundIs, MovesRefl
<1> QED BY <1>1, <1>2, RoundMoves

\* Reading for output o goes on from m, which a round has come to.
LEMMA ReadStep ==
  ASSUME IInv, phase = "run", how = "ok", NEW m, Moves(Round, m), NEW o \in Output, NEW f \in InFile,
         Read(m, o, f), phase' = "run"
  PROVE  IInv'
<1>1. Good(m)
  BY DEF Moves, Goes
<1>2. PICK n : Become(n) /\ Moves(m, n)
  BY <1>1, ReadMoves DEF Read
<1>3. Moves(Round, n)
  BY <1>2, MovesTrans
<1> QED BY <1>2, <1>3, RoundMoves

LEMMA StepGraphStep ==
  ASSUME IInv, NEW o \in Output, StepGraph(o)
  PROVE  IInv'
<1> DEFINE g == GraphOf[o]
           m == AtGraph(Round, o)
<1>1. /\ phase = "run" /\ how = "ok" /\ CanFilter(Round, g)
      /\ Failed(m) \/ Filtered(m, g) \/ Ended(m, g) \/ Wanting(m, o, g)
  BY DEF StepGraph, Stepping, Running
<1>2. Good(Round) /\ Round.how \in {"ok", "abort"} /\ g \in Graph
  BY <1>1, RoundIs, FilterAssumption
<1>3. /\ m.how # "error" => Moves(Round, m)
      /\ m.how = "error" => Moves(Round, PutHow(m, "ok"))
  BY <1>1, <1>2, AtGraphMoves
<1> HIDE DEF m, g
<1>4. CASE Failed(m)
  <2>1. m.how = "error" /\ Become(PutHow(m, "ok")) /\ phase' = "drain"
    BY <1>4 DEF Failed, PutHow
  <2> QED BY <1>1, <1>3, <2>1, RoundMoves
<1>5. CASE Filtered(m, g)
  <2>1. Become(ReapFilters(m, FALSE)) /\ Moves(Round, m) /\ Good(m) /\ phase' = "run"
    BY <1>1, <1>3, <1>5 DEF Filtered, Moves, Goes
  <2>2. Moves(m, ReapFilters(m, FALSE))
    BY <2>1, ReapFiltersMoves
  <2>3. Moves(Round, ReapFilters(m, FALSE))
    BY <2>1, <2>2, MovesTrans
  <2> QED BY <1>1, <2>1, <2>3, RoundMoves
<1>6. CASE Ended(m, g)
  <2> DEFINE k == ReapFilters(m, TRUE)
             n == CloseOutputs(k, OutputsOf(g))
  <2>1. Become(n) /\ Moves(Round, m) /\ Good(m) /\ phase' = "run"
    BY <1>1, <1>3, <1>6 DEF Ended, Moves, Goes
  <2>2. Moves(m, k)
    BY <2>1, ReapFiltersMoves
  <2> HIDE DEF k
  <2>3. Good(k) /\ Sound(k)
    BY <2>2 DEF Moves, Goes, Good
  <2>4. Quiet(k, n)
    BY <2>3, CloseOutputsIs
  <2> HIDE DEF n
  <2>5. Follows(k, n) /\ n.fg = k.fg
    BY <2>3, <2>4, QuietFollows
  <2>6. Moves(k, n)
    BY <2>5, FollowsGoes, QuietMoves DEF Follows
  <2>7. Moves(Round, n)
    BY <2>1, <2>2, <2>6, MovesTrans
  <2> QED BY <1>1, <2>1, <2>7, RoundMoves
<1>7. CASE Wanting(m, o, g)
  <2> DEFINE n == [m EXCEPT !.out = [p \in Output |-> [m.out[p] EXCEPT !.unavailable = @ \/ GraphOf[p] = g]]]
  <2>1. Moves(Round, m) /\ Good(m) /\ phase' = "run"
    BY <1>1, <1>3, <1>7 DEF Wanting, Moves, Goes
  <2>2. \E s \in InputsOf(g) : Become(n) \/ Read(m, o, FileOf(s))
    BY <1>7 DEF Wanting
  <2>3. Goes(m, n) /\ SameInputs(m, n) /\ n.fg = m.fg
    BY <2>1, AllUnavailableGoes
  <2>4. \A s \in InputsOf(g) : FileOf(s) \in InFile
    BY <1>2, StreamAssumption, FileOfIs
  <2> HIDE DEF n
  <2>5. CASE Become(n)
    <3>1. Moves(Round, n)
      BY <2>1, <2>3, QuietMoves, MovesTrans
    <3> QED BY <1>1, <2>1, <2>5, <3>1, RoundMoves
  <2>6. CASE \E s \in InputsOf(g) : Read(m, o, FileOf(s))
    <3>1. PICK f \in InFile : Read(m, o, f)
      BY <2>4, <2>6
    <3> QED BY <1>1, <2>1, <3>1, ReadStep
  <2> QED BY <2>2, <2>5, <2>6
<1> QED BY <1>1, <1>4, <1>5, <1>6, <1>7

LEMMA StepUnconfiguredStep ==
  ASSUME IInv, NEW o \in Output, StepUnconfigured(o)
  PROVE  IInv'
<1> DEFINE m == Round
           g == GraphOf[o]
           Unread(s) == ~m.ifile[FileOf(s)].eofReached
           left == SelectInSeq(Inputs[g], LAMBDA s : Unread(s))
           I == {i \in 1..Len(Inputs[g]) : Unread(Inputs[g][i])}
           n == [m EXCEPT !.out[o].inputsDone = TRUE]
<1>1. /\ phase = "run" /\ how = "ok" /\ phase' = "run"
      /\ (left # 0 /\ Read(m, o, FileOf(Inputs[g][left]))) \/ Become(n)
  BY DEF StepUnconfigured, Stepping, Running
<1>2. Good(m) /\ g \in Graph
  BY <1>1, RoundIs, FilterAssumption
<1>3. left = IF I # {} THEN Min(I) ELSE 0
  BY DEF SelectInSeq
<1> HIDE DEF m, left, n
<1>4. CASE left # 0 /\ Read(m, o, FileOf(Inputs[g][left]))
  <2>1. I # {} /\ left = Min(I)
    BY Zenon, <1>3, <1>4
  <2>2. Inputs[g] \in Seq(InputsOf(g)) /\ InputsOf(g) \subseteq Stream
    BY <1>2, FilterAssumption, StreamAssumption
  <2>3. Len(Inputs[g]) \in Nat /\ \A i \in 1..Len(Inputs[g]) : Inputs[g][i] \in InputsOf(g)
    BY <2>2, LenProperties, ElementOfSeq
  <2>4. left \in I
    <3>1. I \subseteq Nat /\ I # {}
      BY <2>1, <2>3
    <3> HIDE DEF I
    <3> QED BY <2>1, <3>1, LeastOf
  <2>5. Inputs[g][left] \in Stream
    BY <2>2, <2>3, <2>4
  <2>6. FileOf(Inputs[g][left]) \in InFile
    BY <2>5, FileOfIs
  <2>7. Moves(Round, m)
    BY <1>2, MovesRefl DEF m
  <2> QED BY <1>1, <1>4, <2>6, <2>7, ReadStep
<1>5. CASE Become(n)
  <2>1. Goes(m, n) /\ SameInputs(m, n) /\ n.fg = m.fg
    BY <1>2, InputsDoneGoes DEF n
  <2>2. Moves(Round, n)
    BY <2>1, QuietMoves DEF m
  <2> QED BY <1>1, <1>5, <2>2, RoundMoves
<1> QED BY <1>1, <1>4, <1>5

LEMMA InterruptedStep ==
  ASSUME IInv, Interrupted
  PROVE  IInv'
<1> DEFINE p == "drain"
<1>1. /\ ifile' = ifile /\ hw' = hw /\ dec' = dec /\ held' = held /\ fg' = fg /\ out' = out /\ dest' = dest
      /\ how' = how /\ opt' = opt /\ given' = given
      /\ p \in Phases /\ phase' = p /\ p = "drain" /\ phase = "run"
  BY DEF Interrupted, Phases
<1> HIDE DEF p
<1> QED BY <1>1, Unchanged

LEMMA AfterStep ==
  ASSUME IInv, DrainDecoders \/ FlushEncoders
  PROVE  IInv'
<1> DEFINE m == Now
           drained == FoldLeft(DrainFile, m, FilesInOrder)
           flushed == FoldLeft(Flushed, m, InOrder)
<1>1. Good(m) /\ m.how = "ok" /\ m.opt = opt /\ how = "ok" /\ Alive(m, phase) /\ Told(m, phase)
  BY NowIs DEF IInv, Alive, DrainDecoders, FlushEncoders
<1>2. Tells(m, drained, Stream) /\ Bears(m, flushed)
  BY <1>1, DrainingAllTells, FlushingAllBears
<1>3. CASE DrainDecoders
  <2>1. Become(drained) /\ phase = "drain" /\ phase' = "flush"
    BY <1>3 DEF DrainDecoders
  <2> HIDE DEF drained, m
  <2>2. Alive(drained, "flush")
    BY <1>1, <1>2, <2>1, GoesAlive DEF Tells, Phases
  <2>3. drained.how = "ok" => Told(drained, "flush")
    BY <1>1, <1>2, <2>1 DEF Told, Tells, Tale
  <2> QED BY <2>1, <2>2, <2>3, Becomes
<1>4. CASE FlushEncoders
  <2>1. Become(flushed) /\ phase = "flush" /\ phase' = "done"
    BY <1>4 DEF FlushEncoders
  <2> HIDE DEF flushed, m
  <2>2. Alive(flushed, "done")
    BY <1>1, <1>2, <2>1, GoesAlive DEF Bears, Phases
  <2>3. Told(flushed, "done")
    BY <1>1, <1>2, <2>1 DEF Told, Bears
  <2> QED BY <2>1, <2>2, <2>3, Becomes
<1> QED BY <1>3, <1>4

LEMMA StepAlive ==
  ASSUME IInv, [Next]_vars
  PROVE  IInv'
<1>1. CASE UNCHANGED vars
  <2>1. phase \in Phases
    BY DEF IInv, Alive
  <2> DEFINE p == phase
  <2>2. /\ ifile' = ifile /\ hw' = hw /\ dec' = dec /\ held' = held /\ fg' = fg /\ out' = out /\ dest' = dest
        /\ how' = how /\ opt' = opt /\ given' = given
        /\ p \in Phases /\ phase' = p /\ p = phase
    BY <1>1, <2>1 DEF vars
  <2> HIDE DEF p
  <2> QED BY <2>2, Unchanged
<1>2. ASSUME NEW o \in Output, StepGraph(o) \/ StepUnconfigured(o) PROVE IInv'
  BY <1>2, StepGraphStep, StepUnconfiguredStep
<1> QED BY <1>1, <1>2, InitStep, SleepStep, LoopEndsStep, InterruptedStep, AfterStep DEF Next

LEMMA Always == Spec => []IInv
<1>1. Init => IInv
  BY InitAlive
<1>2. IInv /\ [Next]_vars => IInv'
  BY StepAlive
<1> QED BY <1>1, <1>2, PTL DEF Spec

-----------------------------------------------------------------------------
(* The properties. *)

LEMMA PartsFit ==
  ASSUME IInv
  PROVE  TypeOK
<1>1. /\ Good(Now) /\ how \in {"ok", "abort"} /\ phase \in {"open", "run", "drain", "flush", "done"}
      /\ Sound(Now) /\ Packets(Now)
  BY NowIs DEF IInv, Alive, Good, Phases
<1>2. \A d \in Dest : dest[d].header <=> \A o \in Siblings(d) : out[o].initialized
  BY <1>1, NowIs DEF Good, Headers
<1>3. ASSUME NEW o \in Output
      PROVE  /\ out[o].finished \in SUBSET Both
             /\ dest[DestOf[o]].header => out[o].queue = <<>>
             /\ how = "ok" /\ out[o].initialized => fg[GraphOf[o]].graph
             /\ Len(out[o].held) <= Delay[o]
  <2>1. OutFits(out[o]) /\ NoneWaits(Now, o) /\ Balanced(Now, o) /\ EncoderFits(Now, o)
    BY <1>1, NowIs DEF Sound, OutsFit, Packets, Good, EncodersFit
  <2>2. out[o].finished \in SUBSET Both
    BY <2>1 DEF OutFits
  <2>3. dest[DestOf[o]].header => out[o].queue = <<>>
    BY <2>1, NowIs DEF NoneWaits
  <2>4. how = "ok" /\ out[o].initialized => fg[GraphOf[o]].graph
    BY <2>1, NowIs DEF EncoderFits
  <2>5. Len(out[o].held) <= Delay[o]
    BY <2>1, NowIs DEF Balanced, Holding
  <2> QED BY <2>2, <2>3, <2>4, <2>5
<1>4. ASSUME NEW g \in Graph, fg[g].graph
      PROVE  /\ HasAllInputFormats(fg[g])
             /\ \A s \in InputsOf(g) : fg[g].queue[s] = <<>>
             /\ fg[g].closed = {s \in InputsOf(g) : fg[g].eof[s]}
  <2>1. Ready(g, fg[g])
    BY <1>1, NowIs DEF Good, GraphsFit
  <2> QED BY <1>4, <2>1 DEF Ready
<1>5. ASSUME NEW f \in InFile, ifile[f].eofReached
      PROVE  ifile[f].loop = 0 /\ AtMediaEnd(Now, f)
  <2>1. FileFits(f, ifile[f])
    BY <1>1, NowIs DEF Good, InputsFit
  <2> QED BY <1>5, <2>1, NowIs DEF FileFits, AtMediaEnd
<1> QED BY <1>1, <1>2, <1>3, <1>4, <1>5 DEF TypeOK

LEMMA PacketsFit ==
  ASSUME IInv
  PROVE  PacketsAccounted
<1> SUFFICES ASSUME how = "ok", NEW o \in Output,
                    ~dest[DestOf[o]].broken /\ "muxer" \notin out[o].finished
             PROVE  /\ out[o].written \o out[o].queue =
                         IF CountsPackets(o)
                         THEN SubSeq(Encoded(o), 1, Least(opt.maxFrames[o], Len(Encoded(o))))
                         ELSE Encoded(o)
                    /\ Kind[o] = "video" => Len(out[o].sent) <= opt.maxFrames[o]
  BY DEF PacketsAccounted
<1> DEFINE r == out[o]
           k == LetGo(r)
           max == opt.maxFrames[o]
<1>1. Good(Now) /\ Sound(Now) /\ Packets(Now)
  BY DEF IInv, Alive, Good
<1>2. Balanced(Now, o) /\ OutFits(r) /\ max \in Nat
  BY <1>1, NowIs DEF Packets, Sound, OutsFit, OptFits
<1>3. Accounted(Now, o, k)
  <2>1. Whole(Now, o)
    BY NowIs DEF Whole
  <2> QED BY <1>2, <2>1, NowIs DEF Balanced
<1>4. Kind[o] = "video" => Len(out[o].sent) <= max
  BY <1>2, NowIs DEF Balanced, CountedVideo
<1>5. r.sent \in Seq(Frame) /\ Len(r.sent) \in Nat /\ Len(r.held) \in Nat /\ Len(r.held) <= Len(r.sent)
  <2>1. r.sent \in Seq(Frame) /\ r.held \in Seq(Frame)
    BY <1>2 DEF OutFits
  <2>2. Len(r.held) <= Len(r.sent)
    BY <1>2, NowIs DEF Balanced, Holding
  <2> QED BY <2>1, <2>2, LenProperties
<1>6. Encoded(o) = SubSeq(r.sent, 1, k)
  BY DEF Encoded, LetGo
<1>7. k \in 0..Len(r.sent)
  <2> DEFINE a == Len(r.sent)
             b == Len(r.held)
  <2>1. a \in Nat /\ b \in Nat /\ b <= a /\ k = a - b
    BY <1>5 DEF LetGo
  <2> HIDE DEF a, b, k
  <2>2. k \in 0..a
    BY <2>1
  <2> QED BY <2>2 DEF a
<1>8. r.written \o r.queue = SubSeq(r.sent, 1, Quota(Now, o, k))
  BY <1>3, NowIs DEF Accounted
<1>9. Quota(Now, o, k) = IF CountsPackets(o) THEN Least(max, k) ELSE k
  BY NowIs DEF Quota
<1> HIDE DEF r, k, max
<1>10. Len(SubSeq(r.sent, 1, k)) = k /\ SubSeq(r.sent, 1, k) \in Seq(Frame)
  BY <1>5, <1>7, Cut
<1>11. SubSeq(SubSeq(r.sent, 1, k), 1, Least(max, k)) = SubSeq(r.sent, 1, Least(max, k))
  <2> DEFINE j == Least(max, k)
  <2>1. j \in 0..k
    BY <1>2, <1>5, <1>7 DEF Least
  <2> HIDE DEF j
  <2>2. SubSeq(SubSeq(r.sent, 1, k), 1, j) = SubSeq(r.sent, 1, j)
    BY <1>5, <1>7, <2>1
  <2> QED BY <2>2 DEF j
<1>12. r.written \o r.queue = IF CountsPackets(o) THEN SubSeq(Encoded(o), 1, Least(max, Len(Encoded(o))))
                              ELSE Encoded(o)
  BY <1>6, <1>8, <1>9, <1>10, <1>11
<1> QED BY <1>4, <1>12 DEF r, max

LEMMA EncodersFitFormats ==
  ASSUME IInv
  PROVE  EncoderFormat
<1> SUFFICES ASSUME NEW o \in Output, out[o].initialized
             PROVE  /\ out[o].took \subseteq {out[o].enc}
                    /\ Supported[o] # <<>> /\ ~opt.keep[o] => Contains(Supported[o], out[o].enc[2])
  BY DEF EncoderFormat
<1>1. EncoderFits(Now, o)
  BY DEF IInv, Alive, Good, EncodersFit
<1> QED BY <1>1, NowIs DEF EncoderFits, Takes

LEMMA DevicesFit ==
  ASSUME IInv
  PROVE  DeviceFits
<1>1. NamesDiffer(hw) /\ Good(Now)
  BY NowIs DEF IInv, Alive, DecsFit, HwFits
<1>2. \A i, j \in DOMAIN hw : hw[i].name = hw[j].name => i = j
  BY <1>1 DEF NamesDiffer
<1>3. ASSUME phase # "open", how = "ok", NEW s \in Stream, NEW c \in ToSet(DecConfigs[s]),
             ByConfig(dec[s], s, c.pix), Accepted(dec[s], s, c.pix)
      PROVE  /\ dec[s].device \in DOMAIN hw
             /\ hw[dec[s].device].type = DecConfigs[s][ConfigFor(s, c.pix)].type
  <2>1. Equipped(hw, dec[s], s)
    BY <1>3, NowIs DEF IInv, Alive
  <2>2. dec[s].id \in {"auto", "generic"}
    BY <1>3 DEF ByConfig
  <2>3. DecConfigs[s] # <<>>
    BY <1>3 DEF ToSet
  <2>4. dec[s].device \in DOMAIN hw /\ hw[dec[s].device].type = dec[s].type
    BY <2>1, <2>2, <2>3 DEF Equipped
  <2>5. DecConfigs[s][ConfigFor(s, c.pix)].type = dec[s].type
    BY <1>3 DEF Accepted
  <2> QED BY <2>4, <2>5
<1>4. ASSUME NEW o \in Output, out[o].device # NoDevice
      PROVE  \E c \in ToSet(EncConfigs[o]) : c.ctx /\ c.type = hw[out[o].device].type
  <2>1. DeviceKnown(Now, o)
    BY <1>1 DEF Good, EncodersFit
  <2> QED BY <1>4, <2>1, NowIs DEF DeviceKnown
<1> QED BY <1>2, <1>3, <1>4 DEF DeviceFits

\* What Mine keeps in FramesAccounted, of what goes from the input s to the graph q.
Ours(frames, q, s) == Only({fr \in ToSet(frames) : SourceOf(fr) = s /\ Intact(fr) /\ fr \notin q.lost}, frames)

LEMMA OursIs ==
  ASSUME NEW frames \in Seq(Frame), NEW q, NEW s
  PROVE  Ours(frames, q, s) = Only(Wanted(q, s, opt), frames)
<1> DEFINE P == {fr \in ToSet(frames) : SourceOf(fr) = s /\ Intact(fr) /\ fr \notin q.lost}
           Q == Wanted(q, s, opt)
<1>1. \A i \in 1..Len(frames) : frames[i] \in Frame /\ frames[i] \in ToSet(frames)
  BY LenProperties DEF ToSet
<1>2. ASSUME NEW i \in 1..Len(frames) PROVE frames[i] \in P <=> frames[i] \in Q
  <2> DEFINE fr == frames[i]
  <2>1. fr \in Frame /\ fr \in ToSet(frames)
    BY <1>1
  <2> HIDE DEF fr
  <2>2. fr \in P <=> SourceOf(fr) = s /\ Intact(fr) /\ fr \notin q.lost
    BY <2>1
  <2>3. fr \in Q <=> SourceOf(fr) = s /\ Sane(fr, opt) /\ fr \notin q.lost
    BY <2>1 DEF Wanted, From
  <2>4. Intact(fr) <=> Sane(fr, opt)
    BY DEF Intact, Sane
  <2> QED BY <2>2, <2>3, <2>4 DEF fr
<1> HIDE DEF P, Q
<1>3. Only(P, frames) = Only(Q, frames)
  BY <1>2, OnlyAgrees
<1> QED BY Zenon, <1>3 DEF Ours, P, Q

LEMMA FramesFitAccounts ==
  ASSUME IInv
  PROVE  FramesAccounted
<1> SUFFICES ASSUME how = "ok", NEW g \in Graph, NEW s \in InputsOf(g)
             PROVE  /\ \A o \in OutputsOf(g) :
                         Ours(given[s], fg[g], s) =
                           Ours(fg[g].reaped[o] \o fg[g].sink[o] \o fg[g].inside \o fg[g].pending \o fg[g].queue[s]
                                  \o held[s], fg[g], s)
                    /\ Uniform(g) => fg[g].lost = {}
  BY Zenon DEF FramesAccounted, Ours, Uniform
<1> DEFINE q == fg[g]
           P == Wanted(q, s, opt)
<1>1. Accounts(Now) /\ GraphFits(g, q, opt)
  BY NowIs DEF IInv, Told, Alive, Good, GraphsFit
<1>2. s \in Stream
  BY StreamAssumption
<1>3. FramesFit(g, q) /\ held[s] \in Seq(Frame) /\ given[s] \in Seq(Frame)
  BY <1>1, <1>2, NowIs DEF IInv, Alive, Good, InputsFit, Accounts, AllFramesFit, HeldFit
<1>4. ASSUME NEW o \in OutputsOf(g)
      PROVE  Ours(given[s], q, s)
               = Ours(q.reaped[o] \o q.sink[o] \o q.inside \o q.pending \o q.queue[s] \o held[s], q, s)
  <2> DEFINE line == Line(q, s, o)
  <2>1. line \in Seq(Frame)
    BY <1>1, <1>3, LineIs
  <2>2. Only(P, given[s]) = Only(P, line) \o Only(P, held[s])
    BY <1>1, NowIs DEF Accounts, Account
  <2>3. line = q.reaped[o] \o q.sink[o] \o q.inside \o q.pending \o q.queue[s]
    BY DEF Line
  <2> HIDE DEF line, P, q
  <2>4. Only(P, line \o held[s]) = Only(P, line) \o Only(P, held[s]) /\ line \o held[s] \in Seq(Frame)
    BY <1>3, <2>1, OnlyConcat, ConcatProperties
  <2>5. Ours(given[s], q, s) = Only(P, given[s]) /\ Ours(line \o held[s], q, s) = Only(P, line \o held[s])
    BY <1>3, <2>4, OursIs DEF P
  <2> QED BY Zenon, <2>2, <2>3, <2>4, <2>5
<1>5. Uniform(g) => q.lost = {}
  BY <1>1, NowIs DEF Accounts
<1> QED BY <1>4, <1>5

\* The transcoder's parts fit together whatever the files, the graphs and the limits
\* are, and in whichever order packets, formats and ends of file come: headers
\* are written when all streams of a file are initialized and nothing waits for them
\* afterwards, a stream is initialized from a graph that is built, and a graph that
\* is built has no frame waiting for it.  This is about every round of transcode()
\* and what follows it.
THEOREM PartsOfTheTranscoderFit == Spec => []TypeOK
BY Always, PartsFit, PTL

\* No packet of an encoder is lost, doubled or overtaken on its way into the file,
\* however the streams of the file are initialized, limited by max_frames and
\* finished: write_packet(), check_init_output_file(), do_video_out(),
\* do_audio_out() and flush_encoders() together.
THEOREM PacketsReachTheFile == Spec => []PacketsAccounted
BY Always, PacketsFit, PTL

\* However often a graph is built again with inputs of other formats, its encoder
\* gets the format that it was opened for, and that is one that it takes:
\* configure_filtergraph(), configure_output_filter(), choose_pix_fmts() and
\* init_output_stream() together.
THEOREM EncodersKeepTheirFormat == Spec => []EncoderFormat
BY Always, EncodersFitFormats, PTL

\* Whatever devices the options name and in whichever order the decoders are
\* opened, no two devices get one name, and a decoder or encoder with a device
\* has one of a type that it knows: hw_device_default_name(),
\* hw_device_init_from_string() and hw_device_setup_for_decode() together.
THEOREM DevicesFitTheirUsers == Spec => []DeviceFits
BY Always, DevicesFit, PTL

\* A frame that a decoder got, and that is not broken, is in exactly one place of its
\* way to each output of each graph, in the order in which it was decoded, however
\* often the file starts over, a graph waits for its other inputs, or is built again
\* because a format has changed; only what a graph held that is built again is lost,
\* and nothing is when each input keeps its format: decode_video(), decode_audio(),
\* ifilter_send_frame(), configure_filtergraph(), reap_filters() and seek_to_start()
\* together.  What a decoder still holds once it was drained, when its file starts
\* over, does not count as given to it.
THEOREM FramesComeThrough == Spec => []FramesAccounted
BY Always, FramesFitAccounts, PTL
=============================================================================
