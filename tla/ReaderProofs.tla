---------------------------- MODULE ReaderProofs ----------------------------
(***************************************************************************)
(* Theorems about the reader, for every media, every set of streams and    *)
(* of graph outputs, every size of the buffers and every delay of the      *)
(* decoders and of the graph: its parts fit together (TypeOK), between two *)
(* seeks no frame is lost, doubled or put out of order (NothingLost), an   *)
(* end of file is reported only where there is one (EofHonest), and after  *)
(* an exact search nothing comes of before the time (SeekExact).           *)
(*                                                                         *)
(* The argument: what is due from a stream is what was given away, then    *)
(* what is in its buffer, what its decoder holds, and the rest of the      *)
(* media.  Every step moves frames from one of these places to the next.   *)
(* A frame that comes out of a buffer late enough has only later ones      *)
(* behind it, as what is due from a stream is in the order of its times.   *)
(***************************************************************************)
EXTENDS Reader, FrameQueueProofs, FiniteSetTheorems, TLAPS

\* The folds of the model, each with what Folding knows of it.
PushOf(c, q, x) == Push(q, x)
WithFrameOf(c, fs, x) == WithFrame(fs, x)
TellEofOf(c, m, b) == TellEof(m, b)
ToSinkOf(c, m, k) == ToSink(m, k)

Pushes == INSTANCE Folding WITH Op <- PushOf
Sifts == INSTANCE Folding WITH Op <- WithFrameOf
Tells == INSTANCE Folding WITH Op <- TellEofOf
Sinks == INSTANCE Folding WITH Op <- ToSinkOf

\* What goes through a buffer: frames, and ends of file.
Item == Frame \cup {Null}

-----------------------------------------------------------------------------
(* Numbers. *)

\* A set of numbers with any element has a least one.
LEMMA LeastNat ==
  \A T \in SUBSET Nat : T # {} => \E n \in T : \A m \in T : ~(m < n)
<1> SUFFICES ASSUME NEW T \in SUBSET Nat, T # {}
             PROVE  \E n \in T : \A m \in T : ~(m < n)
  OBVIOUS
<1>1. \E n \in T : \A m \in T : <<m, n>> \notin OpToRel(<, Nat)
  BY NatLessThanWellFounded, WFMin
<1>2. \A m \in Nat, n \in Nat : m < n => <<m, n>> \in OpToRel(<, Nat)
  BY DEF OpToRel
<1> QED BY <1>1, <1>2

\* Induction up to n, on the set of numbers for which something holds.
LEMMA UpTo ==
  ASSUME NEW n \in Nat, NEW T, 0 \in T, \A i \in 1..n : i - 1 \in T => i \in T
  PROVE  \A i \in 0..n : i \in T
BY LeastNat, Pushes!UpTo DEF Pushes!WellOrdered

-----------------------------------------------------------------------------
(* Sequences. *)

\* A sequence up to one place further.
LEMMA OneMore ==
  ASSUME NEW S, NEW xs \in Seq(S), NEW i \in 1..Len(xs)
  PROVE  /\ SubSeq(xs, 1, i - 1) \in Seq(S) /\ xs[i] \in S
         /\ SubSeq(xs, 1, i) = Append(SubSeq(xs, 1, i - 1), xs[i])
<1>1. Len(xs) \in Nat /\ \A j \in 1..Len(xs) : xs[j] \in S
  BY LenProperties, ElementOfSeq
<1>2. SubSeq(xs, 1, i - 1) \in Seq(S)
  <2>1. \A j \in 1..(i - 1) : xs[j] \in S
    BY <1>1
  <2> QED BY <1>1, <2>1, SubSeqProperties
<1>3. SubSeq(xs, 1, i) = SubSeq(xs, 1, i - 1) \o <<xs[i]>>
  <2>1. 1 \in 1..Len(xs) /\ i \in 1..Len(xs)
    BY <1>1
  <2> QED BY <2>1, SubSeqRecursiveSecond
<1> QED BY <1>1, <1>2, <1>3, AppendIsConcat

\* A sequence is cut in two anywhere.
LEMMA Cut ==
  ASSUME NEW S, NEW xs \in Seq(S), NEW k \in 0..Len(xs)
  PROVE  /\ SubSeq(xs, 1, k) \in Seq(S) /\ SubSeq(xs, k + 1, Len(xs)) \in Seq(S)
         /\ Len(SubSeq(xs, 1, k)) = k
         /\ SubSeq(xs, 1, k) \o SubSeq(xs, k + 1, Len(xs)) = xs
<1>1. Len(xs) \in Nat /\ \A j \in 1..Len(xs) : xs[j] \in S
  BY LenProperties, ElementOfSeq
<1>2. SubSeq(xs, 1, k) \in Seq(S) /\ Len(SubSeq(xs, 1, k)) = k
  <2>1. \A j \in 1..k : xs[j] \in S
    BY <1>1
  <2> QED BY <1>1, <2>1, SubSeqProperties
<1>3. SubSeq(xs, k + 1, Len(xs)) \in Seq(S)
  <2>1. \A j \in (k + 1)..Len(xs) : xs[j] \in S
    BY <1>1
  <2> QED BY <1>1, <2>1, SubSeqProperties
<1>4. SubSeq(xs, 1, k) \o SubSeq(xs, k + 1, Len(xs)) = SubSeq(xs, 1, Len(xs))
  <2>1. 1 \in 1..(Len(xs) + 1) /\ k \in (1 - 1)..Len(xs) /\ Len(xs) \in k..Len(xs)
    BY <1>1
  <2> QED BY <2>1, ConcatAdjacentSubSeq
<1> QED BY <1>2, <1>3, <1>4, SubSeqFull

\* To append is to append to the second of two.
LEMMA ConcatAppend ==
  ASSUME NEW S, NEW xs \in Seq(S), NEW zs \in Seq(S), NEW y \in S
  PROVE  xs \o zs \in Seq(S) /\ xs \o Append(zs, y) = Append(xs \o zs, y)
<1>1. xs \o zs \in Seq(S) /\ <<y>> \in Seq(S)
  BY ConcatProperties
<1>2. (xs \o zs) \o <<y>> = xs \o (zs \o <<y>>)
  BY <1>1, ConcatAssociative
<1> QED BY <1>1, <1>2, AppendIsConcat

-----------------------------------------------------------------------------
(* The frames of a sequence of frames and ends of file. *)

LEMMA SiftsFold ==
  ASSUME NEW base, NEW seq
  PROVE  FoldLeft(WithFrame, base, seq) = Sifts!Fold(0, base, seq)
BY DEF WithFrameOf, FoldLeft, Sifts!Fold, MapThenFoldSet, Max, Sifts!Greatest

LEMMA FramesOfEmpty == FramesOf(<<>>) = <<>>
BY SiftsFold, LeastNat, Sifts!FoldEmpty DEF FramesOf, Sifts!WellOrdered

LEMMA FramesOfNone ==
  ASSUME NEW xs, xs = <<>>
  PROVE  FramesOf(xs) = xs
BY FramesOfEmpty

LEMMA FramesOfAppend ==
  ASSUME NEW xs \in Seq(Item), NEW x \in Item
  PROVE  FramesOf(Append(xs, x)) = WithFrame(FramesOf(xs), x)
<1>1. Sifts!Fold(0, <<>>, Append(xs, x))
        = WithFrame(Sifts!Fold(0, <<>>, xs), x)
  BY LeastNat, Sifts!FoldAppend DEF WithFrameOf, Sifts!WellOrdered
<1> QED BY <1>1, SiftsFold DEF FramesOf

LEMMA WithFrameType ==
  ASSUME NEW fs \in Seq(Frame), NEW x \in Item
  PROVE  WithFrame(fs, x) \in Seq(Frame)
<1>1. CASE x = Null
  BY <1>1 DEF WithFrame
<1>2. CASE x # Null
  BY <1>2, AppendProperties DEF WithFrame, Item
<1> QED BY <1>1, <1>2

LEMMA FramesOfType ==
  ASSUME NEW xs \in Seq(Item)
  PROVE  FramesOf(xs) \in Seq(Frame)
<1> DEFINE n == Len(xs)
           T == {i \in 0..n : FramesOf(SubSeq(xs, 1, i)) \in Seq(Frame)}
<1>1. n \in Nat
  BY LenProperties
<1>2. 0 \in T
  <2>1. SubSeq(xs, 1, 0) = <<>>
    BY SubSeqEmpty
  <2>2. FramesOf(SubSeq(xs, 1, 0)) \in Seq(Frame)
    BY <2>1, FramesOfNone, EmptySeq
  <2> QED BY <1>1, <2>2
<1>3. ASSUME NEW i \in 1..n, i - 1 \in T PROVE i \in T
  <2>1. /\ SubSeq(xs, 1, i - 1) \in Seq(Item) /\ xs[i] \in Item
        /\ SubSeq(xs, 1, i) = Append(SubSeq(xs, 1, i - 1), xs[i])
    BY OneMore
  <2>2. FramesOf(SubSeq(xs, 1, i)) = WithFrame(FramesOf(SubSeq(xs, 1, i - 1)), xs[i])
    BY <2>1, FramesOfAppend
  <2>3. FramesOf(SubSeq(xs, 1, i - 1)) \in Seq(Frame)
    BY <1>3
  <2>4. FramesOf(SubSeq(xs, 1, i)) \in Seq(Frame)
    BY <2>1, <2>2, <2>3, WithFrameType
  <2> QED BY <2>4
<1> HIDE DEF T, n
<1>4. \A i \in 0..n : i \in T
  BY <1>1, <1>2, <1>3, UpTo
<1>5. n \in T
  BY <1>1, <1>4
<1> QED BY <1>5, SubSeqFull DEF T, n

LEMMA FramesOfConcat ==
  ASSUME NEW xs \in Seq(Item), NEW ys \in Seq(Item)
  PROVE  FramesOf(xs \o ys) = FramesOf(xs) \o FramesOf(ys)
<1> DEFINE n == Len(ys)
           zs(i) == SubSeq(ys, 1, i)
           T == {i \in 0..n : FramesOf(xs \o zs(i)) = FramesOf(xs) \o FramesOf(zs(i))}
<1>1. n \in Nat
  BY LenProperties
<1>2. 0 \in T
  <2>1. zs(0) = <<>>
    BY SubSeqEmpty
  <2>2. FramesOf(xs) \in Seq(Frame)
    BY FramesOfType
  <2>3. xs \o <<>> = xs /\ FramesOf(xs) \o <<>> = FramesOf(xs)
    BY <2>2, ConcatEmptySeq
  <2>4. FramesOf(xs \o zs(0)) = FramesOf(xs) \o FramesOf(zs(0))
    BY <2>1, <2>3, FramesOfEmpty
  <2> QED BY <1>1, <2>4
<1>3. ASSUME NEW i \in 1..n, i - 1 \in T PROVE i \in T
  <2>1. zs(i - 1) \in Seq(Item) /\ ys[i] \in Item /\ zs(i) = Append(zs(i - 1), ys[i])
    BY OneMore
  <2>2. FramesOf(xs \o zs(i - 1)) = FramesOf(xs) \o FramesOf(zs(i - 1))
    BY <1>3
  <2> HIDE DEF zs
  <2>3. FramesOf(xs) \in Seq(Frame) /\ FramesOf(zs(i - 1)) \in Seq(Frame)
    BY <2>1, FramesOfType
  <2>4. xs \o zs(i) = Append(xs \o zs(i - 1), ys[i]) /\ xs \o zs(i - 1) \in Seq(Item)
    BY <2>1, ConcatAppend
  <2>5. FramesOf(xs \o zs(i)) = WithFrame(FramesOf(xs) \o FramesOf(zs(i - 1)), ys[i])
    BY <2>1, <2>2, <2>4, FramesOfAppend
  <2>6. FramesOf(zs(i)) = WithFrame(FramesOf(zs(i - 1)), ys[i])
    BY <2>1, FramesOfAppend
  <2>7. ASSUME ys[i] = Null PROVE FramesOf(xs \o zs(i)) = FramesOf(xs) \o FramesOf(zs(i))
    BY <2>5, <2>6, <2>7 DEF WithFrame
  <2>8. ASSUME ys[i] # Null PROVE FramesOf(xs \o zs(i)) = FramesOf(xs) \o FramesOf(zs(i))
    <3>1. ys[i] \in Frame /\ <<ys[i]>> \in Seq(Frame)
      BY <2>1, <2>8 DEF Item
    <3>2. FramesOf(xs) \o Append(FramesOf(zs(i - 1)), ys[i])
            = Append(FramesOf(xs) \o FramesOf(zs(i - 1)), ys[i])
      BY <2>3, <3>1, ConcatAppend
    <3> QED BY <2>5, <2>6, <2>8, <3>2 DEF WithFrame
  <2>9. FramesOf(xs \o zs(i)) = FramesOf(xs) \o FramesOf(zs(i))
    BY <2>7, <2>8
  <2> QED BY <2>9 DEF zs
<1> HIDE DEF T, n
<1>4. \A i \in 0..n : i \in T
  BY <1>1, <1>2, <1>3, UpTo
<1>5. n \in T
  BY <1>1, <1>4
<1> QED BY <1>5, SubSeqFull DEF T, n

LEMMA FramesOfFrames ==
  ASSUME NEW fs \in Seq(Frame)
  PROVE  fs \in Seq(Item) /\ FramesOf(fs) = fs
<1> DEFINE n == Len(fs)
           T == {i \in 0..n : FramesOf(SubSeq(fs, 1, i)) = SubSeq(fs, 1, i)}
<1>1. n \in Nat /\ fs \in Seq(Item)
  BY LenProperties, SeqMonotonic DEF Item
<1>2. 0 \in T
  <2>1. SubSeq(fs, 1, 0) = <<>>
    BY SubSeqEmpty
  <2>2. FramesOf(SubSeq(fs, 1, 0)) = SubSeq(fs, 1, 0)
    BY <2>1, FramesOfNone
  <2> QED BY <1>1, <2>2
<1>3. ASSUME NEW i \in 1..n, i - 1 \in T PROVE i \in T
  <2>1. /\ SubSeq(fs, 1, i - 1) \in Seq(Item) /\ fs[i] \in Frame /\ fs[i] \in Item
        /\ SubSeq(fs, 1, i) = Append(SubSeq(fs, 1, i - 1), fs[i])
    BY <1>1, OneMore
  <2>2. FramesOf(SubSeq(fs, 1, i)) = WithFrame(FramesOf(SubSeq(fs, 1, i - 1)), fs[i])
    BY <2>1, FramesOfAppend
  <2>3. FramesOf(SubSeq(fs, 1, i - 1)) = SubSeq(fs, 1, i - 1)
    BY <1>3
  <2>4. FramesOf(SubSeq(fs, 1, i)) = SubSeq(fs, 1, i)
    BY <2>1, <2>2, <2>3, NullAssumption DEF WithFrame
  <2> QED BY <2>4
<1> HIDE DEF T, n
<1>4. \A i \in 0..n : i \in T
  BY <1>1, <1>2, <1>3, UpTo
<1>5. n \in T
  BY <1>1, <1>4
<1> QED BY <1>1, <1>5, SubSeqFull DEF T, n

LEMMA FramesOfNull ==
  ASSUME NEW xs \in Seq(Item)
  PROVE  FramesOf(Append(xs, Null)) = FramesOf(xs)
BY FramesOfAppend DEF WithFrame, Item

\* A frame at the head.
LEMMA FramesOfHead ==
  ASSUME NEW xs \in Seq(Item), xs # <<>>, Head(xs) # Null
  PROVE  /\ Head(xs) \in Frame /\ Tail(xs) \in Seq(Item)
         /\ FramesOf(xs) = <<Head(xs)>> \o FramesOf(Tail(xs))
<1>1. Head(xs) \in Frame /\ Tail(xs) \in Seq(Item)
  BY HeadTailProperties DEF Item
<1>2. <<Head(xs)>> \in Seq(Frame)
  BY <1>1
<1>3. xs = <<Head(xs)>> \o Tail(xs)
  <2>1. /\ <<Head(xs)>> \in Seq(Item) /\ Len(<<Head(xs)>>) = 1 /\ <<Head(xs)>>[1] = Head(xs)
        /\ Len(Tail(xs)) = Len(xs) - 1 /\ Head(xs) = xs[1]
        /\ \A i \in 1..Len(Tail(xs)) : Tail(xs)[i] = xs[i + 1]
    BY <1>1, HeadTailProperties DEF Item
  <2>2. Len(xs) \in Nat \ {0}
    BY EmptySeq
  <2> DEFINE c == <<Head(xs)>> \o Tail(xs)
             h == <<Head(xs)>>
  <2> HIDE DEF h
  <2>3. /\ c \in Seq(Item) /\ Len(c) = Len(xs)
        /\ \A i \in 1..Len(xs) : c[i] = IF i <= 1 THEN h[i] ELSE Tail(xs)[i - 1]
    BY <1>1, <2>1, <2>2, ConcatProperties DEF h
  <2> HIDE DEF c
  <2>4. \A i \in 1..Len(xs) : c[i] = xs[i]
    <3> SUFFICES ASSUME NEW i \in 1..Len(xs) PROVE c[i] = xs[i]
      OBVIOUS
    <3>1. CASE i = 1
      BY <2>1, <2>3, <3>1 DEF h
    <3>2. CASE i > 1
      <4>1. i - 1 \in 1..Len(Tail(xs)) /\ (i - 1) + 1 = i
        BY <2>1, <2>2, <3>2
      <4> QED BY <2>1, <2>3, <3>2, <4>1
    <3> QED BY <2>2, <3>1, <3>2
  <2> QED BY <2>3, <2>4, SeqEqual DEF c, h
<1>4. FramesOf(<<Head(xs)>>) = <<Head(xs)>> /\ <<Head(xs)>> \in Seq(Item)
  BY <1>2, FramesOfFrames
<1> QED BY <1>1, <1>3, <1>4, FramesOfConcat

-----------------------------------------------------------------------------
(* Pushing one thing after the other. *)

LEMMA PushesFold ==
  ASSUME NEW base, NEW seq
  PROVE  FoldLeft(Push, base, seq) = Pushes!Fold(0, base, seq)
BY DEF PushOf, FoldLeft, Pushes!Fold, MapThenFoldSet, Max, Pushes!Greatest

LEMMA PushesAppend ==
  ASSUME NEW q, NEW zs \in Seq(Item), NEW x \in Item
  PROVE  FoldLeft(Push, q, Append(zs, x)) = Push(FoldLeft(Push, q, zs), x)
<1>1. Pushes!Fold(0, q, Append(zs, x)) = Push(Pushes!Fold(0, q, zs), x)
  BY LeastNat, Pushes!FoldAppend DEF PushOf, Pushes!WellOrdered
<1> QED BY <1>1, PushesFold

\* A vacant slot is one that push() can take.
LEMMA HoleReady ==
  ASSUME NEW q, Strict(q)
  PROVE  /\ IsFiniteSet(Holes(q)) /\ Vacant(q) = Cardinality(Holes(q)) /\ Vacant(q) \in Nat
         /\ Vacant(q) # 0 => ReadyToPush(q)
         /\ q.dynamic => ReadyToPush(q)
<1>1. QueueTypeOK(q)
  BY DEF Strict
<1>2. /\ Size(q) \in Nat \ {0} /\ DOMAIN q.que = 1..Size(q)
      /\ q.wr \in 1..Size(q) /\ q.rd \in 1..Size(q)
  BY <1>1, QueueFacts
<1>3. IsFiniteSet(Holes(q))
  <2>1. IsFiniteSet(1..Size(q))
    BY <1>2, FS_Interval
  <2>2. Holes(q) \in SUBSET (1..Size(q))
    BY <1>2 DEF Holes
  <2> QED BY <2>1, <2>2, FS_Subset
<1>4. Vacant(q) = Cardinality(Holes(q)) /\ Vacant(q) \in Nat
  BY <1>3, FS_CardinalityType DEF Vacant, Holes
<1>5. Vacant(q) # 0 => ReadyToPush(q)
  <2> SUFFICES ASSUME Vacant(q) # 0, q.que[q.wr].populated PROVE FALSE
    BY DEF ReadyToPush
  <2>1. q.rd = q.wr
    BY <1>2 DEF Strict, Between
  <2>2. \A i \in 1..Size(q) : q.que[i].populated
    BY <1>2, <2>1 DEF Strict, Between
  <2>3. Holes(q) = {}
    BY <1>2, <2>2 DEF Holes
  <2> QED BY <1>4, <2>3, FS_EmptySet
<1> QED BY <1>3, <1>4, <1>5 DEF ReadyToPush

LEMMA PushOne ==
  ASSUME NEW q, Strict(q), NEW n \in Nat, q.dynamic \/ n + 1 <= Vacant(q), NEW x \in Item
  PROVE  /\ Strict(Push(q, x)) /\ Push(q, x).dynamic = q.dynamic
         /\ Contents(Push(q, x)) = Append(Contents(q), x)
         /\ q.dynamic \/ n <= Vacant(Push(q, x))
<1>1. /\ IsFiniteSet(Holes(q)) /\ Vacant(q) = Cardinality(Holes(q)) /\ Vacant(q) \in Nat
      /\ ReadyToPush(q)
  BY HoleReady
<1>2. /\ Strict(Push(q, x)) /\ Push(q, x).dynamic = q.dynamic
      /\ Contents(Push(q, x)) = Append(Contents(q), x)
      /\ ~q.dynamic => q.wr \in Holes(q) /\ Holes(Push(q, x)) = Holes(q) \ {q.wr}
  BY <1>1, StrictPush DEF Item
<1>3. Vacant(Push(q, x)) = Cardinality(Holes(Push(q, x)))
  BY <1>2, HoleReady
<1>4. ASSUME ~q.dynamic PROVE n <= Vacant(Push(q, x))
  <2>1. n + 1 <= Vacant(q) /\ q.wr \in Holes(q) /\ Holes(Push(q, x)) = Holes(q) \ {q.wr}
    BY <1>2, <1>4
  <2>2. Cardinality(Holes(q) \ {q.wr}) = Cardinality(Holes(q)) - 1
    BY <1>1, <2>1, FS_RemoveElement
  <2>3. Vacant(Push(q, x)) = Vacant(q) - 1
    BY <1>1, <1>3, <2>1, <2>2
  <2> QED BY <1>1, <2>1, <2>3
<1> QED BY <1>2, <1>4

LEMMA FoldPush ==
  ASSUME NEW q, Strict(q), NEW xs \in Seq(Item), HasRoom(q, xs)
  PROVE  LET p == FoldLeft(Push, q, xs)
         IN Strict(p) /\ p.dynamic = q.dynamic /\ Contents(p) = Contents(q) \o xs
<1> DEFINE n == Len(xs)
           zs(i) == SubSeq(xs, 1, i)
           p(i) == FoldLeft(Push, q, zs(i))
           Good(i) == /\ Strict(p(i)) /\ p(i).dynamic = q.dynamic
                      /\ Contents(p(i)) = Contents(q) \o zs(i)
                      /\ q.dynamic \/ n - i <= Vacant(p(i))
           T == {i \in 0..n : Good(i)}
<1>1. n \in Nat
  BY LenProperties
<1>2. Contents(q) \in Seq(Item)
  BY ContentsSeq DEF Strict, Item
<1>3. 0 \in T
  <2>1. zs(0) = <<>>
    BY SubSeqEmpty
  <2>0. Pushes!Fold(0, q, <<>>) = q
    BY LeastNat, Pushes!FoldEmpty DEF Pushes!WellOrdered
  <2>2. p(0) = q
    BY <2>0, <2>1, PushesFold
  <2>3. Contents(q) \o zs(0) = Contents(q)
    BY <1>2, <2>1, ConcatEmptySeq
  <2> HIDE DEF p, zs
  <2>4. Good(0)
    BY <1>1, <2>2, <2>3 DEF HasRoom
  <2> HIDE DEF Good
  <2> QED BY <1>1, <2>4
<1>4. ASSUME NEW i \in 1..n, i - 1 \in T PROVE i \in T
  <2>1. zs(i - 1) \in Seq(Item) /\ xs[i] \in Item /\ zs(i) = Append(zs(i - 1), xs[i])
    BY OneMore
  <2>2. Good(i - 1)
    BY <1>4
  <2>3. p(i) = Push(p(i - 1), xs[i])
    <3> DEFINE z == zs(i - 1)
    <3>1. z \in Seq(Item) /\ zs(i) = Append(z, xs[i])
      BY <2>1
    <3> HIDE DEF z, zs
    <3>2. FoldLeft(Push, q, Append(z, xs[i])) = Push(FoldLeft(Push, q, z), xs[i])
      BY <2>1, <3>1, PushesAppend
    <3> QED BY <3>1, <3>2 DEF z
  <2> HIDE DEF p, zs
  <2> DEFINE o == p(i - 1)
             k == n - i
  <2>4. k \in Nat /\ n - (i - 1) = k + 1
    BY <1>1
  <2>5. Strict(o) /\ o.dynamic = q.dynamic /\ (o.dynamic \/ k + 1 <= Vacant(o))
    BY <2>2, <2>4
  <2>6. /\ Strict(Push(o, xs[i])) /\ Push(o, xs[i]).dynamic = o.dynamic
        /\ Contents(Push(o, xs[i])) = Append(Contents(o), xs[i])
        /\ o.dynamic \/ k <= Vacant(Push(o, xs[i]))
    <3> HIDE DEF o, k
    <3> QED BY <2>1, <2>4, <2>5, PushOne
  <2>7. Contents(q) \o zs(i) = Append(Contents(q) \o zs(i - 1), xs[i])
    BY <1>2, <2>1, ConcatAppend
  <2>8. Good(i)
    BY <2>2, <2>3, <2>5, <2>6, <2>7
  <2> HIDE DEF Good
  <2> QED BY <2>8
<1> HIDE DEF T, n
<1>5. \A i \in 0..n : i \in T
  BY <1>1, <1>3, <1>4, UpTo
<1>6. n \in T
  BY <1>1, <1>5
<1>7. zs(n) = xs
  BY SubSeqFull DEF n
<1> HIDE DEF zs
<1>8. Good(n)
  BY <1>6 DEF T
<1> QED BY <1>7, <1>8

\* What InputStream and SinkBase push to a buffer, one by one.
LEMMA PushAllSpec ==
  ASSUME NEW q, Strict(q), NEW xs \in Seq(Item)
  PROVE  LET p == PushAll(q, xs)
         IN /\ Strict(p) /\ p.dynamic = q.dynamic
            /\ HasRoom(q, xs) => Contents(p) = Contents(q) \o xs
<1>1. CASE HasRoom(q, xs)
  BY <1>1, FoldPush DEF PushAll
<1>2. CASE ~HasRoom(q, xs)
  <2> DEFINE ys == SubSeq(xs, 1, Vacant(q))
  <2>1. Len(xs) \in Nat /\ Vacant(q) \in Nat /\ ~q.dynamic
    BY <1>2, LenProperties, HoleReady DEF HasRoom
  <2>2. Vacant(q) \in 0..Len(xs)
    BY <1>2, <2>1 DEF HasRoom
  <2>3. ys \in Seq(Item) /\ Len(ys) = Vacant(q)
    BY <2>2, Cut
  <2> HIDE DEF ys
  <2>4. HasRoom(q, ys)
    BY <2>1, <2>3 DEF HasRoom
  <2>5. PushAll(q, xs) = FoldLeft(Push, q, ys)
    BY <1>2 DEF PushAll, ys
  <2>6. Strict(FoldLeft(Push, q, ys)) /\ FoldLeft(Push, q, ys).dynamic = q.dynamic
    BY <2>3, <2>4, FoldPush
  <2> QED BY <1>2, <2>5, <2>6
<1> QED BY <1>1, <1>2

-----------------------------------------------------------------------------
(* What a buffer holds, as its stream or its client knows it. *)

\* Only the last thing in a well-formed queue can be an end of file.
LEMMA NullIsLast ==
  ASSUME NEW q, QueueOK(q), NEW k \in 1..Count(q), Contents(q)[k] = Null
  PROVE  Strict(q) /\ k = Count(q) /\ Ended(q)
<1>1. QueueTypeOK(q) /\ SlotsClean(q) /\ EofIsLast(q)
  BY DEF QueueOK
<1>2. Count(q) \in Nat
  BY <1>1, ContentsSeq, QueueFacts
<1>3. Count(q) # 0
  BY <1>2
<1>4. Strict(q)
  BY <1>3, ReadyIsNonEmpty, StrictOf
<1>5. At(q, k) \in DOMAIN q.que /\ q.que[At(q, k)].populated
  BY <1>4, PlacesBetween
<1>6. q.que[At(q, k)].frame = Null
  BY <1>1, ContentsSeq
<1>7. q.que[At(q, k)].eof
  BY <1>1, <1>5, <1>6, NullAssumption DEF SlotsClean
<1>8. At(q, k) = Before(q, q.wr)
  BY <1>1, <1>5, <1>7 DEF EofIsLast
<1> QED BY <1>4, <1>7, <1>8, PlacesBetween DEF Ended

LEMMA FramesType ==
  ASSUME NEW q, QueueTypeOK(q)
  PROVE  Contents(q) \in Seq(Item) /\ Frames(q) \in Seq(Frame)
BY ContentsSeq, FramesOfType DEF Frames, Item

LEMMA OpenQueue ==
  ASSUME NEW q, QueueOK(q), ~Ended(q)
  PROVE  Strict(q) /\ Contents(q) \in Seq(Frame) /\ Frames(q) = Contents(q)
<1>1. Strict(q)
  BY StrictOf
<1>2. QueueTypeOK(q)
  BY DEF QueueOK
<1>3. Contents(q) \in Seq(Item) /\ Len(Contents(q)) = Count(q)
  BY <1>2, ContentsSeq DEF Item
<1>4. \A k \in 1..Len(Contents(q)) : Contents(q)[k] \in Frame
  <2> SUFFICES ASSUME NEW k \in 1..Len(Contents(q)) PROVE Contents(q)[k] \in Frame
    OBVIOUS
  <2>1. Contents(q)[k] # Null
    BY <1>3, NullIsLast
  <2>2. Contents(q)[k] \in Item
    BY <1>3, ElementOfSeq
  <2> QED BY <2>1, <2>2 DEF Item
<1>5. Contents(q) \in Seq(Frame)
  <2>1. Len(Contents(q)) \in Nat /\ Contents(q) \in [1..Len(Contents(q)) -> Item]
    BY <1>3, LenProperties
  <2>2. Contents(q) \in [1..Len(Contents(q)) -> Frame]
    BY <1>4, <2>1
  <2> QED BY <2>1, <2>2, SeqDef
<1>6. FramesOf(Contents(q)) = Contents(q)
  BY <1>5, FramesOfFrames
<1> QED BY <1>1, <1>5, <1>6 DEF Frames

LEMMA FramesOnly ==
  ASSUME NEW p, Strict(p), Contents(p) \in Seq(Frame)
  PROVE  QueueOK(p) /\ ~Ended(p) /\ Frames(p) = Contents(p)
<1>1. Len(Contents(p)) = Count(p) /\ Count(p) \in Nat
  BY ContentsSeq DEF Strict
<1>2. \A k \in 1..Count(p) : Contents(p)[k] # Null
  <2> SUFFICES ASSUME NEW k \in 1..Count(p) PROVE Contents(p)[k] # Null
    OBVIOUS
  <2>1. Contents(p)[k] \in Frame
    BY <1>1, ElementOfSeq
  <2> QED BY <2>1, NullAssumption
<1>3. Count(p) # 0 => Count(p) \in 1..Count(p)
  BY <1>1
<1> QED BY <1>2, <1>3, StrictWellFormed, FramesOfFrames DEF Frames

LEMMA FramesThenEof ==
  ASSUME NEW p, Strict(p), NEW fs \in Seq(Frame), Contents(p) = Append(fs, Null)
  PROVE  QueueOK(p) /\ Ended(p) /\ Frames(p) = fs
<1>1. Len(Contents(p)) = Count(p) /\ Count(p) \in Nat
  BY ContentsSeq DEF Strict
<1>2. fs \in Seq(Item) /\ FramesOf(fs) = fs /\ Len(fs) \in Nat
  BY FramesOfFrames, LenProperties
<1>3. /\ Count(p) = Len(fs) + 1 /\ Contents(p)[Count(p)] = Null
      /\ \A i \in 1..Len(fs) : Contents(p)[i] = fs[i]
  BY <1>1, <1>2, AppendProperties DEF Item
<1>4. \A k \in 1..Count(p) : Contents(p)[k] = Null => k = Count(p)
  <2> SUFFICES ASSUME NEW k \in 1..Count(p), k # Count(p) PROVE Contents(p)[k] # Null
    OBVIOUS
  <2>1. k \in 1..Len(fs)
    BY <1>2, <1>3
  <2>2. fs[k] \in Frame
    BY <2>1, ElementOfSeq
  <2> QED BY <1>3, <2>1, <2>2, NullAssumption
<1>5. Count(p) # 0
  BY <1>2, <1>3
<1>6. QueueOK(p) /\ Ended(p)
  BY <1>3, <1>4, <1>5, StrictWellFormed
<1>7. FramesOf(Append(fs, Null)) = fs
  BY <1>2, FramesOfNull
<1> QED BY <1>6, <1>7 DEF Frames

\* A buffer that is at its end.
LEMMA AtItsEnd ==
  ASSUME NEW q, QueueOK(q), AtEof(q)
  PROVE  Strict(q) /\ Ended(q) /\ Contents(q) = <<Null>> /\ Frames(q) = <<>>
<1>1. QueueTypeOK(q) /\ SlotsClean(q) /\ EofIsLast(q)
  BY DEF QueueOK
<1>2. ReadyToPop(q)
  BY DEF AtEof, IsEmpty, ReadyToPop
<1>3. Strict(q) /\ Count(q) # 0
  BY <1>2, ReadyIsNonEmpty, StrictOf
<1>4. /\ Size(q) \in Nat \ {0} /\ q.rd \in 1..Size(q) /\ q.wr \in 1..Size(q)
      /\ DOMAIN q.que = 1..Size(q) /\ Count(q) \in 0..Size(q)
      /\ Contents(q) \in Seq(Item) /\ Len(Contents(q)) = Count(q)
      /\ \A k \in 1..Count(q) : Contents(q)[k] = q.que[At(q, k)].frame
  BY <1>1, QueueFacts, ContentsSeq DEF Item
<1>5. 1 \in 1..Count(q) /\ At(q, 1) = q.rd
  BY <1>3, <1>4 DEF At
<1>6. q.que[q.rd].eof /\ q.rd = Before(q, q.wr)
  BY <1>1, <1>4 DEF AtEof, EofIsLast
<1>7. Count(q) = 1
  BY <1>3, <1>5, <1>6, PlacesBetween
<1>8. q.que[q.rd].frame = Null
  BY <1>1, <1>4, <1>6 DEF SlotsClean
<1>9. Contents(q)[1] = Null
  BY <1>4, <1>5, <1>8
<1>10. Contents(q) = <<Null>>
  BY <1>4, <1>7, <1>9
<1>11. Ended(q)
  BY <1>6 DEF Ended
<1>12. FramesOf(<<Null>>) = <<>>
  <2> DEFINE none == SubSeq(<<Null>>, 1, 0)
  <2>1. none = <<>> /\ <<Null>> = Append(<<>>, Null)
    BY SubSeqEmpty
  <2>2. none \in Seq(Item)
    BY <2>1, EmptySeq
  <2>3. FramesOf(Append(none, Null)) = FramesOf(none)
    <3> HIDE DEF none
    <3> QED BY <2>2, FramesOfNull
  <2> QED BY <2>1, <2>3, FramesOfEmpty
<1> QED BY <1>3, <1>10, <1>11, <1>12 DEF Frames

\* A buffer with nothing to pop.
LEMMA NothingInIt ==
  ASSUME NEW q, QueueOK(q), ~ReadyToPop(q)
  PROVE  Frames(q) = <<>>
BY ReadyIsNonEmpty, FramesOfEmpty DEF Frames

LEMMA PushedFrames ==
  ASSUME NEW q, QueueOK(q), ~Ended(q), NEW fs \in Seq(Frame), HasRoom(q, fs)
  PROVE  LET p == PushAll(q, fs)
         IN QueueOK(p) /\ ~Ended(p) /\ Frames(p) = Frames(q) \o fs
<1> DEFINE p == PushAll(q, fs)
<1>1. Strict(q) /\ Contents(q) \in Seq(Frame) /\ Frames(q) = Contents(q) /\ fs \in Seq(Item)
  BY OpenQueue, FramesOfFrames
<1>2. Strict(p) /\ Contents(p) = Contents(q) \o fs
  BY <1>1, PushAllSpec
<1> HIDE DEF p
<1>3. Contents(p) \in Seq(Frame)
  BY <1>1, <1>2, ConcatProperties
<1>4. QueueOK(p) /\ ~Ended(p) /\ Frames(p) = Contents(p)
  BY <1>2, <1>3, FramesOnly
<1> QED BY <1>1, <1>2, <1>4 DEF p

LEMMA PushedEof ==
  ASSUME NEW q, QueueOK(q), ~Ended(q), NEW fs \in Seq(Frame), HasRoom(q, Append(fs, Null))
  PROVE  LET p == PushAll(q, Append(fs, Null))
         IN QueueOK(p) /\ Ended(p) /\ Frames(p) = Frames(q) \o fs
<1> DEFINE xs == Append(fs, Null)
           p == PushAll(q, xs)
           c == Contents(q)
<1>1. Strict(q) /\ c \in Seq(Frame) /\ Frames(q) = c /\ fs \in Seq(Item) /\ c \in Seq(Item)
  BY OpenQueue, FramesOfFrames
<1>2. xs \in Seq(Item)
  BY <1>1, AppendProperties DEF Item
<1>3. Strict(p) /\ Contents(p) = c \o xs
  <2> HIDE DEF xs
  <2> QED BY <1>1, <1>2, PushAllSpec DEF xs
<1>4. c \o xs = Append(c \o fs, Null) /\ c \o fs \in Seq(Frame)
  <2>1. Null \in Item
    BY DEF Item
  <2>2. c \o fs \in Seq(Frame)
    BY <1>1, ConcatProperties
  <2> HIDE DEF c
  <2> QED BY <1>1, <2>1, <2>2, ConcatAppend
<1> DEFINE d == c \o fs
<1> HIDE DEF p, xs, c, d
<1>5. Contents(p) = Append(d, Null) /\ d \in Seq(Frame)
  BY <1>3, <1>4 DEF d
<1>6. QueueOK(p) /\ Ended(p) /\ Frames(p) = d
  BY <1>3, <1>5, FramesThenEof
<1> QED BY <1>1, <1>6 DEF p, xs, c, d

\* pop() of a frame, and of an end of file.
LEMMA PopFrame ==
  ASSUME NEW q, QueueOK(q), ReadyToPop(q), Oldest(q) # Null
  PROVE  /\ QueueOK(Pop(q)) /\ (Ended(Pop(q)) <=> Ended(q)) /\ Pop(q).dynamic = q.dynamic
         /\ Oldest(q) \in Frame /\ Frames(q) = <<Oldest(q)>> \o Frames(Pop(q))
<1>1. Strict(q) /\ QueueOK(Pop(q)) /\ (Ended(Pop(q)) <=> Ended(q))
  BY StrictOf, PopOK
<1>2. /\ Pop(q).dynamic = q.dynamic
      /\ Contents(q) # <<>> /\ Oldest(q) = Head(Contents(q))
      /\ Contents(Pop(q)) = Tail(Contents(q))
  BY <1>1, StrictPop
<1>3. Contents(q) \in Seq(Item)
  BY FramesType DEF QueueOK
<1>4. /\ Head(Contents(q)) \in Frame
      /\ FramesOf(Contents(q)) = <<Head(Contents(q))>> \o FramesOf(Tail(Contents(q)))
  BY <1>2, <1>3, FramesOfHead
<1> QED BY <1>1, <1>2, <1>4 DEF Frames

LEMMA PopStrict ==
  ASSUME NEW q, Strict(q), ReadyToPop(q), Oldest(q) # Null
  PROVE  /\ Strict(Pop(q)) /\ Pop(q).dynamic = q.dynamic
         /\ Oldest(q) \in Frame /\ Frames(q) = <<Oldest(q)>> \o Frames(Pop(q))
<1>1. /\ Strict(Pop(q)) /\ Pop(q).dynamic = q.dynamic
      /\ Contents(q) # <<>> /\ Oldest(q) = Head(Contents(q))
      /\ Contents(Pop(q)) = Tail(Contents(q))
  BY StrictPop
<1>2. Contents(q) \in Seq(Item)
  BY FramesType DEF Strict
<1>3. /\ Head(Contents(q)) \in Frame
      /\ FramesOf(Contents(q)) = <<Head(Contents(q))>> \o FramesOf(Tail(Contents(q)))
  BY <1>1, <1>2, FramesOfHead
<1> QED BY <1>1, <1>3 DEF Frames

LEMMA PopEof ==
  ASSUME NEW q, QueueOK(q), ReadyToPop(q), Oldest(q) = Null
  PROVE  /\ QueueOK(Pop(q)) /\ Ended(Pop(q)) /\ Ended(q) /\ Pop(q).dynamic = q.dynamic
         /\ Frames(q) = <<>> /\ Frames(Pop(q)) = <<>>
<1>1. QueueTypeOK(q) /\ q.rd \in DOMAIN q.que /\ SlotsClean(q)
  BY DEF QueueOK, QueueTypeOK
<1>2. AtEof(q)
  BY <1>1, NullAssumption DEF SlotsClean, ReadyToPop, Oldest, AtEof, IsEmpty
<1>3. Ended(q) /\ Contents(q) = <<Null>> /\ Frames(q) = <<>>
  BY <1>2, AtItsEnd
<1>4. QueueOK(Pop(q)) /\ (Ended(Pop(q)) <=> Ended(q))
  BY PopOK
<1>5. Pop(q).dynamic = q.dynamic
  BY <1>1, PopShape
<1>6. Contents(Pop(q)) = Tail(Contents(q)) \/ Contents(Pop(q)) = Contents(q)
  BY ContentsPop
<1>7. Tail(<<Null>>) = <<>>
  OBVIOUS
<1>8. CASE Contents(Pop(q)) = Contents(q)
  BY <1>3, <1>4, <1>5, <1>8 DEF Frames
<1>9. CASE Contents(Pop(q)) = Tail(Contents(q))
  <2>1. Contents(Pop(q)) = <<>>
    BY <1>3, <1>7, <1>9
  <2>2. Frames(Pop(q)) = <<>>
    BY <2>1, FramesOfEmpty DEF Frames
  <2> QED BY <1>3, <1>4, <1>5, <2>2
<1> QED BY <1>6, <1>8, <1>9

\* pop() keeps the ring, whatever is in it.
LEMMA PopRing ==
  ASSUME NEW q, QueueTypeOK(q)
  PROVE  QueueTypeOK(Pop(q)) /\ Pop(q).dynamic = q.dynamic
BY PopShape

\* A buffer that was cleared or just made.
LEMMA FreshQueue ==
  /\ \A q : QueueTypeOK(q) => /\ QueueOK(Clear(q)) /\ ~Ended(Clear(q))
                              /\ Frames(Clear(q)) = <<>> /\ Clear(q).dynamic = q.dynamic
  /\ \A N \in Nat : /\ QueueOK(NewQueue(N)) /\ ~Ended(NewQueue(N))
                    /\ Frames(NewQueue(N)) = <<>> /\ NewQueue(N).dynamic = (N = 0)
<1>1. ASSUME NEW q, QueueTypeOK(q)
      PROVE  /\ QueueOK(Clear(q)) /\ ~Ended(Clear(q))
             /\ Frames(Clear(q)) = <<>> /\ Clear(q).dynamic = q.dynamic
  <2>1. /\ QueueOK(Clear(q)) /\ ~Ended(Clear(q)) /\ Count(Clear(q)) = 0
        /\ Clear(q).dynamic = q.dynamic
    BY <1>1, ClearOK
  <2> QED BY <2>1, ContentsEmpty, FramesOfEmpty DEF Frames, QueueOK
<1>2. ASSUME NEW N \in Nat
      PROVE  /\ QueueOK(NewQueue(N)) /\ ~Ended(NewQueue(N))
             /\ Frames(NewQueue(N)) = <<>> /\ NewQueue(N).dynamic = (N = 0)
  <2>1. /\ QueueOK(NewQueue(N)) /\ ~Ended(NewQueue(N)) /\ Count(NewQueue(N)) = 0
        /\ NewQueue(N).dynamic = (N = 0)
    BY NewQueueOK
  <2> QED BY <2>1, ContentsEmpty, FramesOfEmpty DEF Frames, QueueOK
<1> QED BY <1>1, <1>2

-----------------------------------------------------------------------------
(* The frames that are still to be read. *)

\* The frames of one stream among the packets from p on, given those from p + 1 on.
RestStep(p, rest) ==
  IF p > Len(Media) THEN [s \in Stream |-> <<>>]
  ELSE IF ~Media[p].intact THEN rest
  ELSE [rest EXCEPT ![Media[p].stream] = <<p>> \o @]

IsRest(f, lo) ==
  f = [p \in lo..(Len(Media) + 1) |-> RestStep(p, f[p + 1])]

LEMMA MediaFacts ==
  /\ Len(Media) \in Nat /\ DOMAIN Media = 1..Len(Media) /\ Frame = 1..Len(Media)
  /\ \A k \in 1..Len(Media) :
       Media[k].stream \in Stream /\ Media[k].time \in Nat /\ Media[k].intact \in BOOLEAN
<1> DEFINE Packet == [stream : Stream, time : Nat, intact : BOOLEAN]
<1>1. Media \in Seq(Packet) /\ Frame = DOMAIN Media
  BY MediaAssumption
<1>2. \A k \in 1..Len(Media) : Media[k] \in Packet
  BY <1>1, ElementOfSeq
<1> QED BY <1>1, <1>2, LenProperties

\* The recursion is one on how far p is from the end of the media.
LEMMA RestExists == \E f : IsRest(f, 1)
<1> DEFINE L == Len(Media)
           T == {n \in 0..L : \E f : IsRest(f, L + 1 - n)}
<1>1. L \in Nat
  BY MediaFacts
<1>2. 0 \in T
  <2> DEFINE f == [p \in (L + 1)..(L + 1) |-> [s \in Stream |-> <<>>]]
  <2>1. \A p \in (L + 1)..(L + 1) : RestStep(p, f[p + 1]) = [s \in Stream |-> <<>>]
    BY <1>1 DEF RestStep
  <2>2. f = [p \in (L + 1)..(L + 1) |-> RestStep(p, f[p + 1])]
    BY <2>1
  <2>3. IsRest(f, L + 1)
    BY <2>2 DEF IsRest
  <2>4. L + 1 - 0 = L + 1
    BY <1>1
  <2> HIDE DEF f
  <2> QED BY <1>1, <2>3, <2>4
<1>3. ASSUME NEW n \in 1..L, n - 1 \in T PROVE n \in T
  <2> DEFINE lo == L + 1 - n
  <2>1. PICK g : IsRest(g, lo + 1)
    <3>1. L + 1 - (n - 1) = lo + 1
      BY <1>1
    <3>2. PICK g : IsRest(g, L + 1 - (n - 1))
      BY <1>3
    <3> QED BY <3>1, <3>2
  <2>2. lo \in 1..L
    BY <1>1
  <2> DEFINE f == [p \in lo..(L + 1) |-> IF p = lo THEN RestStep(lo, g[lo + 1]) ELSE g[p]]
  <2>3. ASSUME NEW p \in lo..(L + 1) PROVE f[p] = RestStep(p, f[p + 1])
    <3>1. CASE p = lo
      <4>1. lo + 1 \in lo..(L + 1) /\ lo + 1 # lo
        BY <1>1, <2>2
      <4>2. f[lo + 1] = g[lo + 1] /\ f[lo] = RestStep(lo, g[lo + 1])
        BY <2>2, <4>1
      <4> HIDE DEF f, lo
      <4> QED BY <3>1, <4>2
    <3>2. CASE p # lo
      <4>1. p \in (lo + 1)..(L + 1)
        BY <1>1, <2>2, <3>2
      <4>2. g[p] = RestStep(p, g[p + 1])
        BY <2>1, <4>1 DEF IsRest
      <4>3. f[p] = g[p]
        BY <3>2
      <4>4. p \in 1..L => f[p + 1] = g[p + 1]
        <5> SUFFICES ASSUME p \in 1..L PROVE f[p + 1] = g[p + 1]
          OBVIOUS
        <5>1. p + 1 \in lo..(L + 1) /\ p + 1 # lo
          BY <1>1, <2>2, <4>1
        <5> QED BY <5>1
      <4>5. p \in 1..L \/ p > L
        BY <1>1, <2>2, <4>1
      <4> HIDE DEF f, lo
      <4> QED BY <4>2, <4>3, <4>4, <4>5 DEF RestStep
    <3> QED BY <3>1, <3>2
  <2>4. f = [p \in lo..(L + 1) |-> RestStep(p, f[p + 1])]
    <3>1. f = [p \in lo..(L + 1) |-> f[p]]
      OBVIOUS
    <3> HIDE DEF f, lo
    <3> QED BY <2>3, <3>1
  <2>5. IsRest(f, lo)
    BY <2>4 DEF IsRest
  <2> HIDE DEF f
  <2> QED BY <1>1, <2>2, <2>5
<1> HIDE DEF T
<1>4. \A n \in 0..L : n \in T
  BY <1>1, <1>2, <1>3, UpTo
<1>5. L \in T /\ L + 1 - L = 1
  BY <1>1, <1>4
<1> QED BY <1>5 DEF T

LEMMA RestDef ==
  ASSUME NEW p \in 1..(Len(Media) + 1)
  PROVE  RestFrom[p] = RestStep(p, RestFrom[p + 1])
<1> DEFINE Def(f) == f = [q \in 1..(Len(Media) + 1) |->
                            IF q > Len(Media) THEN [s \in Stream |-> <<>>]
                            ELSE IF ~Media[q].intact THEN f[q + 1]
                            ELSE [f[q + 1] EXCEPT ![Media[q].stream] = <<q>> \o @]]
<1>1. \E f : Def(f)
  <2>1. PICK f : IsRest(f, 1)
    BY RestExists
  <2>2. Def(f)
    BY <2>1, Zenon DEF IsRest, RestStep
  <2> QED BY <2>2
<1>2. RestFrom = CHOOSE f : Def(f)
  BY DEF RestFrom
<1>3. Def(RestFrom)
  <2> HIDE DEF Def
  <2> QED BY <1>1, <1>2
<1>4. RestFrom[p] = IF p > Len(Media) THEN [s \in Stream |-> <<>>]
                    ELSE IF ~Media[p].intact THEN RestFrom[p + 1]
                    ELSE [RestFrom[p + 1] EXCEPT ![Media[p].stream] = <<p>> \o @]
  BY <1>3, Zenon
<1> QED BY <1>4 DEF RestStep

LEMMA RestLast == RestFrom[Len(Media) + 1] = [s \in Stream |-> <<>>]
<1>1. Len(Media) + 1 \in 1..(Len(Media) + 1) /\ Len(Media) + 1 > Len(Media)
  BY MediaFacts
<1> QED BY <1>1, RestDef DEF RestStep

LEMMA RestType ==
  ASSUME NEW p \in 1..(Len(Media) + 1)
  PROVE  RestFrom[p] \in [Stream -> Seq(Frame)]
<1> DEFINE L == Len(Media)
           T == {n \in 0..L : RestFrom[L + 1 - n] \in [Stream -> Seq(Frame)]}
<1>1. L \in Nat
  BY MediaFacts
<1>2. 0 \in T
  <2>1. RestFrom[L + 1] = [s \in Stream |-> <<>>]
    BY RestLast
  <2>2. <<>> \in Seq(Frame) /\ L + 1 - 0 = L + 1
    BY <1>1, EmptySeq
  <2>3. [s \in Stream |-> <<>>] \in [Stream -> Seq(Frame)]
    BY <2>2
  <2>4. RestFrom[L + 1 - 0] \in [Stream -> Seq(Frame)]
    BY <2>1, <2>2, <2>3
  <2> QED BY <1>1, <2>4
<1>3. ASSUME NEW n \in 1..L, n - 1 \in T PROVE n \in T
  <2> DEFINE q == L + 1 - n
  <2>1. q \in 1..L /\ L + 1 - (n - 1) = q + 1 /\ ~(q > L) /\ q \in 1..(L + 1)
    BY <1>1
  <2>2. RestFrom[q + 1] \in [Stream -> Seq(Frame)]
    BY <1>3, <2>1
  <2>3. RestFrom[q] = RestStep(q, RestFrom[q + 1])
    <3> HIDE DEF q
    <3> QED BY <2>1, RestDef
  <2> HIDE DEF q
  <2>4. q \in Frame /\ Media[q].stream \in Stream
    BY <2>1, MediaFacts
  <2>5. \A xs \in Seq(Frame) : <<q>> \o xs \in Seq(Frame)
    BY <2>4, ConcatProperties
  <2>6. RestStep(q, RestFrom[q + 1]) \in [Stream -> Seq(Frame)]
    BY <2>1, <2>2, <2>4, <2>5 DEF RestStep
  <2>7. RestFrom[q] \in [Stream -> Seq(Frame)]
    BY <2>3, <2>6
  <2> QED BY <2>7 DEF q
<1> HIDE DEF T
<1>4. \A n \in 0..L : n \in T
  BY <1>1, <1>2, <1>3, UpTo
<1>5. L + 1 - p \in 0..L /\ L + 1 - (L + 1 - p) = p
  BY <1>1
<1>6. L + 1 - p \in T
  BY <1>4, <1>5
<1> QED BY <1>5, <1>6 DEF T

\* Nothing is left at the end of the media.
LEMMA RestAtEnd ==
  ASSUME NEW s \in Stream
  PROVE  RestFrom[Len(Media) + 1][s] = <<>>
BY RestLast

\* What one packet takes from what is left.
LEMMA RestAtPacket ==
  ASSUME NEW k \in 1..Len(Media), NEW s \in Stream
  PROVE  RestFrom[k][s] = IF Media[k].intact /\ Media[k].stream = s
                          THEN <<k>> \o RestFrom[k + 1][s] ELSE RestFrom[k + 1][s]
<1>1. k \in 1..(Len(Media) + 1) /\ k + 1 \in 1..(Len(Media) + 1) /\ ~(k > Len(Media))
  BY MediaFacts
<1>2. RestFrom[k] = RestStep(k, RestFrom[k + 1]) /\ RestFrom[k + 1] \in [Stream -> Seq(Frame)]
  BY <1>1, RestDef, RestType
<1>3. CASE ~Media[k].intact
  BY <1>1, <1>2, <1>3 DEF RestStep
<1>4. CASE Media[k].intact
  <2>1. RestFrom[k] = [RestFrom[k + 1] EXCEPT ![Media[k].stream] = <<k>> \o @]
    BY <1>1, <1>2, <1>4 DEF RestStep
  <2> QED BY <1>2, <1>4, <2>1
<1> QED BY <1>3, <1>4

\* Packets of other streams do not count.
LEMMA RestSkip ==
  ASSUME NEW s \in Stream, NEW p \in 1..(Len(Media) + 1), NEW k \in p..(Len(Media) + 1),
         \A j \in p..(k - 1) : Media[j].stream # s
  PROVE  RestFrom[p][s] = RestFrom[k][s]
<1> DEFINE n == k - p
           T == {i \in 0..n : RestFrom[k - i][s] = RestFrom[k][s]}
<1>1. n \in Nat /\ Len(Media) \in Nat
  BY MediaFacts
<1>2. 0 \in T
  <2>1. k - 0 = k
    OBVIOUS
  <2> QED BY <1>1, <2>1
<1>3. ASSUME NEW i \in 1..n, i - 1 \in T PROVE i \in T
  <2>1. /\ k - i \in 1..Len(Media) /\ k - (i - 1) = (k - i) + 1
        /\ k - i \in p..(k - 1)
    BY <1>1
  <2>2. RestFrom[k - (i - 1)][s] = RestFrom[k][s]
    BY <1>3
  <2>3. RestFrom[k - i][s] = RestFrom[(k - i) + 1][s]
    <3>1. Media[k - i].stream # s
      BY <2>1
    <3> QED BY <2>1, <3>1, RestAtPacket
  <2> QED BY <2>1, <2>2, <2>3
<1> HIDE DEF T, n
<1>4. \A i \in 0..n : i \in T
  BY <1>1, <1>2, <1>3, UpTo
<1>5. n \in T
  BY <1>1, <1>4
<1>6. RestFrom[k - n][s] = RestFrom[k][s]
  BY <1>5 DEF T
<1>7. k - n = p
  BY MediaFacts DEF n
<1> QED BY <1>6, <1>7

-----------------------------------------------------------------------------
(* What the reader keeps, call after call. *)

\* A state of the reader's parts, as its operations compute one.
File == [isOpen : BOOLEAN, eof : BOOLEAN, pos : 1..(Len(Media) + 1),
         sink : [Stream -> Buffer \cup {NoBuffer}], held : [Stream -> Seq(Frame)]]

FilterGraphs ==
  [parsed : BOOLEAN, outs : SUBSET Sink, source : BOOLEAN, sinks : SUBSET Sink,
   context : BOOLEAN, stale : BOOLEAN, eof : BOOLEAN, ended : BOOLEAN,
   inside : Seq(Frame), fed : Seq(Frame)]

State == [file : File, graph : FilterGraphs, bufs : [Buffer -> Queue \cup {NoBuffer}],
          how : {"ok", "throw", "stuck", "spin", "undefined"}]

Exists(m, b) == m.bufs[b] # NoBuffer

\* Who pushes where, and which buffers there are.
Wired(m) ==
  /\ \A b \in Buffer : Exists(m, b) => QueueTypeOK(m.bufs[b])
  /\ \A b \in Stream \cup Sink : Exists(m, b) => RingContiguous(m.bufs[b])
  /\ \A s \in Stream : /\ m.file.sink[s] \in {s, In, NoBuffer}
                       /\ m.file.sink[s] = s <=> Exists(m, s)
                       /\ m.file.sink[s] = In => Exists(m, In)
  /\ ~m.file.isOpen => Active(m.file) = {}
  /\ m.graph.parsed => Exists(m, In) /\ m.graph.source
  /\ m.graph.sinks \subseteq m.graph.outs /\ \A k \in m.graph.sinks : Exists(m, k)
  /\ ~m.graph.parsed => m.graph = NoGraph

\* The decoder of s is drained, and there are no packets left for it.
Done(f, s) == f.eof /\ f.pos = Len(Media) + 1 /\ f.held[s] = <<>>

\* No end of file has gone through the graph, nor into the buffer of an output.
Settled(m) ==
  /\ Exists(m, In) => Strict(m.bufs[In]) /\ m.bufs[In].dynamic
  /\ \A k \in Sink : Exists(m, k) => QueueOK(m.bufs[k]) /\ ~Ended(m.bufs[k])
  /\ ~m.graph.eof /\ ~m.graph.ended

\* The buffers of the streams in open wait for more, and another one has its end
\* of file only when its stream is done.
LiveBut(m, open) ==
  /\ Settled(m)
  /\ \A s \in Stream : Exists(m, s) =>
       /\ QueueOK(m.bufs[s])
       /\ Ended(m.bufs[s]) => s \notin open /\ Done(m.file, s)

Live(m) == LiveBut(m, {})

\* A seek to the end noted the end of file in each buffer, for a second time.
Noted(m) ==
  /\ Settled(m)
  /\ \A k \in Sink : ~Exists(m, k)
  /\ \A s \in Stream : Exists(m, s) =>
       Strict(m.bufs[s]) /\ Contents(m.bufs[s]) = <<Null, Null>> /\ Done(m.file, s)

\* Nobody else feeds the buffer of s, and somebody reads it.
Alone(m, s) ==
  LET b == m.file.sink[s]
  IN {r \in Stream : m.file.sink[r] = b} = {s} /\ (b = In => m.graph.parsed)

\* Where the frames of s are: given away, in its buffer, in its decoder, to come.
Account(m, s, got) ==
  LET b == m.file.sink[s]
  IN (IF b = In THEN m.graph.fed ELSE got[b])
       \o Frames(m.bufs[b]) \o m.file.held[s] \o Rest(m.file, s)

\* The accounts of NothingLost, for what was given and what was due.
StreamsBalanced(m, got, owed) ==
  \A s \in Active(m.file) : Alone(m, s) => owed[m.file.sink[s]] = Account(m, s, got)

SinksBalanced(m, got) ==
  \A k \in m.graph.sinks : m.graph.fed = got[k] \o Frames(m.bufs[k]) \o m.graph.inside

Balanced(m, got, owed) == StreamsBalanced(m, got, owed) /\ SinksBalanced(m, got)

Configured(m) == m.graph.parsed => m.graph.context /\ m.graph.sinks = m.graph.outs

Calls == [at : {"idle", "get", "fill", "seek", "purge", "stuck", "spin", "undefined"},
          buf : Buffer \cup {NoBuffer}, more : BOOLEAN, time : Nat, turn : BOOLEAN]

Typed ==
  /\ Now \in State
  /\ active \in BOOLEAN
  /\ call \in Calls
  /\ gone \in [Buffer -> Seq(Frame)] /\ due \in [Buffer -> Seq(Frame)]

\* A call in progress is one that the code lets get there.
Calling ==
  /\ call.at = "idle" => call = Idle
  /\ call.at \in {"get", "fill"} => call.buf \in Outputs
  /\ call.at \in {"get", "fill", "seek", "purge"} => active
  /\ active => FileReady(file)
  /\ active /\ call.at # "undefined" => Configured(Now)
  /\ ~active => graph.inside = <<>> /\ graph.fed = <<>> /\ gone = OnNothing

\* A buffer is said to be at its end only when nothing more can come out of it.
Honest ==
  (\A b \in Outputs : bufs[b].dynamic) =>
    \A s \in said \cap Stream : Exists(Now, s) => Frames(bufs[s]) = <<>> /\ Done(file, s)

ReaderInv ==
  /\ Typed /\ Wired(Now) /\ Calling
  /\ ~Lost => /\ Live(Now) \/ (Noted(Now) /\ active /\ call = Idle)
              /\ Balanced(Now, gone, due)
  /\ said # {} => ~Lost /\ Honest

-----------------------------------------------------------------------------
(* What the steps of a read do. *)

\* A finite set in some order: each of its elements once.
LEMMA InOrder ==
  ASSUME NEW S, IsFiniteSet(S)
  PROVE  LET seq == SetToSeq(S)
             n == Cardinality(S)
         IN /\ n \in Nat /\ DOMAIN seq = 1..n
            /\ S = {seq[j] : j \in 1..n}
            /\ \A i, j \in 1..n : seq[i] = seq[j] => i = j
<1> DEFINE n == Cardinality(S)
           seq == SetToSeq(S)
<1>1. n \in Nat /\ ExistsBijection(1..n, S)
  BY FS_CardinalityType
<1>2. \E f \in [1..n -> S] : IsInjective(f)
  <2>1. PICK f : f \in Bijection(1..n, S)
    BY <1>1 DEF ExistsBijection
  <2>2. f \in [1..n -> S] /\ IsInjective(f)
    BY <2>1 DEF Bijection, Injection, IsInjective
  <2> QED BY <2>2
<1>3. seq \in [1..n -> S] /\ IsInjective(seq)
  BY <1>2 DEF SetToSeq
<1>4. seq \in Injection(1..n, S)
  BY <1>3 DEF Injection, IsInjective
<1>5. Cardinality(1..n) = n
  BY <1>1, FS_Interval
<1>6. seq \in Surjection(1..n, S)
  BY <1>4, <1>5, FS_Injection
<1>7. S = {seq[j] : j \in 1..n}
  BY <1>6, <1>3 DEF Surjection
<1>8. \A i, j \in 1..n : seq[i] = seq[j] => i = j
  BY <1>3 DEF IsInjective
<1> QED BY <1>1, <1>3, <1>7, <1>8

\* The names of buffers are all different.
LEMMA Names ==
  /\ In \in Buffer /\ NoBuffer \notin Buffer /\ NoBuffer \notin Queue
  /\ \A s \in Stream : s \in Buffer /\ s # In /\ s \notin Sink /\ s # NoBuffer
  /\ \A k \in Sink : k \in Buffer /\ k # In /\ k \notin Stream
  /\ \A b \in Buffer : b \in Stream \/ b \in Sink \/ b = In
BY BufferAssumption DEF Buffer

\* The parts of a state.
LEMMA StateFacts ==
  ASSUME NEW m \in State
  PROVE  /\ m.file \in File /\ m.graph \in FilterGraphs
         /\ m.bufs \in [Buffer -> Queue \cup {NoBuffer}]
         /\ m.file.eof \in BOOLEAN /\ m.file.isOpen \in BOOLEAN
         /\ m.file.pos \in 1..(Len(Media) + 1)
         /\ m.file.sink \in [Stream -> Buffer \cup {NoBuffer}]
         /\ m.file.held \in [Stream -> Seq(Frame)]
         /\ \A s \in Stream : m.file.held[s] \in Seq(Frame) /\ Rest(m.file, s) \in Seq(Frame)
         /\ m.graph.outs \subseteq Sink /\ m.graph.sinks \subseteq Sink
         /\ m.graph.inside \in Seq(Frame) /\ m.graph.fed \in Seq(Frame)
         /\ m.graph.ended \in BOOLEAN /\ m.graph.eof \in BOOLEAN /\ m.graph.parsed \in BOOLEAN
         /\ \A b \in Buffer : m.bufs[b] # NoBuffer => m.bufs[b] \in Queue
<1>1. m.file \in File /\ m.graph \in FilterGraphs /\ m.bufs \in [Buffer -> Queue \cup {NoBuffer}]
  BY DEF State
<1>2. m.file.pos \in 1..(Len(Media) + 1) /\ m.file.held \in [Stream -> Seq(Frame)]
  BY <1>1 DEF File
<1>3. \A s \in Stream : Rest(m.file, s) \in Seq(Frame)
  BY <1>2, RestType DEF Rest
<1> QED BY <1>1, <1>2, <1>3 DEF File, FilterGraphs

\* n has the buffers and the connections that m has.
Same(m, n) ==
  /\ n.file.isOpen = m.file.isOpen /\ n.file.sink = m.file.sink
  /\ \A b \in Buffer : /\ Exists(n, b) <=> Exists(m, b)
                       /\ Exists(m, b) => n.bufs[b].dynamic = m.bufs[b].dynamic
  /\ n.graph.parsed = m.graph.parsed /\ n.graph.outs = m.graph.outs
  /\ n.graph.sinks = m.graph.sinks /\ n.graph.source = m.graph.source
  /\ n.graph.context = m.graph.context /\ n.graph.stale = m.graph.stale

LEMMA SameSelf == \A m : Same(m, m)
BY DEF Same

LEMMA SameTrans ==
  ASSUME NEW l, NEW m, NEW n, Same(l, m), Same(m, n)
  PROVE  Same(l, n)
BY DEF Same

LEMMA SameWired ==
  ASSUME NEW m, Wired(m), m.graph.sinks \subseteq Sink, NEW n, Same(m, n),
         \A b \in Buffer : Exists(n, b) => QueueTypeOK(n.bufs[b]),
         \A b \in Stream \cup Sink : Exists(n, b) => RingContiguous(n.bufs[b]),
         n.graph = m.graph \/ m.graph.parsed
  PROVE  Wired(n)
<1>1. \A s \in Stream : /\ n.file.sink[s] \in {s, In, NoBuffer}
                        /\ n.file.sink[s] = s <=> Exists(n, s)
                        /\ n.file.sink[s] = In => Exists(n, In)
  BY Names DEF Wired, Same
<1>2. ~n.file.isOpen => Active(n.file) = {}
  BY DEF Wired, Same, Active
<1>3. n.graph.parsed => Exists(n, In) /\ n.graph.source
  BY Names DEF Wired, Same
<1>4. n.graph.sinks \subseteq n.graph.outs
  BY DEF Wired, Same
<1>5. \A k \in n.graph.sinks : Exists(n, k)
  BY Names DEF Wired, Same
<1>6. ~n.graph.parsed => n.graph = NoGraph
  BY DEF Wired, Same
<1> QED BY <1>1, <1>2, <1>3, <1>4, <1>5, <1>6 DEF Wired

\* The same buffers and the same graph keep it so.
LEMMA SameParts ==
  ASSUME NEW m, Wired(m), m.graph.sinks \subseteq Sink, NEW n,
         n.bufs = m.bufs, n.graph = m.graph,
         n.file.isOpen = m.file.isOpen, n.file.sink = m.file.sink
  PROVE  Wired(n) /\ Same(m, n)
<1>1. \A b : Exists(n, b) <=> Exists(m, b)
  BY DEF Exists
<1>2. Same(m, n)
  BY <1>1 DEF Same
<1>3. \A b \in Buffer : Exists(n, b) => QueueTypeOK(n.bufs[b])
  BY <1>1 DEF Wired
<1>4. \A b \in Stream \cup Sink : Exists(n, b) => RingContiguous(n.bufs[b])
  BY <1>1 DEF Wired
<1> QED BY <1>2, <1>3, <1>4, SameWired

\* The graph may have moved on, but it is connected as it was.
SameGraph(m, n) ==
  /\ n.graph.parsed = m.graph.parsed /\ n.graph.outs = m.graph.outs
  /\ n.graph.sinks = m.graph.sinks /\ n.graph.source = m.graph.source
  /\ n.graph.context = m.graph.context /\ n.graph.stale = m.graph.stale
  /\ n.graph = m.graph \/ m.graph.parsed

\* One buffer changes.
LEMMA OneBuffer ==
  ASSUME NEW m \in State, Wired(m), NEW b \in Buffer, Exists(m, b),
         NEW p, QueueTypeOK(p), p.dynamic = m.bufs[b].dynamic, b # In => RingContiguous(p),
         NEW n, n.bufs[b] = p, \A c \in Buffer \ {b} : n.bufs[c] = m.bufs[c],
         n.file.isOpen = m.file.isOpen, n.file.sink = m.file.sink, SameGraph(m, n)
  PROVE  /\ Same(m, n) /\ Wired(n)
         /\ p \in Queue /\ p # NoBuffer
<1>1. m.bufs \in [Buffer -> Queue \cup {NoBuffer}] /\ m.graph.sinks \subseteq Sink
  BY StateFacts
<1>2. n.bufs[b] = p /\ \A c \in Buffer \ {b} : n.bufs[c] = m.bufs[c]
  OBVIOUS
<1>3. p \in Queue /\ p # NoBuffer
  BY Names DEF QueueTypeOK
<1>5. \A c \in Buffer : /\ Exists(n, c) <=> Exists(m, c)
                        /\ Exists(m, c) => n.bufs[c].dynamic = m.bufs[c].dynamic
  BY <1>2, <1>3 DEF Exists
<1>6. Same(m, n)
  BY <1>5 DEF Same, SameGraph
<1>7. /\ \A c \in Buffer : Exists(n, c) => QueueTypeOK(n.bufs[c])
      /\ \A c \in Stream \cup Sink : Exists(n, c) => RingContiguous(n.bufs[c])
  BY <1>2, <1>5, Names DEF Wired, Exists
<1>8. Wired(n)
  BY <1>1, <1>6, <1>7, SameWired DEF SameGraph
<1> QED BY <1>3, <1>6, <1>8

\* Other parts make another state.
LEMMA NewParts ==
  ASSUME NEW m \in State, NEW f \in File, NEW g \in FilterGraphs,
         NEW q \in [Buffer -> Queue \cup {NoBuffer}],
         NEW h \in {"ok", "throw", "stuck", "spin", "undefined"}
  PROVE  LET n == [m EXCEPT !.file = f, !.graph = g, !.bufs = q, !.how = h]
         IN n \in State /\ n.file = f /\ n.graph = g /\ n.bufs = q /\ n.how = h
BY DEF State

\* ... and so they do one by one.
LEMMA NewPart ==
  ASSUME NEW m \in State
  PROVE  /\ \A f \in File : [m EXCEPT !.file = f] \in State
         /\ \A g \in FilterGraphs : [m EXCEPT !.graph = g] \in State
         /\ \A q \in [Buffer -> Queue \cup {NoBuffer}] : [m EXCEPT !.bufs = q] \in State
         /\ \A h \in {"ok", "throw", "stuck", "spin", "undefined"} : [m EXCEPT !.how = h] \in State
BY DEF State

\* What is pushed to one buffer, as far as there is room.
LEMMA PushedInto ==
  ASSUME NEW m \in State, Wired(m), NEW b \in Buffer, Exists(m, b), Strict(m.bufs[b]),
         NEW xs \in Seq(Item), NEW n, n.file = m.file, n.graph = m.graph,
         n.bufs[b] = PushAll(m.bufs[b], xs), \A c \in Buffer \ {b} : n.bufs[c] = m.bufs[c]
  PROVE  Wired(n) /\ Same(m, n)
<1> DEFINE p == PushAll(m.bufs[b], xs)
<1>1. Strict(p) /\ p.dynamic = m.bufs[b].dynamic
  BY PushAllSpec
<1>2. QueueTypeOK(p) /\ (b # In => RingContiguous(p)) /\ n.bufs[b] = p
  BY <1>1, StrictContiguous
<1> HIDE DEF p
<1>3. SameGraph(m, n) /\ n.file.isOpen = m.file.isOpen /\ n.file.sink = m.file.sink
  BY DEF SameGraph
<1> QED BY <1>1, <1>2, <1>3, OneBuffer

\* Where a stream pushes to.
LEMMA SinkOf ==
  ASSUME NEW m \in State, Wired(m), NEW s \in Active(m.file)
  PROVE  LET b == m.file.sink[s]
         IN s \in Stream /\ b \in Buffer /\ Exists(m, b) /\ b \in {s, In} /\ b \notin Sink
<1>1. s \in Stream /\ m.file.sink[s] # NoBuffer
  BY SMTT(60) DEF Active
<1> QED BY <1>1, Names DEF Wired

LEMMA DeliverSpec ==
  ASSUME NEW m \in State, Wired(m), m.how = "ok", NEW s \in Active(m.file),
         Strict(m.bufs[m.file.sink[s]]), NEW xs \in Seq(Item)
  PROVE  LET n == Deliver(m, s, xs)
             b == m.file.sink[s]
         IN /\ n \in State /\ Wired(n) /\ Same(m, n)
            /\ n.file = m.file /\ n.graph = m.graph /\ n.how \in {"ok", "stuck"}
            /\ n.how = "ok" => HasRoom(m.bufs[b], xs)
            /\ n.bufs[b] = PushAll(m.bufs[b], xs)
            /\ \A c \in Buffer \ {b} : n.bufs[c] = m.bufs[c]
<1> DEFINE b == m.file.sink[s]
           h == IF HasRoom(m.bufs[b], xs) THEN "ok" ELSE "stuck"
           p == PushAll(m.bufs[b], xs)
           n == [m EXCEPT !.bufs[b] = p, !.how = h]
<1>1. b \in Buffer /\ Exists(m, b)
  BY SinkOf
<1>2. Deliver(m, s, xs) = n
  BY DEF Deliver
<1>3. h \in {"ok", "stuck"} /\ (h = "ok" => HasRoom(m.bufs[b], xs)) /\ Strict(m.bufs[b])
  OBVIOUS
<1>4. p \in Queue
  BY <1>3, PushAllSpec, Zenon DEF Strict, QueueTypeOK
<1> HIDE DEF h, b, p
<1>5. /\ n.file = m.file /\ n.graph = m.graph /\ n.how = h
      /\ n.bufs = [m.bufs EXCEPT ![b] = p]
      /\ n.bufs \in [Buffer -> Queue \cup {NoBuffer}] => n \in State
  BY <1>3, NewPart DEF State
<1>6. n.bufs[b] = p /\ \A c \in Buffer \ {b} : n.bufs[c] = m.bufs[c]
  BY <1>1, <1>5, StateFacts
<1>7. n \in State
  BY <1>1, <1>4, <1>5, StateFacts
<1> HIDE DEF n
<1>8. Wired(n) /\ Same(m, n)
  BY <1>1, <1>3, <1>5, <1>6, PushedInto DEF p
<1> QED BY <1>2, <1>3, <1>5, <1>6, <1>7, <1>8 DEF b, p

\* Concatenation, by a name that no prover takes apart.
Cat(xs, ys) == xs \o ys

LEMMA Associative ==
  ASSUME NEW xs \in Seq(Frame), NEW ys \in Seq(Frame), NEW zs \in Seq(Frame)
  PROVE  /\ Cat(xs, ys) \in Seq(Frame) /\ Cat(ys, zs) \in Seq(Frame)
         /\ Cat(Cat(xs, ys), zs) = Cat(xs, Cat(ys, zs))
BY ConcatProperties, ConcatAssociative DEF Cat

LEMMA AppendCat ==
  ASSUME NEW fs \in Seq(Frame), NEW x \in Frame
  PROVE  Append(fs, x) = Cat(fs, <<x>>) /\ <<x>> \in Seq(Frame)
<1>1. Append(fs, x) = fs \o <<x>>
  BY AppendIsConcat
<1>2. <<x>> \in Seq(Frame)
  OBVIOUS
<1> QED BY <1>1, <1>2 DEF Cat

LEMMA Regroup ==
  ASSUME NEW C \in Seq(Frame), NEW fs \in Seq(Frame), NEW H \in Seq(Frame), NEW R \in Seq(Frame)
  PROVE  Cat(Cat(Cat(C, fs), H), R) = Cat(C, Cat(Cat(fs, H), R))
<1>1. Cat(Cat(C, fs), H) = Cat(C, Cat(fs, H)) /\ Cat(fs, H) \in Seq(Frame)
  BY Associative
<1>2. Cat(Cat(C, Cat(fs, H)), R) = Cat(C, Cat(Cat(fs, H), R))
  BY <1>1, Associative
<1> QED BY <1>1, <1>2

\* A push adds its frames to those of the buffer.
LEMMA FramesPushed ==
  ASSUME NEW q, Strict(q), NEW fs \in Seq(Frame), NEW xs \in {fs, Append(fs, Null)},
         HasRoom(q, xs)
  PROVE  /\ xs \in Seq(Item)
         /\ Frames(PushAll(q, xs)) = Frames(q) \o fs
<1>1. fs \in Seq(Item) /\ FramesOf(fs) = fs
  BY FramesOfFrames
<1>2. xs \in Seq(Item) /\ FramesOf(xs) = fs
  <2>1. Null \in Item
    BY DEF Item
  <2>2. Append(fs, Null) \in Seq(Item) /\ FramesOf(Append(fs, Null)) = fs
    BY <1>1, <2>1, FramesOfNull
  <2> QED BY <1>1, <2>2
<1>3. Contents(PushAll(q, xs)) = Contents(q) \o xs
  BY <1>2, PushAllSpec
<1>4. Contents(q) \in Seq(Item)
  BY FramesType DEF Strict
<1> QED BY <1>2, <1>3, <1>4, FramesOfConcat DEF Frames

\* A stream that may push has a buffer that takes it.
LEMMA OpenSink ==
  ASSUME NEW m \in State, Wired(m), NEW open, LiveBut(m, open),
         NEW s \in Active(m.file), s \in open
  PROVE  LET b == m.file.sink[s]
         IN /\ Strict(m.bufs[b])
            /\ b = In => m.bufs[b].dynamic
            /\ b = s => QueueOK(m.bufs[b]) /\ ~Ended(m.bufs[b])
<1> DEFINE b == m.file.sink[s]
<1>1. s \in Stream /\ b \in Buffer /\ Exists(m, b) /\ b \in {s, In}
  BY SinkOf
<1>2. CASE b = In
  BY <1>1, <1>2, Names DEF LiveBut, Settled
<1>3. CASE b = s
  <2>1. QueueOK(m.bufs[b]) /\ ~Ended(m.bufs[b])
    BY <1>1, <1>3 DEF LiveBut
  <2> QED BY <2>1, <1>3, <1>1, Names, StrictOf
<1> QED BY <1>1, <1>2, <1>3

\* Stream s hands xs to its buffer, the frames fs and perhaps its end of file: in
\* m the file has moved on from l, and the decoder is drained if it is the end.
Hands(l, m, s, fs, xs, open) ==
  /\ l \in State /\ Wired(l) /\ LiveBut(l, open)
  /\ s \in Active(l.file) /\ s \in open
  /\ m \in State /\ m.how = "ok" /\ m.bufs = l.bufs /\ m.graph = l.graph
  /\ m.file.sink = l.file.sink /\ m.file.isOpen = l.file.isOpen
  /\ fs \in Seq(Frame) /\ (xs = fs \/ (xs = Append(fs, Null) /\ Done(m.file, s)))
  /\ \A r \in Stream : Done(l.file, r) => Done(m.file, r)

\* ... and then, in n, the buffer has them, unless there was no room.
HandedOn(l, m, n, s, fs, open) ==
  /\ n \in State /\ Wired(n) /\ Same(l, n)
  /\ n.file = m.file /\ n.graph = l.graph /\ n.how \in {"ok", "stuck"}
  /\ \A c \in Buffer \ {l.file.sink[s]} : n.bufs[c] = l.bufs[c]
  /\ n.how = "ok" => /\ LiveBut(n, open)
                     /\ Frames(n.bufs[l.file.sink[s]]) = Cat(Frames(l.bufs[l.file.sink[s]]), fs)

LEMMA Handed ==
  ASSUME NEW l, NEW m, NEW s, NEW fs, NEW xs, NEW open, Hands(l, m, s, fs, xs, open)
  PROVE  /\ HandedOn(l, m, Deliver(m, s, xs), s, fs, open \ {s})
         /\ xs = fs => HandedOn(l, m, Deliver(m, s, xs), s, fs, open)
<1>0. /\ l \in State /\ Wired(l) /\ LiveBut(l, open)
      /\ s \in Active(l.file) /\ s \in open
      /\ m \in State /\ m.how = "ok" /\ m.bufs = l.bufs /\ m.graph = l.graph
      /\ m.file.sink = l.file.sink /\ m.file.isOpen = l.file.isOpen
      /\ fs \in Seq(Frame) /\ xs \in {fs, Append(fs, Null)} /\ (xs # fs => Done(m.file, s))
      /\ \A r \in Stream : Done(l.file, r) => Done(m.file, r)
  BY DEF Hands
<1> USE <1>0
<1> DEFINE n == Deliver(m, s, xs)
           b == m.file.sink[s]
           q == l.bufs[b]
<1>1. /\ s \in Stream /\ b \in Buffer /\ Exists(l, b) /\ b \in {s, In} /\ b \notin Sink
      /\ s \in Active(m.file)
  BY SinkOf DEF Active
<1>2. /\ Strict(q) /\ (b = In => q.dynamic)
      /\ b = s => QueueOK(q) /\ ~Ended(q)
  BY OpenSink
<1>3. xs \in Seq(Item)
  BY FramesOfFrames DEF Item
<1>4. Same(l, m) /\ Wired(m)
  <2>1. Same(l, m)
    BY DEF Same, Exists
  <2>2. l.graph.sinks \subseteq Sink
    BY StateFacts
  <2> QED BY <2>1, <2>2, SameWired DEF Wired, Exists
<1>5. /\ n \in State /\ Wired(n) /\ Same(m, n)
      /\ n.file = m.file /\ n.graph = m.graph /\ n.how \in {"ok", "stuck"}
      /\ n.how = "ok" => HasRoom(m.bufs[b], xs)
      /\ n.bufs[b] = PushAll(m.bufs[b], xs)
      /\ \A c \in Buffer \ {b} : n.bufs[c] = m.bufs[c]
  BY <1>1, <1>2, <1>3, <1>4, DeliverSpec
<1> HIDE DEF n
<1>6. Same(l, n)
  BY <1>4, <1>5, SameTrans, SMTT(20)
<1>7. ASSUME n.how = "ok"
      PROVE  /\ LiveBut(n, IF xs = fs THEN open ELSE open \ {s})
             /\ Frames(n.bufs[b]) = Cat(Frames(q), fs)
  <2>1. HasRoom(q, xs) /\ n.bufs[b] = PushAll(q, xs)
    BY <1>5, <1>7, SMTT(20)
  <2>2. Frames(n.bufs[b]) = Frames(q) \o fs
    BY <2>1, <1>2, FramesPushed, Zenon
  <2>3. Strict(n.bufs[b]) /\ n.bufs[b].dynamic = q.dynamic
    BY <2>1, <1>2, <1>3, PushAllSpec
  <2>4. ASSUME b = s
        PROVE  QueueOK(n.bufs[b]) /\ (Ended(n.bufs[b]) => xs # fs)
    <3>1. CASE xs = fs
      BY <3>1, <2>1, <2>4, <1>2, PushedFrames
    <3>2. CASE xs = Append(fs, Null)
      <4>1. QueueOK(n.bufs[b])
        BY <3>2, <2>1, <2>4, <1>2, PushedEof
      <4>2. Append(fs, Null) # fs
        OBVIOUS
      <4> QED BY <4>1, <4>2, <3>2
    <3> QED BY <3>1, <3>2
  <2>5. \A c \in Buffer : c # b => n.bufs[c] = l.bufs[c]
    BY <1>5
  <2>6. \A c \in Buffer : Exists(n, c) <=> Exists(l, c)
    BY <1>6 DEF Same
  <2>7. Settled(n)
    <3>1. Exists(n, In) => Strict(n.bufs[In]) /\ n.bufs[In].dynamic
      BY <1>2, <2>3, <2>5, <2>6, Names DEF LiveBut, Settled
    <3>2. \A k \in Sink : Exists(n, k) => QueueOK(n.bufs[k]) /\ ~Ended(n.bufs[k])
      BY <1>1, <2>5, <2>6, Names DEF LiveBut, Settled
    <3> QED BY <1>5, <3>1, <3>2 DEF LiveBut, Settled
  <2>8. ASSUME NEW r \in Stream, Exists(n, r)
        PROVE  /\ QueueOK(n.bufs[r])
               /\ Ended(n.bufs[r]) => /\ r \notin (IF xs = fs THEN open ELSE open \ {s})
                                      /\ Done(n.file, r)
    <3>1. CASE r = b
      BY <3>1, <1>1, <1>5, <2>4, <2>8, Names
    <3>2. CASE r # b
      <4>1. n.bufs[r] = l.bufs[r] /\ Exists(l, r)
        BY <3>2, <2>5, <2>6, <2>8, Names
      <4>2. QueueOK(l.bufs[r]) /\ (Ended(l.bufs[r]) => r \notin open /\ Done(l.file, r))
        BY <4>1 DEF LiveBut
      <4> QED BY <4>1, <4>2, <1>5
    <3> QED BY <3>1, <3>2
  <2> QED BY <2>2, <2>7, <2>8 DEF LiveBut, Cat
<1>8. /\ n.how = "ok" => LiveBut(n, open \ {s}) /\ (xs = fs => LiveBut(n, open))
      /\ n.how = "ok" => Frames(n.bufs[b]) = Cat(Frames(l.bufs[b]), fs)
  BY <1>7 DEF LiveBut
<1>9. b = l.file.sink[s]
  OBVIOUS
<1> HIDE DEF b
<1> QED BY <1>5, <1>6, <1>8, <1>9, <1>0 DEF HandedOn, n

\* ... and every account stays balanced.
LEMMA HandedBalance ==
  ASSUME NEW l \in State, Wired(l), NEW got \in [Buffer -> Seq(Frame)], NEW owed,
         StreamsBalanced(l, got, owed), NEW s \in Active(l.file),
         NEW n \in State, n.file.sink = l.file.sink, n.graph = l.graph,
         NEW fs \in Seq(Frame),
         \A c \in Buffer \ {l.file.sink[s]} : n.bufs[c] = l.bufs[c],
         Frames(n.bufs[l.file.sink[s]]) = Cat(Frames(l.bufs[l.file.sink[s]]), fs),
         Cat(Cat(fs, n.file.held[s]), Rest(n.file, s)) = Cat(l.file.held[s], Rest(l.file, s)),
         \A r \in Active(l.file) \ {s} :
           n.file.held[r] = l.file.held[r] /\ Rest(n.file, r) = Rest(l.file, r)
  PROVE  StreamsBalanced(n, got, owed)
<1> SUFFICES ASSUME NEW r \in Active(n.file), Alone(n, r)
             PROVE  owed[n.file.sink[r]] = Account(n, r, got)
  BY DEF StreamsBalanced
<1> DEFINE b == l.file.sink[s]
           c == l.file.sink[r]
           A == IF c = In THEN l.graph.fed ELSE got[c]
<1>1. r \in Active(l.file) /\ Alone(l, r)
  BY DEF Active, Alone
<1>2. /\ c \in Buffer /\ Exists(l, c) /\ r \in Stream
      /\ b \in Buffer /\ Exists(l, b) /\ s \in Stream
  BY <1>1, SinkOf
<1>3. owed[c] = A \o Frames(l.bufs[c]) \o l.file.held[r] \o Rest(l.file, r)
  BY <1>1, Zenon DEF StreamsBalanced, Account
<1>4. Account(n, r, got) = A \o Frames(n.bufs[c]) \o n.file.held[r] \o Rest(n.file, r)
  BY DEF Account
<1>5. CASE r = s
  <2>1. Frames(l.bufs[c]) \in Seq(Frame)
    BY <1>2, FramesType DEF Wired
  <2>2. /\ A \in Seq(Frame)
        /\ l.file.held[r] \in Seq(Frame) /\ Rest(l.file, r) \in Seq(Frame)
        /\ n.file.held[r] \in Seq(Frame) /\ Rest(n.file, r) \in Seq(Frame)
    BY <1>2, StateFacts
  <2>3. /\ Cat(Cat(fs, n.file.held[r]), Rest(n.file, r)) = Cat(l.file.held[r], Rest(l.file, r))
        /\ Frames(n.bufs[c]) = Cat(Frames(l.bufs[c]), fs)
    BY <1>5
  <2> DEFINE B == Frames(l.bufs[c])
             G == fs
             H == l.file.held[r]
             R == Rest(l.file, r)
             H1 == n.file.held[r]
             R1 == Rest(n.file, r)
  <2>a. B \in Seq(Frame) /\ G \in Seq(Frame) /\ H \in Seq(Frame) /\ R \in Seq(Frame)
    BY <2>1, <2>2
  <2>b. H1 \in Seq(Frame) /\ R1 \in Seq(Frame)
    BY <2>2
  <2>e. Cat(Cat(G, H1), R1) = Cat(H, R)
    BY <2>3, Zenon DEF Cat
  <2>c. A \in Seq(Frame)
    BY <2>2
  <2> HIDE DEF A, c, B, G, H, R, H1, R1
  <2>d. Cat(Cat(Cat(A, Cat(B, G)), H1), R1) = Cat(Cat(Cat(A, B), H), R)
    <3>1. Cat(A, B) \in Seq(Frame)
      BY <2>c, <2>a, Associative
    <3>2. Cat(Cat(A, B), G) = Cat(A, Cat(B, G))
      BY <2>c, <2>a, Associative
    <3>3. Cat(Cat(Cat(Cat(A, B), G), H1), R1) = Cat(Cat(A, B), Cat(Cat(G, H1), R1))
      BY <3>1, <2>a, <2>b, Regroup
    <3>4. Cat(Cat(Cat(A, B), H), R) = Cat(Cat(A, B), Cat(H, R))
      BY <3>1, <2>a, Associative
    <3> QED BY <3>2, <3>3, <3>4, <2>e
  <2>4. owed[c] = Cat(Cat(Cat(A, B), H), R)
    BY <1>3, Zenon DEF Cat, B, H, R
  <2>5. Account(n, r, got) = Cat(Cat(Cat(A, Cat(B, G)), H1), R1)
    BY <1>4, <2>3, Zenon DEF Cat, B, G, H1, R1
  <2>6. Account(n, r, got) = owed[c]
    BY <2>d, <2>4, <2>5
  <2> QED BY <2>6 DEF c
<1>6. CASE r # s
  <2>1. c # b
    <3>1. s \in {z \in Stream : l.file.sink[z] = b}
      BY <1>2
    <3>2. {z \in Stream : l.file.sink[z] = c} = {r}
      BY <1>1 DEF Alone
    <3> QED BY <3>1, <3>2, <1>6
  <2>2. n.bufs[c] = l.bufs[c]
    BY <2>1, <1>2
  <2>3. n.file.held[r] = l.file.held[r] /\ Rest(n.file, r) = Rest(l.file, r)
    BY <1>1, <1>6
  <2>4. Account(n, r, got) = owed[c]
    BY <2>2, <2>3, <1>3, <1>4, Zenon
  <2> QED BY <2>4
<1> QED BY <1>5, <1>6

\* n comes after m in a call that reads, and keeps what ReaderInv says of m.
Leads(m, n, got, owed) ==
  /\ n \in State /\ Wired(n) /\ Same(m, n)
  /\ n.how \in {"ok", "throw", "stuck", "spin"}
  /\ n.how \in {"ok", "throw"} => Live(n) /\ Balanced(n, got, owed)

\* The buffers of the outputs of graphs are in n what they are in m.
SinksAlone(m, n) == \A k \in Sink : n.bufs[k] = m.bufs[k]

\* A file that is not at its end has told no stream of it.
LEMMA NothingEnded ==
  ASSUME NEW m, Live(m), ~m.file.eof
  PROVE  \A open : LiveBut(m, open)
BY DEF Live, LiveBut, Done

\* The frames to come, from the next packet of an active stream on.
LEMMA NextPacket ==
  ASSUME NEW m \in State, NEW k \in 1..(Len(Media) + 1), k >= m.file.pos,
         \A j \in 1..Len(Media) : m.file.pos <= j /\ j < k => Media[j].stream \notin Active(m.file),
         NEW r \in Active(m.file)
  PROVE  r \in Stream /\ Rest(m.file, r) = RestFrom[k][r]
<1>1. r \in Stream /\ m.file.pos \in 1..(Len(Media) + 1) /\ Len(Media) \in Nat
  BY StateFacts, MediaFacts DEF Active
<1>2. k \in m.file.pos..(Len(Media) + 1)
  BY <1>1
<1>3. \A j \in m.file.pos..(k - 1) : Media[j].stream # r
  BY <1>1
<1>4. RestFrom[m.file.pos][r] = RestFrom[k][r]
  BY <1>1, <1>2, <1>3, RestSkip
<1> QED BY <1>1, <1>4 DEF Rest

LEMMA PacketRefused ==
  ASSUME NEW m \in State, Wired(m), Live(m), ~m.file.eof,
         NEW got \in [Buffer -> Seq(Frame)], NEW owed, Balanced(m, got, owed),
         NEW k \in 1..Len(Media), k >= m.file.pos, ~Media[k].intact,
         \A j \in 1..Len(Media) : m.file.pos <= j /\ j < k => Media[j].stream \notin Active(m.file)
  PROVE  LET n == AtPacket(m, k)
         IN Leads(m, n, got, owed) /\ n.graph = m.graph /\ SinksAlone(m, n)
<1> DEFINE n == [m EXCEPT !.file.pos = k + 1, !.how = "throw"]
<1>1. /\ Len(Media) \in Nat /\ k + 1 \in 1..(Len(Media) + 1) /\ k \in 1..(Len(Media) + 1)
      /\ m.file.pos \in 1..(Len(Media) + 1)
  BY MediaFacts, StateFacts
<1>2. /\ n.file = [m.file EXCEPT !.pos = k + 1] /\ n.graph = m.graph /\ n.bufs = m.bufs
      /\ n.how = "throw"
      /\ [m.file EXCEPT !.pos = k + 1] \in File => n \in State
  BY NewPart DEF State
<1>3. [m.file EXCEPT !.pos = k + 1] \in File
  BY <1>1, StateFacts DEF File
<1>4. /\ n.file.pos = k + 1 /\ n.file.sink = m.file.sink /\ n.file.held = m.file.held
      /\ n.file.isOpen = m.file.isOpen /\ n.file.eof = m.file.eof
  BY <1>2, StateFacts DEF File
<1>5. n \in State
  BY <1>2, <1>3
<1> HIDE DEF n
<1>6. Same(m, n)
  BY <1>2, <1>4 DEF Same, Exists
<1>7. Wired(n)
  <2>1. m.graph.sinks \subseteq Sink
    BY StateFacts
  <2> QED BY <2>1, <1>2, <1>4, SameParts
<1>8. Live(n)
  BY <1>2, <1>4 DEF Live, LiveBut, Settled, Done, Exists
<1>9. \A r \in Active(m.file) : Rest(n.file, r) = Rest(m.file, r)
  <2> TAKE r \in Active(m.file)
  <2>1. r \in Stream /\ Rest(m.file, r) = RestFrom[k][r]
    BY <1>1, NextPacket
  <2>2. RestFrom[k][r] = RestFrom[k + 1][r]
    BY <2>1, RestAtPacket
  <2> QED BY <2>1, <2>2, <1>4 DEF Rest
<1>10. Balanced(n, got, owed)
  <2>1. ASSUME NEW r \in Active(n.file), Alone(n, r)
        PROVE  owed[n.file.sink[r]] = Account(n, r, got)
    <3>1. r \in Active(m.file) /\ Alone(m, r)
      BY <2>1, <1>2, <1>4 DEF Active, Alone
    <3>2. owed[m.file.sink[r]] = Account(m, r, got)
      BY <3>1 DEF Balanced, StreamsBalanced
    <3> QED BY <3>1, <3>2, <1>2, <1>4, <1>9, Zenon DEF Account
  <2>2. SinksBalanced(n, got)
    BY <1>2 DEF Balanced, SinksBalanced
  <2> QED BY <2>1, <2>2 DEF Balanced, StreamsBalanced
<1>11. AtPacket(m, k) = n
  BY DEF AtPacket, n
<1> QED BY <1>2, <1>5, <1>6, <1>7, <1>8, <1>10, <1>11 DEF Leads, SinksAlone

\* What a decoder hands on and what it holds, once it has frame k too.
LEMMA Split ==
  ASSUME NEW h \in Seq(Frame), NEW k \in Frame, NEW d \in Nat
  PROVE  LET frames == Append(h, k)
             out == IF Len(frames) > d THEN Len(frames) - d ELSE 0
             fs == SubSeq(frames, 1, out)
             held == SubSeq(frames, out + 1, Len(frames))
         IN fs \in Seq(Frame) /\ held \in Seq(Frame) /\ Cat(fs, held) = Cat(h, <<k>>)
<1> DEFINE frames == Append(h, k)
           out == IF Len(frames) > d THEN Len(frames) - d ELSE 0
<1>1. frames \in Seq(Frame) /\ Len(frames) \in Nat
  OBVIOUS
<1>2. frames = h \o <<k>>
  BY AppendIsConcat
<1> HIDE DEF frames
<1>3. out \in 0..Len(frames)
  BY <1>1
<1> HIDE DEF out
<1>4. /\ SubSeq(frames, 1, out) \in Seq(Frame)
      /\ SubSeq(frames, out + 1, Len(frames)) \in Seq(Frame)
      /\ SubSeq(frames, 1, out) \o SubSeq(frames, out + 1, Len(frames)) = frames
  BY <1>1, <1>3, Cut
<1> QED BY <1>2, <1>4 DEF Cat, frames, out

LEMMA PacketDecoded ==
  ASSUME NEW m \in State, Wired(m), Live(m), ~m.file.eof, m.how = "ok",
         NEW got \in [Buffer -> Seq(Frame)], NEW owed, Balanced(m, got, owed),
         NEW k \in 1..Len(Media), k >= m.file.pos, Media[k].intact,
         Media[k].stream \in Active(m.file),
         \A j \in 1..Len(Media) : m.file.pos <= j /\ j < k => Media[j].stream \notin Active(m.file)
  PROVE  LET n == AtPacket(m, k)
         IN Leads(m, n, got, owed) /\ n.graph = m.graph /\ SinksAlone(m, n)
<1> DEFINE s == Media[k].stream
           frames == Decoded(m.file, k)
           out == IF Len(frames) > Delay[s] THEN Len(frames) - Delay[s] ELSE 0
           fs == SubSeq(frames, 1, out)
           held == SubSeq(frames, out + 1, Len(frames))
           f == [m.file EXCEPT !.pos = k + 1]
           past == [m EXCEPT !.file = f]
           l == [past EXCEPT !.file.held[s] = held]
           n == Deliver(l, s, fs)
<1>1. /\ Len(Media) \in Nat /\ k + 1 \in 1..(Len(Media) + 1) /\ k \in 1..(Len(Media) + 1)
      /\ m.file.pos \in 1..(Len(Media) + 1) /\ k \in Frame
  BY MediaFacts, StateFacts
<1>2. /\ s \in Stream /\ m.file.held[s] \in Seq(Frame) /\ RestFrom[k + 1][s] \in Seq(Frame)
      /\ Delay[s] \in Nat
  BY <1>1, StateFacts, RestType, DelayAssumption DEF Active
<1>3. fs \in Seq(Frame) /\ held \in Seq(Frame) /\ Cat(fs, held) = Cat(m.file.held[s], <<k>>)
  BY <1>1, <1>2, Split DEF Decoded
<1>4. AtPacket(m, k) = n
  BY DEF AtPacket
<1> HIDE DEF fs, held, f
<1>5. f \in File
  BY <1>1, StateFacts DEF File, f
<1>6. /\ f.pos = k + 1 /\ f.sink = m.file.sink /\ f.held = m.file.held
      /\ f.isOpen = m.file.isOpen /\ f.eof = m.file.eof
  BY StateFacts DEF File, f
<1>7. past \in State /\ past.file = f /\ past.graph = m.graph /\ past.bufs = m.bufs /\ past.how = m.how
  BY <1>5, NewPart DEF State
<1> HIDE DEF past
<1> DEFINE g == [f EXCEPT !.held[s] = held]
<1>8. l.file = g /\ l.graph = m.graph /\ l.bufs = m.bufs /\ l.how = m.how /\ (g \in File => l \in State)
  BY <1>7, NewPart DEF State
<1>9. g \in File
  BY <1>2, <1>3, <1>5 DEF File
<1>10. /\ g.pos = f.pos /\ g.sink = f.sink /\ g.eof = f.eof /\ g.isOpen = f.isOpen
       /\ g.held = [f.held EXCEPT ![s] = held]
  BY <1>5 DEF File
<1> HIDE DEF l, g
<1>11. l \in State
  BY <1>8, <1>9
<1>12. g.held[s] = held /\ \A r \in Stream \ {s} : g.held[r] = m.file.held[r]
  BY <1>2, <1>6, <1>10, StateFacts
<1>13. /\ n \in State /\ Wired(n) /\ Same(m, n)
       /\ n.file = g /\ n.graph = m.graph /\ n.how \in {"ok", "stuck"}
       /\ \A c \in Buffer \ {m.file.sink[s]} : n.bufs[c] = m.bufs[c]
       /\ n.how = "ok" => /\ Live(n)
                          /\ Frames(n.bufs[m.file.sink[s]]) = Cat(Frames(m.bufs[m.file.sink[s]]), fs)
  <2>1. LiveBut(m, {s})
    BY NothingEnded
  <2>2. \A r \in Stream : ~Done(m.file, r)
    BY DEF Done
  <2>3. fs \in {fs, Append(fs, Null)} /\ s \in {s} /\ s \in Active(m.file) /\ s \in Stream
    BY <1>2
  <2>4. LiveBut(n, {s}) => Live(n)
    BY DEF LiveBut, Live
  <2>5. l.file.sink = m.file.sink /\ l.file.isOpen = m.file.isOpen /\ l.how = "ok"
    BY <1>6, <1>8, <1>10
  <2>6. \A r \in Stream : Done(m.file, r) => Done(l.file, r)
    BY <2>2
  <2>7. Hands(m, l, s, fs, fs, {s})
    BY <1>3, <1>8, <1>11, <2>1, <2>3, <2>5, <2>6 DEF Hands
  <2> HIDE DEF s
  <2>8. HandedOn(m, l, n, s, fs, {s})
    BY <2>7, Handed
  <2> QED BY <2>4, <2>8, <1>8 DEF s, HandedOn
<1> HIDE DEF n
<1>14. SinksBalanced(n, got) /\ SinksAlone(m, n)
  <2>1. m.file.sink[s] \notin Sink
    BY SinkOf
  <2>2. m.graph.sinks \subseteq Sink
    BY StateFacts
  <2>3. \A c \in Sink : n.bufs[c] = m.bufs[c]
    BY <2>1, <1>13, Names
  <2> QED BY <2>2, <2>3, <1>13 DEF Balanced, SinksBalanced, SinksAlone
<1>15. ASSUME n.how = "ok"
       PROVE  StreamsBalanced(n, got, owed)
  <2>1. \A r \in Active(m.file) : r \in Stream /\ Rest(m.file, r) = RestFrom[k][r]
    BY <1>1, NextPacket
  <2>2. \A r \in Stream : Rest(n.file, r) = RestFrom[k + 1][r]
    BY <1>13, <1>10, <1>6 DEF Rest
  <2>3. \A r \in Active(m.file) \ {s} :
          n.file.held[r] = m.file.held[r] /\ Rest(n.file, r) = Rest(m.file, r)
    <3> TAKE r \in Active(m.file) \ {s}
    <3>1. r \in Stream /\ Rest(m.file, r) = RestFrom[k][r]
      BY <2>1
    <3>2. RestFrom[k][r] = RestFrom[k + 1][r]
      BY Zenon, <3>1, RestAtPacket
    <3>3. n.file.held[r] = m.file.held[r]
      BY <3>1, <1>12, <1>13
    <3>4. Rest(n.file, r) = RestFrom[k + 1][r]
      BY <3>1, <2>2
    <3> QED BY <3>1, <3>2, <3>3, <3>4
  <2>4. Rest(m.file, s) = Cat(<<k>>, RestFrom[k + 1][s])
    <3>1. RestFrom[k][s] = <<k>> \o RestFrom[k + 1][s]
      BY <1>2, RestAtPacket
    <3> QED BY <3>1, <2>1 DEF Cat
  <2>5. Cat(Cat(fs, held), RestFrom[k + 1][s]) = Cat(m.file.held[s], Cat(<<k>>, RestFrom[k + 1][s]))
    <3> DEFINE h == m.file.held[s]
               x == <<k>>
               rest == RestFrom[k + 1][s]
    <3>1. h \in Seq(Frame) /\ x \in Seq(Frame) /\ rest \in Seq(Frame)
      BY <1>1, <1>2
    <3>2. Cat(fs, held) = Cat(h, x)
      BY <1>3
    <3> HIDE DEF h, x, rest
    <3>3. Cat(Cat(h, x), rest) = Cat(h, Cat(x, rest))
      BY <3>1, Associative
    <3>4. Cat(Cat(fs, held), rest) = Cat(h, Cat(x, rest))
      BY <3>2, <3>3
    <3> QED BY <3>4 DEF h, x, rest
  <2>6. Cat(Cat(fs, n.file.held[s]), Rest(n.file, s)) = Cat(m.file.held[s], Rest(m.file, s))
    BY <2>2, <2>4, <2>5, <1>2, <1>12, <1>13
  <2>7. StreamsBalanced(m, got, owed) /\ n.file.sink = m.file.sink
    BY <1>13, <1>10, <1>6 DEF Balanced
  <2>8. Frames(n.bufs[m.file.sink[s]]) = Cat(Frames(m.bufs[m.file.sink[s]]), fs)
    BY <1>13, <1>15
  <2> QED BY <2>3, <2>6, <2>7, <2>8, <1>13, <1>3, HandedBalance, Zenon
<1> QED BY <1>4, <1>13, <1>14, <1>15 DEF Leads, Balanced, n

\* At the end of the media, with the streams in open still to be told.
Told(m, n, got, owed, open) ==
  /\ n \in State /\ Wired(n) /\ Same(m, n) /\ n.graph = m.graph /\ n.how \in {"ok", "stuck"}
  /\ n.file.eof /\ n.file.pos = Len(Media) + 1 /\ SinksAlone(m, n)
  /\ n.how = "ok" => LiveBut(n, open) /\ Balanced(n, got, owed)

LEMMA TellOne ==
  ASSUME NEW m, NEW n, NEW got \in [Buffer -> Seq(Frame)], NEW owed, NEW open,
         Told(m, n, got, owed, open), NEW s \in Active(m.file), s \in open
  PROVE  Told(m, TellEof(n, s), got, owed, open \ {s})
<1>1. CASE n.how # "ok"
  <2>1. TellEof(n, s) = n
    BY <1>1 DEF TellEof
  <2> QED BY <1>1, <2>1 DEF Told
<1>2. CASE n.how = "ok"
  <2> DEFINE held == n.file.held[s]
             H == [n.file.held EXCEPT ![s] = <<>>]
             f == [n.file EXCEPT !.held = H]
             l == [n EXCEPT !.file = f]
             o == Deliver(l, s, Append(held, Null))
  <2>1. TellEof(n, s) = o
    BY <1>2 DEF TellEof, Drain
  <2>2. /\ n \in State /\ Wired(n) /\ LiveBut(n, open) /\ n.file.eof /\ n.file.pos = Len(Media) + 1
        /\ s \in Active(n.file) /\ s \in Stream /\ held \in Seq(Frame)
        /\ Balanced(n, got, owed) /\ n.graph = m.graph /\ Same(m, n) /\ SinksAlone(m, n)
    BY <1>2, StateFacts DEF Told, Same, Active
  <2>i. n.file \in File
    BY <2>2, StateFacts
  <2>h. H \in [Stream -> Seq(Frame)]
    BY <2>2, StateFacts
  <2> HIDE DEF H
  <2>3. f \in File
    BY <2>i, <2>h DEF File
  <2>4. /\ f.pos = n.file.pos /\ f.sink = n.file.sink /\ f.eof = n.file.eof
        /\ f.isOpen = n.file.isOpen /\ f.held = H
    BY <2>i DEF File
  <2> HIDE DEF f
  <2>5. l \in State /\ l.file = f /\ l.graph = n.graph /\ l.bufs = n.bufs /\ l.how = n.how
    BY <2>2, <2>3, NewPart DEF State
  <2> HIDE DEF l
  <2>6. f.held[s] = <<>> /\ \A r \in Stream \ {s} : f.held[r] = n.file.held[r]
    BY <2>2, <2>4, StateFacts DEF H
  <2>7. \A r \in Stream : Rest(n.file, r) = <<>> /\ Rest(f, r) = <<>>
    BY <2>2, <2>4, RestAtEnd DEF Rest
  <2>8. Hands(n, l, s, held, Append(held, Null), open)
    <3>1. Done(f, s)
      BY <2>2, <2>4, <2>6 DEF Done
    <3>2. \A r \in Stream : Done(n.file, r) => Done(f, r)
      BY <2>4, <2>6, <3>1 DEF Done
    <3> HIDE DEF held
    <3> QED BY <1>2, <2>2, <2>4, <2>5, <3>1, <3>2 DEF Hands
  <2> HIDE DEF held
  <2>9. HandedOn(n, l, o, s, held, open \ {s})
    BY <2>8, Handed
  <2> HIDE DEF o
  <2>10. ASSUME o.how = "ok"
         PROVE  StreamsBalanced(o, got, owed)
    <3>1. /\ o \in State /\ o.file = f /\ o.graph = n.graph
          /\ \A c \in Buffer \ {n.file.sink[s]} : o.bufs[c] = n.bufs[c]
          /\ Frames(o.bufs[n.file.sink[s]]) = Cat(Frames(n.bufs[n.file.sink[s]]), held)
      BY <2>5, <2>9, <2>10 DEF HandedOn
    <3>2. \A r \in Active(n.file) \ {s} :
            o.file.held[r] = n.file.held[r] /\ Rest(o.file, r) = Rest(n.file, r)
      BY <3>1, <2>6, <2>7 DEF Active
    <3>3. Cat(Cat(held, <<>>), <<>>) = Cat(held, <<>>)
      BY <2>2, ConcatEmptySeq DEF Cat
    <3>4. Cat(Cat(held, o.file.held[s]), Rest(o.file, s)) = Cat(n.file.held[s], Rest(n.file, s))
      BY <3>1, <3>3, <2>2, <2>6, <2>7 DEF held
    <3>5. StreamsBalanced(n, got, owed) /\ o.file.sink = n.file.sink
      BY <3>1, <2>2, <2>4 DEF Balanced
    <3> QED BY <2>2, <3>1, <3>2, <3>4, <3>5, HandedBalance
  <2>11. SinksBalanced(o, got) /\ SinksAlone(m, o)
    <3>1. n.file.sink[s] \notin Sink
      BY <2>2, SinkOf
    <3>2. n.graph.sinks \subseteq Sink
      BY <2>2, StateFacts
    <3>3. o.graph = n.graph /\ \A c \in Sink : o.bufs[c] = n.bufs[c]
      BY <3>1, <2>9, Names DEF HandedOn
    <3> QED BY <2>2, <3>2, <3>3 DEF Balanced, SinksBalanced, SinksAlone
  <2>12. /\ o \in State /\ Wired(o) /\ Same(n, o) /\ o.file = f /\ o.graph = n.graph
         /\ o.how \in {"ok", "stuck"} /\ (o.how = "ok" => LiveBut(o, open \ {s}))
    BY <2>5, <2>9 DEF HandedOn
  <2>13. Same(m, o)
    BY <2>2, <2>12, SameTrans
  <2> QED BY <2>1, <2>2, <2>4, <2>10, <2>11, <2>12, <2>13 DEF Told, Balanced
<1> QED BY <1>1, <1>2

LEMMA TellsFold ==
  ASSUME NEW base, NEW seq
  PROVE  FoldLeft(TellEof, base, seq) = Tells!Fold(0, base, seq)
BY DEF TellEofOf, FoldLeft, Tells!Fold, MapThenFoldSet, Max, Tells!Greatest

\* What becomes of base as the elements of a finite set S are taken up in some order.
LEMMA TellAll ==
  ASSUME NEW m, NEW base, NEW got \in [Buffer -> Seq(Frame)], NEW owed,
         Told(m, base, got, owed, Active(m.file)), IsFiniteSet(Active(m.file))
  PROVE  Told(m, FoldLeft(TellEof, base, SetToSeq(Active(m.file))), got, owed, {})
<1> DEFINE S == Active(m.file)
           seq == SetToSeq(S)
           n == Cardinality(S)
<1>1. /\ n \in Nat /\ DOMAIN seq = 1..n /\ S = {seq[j] : j \in 1..n}
      /\ \A i, j \in 1..n : seq[i] = seq[j] => i = j
  BY InOrder
<1> HIDE DEF seq, n
<1>2. PICK F : Tells!Steps(0, F, base, seq, n) /\ Tells!Fold(0, base, seq) = F[n]
  <2>1. n \in Nat
    BY <1>1
  <2>2. DOMAIN seq = 1..n
    BY <1>1
  <2> QED BY <2>1, <2>2, LeastNat, Tells!FoldSteps DEF Tells!WellOrdered
<1>3. F[0] = base /\ \A i \in 1..n : F[i] = TellEof(F[i - 1], seq[i])
  BY <1>2 DEF Tells!Steps, TellEofOf
<1> DEFINE Left(i) == S \ {seq[j] : j \in 1..i}
           P(i) == Told(m, F[i], got, owed, Left(i))
           T == {i \in 0..n : P(i)}
<1>4. Left(0) = S /\ Left(n) = {}
  BY <1>1
<1>5. ASSUME NEW i \in 1..n
      PROVE  seq[i] \in S /\ seq[i] \in Left(i - 1) /\ Left(i) = Left(i - 1) \ {seq[i]}
  BY <1>1
<1> HIDE DEF Left
<1>6. 0 \in T
  <2>1. P(0)
    BY <1>3, <1>4
  <2> HIDE DEF P
  <2> QED BY <2>1, <1>1
<1>7. ASSUME NEW i \in 1..n, i - 1 \in T
      PROVE  i \in T
  <2>1. Told(m, F[i - 1], got, owed, Left(i - 1))
    BY <1>7
  <2>2. Told(m, TellEof(F[i - 1], seq[i]), got, owed, Left(i - 1) \ {seq[i]})
    BY <2>1, <1>5, TellOne
  <2>3. Told(m, F[i], got, owed, Left(i))
    BY <2>2, <1>3, <1>5
  <2>4. i \in 0..n
    BY <1>1
  <2> QED BY <2>3, <2>4
<1>8. \A i \in 0..n : i \in T
  <2> HIDE DEF T
  <2> QED BY <1>1, <1>6, <1>7, UpTo
<1>9. Told(m, F[n], got, owed, {})
  <2>1. P(n)
    <3> HIDE DEF P
    <3> QED BY <1>1, <1>8
  <2> QED BY <2>1, <1>4
<1> QED BY <1>2, <1>9, TellsFold DEF seq

LEMMA MediaEnd ==
  ASSUME NEW m \in State, Wired(m), Live(m), ~m.file.eof, m.how = "ok",
         NEW got \in [Buffer -> Seq(Frame)], NEW owed, Balanced(m, got, owed),
         \A j \in 1..Len(Media) : m.file.pos <= j => Media[j].stream \notin Active(m.file)
  PROVE  LET n == AtMediaEnd(m)
         IN Leads(m, n, got, owed) /\ n.graph = m.graph /\ SinksAlone(m, n)
<1> DEFINE f == [m.file EXCEPT !.eof = TRUE]
           g == [f EXCEPT !.pos = Len(Media) + 1]
           past == [m EXCEPT !.file = f]
           base == [past EXCEPT !.file.pos = Len(Media) + 1]
           n == FoldLeft(TellEof, base, SetToSeq(Active(m.file)))
<1>1. Len(Media) \in Nat /\ Len(Media) + 1 \in 1..(Len(Media) + 1) /\ m.file.pos \in 1..(Len(Media) + 1)
  BY MediaFacts, StateFacts
<1>2. AtMediaEnd(m) = n
  BY DEF AtMediaEnd
<1>3. m.file \in File
  BY StateFacts
<1>4. f \in File /\ f.pos = m.file.pos /\ f.sink = m.file.sink /\ f.held = m.file.held
      /\ f.isOpen = m.file.isOpen /\ f.eof
  BY <1>3 DEF File
<1>5. past \in State /\ past.file = f /\ past.graph = m.graph /\ past.bufs = m.bufs /\ past.how = m.how
  BY <1>4, NewPart DEF State
<1> HIDE DEF f, past
<1>6. g \in File /\ g.pos = Len(Media) + 1 /\ g.sink = f.sink /\ g.held = f.held
      /\ g.isOpen = f.isOpen /\ g.eof
  BY <1>1, <1>4 DEF File
<1>7. base.file = g /\ base.graph = m.graph /\ base.bufs = m.bufs /\ base.how = "ok"
      /\ (g \in File => base \in State)
  BY <1>5, NewPart DEF State
<1> HIDE DEF g, base
<1>8. Same(m, base)
  BY <1>4, <1>6, <1>7 DEF Same, Exists
<1>9. Wired(base)
  <2>1. m.graph.sinks \subseteq Sink
    BY StateFacts
  <2>2. /\ \A b \in Buffer : Exists(base, b) => QueueTypeOK(base.bufs[b])
        /\ \A b \in Stream \cup Sink : Exists(base, b) => RingContiguous(base.bufs[b])
    BY <1>7 DEF Wired, Exists
  <2> QED BY <2>1, <2>2, <1>7, <1>8, SameWired
<1>10. LiveBut(base, Active(m.file))
  <2>1. LiveBut(m, Active(m.file)) /\ \A s \in Stream : ~Done(m.file, s)
    BY NothingEnded DEF Done
  <2> QED BY <2>1, <1>7 DEF LiveBut, Settled, Exists
<1>11. \A r \in Active(m.file) : Rest(base.file, r) = Rest(m.file, r)
  <2> TAKE r \in Active(m.file)
  <2>1. r \in Stream /\ Rest(m.file, r) = RestFrom[Len(Media) + 1][r]
    BY <1>1, NextPacket
  <2> QED BY <2>1, <1>6, <1>7 DEF Rest
<1>12. Balanced(base, got, owed)
  <2>1. ASSUME NEW r \in Active(base.file), Alone(base, r)
        PROVE  owed[base.file.sink[r]] = Account(base, r, got)
    <3>1. r \in Active(m.file) /\ Alone(m, r)
      BY <2>1, <1>4, <1>6, <1>7 DEF Active, Alone
    <3>2. owed[m.file.sink[r]] = Account(m, r, got)
      BY <3>1 DEF Balanced, StreamsBalanced
    <3> QED BY <3>1, <3>2, <1>4, <1>6, <1>7, <1>11, Zenon DEF Account
  <2>2. SinksBalanced(base, got)
    BY <1>7 DEF Balanced, SinksBalanced
  <2> QED BY <2>1, <2>2 DEF Balanced, StreamsBalanced
<1>13. Told(m, base, got, owed, Active(m.file))
  BY <1>6, <1>7, <1>8, <1>9, <1>10, <1>12 DEF Told, SinksAlone
<1>14. IsFiniteSet(Active(m.file))
  BY StreamAssumption, FS_Subset DEF Active
<1>15. Told(m, n, got, owed, {})
  BY <1>13, <1>14, TellAll
<1> HIDE DEF n
<1> QED BY <1>2, <1>15 DEF Told, Leads, Live

\* readNextPacket() loses nothing.
LEMMA PacketReads ==
  ASSUME NEW m \in State, Wired(m), Live(m), m.how = "ok",
         NEW got \in [Buffer -> Seq(Frame)], NEW owed, Balanced(m, got, owed)
  PROVE  LET n == ReadNextPacket(m)
         IN Leads(m, n, got, owed) /\ n.graph = m.graph /\ SinksAlone(m, n)
<1> DEFINE ahead == {k \in DOMAIN Media : k >= m.file.pos /\ Media[k].stream \in Active(m.file)}
<1>1. Len(Media) \in Nat /\ DOMAIN Media = 1..Len(Media) /\ m.file.pos \in 1..(Len(Media) + 1)
  BY MediaFacts, StateFacts
<1>2. CASE m.file.eof
  <2>1. ReadNextPacket(m) = m
    BY <1>2 DEF ReadNextPacket
  <2> QED BY <2>1, SameSelf DEF Leads, SinksAlone
<1>3. CASE ~m.file.eof /\ ahead = {}
  <2>1. ReadNextPacket(m) = AtMediaEnd(m)
    BY <1>3 DEF ReadNextPacket
  <2>2. \A j \in 1..Len(Media) : m.file.pos <= j => Media[j].stream \notin Active(m.file)
    BY <1>1, <1>3
  <2> QED BY <1>3, <2>1, <2>2, MediaEnd
<1>4. CASE ~m.file.eof /\ ahead # {}
  <2> DEFINE k == Min(ahead)
  <2>1. ReadNextPacket(m) = AtPacket(m, k)
    BY <1>4 DEF ReadNextPacket
  <2>2. ahead \subseteq Nat
    BY <1>1
  <2>3. \E x \in ahead : \A y \in ahead : x <= y
    <3> HIDE DEF ahead
    <3>1. PICK x \in ahead : \A y \in ahead : ~(y < x)
      BY <1>4, <2>2, LeastNat
    <3> QED BY <3>1, <2>2
  <2>4. k \in ahead /\ \A y \in ahead : k <= y
    BY <2>3 DEF Min
  <2> HIDE DEF k
  <2>5. k \in 1..Len(Media) /\ k >= m.file.pos /\ Media[k].stream \in Active(m.file)
    BY <2>4, <1>1
  <2>6. \A j \in 1..Len(Media) : m.file.pos <= j /\ j < k => Media[j].stream \notin Active(m.file)
    BY <2>4, <2>5, <1>1
  <2>7. CASE Media[k].intact
    BY <1>4, <2>1, <2>5, <2>6, <2>7, PacketDecoded
  <2>8. CASE ~Media[k].intact
    BY <1>4, <2>1, <2>5, <2>6, <2>8, PacketRefused
  <2> QED BY <2>7, <2>8
<1> QED BY <1>2, <1>3, <1>4

-----------------------------------------------------------------------------
(* What the filter graph does. *)

\* The graph once its source has taken x from the buffer.
Fed(g, x) ==
  [g EXCEPT !.eof = x = Null, !.ended = x = Null,
            !.inside = WithFrame(@, x), !.fed = WithFrame(@, x)]

LEMMA FedFacts ==
  ASSUME NEW g \in FilterGraphs, NEW x \in Item
  PROVE  LET h == Fed(g, x)
         IN /\ h \in FilterGraphs /\ h.ended = (x = Null) /\ h.eof = (x = Null)
            /\ h.inside = WithFrame(g.inside, x) /\ h.fed = WithFrame(g.fed, x)
            /\ h.parsed = g.parsed /\ h.outs = g.outs /\ h.sinks = g.sinks
            /\ h.source = g.source /\ h.context = g.context /\ h.stale = g.stale
<1>1. g.inside \in Seq(Frame) /\ g.fed \in Seq(Frame)
  BY DEF FilterGraphs
<1> DEFINE e == x = Null
           i == WithFrame(g.inside, x)
           f == WithFrame(g.fed, x)
<1>2. i \in Seq(Frame) /\ f \in Seq(Frame) /\ e \in BOOLEAN
  BY <1>1, WithFrameType
<1>3. Fed(g, x) = [g EXCEPT !.eof = e, !.ended = e, !.inside = i, !.fed = f]
  BY DEF Fed
<1> HIDE DEF e, i, f
<1>4. Fed(g, x) \in FilterGraphs
  BY <1>2, <1>3 DEF FilterGraphs
<1>5. LET h == Fed(g, x)
      IN /\ h.ended = e /\ h.eof = e /\ h.inside = i /\ h.fed = f
         /\ h.parsed = g.parsed /\ h.outs = g.outs /\ h.sinks = g.sinks
         /\ h.source = g.source /\ h.context = g.context /\ h.stale = g.stale
  BY <1>3 DEF FilterGraphs
<1> QED BY <1>4, <1>5 DEF e, i, f

\* What the source does.
LEMMA SourceTakes ==
  ASSUME NEW m \in State, Wired(m), Live(m), m.graph.parsed, ReadyToPop(m.bufs[In])
  PROVE  LET n == FromSource(m)
             q == m.bufs[In]
         IN /\ n \in State /\ Wired(n) /\ Same(m, n)
            /\ n.file = m.file /\ n.how = m.how /\ n.graph = Fed(m.graph, Oldest(q))
            /\ n.bufs[In] = Pop(q) /\ \A c \in Buffer \ {In} : n.bufs[c] = m.bufs[c]
            /\ Oldest(q) \in Item /\ Strict(q) /\ q.dynamic
<1> DEFINE q == m.bufs[In]
           x == Oldest(q)
           g == Fed(m.graph, x)
           b == [m.bufs EXCEPT ![In] = Pop(q)]
           n == FromSource(m)
<1>1. Exists(m, In) /\ Strict(q) /\ q.dynamic /\ ~m.graph.eof /\ In \in Buffer
  BY Names DEF Wired, Live, LiveBut, Settled
<1>2. QueueTypeOK(q) /\ q.rd \in DOMAIN q.que /\ q \in Queue
  BY <1>1 DEF Strict, QueueTypeOK
<1>3. x \in Item
  <2>1. q.que \in Seq(Slot)
    BY <1>2 DEF Queue
  <2>2. q.que[q.rd] \in Slot
    BY <2>1, <1>2
  <2> QED BY <2>2 DEF Slot, Item, Oldest
<1>4. QueueTypeOK(Pop(q)) /\ Pop(q).dynamic = q.dynamic /\ Pop(q) \in Queue
  BY <1>2, PopRing DEF QueueTypeOK
<1>5. b \in [Buffer -> Queue \cup {NoBuffer}] /\ b[In] = Pop(q)
      /\ \A c \in Buffer \ {In} : b[c] = m.bufs[c]
  BY <1>1, <1>4, StateFacts
<1>6. /\ g \in FilterGraphs
      /\ g.parsed = m.graph.parsed /\ g.outs = m.graph.outs /\ g.sinks = m.graph.sinks
      /\ g.source = m.graph.source /\ g.context = m.graph.context /\ g.stale = m.graph.stale
  <2>1. m.graph \in FilterGraphs
    BY StateFacts
  <2> HIDE DEF x
  <2> QED BY <2>1, <1>3, FedFacts
<1>7. n.file = m.file /\ n.how = m.how /\ n.graph = g /\ n.bufs = b
  BY <1>1 DEF State, FilterGraphs, FromSource, Fed, WithFrame
<1>8. n \in State
  BY <1>1, <1>5, <1>6 DEF State, FilterGraphs, FromSource, Fed, WithFrame
<1>9. SameGraph(m, n)
  <2> HIDE DEF n, g
  <2> QED BY <1>6, <1>7 DEF SameGraph
<1> HIDE DEF n, b, q
<1>10. Same(m, n) /\ Wired(n)
  BY <1>1, <1>4, <1>5, <1>7, <1>9, OneBuffer DEF q
<1> QED BY <1>1, <1>3, <1>5, <1>7, <1>8, <1>10 DEF n, q

\* A frame that goes into the graph is still on every account.
LEMMA FrameFed ==
  ASSUME NEW m \in State, Wired(m), Live(m), m.graph.parsed, ReadyToPop(m.bufs[In]),
         NEW got \in [Buffer -> Seq(Frame)], NEW owed, Balanced(m, got, owed),
         Oldest(m.bufs[In]) # Null
  PROVE  Live(FromSource(m)) /\ Balanced(FromSource(m), got, owed)
<1> DEFINE q == m.bufs[In]
           x == Oldest(q)
           n == FromSource(m)
<1>1. /\ n \in State /\ Wired(n) /\ Same(m, n)
      /\ n.file = m.file /\ n.how = m.how /\ n.graph = Fed(m.graph, x)
      /\ n.bufs[In] = Pop(q) /\ \A c \in Buffer \ {In} : n.bufs[c] = m.bufs[c]
      /\ x \in Item /\ Strict(q) /\ q.dynamic
  BY SourceTakes
<1> HIDE DEF n
<1>2. /\ n.graph.inside = Append(m.graph.inside, x) /\ n.graph.fed = Append(m.graph.fed, x)
      /\ ~n.graph.ended /\ ~n.graph.eof /\ n.graph.sinks = m.graph.sinks
      /\ n.graph.parsed = m.graph.parsed
  <2>1. m.graph \in FilterGraphs
    BY StateFacts
  <2>2. x # Null
    OBVIOUS
  <2>3. x \in Item /\ n.graph = Fed(m.graph, x)
    BY <1>1
  <2> HIDE DEF x
  <2> DEFINE h == Fed(m.graph, x)
  <2>4. /\ h.ended = (x = Null) /\ h.eof = (x = Null)
        /\ h.inside = WithFrame(m.graph.inside, x) /\ h.fed = WithFrame(m.graph.fed, x)
        /\ h.parsed = m.graph.parsed /\ h.sinks = m.graph.sinks
    BY <2>1, <2>3, FedFacts
  <2> HIDE DEF h
  <2> QED BY <2>2, <2>3, <2>4 DEF WithFrame, h
<1>3. /\ Strict(Pop(q)) /\ Pop(q).dynamic = q.dynamic
      /\ x \in Frame /\ Frames(q) = <<x>> \o Frames(Pop(q)) /\ Frames(Pop(q)) \in Seq(Frame)
  BY <1>1, PopStrict, FramesType DEF Strict
<1>4. \A c \in Buffer : Exists(n, c) <=> Exists(m, c)
  BY <1>1 DEF Same
<1>5. Live(n)
  <2>1. Settled(n)
    BY <1>1, <1>2, <1>3, <1>4, Names DEF Live, LiveBut, Settled
  <2>2. \A s \in Stream : Exists(n, s) =>
          QueueOK(n.bufs[s]) /\ (Ended(n.bufs[s]) => Done(n.file, s))
    BY <1>1, <1>4, Names DEF Live, LiveBut
  <2> QED BY SMTT(60), <2>1, <2>2 DEF Live, LiveBut
<1>6. ASSUME NEW r \in Active(n.file), Alone(n, r)
      PROVE  owed[n.file.sink[r]] = Account(n, r, got)
  <2> DEFINE c == m.file.sink[r]
  <2>1. r \in Active(m.file) /\ Alone(m, r) /\ r \in Stream /\ c \in Buffer
    BY <1>6, <1>1, <1>2, SinkOf DEF Active, Alone
  <2>2. owed[c] = Account(m, r, got)
    BY <2>1 DEF Balanced, StreamsBalanced
  <2>3. CASE c # In
    BY <2>1, <2>2, <2>3, <1>1, Zenon DEF Account
  <2>4. CASE c = In
    <3> DEFINE F == m.graph.fed
               X == <<x>>
               P == Frames(Pop(q))
               H == m.file.held[r]
               R == Rest(m.file, r)
    <3>1. F \in Seq(Frame) /\ X \in Seq(Frame) /\ P \in Seq(Frame)
      BY <1>3, StateFacts
    <3>2. n.graph.fed = Cat(F, X)
      <4>1. n.graph.fed = Append(F, x) /\ x \in Frame
        BY <1>2, <1>3
      <4> HIDE DEF F, x
      <4> QED BY <4>1, <3>1, AppendCat
    <3>3. owed[c] = Cat(Cat(Cat(F, Cat(X, P)), H), R)
      BY <2>2, <2>4, <1>3 DEF Account, Cat
    <3>4. Account(n, r, got) = Cat(Cat(Cat(Cat(F, X), P), H), R)
      BY <3>2, <2>4, <1>1, Zenon DEF Account, Cat
    <3> HIDE DEF F, X, P, H, R, c
    <3>5. Cat(Cat(F, X), P) = Cat(F, Cat(X, P))
      BY <3>1, Associative
    <3>6. owed[c] = Account(n, r, got)
      BY <3>3, <3>4, <3>5
    <3> QED BY <3>6, <1>1 DEF c
  <2> QED BY <2>3, <2>4
<1>7. ASSUME NEW k \in n.graph.sinks
      PROVE  n.graph.fed = got[k] \o Frames(n.bufs[k]) \o n.graph.inside
  <2>1. k \in m.graph.sinks /\ k \in Sink /\ k \in Buffer /\ k # In
    BY <1>2, Names, StateFacts
  <2>2. m.graph.fed = got[k] \o Frames(m.bufs[k]) \o m.graph.inside /\ n.bufs[k] = m.bufs[k]
    BY <2>1, <1>1 DEF Balanced, SinksBalanced
  <2>3. Exists(m, k)
    BY <2>1 DEF Wired
  <2>4. Frames(m.bufs[k]) \in Seq(Frame) /\ got[k] \in Seq(Frame)
    BY <2>1, <2>3, FramesType DEF Wired
  <2> DEFINE Y == got[k] \o Frames(m.bufs[k])
  <2>5. Y \in Seq(Frame)
    BY <2>4, ConcatProperties
  <2> HIDE DEF Y
  <2>6. m.graph.inside \in Seq(Frame)
    BY StateFacts
  <2>7. m.graph.fed = Cat(Y, m.graph.inside) /\ n.bufs[k] = m.bufs[k]
    BY <2>2 DEF Y, Cat
  <2> DEFINE I == m.graph.inside
  <2>8. I \in Seq(Frame) /\ x \in Frame
    BY <2>6, <1>3
  <2>9. n.graph.fed = Append(Cat(Y, I), x) /\ n.graph.inside = Append(I, x)
    BY <2>7, <1>2
  <2> HIDE DEF I, x
  <2>10. Append(I, x) = Cat(I, <<x>>) /\ <<x>> \in Seq(Frame)
    BY <2>8, AppendCat
  <2>11. Cat(Y, I) \in Seq(Frame) /\ Cat(Cat(Y, I), <<x>>) = Cat(Y, Cat(I, <<x>>))
    BY <2>5, <2>8, <2>10, Associative
  <2>12. Append(Cat(Y, I), x) = Cat(Cat(Y, I), <<x>>)
    BY <2>8, <2>11, AppendCat
  <2>13. n.graph.fed = Cat(Y, n.graph.inside)
    BY <2>9, <2>10, <2>11, <2>12
  <2> QED BY <2>7, <2>13 DEF Y, Cat
<1> QED BY <1>5, <1>6, <1>7 DEF Balanced, StreamsBalanced, SinksBalanced, n

\* What the sinks take, and what they leave.
LEMMA RipeFacts ==
  ASSUME NEW g \in FilterGraphs
  PROVE  /\ Ripe(g) \in Seq(Item)
         /\ Picked(g).inside \in Seq(Frame)
         /\ ~g.ended => /\ Ripe(g) \in Seq(Frame)
                        /\ Cat(Ripe(g), Picked(g).inside) = g.inside
<1> DEFINE xs == g.inside
           out == IF Len(xs) > Lag THEN Len(xs) - Lag ELSE 0
<1>1. xs \in Seq(Frame) /\ Len(xs) \in Nat /\ Lag \in Nat /\ out \in 0..Len(xs)
  BY LagAssumption DEF FilterGraphs
<1>2. Picked(g).inside = SubSeq(xs, Len(Ripe(g)) + 1, Len(xs))
  BY DEF Picked, FilterGraphs
<1>3. Append(xs, Null) \in Seq(Item) /\ Len(Append(xs, Null)) = Len(xs) + 1
  BY <1>1, FramesOfFrames, AppendProperties DEF Item
<1>4. CASE g.ended
  <2>1. Ripe(g) = Append(xs, Null)
    BY <1>4 DEF Ripe
  <2>2. Picked(g).inside = SubSeq(xs, Len(xs) + 2, Len(xs))
    BY <1>1, <1>2, <1>3, <2>1
  <2>3. SubSeq(xs, Len(xs) + 2, Len(xs)) = <<>>
    BY <1>1, SubSeqEmpty
  <2> QED BY <1>3, <1>4, <2>1, <2>2, <2>3, EmptySeq
<1>5. CASE ~g.ended
  <2>1. Ripe(g) = SubSeq(xs, 1, out)
    BY <1>5 DEF Ripe
  <2> HIDE DEF xs, out
  <2>2. /\ SubSeq(xs, 1, out) \in Seq(Frame) /\ SubSeq(xs, out + 1, Len(xs)) \in Seq(Frame)
        /\ Len(SubSeq(xs, 1, out)) = out
        /\ SubSeq(xs, 1, out) \o SubSeq(xs, out + 1, Len(xs)) = xs
    BY <1>1, Cut
  <2>3. Ripe(g) \in Seq(Frame) /\ Len(Ripe(g)) = out
    BY <2>1, <2>2
  <2>4. Picked(g).inside = SubSeq(xs, out + 1, Len(xs))
    BY <1>2, <2>3
  <2>5. Ripe(g) \in Seq(Item)
    BY <2>3, FramesOfFrames
  <2> QED BY <2>1, <2>2, <2>3, <2>4, <2>5 DEF Cat, xs
<1> QED BY <1>4, <1>5

LEMMA PickedFacts ==
  ASSUME NEW g \in FilterGraphs
  PROVE  LET h == Picked(g)
         IN /\ h \in FilterGraphs
            /\ h.ended = g.ended /\ h.eof = g.eof /\ h.fed = g.fed
            /\ h.parsed = g.parsed /\ h.outs = g.outs /\ h.sinks = g.sinks
            /\ h.source = g.source /\ h.context = g.context /\ h.stale = g.stale
<1> DEFINE i == SubSeq(g.inside, Len(Ripe(g)) + 1, Len(g.inside))
<1>1. Picked(g) = [g EXCEPT !.inside = i]
  BY DEF Picked
<1>2. Picked(g).inside = i
  BY <1>1 DEF FilterGraphs
<1>3. i \in Seq(Frame)
  BY <1>2, RipeFacts
<1> HIDE DEF i
<1> QED BY <1>1, <1>3 DEF FilterGraphs

\* The sinks in filled have got from l what was ripe.
Filled(l, n, filled) ==
  /\ n \in State /\ Wired(n) /\ Same(l, n) /\ n.file = l.file /\ n.graph = l.graph
  /\ n.how \in {"ok", "stuck"}
  /\ \A c \in Buffer \ filled : n.bufs[c] = l.bufs[c]
  /\ n.how = "ok" => \A k \in filled : /\ n.bufs[k] = PushAll(l.bufs[k], Ripe(l.graph))
                                       /\ HasRoom(l.bufs[k], Ripe(l.graph))

LEMMA FillOne ==
  ASSUME NEW l \in State, NEW n, NEW filled, Filled(l, n, filled),
         NEW k \in Sink, k \notin filled, Exists(l, k), Strict(l.bufs[k])
  PROVE  Filled(l, ToSink(n, k), filled \cup {k})
<1>1. CASE n.how # "ok"
  <2>1. ToSink(n, k) = n
    BY <1>1 DEF ToSink
  <2> QED BY <1>1, <2>1 DEF Filled
<1>2. CASE n.how = "ok"
  <2> DEFINE xs == Ripe(n.graph)
             q == n.bufs[k]
             p == PushAll(q, xs)
             h == IF HasRoom(q, xs) THEN "ok" ELSE "stuck"
             o == [n EXCEPT !.bufs[k] = p, !.how = h]
  <2>1. ToSink(n, k) = o
    BY <1>2 DEF ToSink
  <2>2. /\ n \in State /\ Wired(n) /\ Same(l, n) /\ n.file = l.file /\ n.graph = l.graph
        /\ \A c \in Buffer \ filled : n.bufs[c] = l.bufs[c]
        /\ \A c \in filled : /\ n.bufs[c] = PushAll(l.bufs[c], Ripe(l.graph))
                             /\ HasRoom(l.bufs[c], Ripe(l.graph))
    BY <1>2 DEF Filled
  <2>3. k \in Buffer /\ q = l.bufs[k] /\ Strict(q) /\ Exists(n, k)
    BY <2>2, Names DEF Exists
  <2>4. xs \in Seq(Item)
    BY <2>2, StateFacts, RipeFacts
  <2>5. p \in Queue
    BY <2>3, <2>4, PushAllSpec DEF Strict, QueueTypeOK
  <2>6. h \in {"ok", "stuck"} /\ (h = "ok" => HasRoom(q, xs))
    OBVIOUS
  <2> HIDE DEF h, p
  <2>7. /\ o.file = n.file /\ o.graph = n.graph /\ o.how = h
        /\ o.bufs = [n.bufs EXCEPT ![k] = p]
        /\ o.bufs \in [Buffer -> Queue \cup {NoBuffer}] => o \in State
    BY <2>2, <2>6, NewPart DEF State
  <2>8. o.bufs[k] = p /\ \A c \in Buffer \ {k} : o.bufs[c] = n.bufs[c]
    BY <2>2, <2>3, <2>7, StateFacts
  <2>9. o \in State
    BY <2>2, <2>3, <2>5, <2>7, StateFacts
  <2> HIDE DEF o, xs
  <2>10. Wired(o) /\ Same(n, o)
    BY <2>2, <2>3, <2>4, <2>7, <2>8, PushedInto DEF p
  <2>11. Same(l, o)
    BY <2>2, <2>10, SameTrans
  <2>12. \A c \in filled : c # k
    OBVIOUS
  <2>13. o.how = "ok" => \A c \in filled \cup {k} : /\ o.bufs[c] = PushAll(l.bufs[c], Ripe(l.graph))
                                                    /\ HasRoom(l.bufs[c], Ripe(l.graph))
    BY <2>2, <2>3, <2>6, <2>7, <2>8, <2>12 DEF p, xs
  <2>14. \A c \in Buffer \ (filled \cup {k}) : o.bufs[c] = l.bufs[c]
    BY <2>2, <2>8
  <2> QED BY <2>1, <2>2, <2>6, <2>7, <2>9, <2>10, <2>11, <2>13, <2>14 DEF Filled
<1> QED BY <1>1, <1>2

LEMMA SinksFold ==
  ASSUME NEW base, NEW seq
  PROVE  FoldLeft(ToSink, base, seq) = Sinks!Fold(0, base, seq)
BY DEF ToSinkOf, FoldLeft, Sinks!Fold, MapThenFoldSet, Max, Sinks!Greatest

LEMMA FillAll ==
  ASSUME NEW l \in State, Wired(l), l.how = "ok", NEW S, S \subseteq Sink,
         \A k \in S : Exists(l, k) /\ Strict(l.bufs[k])
  PROVE  Filled(l, FoldLeft(ToSink, l, SetToSeq(S)), S)
<1> DEFINE seq == SetToSeq(S)
           n == Cardinality(S)
<1>0. IsFiniteSet(S)
  BY SinkAssumption, FS_Subset
<1>1. /\ n \in Nat /\ DOMAIN seq = 1..n /\ S = {seq[j] : j \in 1..n}
      /\ \A i, j \in 1..n : seq[i] = seq[j] => i = j
  BY <1>0, InOrder
<1> HIDE DEF seq, n
<1>2. PICK F : Sinks!Steps(0, F, l, seq, n) /\ Sinks!Fold(0, l, seq) = F[n]
  <2>1. n \in Nat
    BY <1>1
  <2>2. DOMAIN seq = 1..n
    BY <1>1
  <2> QED BY <2>1, <2>2, LeastNat, Sinks!FoldSteps DEF Sinks!WellOrdered
<1>3. F[0] = l /\ \A i \in 1..n : F[i] = ToSink(F[i - 1], seq[i])
  BY <1>2 DEF Sinks!Steps, ToSinkOf
<1> DEFINE So(i) == {seq[j] : j \in 1..i}
           P(i) == Filled(l, F[i], So(i))
           T == {i \in 0..n : P(i)}
<1>4. So(0) = {} /\ So(n) = S
  BY <1>1
<1>5. ASSUME NEW i \in 1..n
      PROVE  seq[i] \in S /\ seq[i] \notin So(i - 1) /\ So(i) = So(i - 1) \cup {seq[i]}
  <2>1. seq[i] \in S
    BY <1>1
  <2>2. \A j \in 1..(i - 1) : j \in 1..n /\ j # i
    BY <1>1
  <2>3. seq[i] \notin So(i - 1)
    BY <1>1, <2>2
  <2>4. 1..i = (1..(i - 1)) \cup {i}
    BY <1>1
  <2>5. So(i) = So(i - 1) \cup {seq[i]}
    BY <2>4
  <2> QED BY <2>1, <2>3, <2>5
<1> HIDE DEF So
<1>6. 0 \in T
  <2>1. P(0)
    BY <1>3, <1>4, SameSelf DEF Filled
  <2> HIDE DEF P
  <2> QED BY <2>1, <1>1
<1>7. ASSUME NEW i \in 1..n, i - 1 \in T
      PROVE  i \in T
  <2>1. Filled(l, F[i - 1], So(i - 1))
    BY <1>7
  <2>2. seq[i] \in Sink /\ Exists(l, seq[i]) /\ Strict(l.bufs[seq[i]])
    BY <1>5
  <2>3. Filled(l, ToSink(F[i - 1], seq[i]), So(i - 1) \cup {seq[i]})
    BY <2>1, <2>2, <1>5, FillOne
  <2>4. Filled(l, F[i], So(i))
    BY <2>3, <1>3, <1>5
  <2>5. i \in 0..n
    BY <1>1
  <2> QED BY <2>4, <2>5
<1>8. \A i \in 0..n : i \in T
  <2> HIDE DEF T
  <2> QED BY <1>1, <1>6, <1>7, UpTo
<1>9. Filled(l, F[n], S)
  <2>1. P(n)
    <3> HIDE DEF P
    <3> QED BY <1>1, <1>8
  <2> QED BY <2>1, <1>4
<1> QED BY <1>2, <1>9, SinksFold DEF seq

\* processFrame(), from the source to the sinks.
LEMMA Processed ==
  ASSUME NEW m \in State, Wired(m), Live(m), m.how = "ok", m.graph.parsed,
         m.graph.sinks = m.graph.outs, ReadyToPop(m.bufs[In])
  PROVE  LET l == FromSource(m)
             d == FoldLeft(ToSink, l, SetToSeq(l.graph.outs))
             n == ProcessFrame(m)
         IN /\ Filled(l, d, m.graph.outs)
            /\ n \in State /\ Wired(n) /\ Same(m, n)
            /\ n.file = m.file /\ n.bufs = d.bufs /\ n.graph = Picked(l.graph)
            /\ n.how \in {"ok", "stuck", "spin"}
            /\ n.how = "ok" => d.how = "ok" /\ ~l.graph.ended
<1> DEFINE l == FromSource(m)
           d == FoldLeft(ToSink, l, SetToSeq(l.graph.outs))
           h == IF d.how = "ok" /\ l.graph.ended THEN "spin" ELSE d.how
           g == Picked(l.graph)
           n == [d EXCEPT !.graph = g, !.how = h]
<1>1. /\ l \in State /\ Wired(l) /\ Same(m, l)
      /\ l.file = m.file /\ l.how = m.how
      /\ \A c \in Buffer \ {In} : l.bufs[c] = m.bufs[c]
      /\ l.graph \in FilterGraphs
  BY SourceTakes, StateFacts
<1>2. l.graph.outs = m.graph.outs
  BY <1>1 DEF Same
<1>3. m.graph.outs \subseteq Sink /\ \A k \in m.graph.outs : Exists(m, k)
  BY StateFacts DEF Wired
<1> HIDE DEF l
<1>4. \A k \in m.graph.outs : Exists(l, k) /\ Strict(l.bufs[k])
  <2> TAKE k \in m.graph.outs
  <2>1. k \in Sink /\ k \in Buffer /\ k # In /\ Exists(m, k)
    BY <1>3, Names
  <2>2. QueueOK(m.bufs[k]) /\ ~Ended(m.bufs[k])
    BY <2>1 DEF Live, LiveBut, Settled
  <2>3. l.bufs[k] = m.bufs[k]
    BY <2>1, <1>1
  <2> QED BY <2>1, <2>2, <2>3, StrictOf DEF Exists
<1>5. Filled(l, d, m.graph.outs)
  BY <1>1, <1>2, <1>3, <1>4, FillAll
<1>6. ProcessFrame(m) = [d EXCEPT !.graph = Picked(@), !.how = IF @ = "ok" /\ l.graph.ended THEN "spin" ELSE @]
  BY DEF ProcessFrame, l
<1> HIDE DEF d
<1>7. d \in State /\ Wired(d) /\ Same(l, d) /\ d.file = l.file /\ d.graph = l.graph /\ d.how \in {"ok", "stuck"}
  BY <1>5 DEF Filled
<1>8. ProcessFrame(m) = n
  BY <1>6, <1>7 DEF State
<1>9. /\ g \in FilterGraphs
      /\ g.parsed = l.graph.parsed /\ g.outs = l.graph.outs /\ g.sinks = l.graph.sinks
      /\ g.source = l.graph.source /\ g.context = l.graph.context /\ g.stale = l.graph.stale
  BY <1>1, PickedFacts
<1>10. /\ h \in {"ok", "stuck", "spin"}
       /\ h = "ok" => d.how = "ok" /\ ~l.graph.ended
  BY <1>7
<1> HIDE DEF g, h
<1>11. n \in State /\ n.file = d.file /\ n.bufs = d.bufs /\ n.graph = g /\ n.how = h
  BY <1>7, <1>9, <1>10 DEF State
<1> HIDE DEF n
<1>12. Same(m, n)
  <2>1. Same(d, n)
    BY <1>7, <1>9, <1>11 DEF Same, Exists
  <2> QED BY <2>1, <1>1, <1>7, SameTrans
<1>13. Wired(n)
  <2>1. m.graph.sinks \subseteq Sink
    BY StateFacts
  <2>2. /\ \A b \in Buffer : Exists(n, b) => QueueTypeOK(n.bufs[b])
        /\ \A b \in Stream \cup Sink : Exists(n, b) => RingContiguous(n.bufs[b])
    BY <1>7, <1>11 DEF Wired, Exists
  <2> QED BY <2>1, <2>2, <1>12, SameWired
<1> QED BY <1>1, <1>5, <1>7, <1>8, <1>10, <1>11, <1>12, <1>13 DEF l, d, g

\* processFrame() loses nothing: every sink gets what is ripe.
LEMMA FrameProcessed ==
  ASSUME NEW m \in State, Wired(m), Live(m), m.how = "ok", m.graph.parsed,
         m.graph.sinks = m.graph.outs,
         NEW got \in [Buffer -> Seq(Frame)], NEW owed, Balanced(m, got, owed)
  PROVE  Leads(m, ProcessFrame(m), got, owed)
<1> DEFINE l == FromSource(m)
           d == FoldLeft(ToSink, l, SetToSeq(l.graph.outs))
           n == ProcessFrame(m)
<1>1. CASE ~ReadyToPop(m.bufs[In])
  <2>1. ProcessFrame(m) = m
    BY <1>1 DEF ProcessFrame
  <2> QED BY <2>1, SameSelf DEF Leads
<1>2. CASE ReadyToPop(m.bufs[In])
  <2>1. /\ Filled(l, d, m.graph.outs)
        /\ n \in State /\ Wired(n) /\ Same(m, n)
        /\ n.file = m.file /\ n.bufs = d.bufs /\ n.graph = Picked(l.graph)
        /\ n.how \in {"ok", "stuck", "spin"}
        /\ n.how = "ok" => d.how = "ok" /\ ~l.graph.ended
    BY <1>2, Processed
  <2>2. /\ l \in State /\ Wired(l) /\ Same(m, l) /\ l.file = m.file
        /\ l.graph = Fed(m.graph, Oldest(m.bufs[In])) /\ Oldest(m.bufs[In]) \in Item
    BY <1>2, SourceTakes
  <2> SUFFICES ASSUME n.how = "ok" PROVE Live(n) /\ Balanced(n, got, owed)
    BY <2>1 DEF Leads
  <2>3. Live(l) /\ Balanced(l, got, owed)
    <3>1. l.graph.ended = (Oldest(m.bufs[In]) = Null)
      BY <2>2, StateFacts, FedFacts
    <3>2. Oldest(m.bufs[In]) # Null
      BY <2>1, <3>1
    <3> QED BY <1>2, <3>2, FrameFed
  <2>4. l.graph \in FilterGraphs /\ ~l.graph.ended /\ l.graph.outs = m.graph.outs
        /\ l.graph.sinks = m.graph.outs /\ m.graph.outs \subseteq Sink
    BY <2>1, <2>2, StateFacts DEF Same
  <2> DEFINE xs == Ripe(l.graph)
             g == Picked(l.graph)
  <2>5. xs \in Seq(Frame) /\ g.inside \in Seq(Frame) /\ Cat(xs, g.inside) = l.graph.inside
    BY <2>4, RipeFacts
  <2>6. g.fed = l.graph.fed /\ g.sinks = l.graph.sinks /\ g.parsed = l.graph.parsed
        /\ g.ended = l.graph.ended /\ g.eof = l.graph.eof
    BY <2>4, PickedFacts
  <2> HIDE DEF l, d, n, xs, g
  <2>7. /\ \A k \in m.graph.outs : n.bufs[k] = PushAll(l.bufs[k], xs) /\ HasRoom(l.bufs[k], xs)
        /\ \A c \in Buffer \ m.graph.outs : n.bufs[c] = l.bufs[c]
    BY <2>1 DEF Filled, xs
  <2>8. \A c \in Buffer : Exists(n, c) <=> Exists(l, c)
    BY <2>1, <2>2 DEF Same
  <2>9. ASSUME NEW k \in m.graph.outs
        PROVE  /\ Frames(n.bufs[k]) = Cat(Frames(l.bufs[k]), xs)
               /\ QueueOK(n.bufs[k]) /\ ~Ended(n.bufs[k])
    <3>1. k \in Sink /\ Exists(l, k)
      BY <2>2, <2>4 DEF Wired
    <3>2. QueueOK(l.bufs[k]) /\ ~Ended(l.bufs[k])
      BY <2>3, <3>1 DEF Live, LiveBut, Settled
    <3>3. n.bufs[k] = PushAll(l.bufs[k], xs) /\ HasRoom(l.bufs[k], xs)
      BY <2>7
    <3> QED BY <2>5, <3>2, <3>3, PushedFrames DEF Cat
  <2>10. Live(n)
    <3>1. Exists(n, In) => Strict(n.bufs[In]) /\ n.bufs[In].dynamic
      BY <2>3, <2>4, <2>7, <2>8, Names DEF Live, LiveBut, Settled
    <3>2. \A k \in Sink : Exists(n, k) => QueueOK(n.bufs[k]) /\ ~Ended(n.bufs[k])
      <4> SUFFICES ASSUME NEW k \in Sink, Exists(n, k) PROVE QueueOK(n.bufs[k]) /\ ~Ended(n.bufs[k])
        OBVIOUS
      <4>1. CASE k \in m.graph.outs
        BY <4>1, <2>9
      <4>2. CASE k \notin m.graph.outs
        BY <4>2, <2>3, <2>7, <2>8, Names DEF Live, LiveBut, Settled
      <4> QED BY <4>1, <4>2
    <3>3. ~n.graph.eof /\ ~n.graph.ended
      BY <2>1, <2>3, <2>6 DEF Live, LiveBut, Settled, g
    <3>4. Settled(n)
      BY <3>1, <3>2, <3>3 DEF Settled
    <3>5. \A s \in Stream : Exists(n, s) => QueueOK(n.bufs[s]) /\ (Ended(n.bufs[s]) => Done(n.file, s))
      BY <2>1, <2>2, <2>3, <2>4, <2>7, <2>8, Names DEF Live, LiveBut
    <3> QED BY <3>4, <3>5 DEF Live, LiveBut
  <2>11. ASSUME NEW r \in Active(n.file), Alone(n, r)
         PROVE  owed[n.file.sink[r]] = Account(n, r, got)
    <3> DEFINE c == l.file.sink[r]
    <3>1. n.file = l.file /\ n.graph.fed = l.graph.fed /\ n.graph.parsed = l.graph.parsed
      BY <2>1, <2>2, <2>6 DEF g
    <3>2. r \in Active(l.file) /\ Alone(l, r)
      BY <2>11, <3>1 DEF Active, Alone
    <3>3. c \in Buffer /\ c \notin Sink
      BY <2>2, <3>2, SinkOf
    <3>4. n.bufs[c] = l.bufs[c]
      BY <2>4, <2>7, <3>3
    <3>5. owed[c] = Account(l, r, got)
      BY <2>3, <3>2 DEF Balanced, StreamsBalanced
    <3> QED BY <3>1, <3>4, <3>5, Zenon DEF Account
  <2>12. ASSUME NEW k \in n.graph.sinks
         PROVE  n.graph.fed = got[k] \o Frames(n.bufs[k]) \o n.graph.inside
    <3>1. k \in m.graph.outs /\ k \in l.graph.sinks /\ k \in Buffer /\ Exists(l, k)
      BY <2>1, <2>2, <2>4, <2>6, Names DEF g, Wired
    <3>2. l.graph.fed = got[k] \o Frames(l.bufs[k]) \o l.graph.inside
      BY <2>3, <3>1 DEF Balanced, SinksBalanced
    <3> DEFINE G == got[k]
               B == Frames(l.bufs[k])
               I == g.inside
    <3>3. G \in Seq(Frame) /\ B \in Seq(Frame) /\ I \in Seq(Frame)
      BY <2>2, <2>5, <3>1, FramesType DEF Wired
    <3>4. l.graph.fed = Cat(Cat(G, B), Cat(xs, I))
      BY <2>5, <3>2 DEF Cat
    <3>5. n.graph.fed = l.graph.fed /\ n.graph.inside = I /\ Frames(n.bufs[k]) = Cat(B, xs)
      BY <2>1, <2>6, <2>9, <3>1 DEF g
    <3> HIDE DEF G, B, I
    <3>6. Cat(Cat(G, B), Cat(xs, I)) = Cat(Cat(Cat(G, B), xs), I)
      BY <2>5, <3>3, Associative
    <3>7. Cat(Cat(G, B), xs) = Cat(G, Cat(B, xs))
      BY <2>5, <3>3, Associative
    <3>8. n.graph.fed = Cat(Cat(G, Frames(n.bufs[k])), n.graph.inside)
      BY <3>4, <3>5, <3>6, <3>7
    <3> QED BY <3>8 DEF Cat, G
  <2> QED BY <2>10, <2>11, <2>12 DEF Balanced, StreamsBalanced, SinksBalanced, n
<1> QED BY <1>1, <1>2

\* read_next_packet() of a reader whose graph is configured loses nothing.
LEMMA Reads ==
  ASSUME NEW m \in State, Wired(m), Live(m), m.how = "ok", Configured(m),
         NEW got \in [Buffer -> Seq(Frame)], NEW owed, Balanced(m, got, owed)
  PROVE  Leads(m, ReadPacket(m), got, owed)
<1> DEFINE n == ReadNextPacket(m)
<1>1. Leads(m, n, got, owed) /\ n.graph = m.graph
  BY PacketReads
<1> HIDE DEF n
<1>2. CASE n.how = "ok" /\ n.graph.parsed
  <2>1. ReadPacket(m) = ProcessFrame(n)
    BY <1>2 DEF ReadPacket, n
  <2>2. Leads(n, ProcessFrame(n), got, owed)
    BY <1>1, <1>2, FrameProcessed DEF Leads, Configured
  <2> QED BY <1>1, <2>1, <2>2, SameTrans DEF Leads
<1>3. CASE ~(n.how = "ok" /\ n.graph.parsed)
  <2>1. ReadPacket(m) = n
    BY <1>3 DEF ReadPacket, n
  <2> QED BY <1>1, <2>1
<1> QED BY <1>2, <1>3

-----------------------------------------------------------------------------
(* From one call of the reader to the next. *)

\* The invariant does not look at how a state was come to.
LEMMA PartsCount ==
  ASSUME NEW m \in State, NEW n, n.file = m.file, n.graph = m.graph, n.bufs = m.bufs
  PROVE  /\ Wired(m) => Wired(n)
         /\ Live(m) => Live(n)
         /\ Noted(m) => Noted(n)
         /\ Configured(m) => Configured(n)
         /\ \A got, owed : Balanced(m, got, owed) => Balanced(n, got, owed)
<1>1. \A b : Exists(n, b) <=> Exists(m, b)
  BY DEF Exists
<1>2. Settled(m) => Settled(n)
  BY <1>1 DEF Settled
<1>3. \A got, owed : Balanced(m, got, owed) => Balanced(n, got, owed)
  <2> TAKE got, owed
  <2>1. StreamsBalanced(m, got, owed) => StreamsBalanced(n, got, owed)
    <3>1. \A s : (Alone(n, s) <=> Alone(m, s)) /\ Account(n, s, got) = Account(m, s, got)
      BY DEF Account, Alone
    <3> QED BY <3>1 DEF StreamsBalanced
  <2>2. SinksBalanced(m, got) => SinksBalanced(n, got)
    BY DEF SinksBalanced
  <2> QED BY <2>1, <2>2 DEF Balanced
<1>4. Wired(m) => Wired(n)
  BY <1>1 DEF Wired
<1> QED BY <1>1, <1>2, <1>3, <1>4 DEF Live, LiveBut, Noted, Configured

\* The parts of m are those of the reader in its next state.
LEMMA BecomesNow ==
  ASSUME NEW m \in State, file' = m.file, graph' = m.graph, bufs' = m.bufs
  PROVE  /\ Now' \in State
         /\ Wired(m) => Wired(Now)'
         /\ Live(m) => Live(Now)'
         /\ Noted(m) => Noted(Now)'
         /\ Configured(m) => Configured(Now)'
         /\ Balanced(m, gone', due') => Balanced(Now, gone, due)'
         /\ \A b : Exists(Now', b) <=> Exists(m, b)
<1> DEFINE n == [file |-> file', graph |-> graph', bufs |-> bufs', how |-> "ok"]
<1>1. Now' = n
  BY DEF Now
<1>2. n.file = m.file /\ n.graph = m.graph /\ n.bufs = m.bufs /\ n \in State
  BY DEF State
<1> HIDE DEF n
<1>3. /\ Wired(m) => Wired(n)
      /\ Live(m) => Live(n)
      /\ Noted(m) => Noted(n)
      /\ Configured(m) => Configured(n)
      /\ Balanced(m, gone', due') => Balanced(n, gone', due')
  BY <1>2, PartsCount
<1>4. \A b : Exists(n, b) <=> Exists(m, b)
  BY <1>2 DEF Exists
<1> QED BY <1>1, <1>2, <1>3, <1>4

\* What a call in progress needs of the state m that it has come to, with next to
\* go on.
Reaches(m, next) ==
  /\ m \in State /\ Wired(m) /\ Configured(m) /\ FileReady(m.file)
  /\ \A b \in Buffer : Exists(m, b) <=> Made(b)
  /\ m.how \in {"ok", "throw"} => Live(m) \/ (Noted(m) /\ next = Idle)
  /\ next \in Calls /\ next.at \in {"idle", "get", "fill", "seek", "purge"}
  /\ next.at = "idle" => next = Idle
  /\ next.at \in {"get", "fill"} => next.buf \in Outputs

\* The end of the buffers in told is one.
Truly(m, told) ==
  (\A b \in Outputs : m.bufs[b].dynamic) =>
    \A s \in told \cap Stream : Made(s) => Frames(m.bufs[s]) = <<>> /\ Done(m.file, s)

LEMMA IdleIsCall == Idle \in Calls /\ Idle.at = "idle"
BY DEF Idle, Calls

LEMMA Continued ==
  ASSUME ReaderInv, active, active' = active, NEW m, NEW next, Reaches(m, next), Continue(m, next),
         gone' \in [Buffer -> Seq(Frame)], due' \in [Buffer -> Seq(Frame)],
         m.how \in {"ok", "throw"} => Balanced(m, gone', due'),
         said' # {} => m.how = "ok" /\ Truly(m, said')
  PROVE  ReaderInv'
<1>1. file' = m.file /\ graph' = m.graph /\ bufs' = m.bufs /\ m \in State
  BY DEF Continue, Reaches
<1>2. /\ Now' \in State /\ Wired(Now)' /\ Configured(Now)'
      /\ m.how \in {"ok", "throw"} => Balanced(Now, gone, due)'
      /\ Live(m) => Live(Now)'
      /\ Noted(m) => Noted(Now)'
      /\ \A b : Exists(Now', b) <=> Exists(m, b)
  BY <1>1, BecomesNow DEF Reaches
<1>3. CASE m.how = "ok"
  <2>1. call' = next
    BY <1>3 DEF Continue
  <2>2. Outputs' = Outputs
    BY <1>1 DEF Reaches, Outputs, Made, Exists, Buffer
  <2>3. Typed'
    BY <1>2, <2>1 DEF Reaches, Typed, ReaderInv
  <2>4. Calling'
    BY <1>1, <1>2, <2>1, <2>2 DEF Reaches, Calling, ReaderInv
  <2>5. Live(Now)' \/ (Noted(Now)' /\ active' /\ call' = Idle)
    BY <1>2, <1>3, <2>1 DEF Reaches
  <2>6. ~Lost'
    BY <2>1 DEF Reaches, Lost
  <2>7. said' # {} => Honest'
    <3>1. \A b \in Buffer : Exists(Now', b) <=> Made(b)
      BY <1>2 DEF Reaches
    <3> QED BY <1>1, <2>2, <3>1 DEF Truly, Honest, Buffer
  <2>8. Idle' = Idle
    BY DEF Idle
  <2> QED BY <1>2, <1>3, <2>3, <2>4, <2>5, <2>6, <2>7, <2>8 DEF ReaderInv
<1>4. CASE m.how = "throw"
  <2>1. call' = Idle
    BY <1>4 DEF Continue
  <2>2. Typed'
    BY <1>2, <2>1, IdleIsCall DEF Reaches, Typed, ReaderInv
  <2>3. Calling'
    BY <1>1, <1>2, <2>1, IdleIsCall DEF Reaches, Calling, ReaderInv, Idle
  <2>4. Live(Now)' \/ (Noted(Now)' /\ active' /\ call' = Idle)
    BY <1>2, <1>4, <2>1 DEF Reaches
  <2>5. Idle' = Idle
    BY DEF Idle
  <2> QED BY <1>2, <1>4, <2>2, <2>3, <2>4, <2>5 DEF ReaderInv
<1>5. CASE m.how \notin {"ok", "throw"}
  <2>1. call' = [next EXCEPT !.at = m.how] /\ m.how \in {"stuck", "spin", "undefined"}
    BY <1>1, <1>5 DEF Continue, State
  <2>2. call' \in Calls /\ call'.at \in {"stuck", "spin", "undefined"}
    BY <2>1 DEF Reaches, Calls
  <2>3. Typed'
    BY <1>2, <2>2 DEF Reaches, Typed, ReaderInv
  <2>4. Calling'
    BY <1>1, <1>2, <2>2 DEF Reaches, Calling, ReaderInv
  <2>5. Lost' /\ said' = {}
    BY <1>5, <2>2 DEF Lost
  <2> QED BY <1>2, <2>3, <2>4, <2>5 DEF ReaderInv
<1> QED BY <1>3, <1>4, <1>5

LEMMA OneReads ==
  ASSUME ReaderInv
  PROVE  /\ Now \in State /\ Wired(Now) /\ Now.how = "ok"
         /\ Now.file = file /\ Now.graph = graph /\ Now.bufs = bufs
         /\ \A b : Exists(Now, b) <=> Made(b)
         /\ active \in BOOLEAN /\ call \in Calls
         /\ gone \in [Buffer -> Seq(Frame)] /\ due \in [Buffer -> Seq(Frame)]
         /\ ~Lost => Settled(Now) /\ Balanced(Now, gone, due)
         /\ ~Lost /\ (~active \/ call # Idle) => Live(Now)
         /\ ~Lost /\ active => Configured(Now) /\ FileReady(file) /\ (Live(Now) \/ Noted(Now))
         /\ call = Idle => ~Lost
         /\ ~active => graph.inside = <<>> /\ graph.fed = <<>> /\ gone = OnNothing
<1>1. Now.how = "ok" /\ Now.file = file /\ Now.graph = graph /\ Now.bufs = bufs
  BY DEF Now
<1>2. \A b : Exists(Now, b) <=> Made(b)
  BY <1>1 DEF Exists, Made
<1>3. call = Idle => ~Lost
  BY DEF Idle, Lost
<1>4. ~Lost => call.at # "undefined"
  BY DEF Lost
<1> QED BY <1>1, <1>2, <1>3, <1>4 DEF ReaderInv, Typed, Calling, Live, LiveBut, Noted

LEMMA TwoNulls ==
  /\ <<Null>> \in Seq(Item) /\ Append(<<Null>>, Null) = <<Null, Null>>
  /\ <<Null>> \o <<Null>> = <<Null, Null>>
<1> DEFINE one == <<Null>>
           two == <<Null, Null>>
           w == Append(one, Null)
<1>1. Null \in Item
  BY DEF Item
<1>2. two \in Seq(Item) /\ Len(two) = 2 /\ two[1] = Null /\ two[2] = Null
  BY <1>1
<1>3. one \in Seq(Item) /\ Len(one) = 1 /\ one[1] = Null
  BY <1>1
<1> HIDE DEF one
<1>4. w \in Seq(Item) /\ Len(w) = 2 /\ w[1] = Null /\ w[2] = Null
  <2>1. 1 \in 1..Len(one) /\ Len(one) + 1 = 2
    BY <1>3
  <2>2. /\ w \in Seq(Item) /\ Len(w) = Len(one) + 1 /\ w[Len(one) + 1] = Null
        /\ \A i \in 1..Len(one) : w[i] = one[i]
    BY SMTT(60), <1>1, <1>3, AppendProperties
  <2> HIDE DEF w
  <2> QED BY <1>3, <2>1, <2>2
<1> HIDE DEF two, w
<1>5. w = two
  <2>1. \A i \in 1..Len(w) : w[i] = two[i]
    BY <1>2, <1>4
  <2> QED BY <1>2, <1>4, <2>1, SeqEqual
<1>6. w = one \o <<Null>>
  BY <1>1, <1>3, AppendIsConcat DEF w
<1> QED BY <1>3, <1>5, <1>6 DEF one, two, w

\* Every buffer that a client reads can be popped after a seek to the end.
LEMMA NotedIsEnd ==
  ASSUME NEW m \in State, Noted(m), NEW s \in Stream, Exists(m, s)
  PROVE  /\ AtEof(m.bufs[s]) /\ ReadyToPop(m.bufs[s])
         /\ Frames(m.bufs[s]) = <<>> /\ Done(m.file, s)
<1> DEFINE q == m.bufs[s]
<1>1. Strict(q) /\ Contents(q) = <<Null, Null>> /\ Done(m.file, s)
  BY DEF Noted
<1>2. QueueTypeOK(q) /\ SlotsClean(q)
  BY <1>1 DEF Strict
<1> HIDE DEF q
<1>3. /\ Count(q) \in Nat /\ Len(Contents(q)) = Count(q)
      /\ \A k \in 1..Count(q) : Contents(q)[k] = q.que[At(q, k)].frame
  BY <1>2, ContentsSeq, QueueFacts
<1>4. Len(<<Null, Null>>) = 2 /\ <<Null, Null>>[1] = Null
  OBVIOUS
<1>5. Count(q) = 2 /\ 1 \in 1..Count(q) /\ Contents(q)[1] = Null
  BY <1>1, <1>3, <1>4
<1>6. At(q, 1) = q.rd /\ q.rd \in DOMAIN q.que
  <2>1. Size(q) \in Nat \ {0} /\ DOMAIN q.que = 1..Size(q) /\ q.rd \in 1..Size(q)
    BY <1>2, QueueFacts
  <2> QED BY <2>1 DEF At
<1>7. q.que[q.rd].populated
  BY <1>1, <1>5, <1>6, PlacesBetween
<1>8. q.que[q.rd].frame = Null
  BY <1>3, <1>5, <1>6
<1>9. q.que[q.rd].eof
  BY <1>2, <1>6, <1>7, <1>8, NullAssumption DEF SlotsClean
<1>10. FramesOf(<<Null, Null>>) = <<>>
  <2> DEFINE one == <<Null>>
  <2>1. <<>> \in Seq(Item) /\ one = Append(<<>>, Null)
    BY EmptySeq
  <2>2. FramesOf(Append(<<>>, Null)) = FramesOf(<<>>)
    BY <2>1, FramesOfNull
  <2>3. one \in Seq(Item) /\ Append(one, Null) = <<Null, Null>>
    BY TwoNulls
  <2> HIDE DEF one
  <2>4. FramesOf(Append(one, Null)) = FramesOf(one)
    BY <2>3, FramesOfNull
  <2> QED BY <2>1, <2>2, <2>3, <2>4, FramesOfEmpty
<1> QED BY <1>1, <1>7, <1>9, <1>10 DEF AtEof, IsEmpty, ReadyToPop, Frames, q

\* A buffer at its end is one of a stream that is done.
LEMMA EndIsTrue ==
  ASSUME NEW m \in State, Live(m) \/ Noted(m), NEW s \in Stream, Exists(m, s), AtEof(m.bufs[s])
  PROVE  Frames(m.bufs[s]) = <<>> /\ Done(m.file, s)
<1>1. CASE Noted(m)
  BY <1>1, NotedIsEnd
<1>2. CASE Live(m)
  <2>1. QueueOK(m.bufs[s]) /\ (Ended(m.bufs[s]) => Done(m.file, s))
    BY <1>2 DEF Live, LiveBut
  <2> QED BY <2>1, AtItsEnd
<1> QED BY <1>1, <1>2

\* The operations that read, on the reader as it is.
LEMMA ReadingLeads ==
  ASSUME ReaderInv, active, ~Lost, Live(Now),
         NEW m, m = Now \/ m = ReadPacket(Now) \/ m = ReadIfReady(Now) \/ m = Probed(Now)
  PROVE  Leads(Now, m, gone, due)
<1>1. /\ Now \in State /\ Wired(Now) /\ Now.how = "ok" /\ Configured(Now)
      /\ gone \in [Buffer -> Seq(Frame)] /\ Balanced(Now, gone, due)
  BY OneReads
<1>2. Leads(Now, ReadPacket(Now), gone, due)
  BY <1>1, Reads
<1>3. Leads(Now, Now, gone, due)
  BY <1>1, SameSelf DEF Leads
<1>4. m = Now \/ m = ReadPacket(Now)
  BY DEF ReadIfReady, Probed
<1> QED BY <1>2, <1>3, <1>4

\* Where they lead to, a call may go on.
LEMMA LeadsReaches ==
  ASSUME ReaderInv, active, ~Lost, NEW m, Leads(Now, m, gone, due),
         NEW next \in Calls, next.at \in {"idle", "get", "fill", "seek", "purge"},
         next.at = "idle" => next = Idle, next.at \in {"get", "fill"} => next.buf \in Outputs
  PROVE  Reaches(m, next) /\ (m.how \in {"ok", "throw"} => Balanced(m, gone, due))
<1>1. /\ Configured(Now) /\ FileReady(file) /\ Now.file = file
      /\ \A b : Exists(Now, b) <=> Made(b)
  BY OneReads
<1>2. m \in State /\ Wired(m) /\ Same(Now, m) /\ (m.how \in {"ok", "throw"} => Live(m))
  BY DEF Leads
<1>3. Configured(m)
  BY <1>1, <1>2 DEF Same, Configured
<1>4. FileReady(m.file)
  BY <1>1, <1>2 DEF Same, FileReady, Active
<1>5. \A b \in Buffer : Exists(m, b) <=> Made(b)
  BY <1>1, <1>2 DEF Same
<1> QED BY <1>2, <1>3, <1>4, <1>5 DEF Reaches, Leads

\* A call that reads and answers.
LEMMA Answers ==
  ASSUME ReaderInv, active, ~Lost, NEW m, NEW next, NEW told,
         \/ m = Now /\ next = Idle
         \/ /\ Live(Now)
            /\ m = Now \/ m = ReadPacket(Now) \/ m = ReadIfReady(Now) \/ m = Probed(Now),
         next \in Calls, next.at \in {"idle", "get", "fill", "seek", "purge"},
         next.at = "idle" => next = Idle, next.at \in {"get", "fill"} => next.buf \in Outputs,
         m.how = "ok" /\ told # {} => Truly(m, told),
         Telling(m, next, told)
  PROVE  ReaderInv'
<1>1. /\ Continue(m, next) /\ active' = active /\ gone' = gone /\ due' = due
      /\ said' = IF m.how = "ok" THEN told ELSE {}
  BY DEF Telling
<1>2. /\ Now \in State /\ Wired(Now) /\ Now.how = "ok" /\ Now.file = file
      /\ \A b : Exists(Now, b) <=> Made(b)
      /\ gone \in [Buffer -> Seq(Frame)] /\ due \in [Buffer -> Seq(Frame)]
      /\ Balanced(Now, gone, due) /\ Configured(Now) /\ FileReady(file)
      /\ Live(Now) \/ Noted(Now)
  BY OneReads
<1>3. Reaches(m, next) /\ (m.how \in {"ok", "throw"} => Balanced(m, gone, due))
  <2>1. CASE m = Now /\ next = Idle
    BY <1>2, <2>1 DEF Reaches
  <2>2. CASE /\ Live(Now)
             /\ m = Now \/ m = ReadPacket(Now) \/ m = ReadIfReady(Now) \/ m = Probed(Now)
    BY <2>2, ReadingLeads, LeadsReaches
  <2> QED BY <2>1, <2>2
<1>4. /\ gone' \in [Buffer -> Seq(Frame)] /\ due' \in [Buffer -> Seq(Frame)]
      /\ m.how \in {"ok", "throw"} => Balanced(m, gone', due')
  BY <1>1, <1>2, <1>3
<1>5. said' # {} => m.how = "ok" /\ Truly(m, said')
  BY <1>1
<1> QED BY <1>1, <1>3, <1>4, <1>5, Continued

\* ... and its answer, that buffers are at their end, is true.
LEMMA AnswersTruly ==
  ASSUME NEW m \in State, Live(m) \/ Noted(m), \A b \in Buffer : Exists(m, b) <=> Made(b),
         NEW told, \A b \in told \cap Stream : Made(b) => AtEof(m.bufs[b])
  PROVE  Truly(m, told)
BY EndIsTrue, Names DEF Truly

\* After a seek to the end there is no need to read.
LEMMA NotedAnswers ==
  ASSUME ReaderInv, Noted(Now)
  PROVE  /\ AllEof(Now) /\ Probed(Now) = Now
         /\ \A b \in Outputs : ReadyToPop(bufs[b])
<1>1. Now \in State /\ Now.bufs = bufs /\ \A b : Exists(Now, b) <=> Made(b)
  BY OneReads
<1>2. \A b \in Outputs : b \in Stream /\ Exists(Now, b)
  BY <1>1 DEF Noted, Outputs
<1>3. \A b \in Outputs : AtEof(bufs[b]) /\ ReadyToPop(bufs[b])
  BY <1>1, <1>2, NotedIsEnd
<1> QED BY <1>1, <1>3 DEF AllEof, Probed

\* What every call that reads starts from.
LEMMA CallReads ==
  ASSUME ReaderInv, active, ~Lost, NEW m,
         \/ m = Now
         \/ Live(Now) /\ (m = ReadPacket(Now) \/ m = ReadIfReady(Now) \/ m = Probed(Now))
  PROVE  /\ m \in State /\ (m.how = "ok" => Live(m) \/ Noted(m))
         /\ \A b \in Buffer : Exists(m, b) <=> Made(b)
<1>1. /\ Now \in State /\ Now.how = "ok" /\ (Live(Now) \/ Noted(Now))
      /\ \A b : Exists(Now, b) <=> Made(b)
  BY OneReads
<1>2. CASE m = Now
  BY <1>1, <1>2
<1>3. CASE Live(Now) /\ (m = ReadPacket(Now) \/ m = ReadIfReady(Now) \/ m = Probed(Now))
  <2>1. Leads(Now, m, gone, due)
    BY <1>3, ReadingLeads
  <2> QED BY <1>1, <2>1 DEF Leads, Same
<1> QED BY <1>2, <1>3

LEMMA AtEndOfFileKeeps ==
  ASSUME ReaderInv, AtEndOfFile
  PROVE  ReaderInv'
<1> DEFINE m == Probed(Now)
           told == IF AllEof(m) THEN Outputs ELSE {}
<1>1. active /\ call = Idle /\ ~Lost /\ Telling(m, Idle, told)
  BY OneReads DEF AtEndOfFile, Reading
<1>2. m = Now \/ Live(Now)
  BY <1>1, OneReads, NotedAnswers
<1>3. m.how = "ok" => Truly(m, told)
  <2>1. /\ m \in State /\ (m.how = "ok" => Live(m) \/ Noted(m))
        /\ \A b \in Buffer : Exists(m, b) <=> Made(b)
    BY <1>1, <1>2, CallReads
  <2>2. \A b \in told \cap Stream : Made(b) => AtEof(m.bufs[b])
    BY DEF AllEof
  <2> HIDE DEF m, told
  <2> QED BY <2>1, <2>2, AnswersTruly
<1> HIDE DEF told
<1> QED BY <1>1, <1>2, <1>3, IdleIsCall, Answers

LEMMA AtEndOfStreamKeeps ==
  ASSUME ReaderInv, NEW b \in Buffer, AtEndOfStream(b)
  PROVE  ReaderInv'
<1> DEFINE m == IF ReadyToPop(bufs[b]) THEN Now ELSE ReadIfReady(Now)
           told == IF AtEof(m.bufs[b]) THEN {b} ELSE {}
<1>1. active /\ call = Idle /\ ~Lost /\ b \in Outputs /\ Telling(m, Idle, told)
  BY OneReads DEF AtEndOfStream, Reading
<1>2. m = Now \/ (Live(Now) /\ m = ReadIfReady(Now))
  BY <1>1, OneReads, NotedAnswers
<1>3. m.how = "ok" => Truly(m, told)
  <2>1. /\ m \in State /\ (m.how = "ok" => Live(m) \/ Noted(m))
        /\ \A c \in Buffer : Exists(m, c) <=> Made(c)
    <3> HIDE DEF m
    <3> QED BY <1>1, <1>2, CallReads
  <2>2. \A c \in told \cap Stream : Made(c) => AtEof(m.bufs[c])
    OBVIOUS
  <2> HIDE DEF m, told
  <2> QED BY <2>1, <2>2, AnswersTruly
<1> HIDE DEF told, m
<1> QED BY <1>1, <1>2, <1>3, IdleIsCall, Answers

LEMMA GetTimeStampKeeps ==
  ASSUME ReaderInv, NEW b \in Buffer, GetTimeStamp(b)
  PROVE  ReaderInv'
<1> DEFINE m == IF ReadyToPop(bufs[b]) THEN Now ELSE ReadIfReady(Now)
<1>1. active /\ call = Idle /\ ~Lost /\ b \in Outputs /\ Telling(m, Idle, {})
  BY OneReads DEF GetTimeStamp, Reading
<1>2. m = Now \/ (Live(Now) /\ m = ReadIfReady(Now))
  BY <1>1, OneReads, NotedAnswers
<1> HIDE DEF m
<1> QED BY <1>1, <1>2, IdleIsCall, Answers

LEMMA ReadNextFrameKeeps ==
  ASSUME ReaderInv, NEW b \in Buffer, NEW getmore \in BOOLEAN, ReadNextFrame(b, getmore)
  PROVE  ReaderInv'
<1> DEFINE m == Probed(Now)
           next == [Idle EXCEPT !.at = "get", !.buf = b, !.more = getmore]
<1>1. active /\ call = Idle /\ ~Lost /\ b \in Outputs
  BY OneReads DEF ReadNextFrame, Reading
<1>2. m = Now \/ Live(Now)
  BY <1>1, OneReads, NotedAnswers
<1>3. CASE AllEof(m)
  <2>1. Telling(m, Idle, Outputs)
    BY <1>3 DEF ReadNextFrame
  <2>2. /\ m \in State /\ (m.how = "ok" => Live(m) \/ Noted(m))
        /\ \A c \in Buffer : Exists(m, c) <=> Made(c)
    BY <1>1, <1>2, CallReads
  <2>3. m.how = "ok" => Truly(m, Outputs)
    <3>1. \A c \in Outputs \cap Stream : Made(c) => AtEof(m.bufs[c])
      BY <1>3 DEF AllEof
    <3> HIDE DEF m
    <3> QED BY <2>2, <3>1, AnswersTruly
  <2> QED BY <1>1, <1>2, <2>1, <2>3, IdleIsCall, Answers
<1>4. CASE ~AllEof(m)
  <2>1. Telling(m, next, {})
    BY <1>4 DEF ReadNextFrame
  <2>2. Live(Now)
    BY <1>1, <1>4, OneReads, NotedAnswers
  <2>3. next \in Calls /\ next.at = "get" /\ next.buf \in Outputs
    BY <1>1 DEF Idle, Calls
  <2> HIDE DEF m, next
  <2> QED BY <1>1, <2>1, <2>2, <2>3, Answers DEF m
<1> QED BY <1>3, <1>4

LEMMA NoFrameKeeps ==
  ASSUME ReaderInv, NoFrame
  PROVE  ReaderInv'
<1>1. /\ call.at \in {"get", "fill"} /\ active /\ ~Lost /\ call # Idle /\ call.buf \in Outputs
  BY DEF NoFrame, Lost, Idle, ReaderInv, Calling
<1>2. /\ Live(Now) /\ Now \in State /\ Now.bufs = bufs
      /\ \A b \in Buffer : Exists(Now, b) <=> Made(b)
  BY <1>1, OneReads
<1>3. PICK told \in {{}, {call.buf}} :
        /\ Telling(Now, Idle, told)
        /\ told # {} => AtEof(bufs[call.buf]) \/ ~ReadyToRead(Now)
  BY DEF NoFrame
<1>4. told # {} => Truly(Now, told)
  <2>1. CASE AtEof(bufs[call.buf])
    <3>1. \A b \in told \cap Stream : Made(b) => AtEof(Now.bufs[b])
      BY <1>2, <2>1
    <3> QED BY <1>2, <3>1, AnswersTruly
  <2>2. CASE ~ReadyToRead(Now)
    <3>1. \E b \in Outputs : ~bufs[b].dynamic
      BY <2>2, <1>2 DEF ReadyToRead, ReadyToPush
    <3> QED BY <1>2, <3>1 DEF Truly
  <2> QED BY <1>3, <2>1, <2>2
<1> QED BY <1>1, <1>3, <1>4, IdleIsCall, Answers

LEMMA FillBufferKeeps ==
  ASSUME ReaderInv, FillBuffer
  PROVE  ReaderInv'
<1> DEFINE next == [Around EXCEPT !.at = "fill"]
<1>1. /\ call.at \in {"get", "fill"} /\ active /\ ~Lost /\ call # Idle /\ call.buf \in Outputs
  BY DEF FillBuffer, Lost, Idle, ReaderInv, Calling
<1>2. Live(Now) /\ call \in Calls
  BY <1>1, OneReads
<1>3. next \in Calls /\ next.at = "fill" /\ next.buf \in Outputs
  BY <1>1, <1>2 DEF Around, Calls
<1>4. Telling(ReadPacket(Now), next, {})
  BY DEF FillBuffer
<1> HIDE DEF next
<1> QED BY <1>1, <1>2, <1>3, <1>4, Answers

-----------------------------------------------------------------------------
(* Frames given away. *)

\* What output b has given up once its oldest frame is popped.
GivenUp(m, b, got) ==
  IF Oldest(m.bufs[b]) = Null THEN got ELSE [got EXCEPT ![b] = Append(@, Oldest(m.bufs[b]))]

LEMMA Popped ==
  ASSUME NEW m \in State, Wired(m), Live(m), NEW b \in Stream \cup Sink, Exists(m, b),
         ReadyToPop(m.bufs[b]),
         NEW got \in [Buffer -> Seq(Frame)], NEW owed, Balanced(m, got, owed)
  PROVE  LET n == [m EXCEPT !.bufs[b] = Pop(@)]
             new == GivenUp(m, b, got)
         IN /\ n \in State /\ Wired(n) /\ Same(m, n) /\ Live(n)
            /\ n.file = m.file /\ n.graph = m.graph /\ n.how = m.how
            /\ new \in [Buffer -> Seq(Frame)] /\ Balanced(n, new, owed)
            /\ Oldest(m.bufs[b]) = Null => /\ b \in Stream /\ Frames(n.bufs[b]) = <<>>
                                           /\ Done(n.file, b)
<1> DEFINE q == m.bufs[b]
           p == Pop(q)
           x == Oldest(q)
           B == [m.bufs EXCEPT ![b] = p]
           n == [m EXCEPT !.bufs[b] = p]
           new == GivenUp(m, b, got)
<1>1. /\ b \in Buffer /\ b # In /\ QueueOK(q)
      /\ b \in Sink => ~Ended(q)
      /\ b \in Stream => (Ended(q) => Done(m.file, b))
  BY Names DEF Live, LiveBut, Settled
<1>2. /\ QueueOK(p) /\ (Ended(p) <=> Ended(q)) /\ p.dynamic = q.dynamic
      /\ x = Null => Ended(q) /\ Frames(q) = <<>> /\ Frames(p) = <<>>
      /\ x # Null => x \in Frame /\ Frames(q) = <<x>> \o Frames(p)
  BY <1>1, PopFrame, PopEof
<1>3. QueueTypeOK(p) /\ RingContiguous(p) /\ p \in Queue /\ Frames(p) \in Seq(Frame)
  BY <1>2, FramesType DEF QueueOK, QueueTypeOK
<1> HIDE DEF p
<1>4. B \in [Buffer -> Queue \cup {NoBuffer}] /\ B[b] = p /\ \A c \in Buffer \ {b} : B[c] = m.bufs[c]
  BY <1>1, <1>3, StateFacts
<1>5. n.file = m.file /\ n.graph = m.graph /\ n.how = m.how /\ n.bufs = B /\ (B \in [Buffer -> Queue \cup {NoBuffer}] => n \in State)
  BY NewPart DEF State
<1>6. n \in State
  BY <1>4, <1>5
<1> HIDE DEF n, B
<1>7. SameGraph(m, n) /\ n.file.isOpen = m.file.isOpen /\ n.file.sink = m.file.sink
  BY <1>5 DEF SameGraph
<1>8. n.bufs[b] = p /\ \A c \in Buffer \ {b} : n.bufs[c] = m.bufs[c]
  BY <1>4, <1>5
<1>9. Same(m, n) /\ Wired(n)
  BY <1>1, <1>2, <1>3, <1>7, <1>8, OneBuffer
<1>10. \A c \in Buffer : Exists(n, c) <=> Exists(m, c)
  BY <1>9 DEF Same
<1>11. Live(n)
  <2>1. Settled(n)
    BY <1>1, <1>2, <1>5, <1>8, <1>10, Names DEF Live, LiveBut, Settled
  <2>2. \A s \in Stream : Exists(n, s) => QueueOK(n.bufs[s]) /\ (Ended(n.bufs[s]) => Done(n.file, s))
    BY <1>1, <1>2, <1>5, <1>8, <1>10, Names DEF Live, LiveBut
  <2> QED BY <2>1, <2>2 DEF Live, LiveBut
<1>12. /\ new \in [Buffer -> Seq(Frame)]
       /\ \A c \in Buffer \ {b} : new[c] = got[c]
       /\ new[b] = WithFrame(got[b], x)
  <2>1. new = IF x = Null THEN got ELSE [got EXCEPT ![b] = Append(got[b], x)]
    BY DEF GivenUp
  <2>2. x # Null => Append(got[b], x) \in Seq(Frame)
    BY <1>1, <1>2, AppendProperties
  <2> HIDE DEF new, x
  <2> QED BY <2>1, <2>2, <1>1 DEF WithFrame
<1>13. got[b] \o Frames(q) = new[b] \o Frames(p)
  <2>1. CASE x = Null
    BY <2>1, <1>2, <1>12 DEF WithFrame
  <2>2. CASE x # Null
    <3> DEFINE G == got[b]
               X == <<x>>
               F == Frames(p)
    <3>1. G \in Seq(Frame) /\ X \in Seq(Frame) /\ F \in Seq(Frame) /\ x \in Frame
      BY <1>1, <1>2, <1>3, <2>2
    <3>2. Frames(q) = Cat(X, F)
      BY <1>2, <2>2 DEF Cat
    <3>3. new[b] = Append(G, x)
      BY <1>12, <2>2 DEF WithFrame
    <3>4. Append(G, x) = Cat(G, X)
      <4> HIDE DEF G, x
      <4> QED BY <3>1, AppendCat
    <3> HIDE DEF G, X, F
    <3>5. Cat(Cat(G, X), F) = Cat(G, Cat(X, F))
      BY <3>1, Associative
    <3>6. Cat(G, Frames(q)) = Cat(new[b], F)
      BY <3>2, <3>3, <3>4, <3>5
    <3> QED BY <3>6 DEF Cat, G, F
  <2> QED BY <2>1, <2>2
<1> HIDE DEF new, q
<1>14. \A c \in Buffer \ {In} : got[c] \o Frames(m.bufs[c]) = new[c] \o Frames(n.bufs[c])
  BY <1>8, <1>12, <1>13 DEF q
<1>15. n.bufs[In] = m.bufs[In]
  BY <1>1, <1>8, Names
<1>16. ASSUME NEW r \in Active(n.file), Alone(n, r)
       PROVE  owed[n.file.sink[r]] = Account(n, r, new)
  <2> DEFINE c == m.file.sink[r]
  <2>1. r \in Active(m.file) /\ Alone(m, r) /\ c \in Buffer
    BY <1>5, <1>16, SinkOf DEF Active, Alone
  <2>2. owed[c] = Account(m, r, got)
    BY <2>1 DEF Balanced, StreamsBalanced
  <2>3. CASE c = In
    <3>1. n.file = m.file /\ n.graph.fed = m.graph.fed /\ n.bufs[c] = m.bufs[c] /\ c = In
      BY <2>3, <1>5, <1>15
    <3> QED BY <2>2, <3>1, Zenon DEF Account
  <2>4. CASE c # In
    <3>1. got[c] \o Frames(m.bufs[c]) = new[c] \o Frames(n.bufs[c])
      BY <2>1, <2>4, <1>14
    <3> QED BY <2>2, <2>4, <3>1, <1>5, Zenon DEF Account
  <2> QED BY <2>3, <2>4
<1>17. ASSUME NEW k \in n.graph.sinks
       PROVE  n.graph.fed = new[k] \o Frames(n.bufs[k]) \o n.graph.inside
  <2>1. k \in m.graph.sinks /\ k \in Sink /\ k \in Buffer /\ k # In
    BY <1>5, <1>17, StateFacts, Names
  <2>2. m.graph.fed = got[k] \o Frames(m.bufs[k]) \o m.graph.inside
    BY <2>1 DEF Balanced, SinksBalanced
  <2>3. got[k] \o Frames(m.bufs[k]) = new[k] \o Frames(n.bufs[k])
    BY <2>1, <1>14
  <2> QED BY <1>5, <2>2, <2>3
<1>18. x = Null => b \in Stream /\ Frames(n.bufs[b]) = <<>> /\ Done(n.file, b)
  BY <1>1, <1>2, <1>5, <1>8 DEF q
<1> QED BY <1>5, <1>6, <1>9, <1>11, <1>12, <1>16, <1>17, <1>18
        DEF Balanced, StreamsBalanced, SinksBalanced, n, new, p, q

LEMMA TakeFrameKeeps ==
  ASSUME ReaderInv, TakeFrame
  PROVE  ReaderInv'
<1> DEFINE b == call.buf
           n == [Now EXCEPT !.bufs[b] = Pop(@)]
<1>1. /\ call.at \in {"get", "fill"} /\ active /\ ~Lost /\ call # Idle /\ b \in Outputs
      /\ ReadyToPop(bufs[b]) /\ Take(b)
  BY DEF TakeFrame, Lost, Idle, ReaderInv, Calling
<1>2. /\ Now \in State /\ Wired(Now) /\ Live(Now) /\ Now.how = "ok" /\ Configured(Now)
      /\ Now.file = file /\ Now.graph = graph /\ Now.bufs = bufs /\ FileReady(file)
      /\ \A c : Exists(Now, c) <=> Made(c)
      /\ gone \in [Buffer -> Seq(Frame)] /\ due \in [Buffer -> Seq(Frame)]
      /\ Balanced(Now, gone, due)
  BY <1>1, OneReads
<1>3. b \in Stream \cup Sink /\ Exists(Now, b) /\ ReadyToPop(Now.bufs[b])
  BY <1>1, <1>2 DEF Outputs
<1> DEFINE new == GivenUp(Now, b, gone)
<1>4. /\ n \in State /\ Wired(n) /\ Same(Now, n) /\ Live(n)
      /\ n.file = file /\ n.graph = graph /\ n.how = "ok"
      /\ new \in [Buffer -> Seq(Frame)] /\ Balanced(n, new, due)
      /\ Oldest(bufs[b]) = Null => b \in Stream /\ Frames(n.bufs[b]) = <<>> /\ Done(n.file, b)
  <2> HIDE DEF b
  <2> QED BY <1>2, <1>3, Popped
<1>5. n.bufs = [bufs EXCEPT ![b] = Pop(@)]
  BY DEF Now
<1> HIDE DEF n
<1>6. gone' = new
  <2>1. bufs[b] = Now.bufs[b] /\ gone \in [Buffer -> Seq(Frame)]
    BY <1>2
  <2>2. gone' = [gone EXCEPT ![b] = IF Oldest(bufs[b]) = Null THEN @ ELSE Append(@, Oldest(bufs[b]))]
    BY <1>1 DEF Take
  <2> DEFINE x == Oldest(bufs[b])
  <2>3. x = Oldest(Now.bufs[b])
    BY <2>1
  <2> HIDE DEF x, b
  <2>4. gone' = IF x = Null THEN gone ELSE [gone EXCEPT ![b] = Append(@, x)]
    BY <2>1, <2>2 DEF x
  <2> QED BY <2>3, <2>4 DEF GivenUp
<1>7. /\ file' = n.file /\ graph' = n.graph /\ bufs' = n.bufs /\ call' = Idle
      /\ active' = active /\ due' = due
      /\ said' = IF Oldest(bufs[b]) = Null THEN {b} ELSE {}
  BY <1>1, <1>4, <1>5 DEF Take
<1>8. Continue(n, Idle)
  BY <1>4, <1>7 DEF Continue
<1>9. Reaches(n, Idle)
  <2>1. Configured(n) /\ FileReady(n.file) /\ \A c \in Buffer : Exists(n, c) <=> Made(c)
    BY <1>2, <1>4 DEF Configured, Same
  <2> QED BY <2>1, <1>4, IdleIsCall DEF Reaches
<1>10. said' # {} => Truly(n, said')
  BY <1>4, <1>7 DEF Truly
<1> HIDE DEF new, b
<1> QED BY <1>1, <1>2, <1>4, <1>6, <1>7, <1>8, <1>9, <1>10, Continued

-----------------------------------------------------------------------------
(* Seeking. *)

LEMMA PurgeKeeps ==
  ASSUME ReaderInv, Purge
  PROVE  ReaderInv'
<1> DEFINE m == ReadIfReady(Now)
           short == {b \in Outputs : ~Reached(m, b, call.time)}
           first == IF short \cap Stream # {} THEN short \cap Stream ELSE short
           over == ~ReadyToRead(Now) \/ m.how # "ok" \/ short = {}
<1>1. call.at = "purge" /\ active /\ ~Lost /\ call # Idle
  BY DEF Purge, Lost, Idle, ReaderInv, Calling
<1>2. /\ Now \in State /\ Wired(Now) /\ Live(Now) /\ call \in Calls
      /\ gone \in [Buffer -> Seq(Frame)] /\ due \in [Buffer -> Seq(Frame)]
  BY <1>1, OneReads
<1>3. Leads(Now, m, gone, due)
  BY <1>1, <1>2, ReadingLeads
<1>4. Around \in Calls /\ Around.at = "purge"
  BY <1>1, <1>2 DEF Around, Calls
<1>5. /\ Reaches(m, Idle) /\ Reaches(m, Around)
      /\ m.how \in {"ok", "throw"} => Balanced(m, gone, due)
  <2> HIDE DEF m
  <2> QED BY <1>1, <1>3, <1>4, IdleIsCall, LeadsReaches
<1>6. active' = active /\ due' = due /\ said' = {}
  BY DEF Purge
<1>7. \/ Continue(m, Idle) /\ UNCHANGED gone
      \/ Continue(m, Around) /\ UNCHANGED gone
      \/ ~over /\ \E b \in first :
           /\ ReadyToPop(m.bufs[b])
           /\ Continue([m EXCEPT !.bufs[b] = Pop(@)], Around)
           /\ gone' = [gone EXCEPT ![b] = Append(@, Oldest(m.bufs[b]))]
  BY DEF Purge
<1> HIDE DEF m
<1>8. CASE (Continue(m, Idle) \/ Continue(m, Around)) /\ UNCHANGED gone
  BY <1>1, <1>2, <1>5, <1>6, <1>8, Continued
<1>9. CASE ~over /\ \E b \in first :
             /\ ReadyToPop(m.bufs[b])
             /\ Continue([m EXCEPT !.bufs[b] = Pop(@)], Around)
             /\ gone' = [gone EXCEPT ![b] = Append(@, Oldest(m.bufs[b]))]
  <2>1. PICK b \in first : /\ ReadyToPop(m.bufs[b])
                           /\ Continue([m EXCEPT !.bufs[b] = Pop(@)], Around)
                           /\ gone' = [gone EXCEPT ![b] = Append(@, Oldest(m.bufs[b]))]
    BY <1>9
  <2>2. b \in Outputs /\ ~Reached(m, b, call.time) /\ m.how = "ok"
    BY <1>9
  <2> HIDE DEF first, short, over
  <2>3. Oldest(m.bufs[b]) # Null /\ b \in Stream \cup Sink /\ Made(b) /\ b \in Buffer
    BY <2>1, <2>2, Names DEF Reached, Outputs
  <2> DEFINE n == [m EXCEPT !.bufs[b] = Pop(@)]
             new == GivenUp(m, b, gone)
  <2>4. m \in State /\ Wired(m) /\ Live(m) /\ Exists(m, b) /\ Balanced(m, gone, due)
    BY <1>3, <1>5, <2>2, <2>3 DEF Leads, Reaches
  <2>5. /\ n \in State /\ Wired(n) /\ Same(m, n) /\ Live(n)
        /\ n.file = m.file /\ n.graph = m.graph /\ n.how = m.how
        /\ new \in [Buffer -> Seq(Frame)] /\ Balanced(n, new, due)
    BY <1>2, <2>1, <2>3, <2>4, Popped
  <2>6. gone' = new
    BY <2>1, <2>3 DEF GivenUp
  <2>7. Continue(n, Around)
    BY <2>1
  <2> HIDE DEF n, new
  <2>8. Reaches(n, Around)
    <3>1. Configured(n) /\ FileReady(n.file) /\ \A c \in Buffer : Exists(n, c) <=> Made(c)
      BY <1>5, <2>5 DEF Reaches, Configured, Same
    <3> QED BY <1>4, <1>5, <2>5, <3>1 DEF Reaches
  <2> QED BY <1>1, <1>2, <1>6, <2>5, <2>6, <2>7, <2>8, Continued
<1> QED BY <1>7, <1>8, <1>9

\* An end of file on top of the one in each buffer.
LEMMA EndNoted ==
  ASSUME ReaderInv, active, ~Lost, NEW m, Leads(Now, m, gone, due), m.how = "ok", AllEof(m)
  PROVE  LET n == PushEof(m)
         IN /\ Reaches(n, Idle)
            /\ n.how = "ok" => Balanced(n, gone, due)
            /\ n.how \in {"ok", "stuck"} /\ Same(m, n)
            /\ \A b \in Outputs : b \in Stream /\ Frames(m.bufs[b]) = <<>> /\ Done(m.file, b)
<1> DEFINE h == IF \A b \in Outputs : HasRoom(m.bufs[b], <<Null>>) THEN "ok" ELSE "stuck"
           B == [b \in Buffer |-> IF b \in Outputs THEN PushAll(m.bufs[b], <<Null>>) ELSE m.bufs[b]]
           n == [m EXCEPT !.bufs = B, !.how = h]
<1>1. /\ m \in State /\ Wired(m) /\ Same(Now, m) /\ Live(m) /\ Balanced(m, gone, due)
      /\ Reaches(m, Idle) /\ gone \in [Buffer -> Seq(Frame)]
  BY IdleIsCall, LeadsReaches, OneReads DEF Leads
<1>2. \A b \in Buffer : Exists(m, b) <=> Made(b)
  BY <1>1 DEF Reaches
<1>3. ASSUME NEW b \in Outputs
      PROVE  /\ b \in Stream /\ b \in Buffer /\ b # In /\ Exists(m, b) /\ Done(m.file, b)
             /\ Strict(m.bufs[b]) /\ Contents(m.bufs[b]) = <<Null>> /\ Frames(m.bufs[b]) = <<>>
  <2>1. b \in Stream \cup Sink /\ b \in Buffer /\ b # In /\ Exists(m, b) /\ AtEof(m.bufs[b])
    BY <1>2, Names DEF Outputs, AllEof
  <2>2. b \in Sink => FALSE
    <3>1. b \in Sink => QueueOK(m.bufs[b]) /\ ~Ended(m.bufs[b])
      BY <1>1, <2>1 DEF Live, LiveBut, Settled
    <3> QED BY <2>1, <3>1, AtItsEnd
  <2>3. b \in Stream /\ QueueOK(m.bufs[b]) /\ (Ended(m.bufs[b]) => Done(m.file, b))
    BY <1>1, <2>1, <2>2 DEF Live, LiveBut
  <2> QED BY <2>1, <2>3, AtItsEnd
<1>4. \A k \in Sink : ~Exists(m, k)
  BY <1>2, <1>3, Names DEF Outputs
<1>5. <<Null>> \in Seq(Item) /\ FramesOf(<<Null>>) = <<>>
  <2>1. Null \in Item
    BY DEF Item
  <2>2. <<Null>> = Append(<<>>, Null) /\ <<>> \in Seq(Item)
    BY EmptySeq
  <2>3. FramesOf(Append(<<>>, Null)) = FramesOf(<<>>)
    BY <2>2, FramesOfNull
  <2> QED BY <2>1, <2>2, <2>3, FramesOfEmpty
<1> DEFINE p(b) == PushAll(m.bufs[b], <<Null>>)
<1>6. ASSUME NEW b \in Outputs
      PROVE  /\ Strict(p(b)) /\ p(b) \in Queue /\ p(b) # NoBuffer
             /\ QueueTypeOK(p(b)) /\ RingContiguous(p(b)) /\ p(b).dynamic = m.bufs[b].dynamic
             /\ HasRoom(m.bufs[b], <<Null>>) => /\ Contents(p(b)) = <<Null, Null>>
                                                /\ Frames(p(b)) = Frames(m.bufs[b])
  <2> DEFINE x == <<Null>>
             q == m.bufs[b]
  <2>1. Strict(q) /\ x \in Seq(Item) /\ Contents(q) = x /\ Frames(q) = <<>>
    BY <1>3, <1>5
  <2> HIDE DEF x
  <2>2. Strict(PushAll(q, x)) /\ PushAll(q, x).dynamic = q.dynamic /\ (HasRoom(q, x) => Contents(PushAll(q, x)) = x \o x)
    BY <2>1, PushAllSpec
  <2>3. x \o x = <<Null, Null>>
    BY TwoNulls DEF x
  <2>4. FramesOf(x \o x) = FramesOf(x) \o FramesOf(x)
    BY <2>1, FramesOfConcat
  <2>5. FramesOf(x) = <<>> /\ <<>> \o <<>> = <<>>
    BY <1>5 DEF x
  <2>6. QueueTypeOK(PushAll(q, x)) /\ RingContiguous(PushAll(q, x)) /\ PushAll(q, x) \in Queue
    BY <2>2, StrictContiguous DEF Strict, QueueTypeOK
  <2>7. FramesOf(x \o x) = <<>>
    BY <2>4, <2>5
  <2> QED BY <2>1, <2>2, <2>3, <2>6, <2>7, Names DEF x, Frames
<1>7. PushEof(m) = n
  BY DEF PushEof
<1>8. B \in [Buffer -> Queue \cup {NoBuffer}] /\ h \in {"ok", "stuck"}
  BY <1>1, <1>6, StateFacts
<1>9. /\ \A b \in Outputs : B[b] = p(b)
      /\ \A c \in Buffer \ Outputs : B[c] = m.bufs[c]
  BY <1>3
<1>10. h = "ok" => \A b \in Outputs : HasRoom(m.bufs[b], <<Null>>)
  OBVIOUS
<1> HIDE DEF B, h, p
<1>11. n \in State /\ n.file = m.file /\ n.graph = m.graph /\ n.bufs = B /\ n.how = h
  BY <1>1, <1>8 DEF State
<1> HIDE DEF n
<1>12. \A b \in Buffer : Exists(n, b) <=> Exists(m, b)
  BY <1>3, <1>6, <1>9, <1>11 DEF Exists
<1>13. Wired(n)
  <2>1. \A b \in Buffer : Exists(n, b) => QueueTypeOK(n.bufs[b])
    BY <1>1, <1>6, <1>9, <1>11, <1>12 DEF Wired, Exists
  <2>2. \A b \in Stream \cup Sink : Exists(n, b) => RingContiguous(n.bufs[b])
    BY <1>1, <1>6, <1>9, <1>11, <1>12, Names DEF Wired, Exists
  <2>3. \A s \in Stream : /\ n.file.sink[s] \in {s, In, NoBuffer}
                          /\ n.file.sink[s] = s <=> Exists(n, s)
                          /\ n.file.sink[s] = In => Exists(n, In)
    BY <1>1, <1>11, <1>12, Names DEF Wired
  <2>4. \A k \in m.graph.sinks : Exists(n, k)
    BY <1>1, <1>12, StateFacts, Names DEF Wired
  <2> QED BY <1>1, <1>11, <1>12, <2>1, <2>2, <2>3, <2>4, Names DEF Wired
<1>14. ASSUME h = "ok" PROVE Noted(n)
  <2>1. \A k \in Sink : ~Exists(n, k)
    BY <1>4, <1>12, Names
  <2>2. In \notin Outputs
    BY Names DEF Outputs
  <2>3. Settled(n)
    BY <1>1, <1>9, <1>11, <1>12, <2>1, <2>2, Names DEF Live, LiveBut, Settled
  <2>4. ASSUME NEW s \in Stream, Exists(n, s)
        PROVE  Strict(n.bufs[s]) /\ Contents(n.bufs[s]) = <<Null, Null>> /\ Done(n.file, s)
    <3>1. s \in Outputs
      BY <1>2, <1>12, <2>4, Names DEF Outputs
    <3> QED BY <1>3, <1>6, <1>9, <1>10, <1>11, <1>14, <3>1
  <2> QED BY <2>1, <2>3, <2>4 DEF Noted
<1>15. ASSUME h = "ok" PROVE Balanced(n, gone, due)
  <2>1. ASSUME NEW r \in Active(n.file), Alone(n, r)
        PROVE  due[n.file.sink[r]] = Account(n, r, gone)
    <3> DEFINE c == m.file.sink[r]
    <3>1. r \in Active(m.file) /\ Alone(m, r) /\ c \in Buffer
      BY <1>1, <1>11, <2>1, SinkOf DEF Active, Alone
    <3>2. due[c] = Account(m, r, gone)
      BY <1>1, <3>1 DEF Balanced, StreamsBalanced
    <3>3. Frames(n.bufs[c]) = Frames(m.bufs[c])
      BY <1>6, <1>9, <1>10, <1>11, <1>15, <3>1 DEF p
    <3> QED BY <1>11, <3>2, <3>3, Zenon DEF Account
  <2>2. n.graph.sinks = {}
    BY <1>1, <1>4, <1>11, StateFacts DEF Wired
  <2> QED BY <2>1, <2>2 DEF Balanced, StreamsBalanced, SinksBalanced
<1>16. Reaches(n, Idle)
  <2>1. Configured(n) /\ FileReady(n.file) /\ \A c \in Buffer : Exists(n, c) <=> Made(c)
    BY <1>1, <1>2, <1>11, <1>12 DEF Reaches, Configured
  <2> QED BY <1>8, <1>11, <1>13, <1>14, <2>1, IdleIsCall DEF Reaches
<1>17. Same(m, n)
  BY <1>6, <1>9, <1>11, <1>12 DEF Same
<1> QED BY <1>3, <1>7, <1>8, <1>11, <1>15, <1>16, <1>17

LEMMA LandKeeps ==
  ASSUME ReaderInv, Land
  PROVE  ReaderInv'
<1> DEFINE m == Probed(Now)
           atEnd == m.how = "ok" /\ AllEof(m)
           next == IF call.more /\ ~atEnd THEN [call EXCEPT !.at = "purge"] ELSE Idle
<1>1. call.at = "seek" /\ active /\ ~Lost /\ call # Idle
  BY DEF Land, Lost, Idle, ReaderInv, Calling
<1>2. /\ Live(Now) /\ call \in Calls
      /\ gone \in [Buffer -> Seq(Frame)] /\ due \in [Buffer -> Seq(Frame)]
  BY <1>1, OneReads
<1>3. Leads(Now, m, gone, due)
  BY <1>1, <1>2, ReadingLeads
<1>4. active' = active /\ gone' = gone /\ due' = due /\ said' = {}
  BY DEF Land
<1>5. Continue(IF atEnd THEN PushEof(m) ELSE m, next)
  BY DEF Land
<1>6. next \in Calls /\ next.at \in {"idle", "purge"} /\ (next.at = "idle" => next = Idle)
  BY <1>2, IdleIsCall DEF Calls
<1> HIDE DEF m
<1>7. CASE atEnd
  <2>1. next = Idle /\ Continue(PushEof(m), Idle)
    BY <1>5, <1>7
  <2>2. /\ Reaches(PushEof(m), Idle)
        /\ PushEof(m).how \in {"ok", "throw"} => Balanced(PushEof(m), gone, due)
    BY <1>1, <1>3, <1>7, EndNoted
  <2> HIDE DEF next, atEnd
  <2> QED BY <1>1, <1>2, <1>4, <2>1, <2>2, Continued
<1>8. CASE ~atEnd
  <2>1. Continue(m, next)
    BY <1>5, <1>8
  <2> HIDE DEF next, atEnd
  <2>2. Reaches(m, next) /\ (m.how \in {"ok", "throw"} => Balanced(m, gone, due))
    BY <1>1, <1>3, <1>6, LeadsReaches
  <2> QED BY <1>1, <1>2, <1>4, <2>1, <2>2, Continued
<1> QED BY <1>7, <1>8

\* flush() of a graph that works makes one with the same endpoints and nothing in it.
LEMMA GraphFlushed ==
  ASSUME NEW g \in FilterGraphs, g.parsed, g.source, g.context, g.sinks = g.outs
  PROVE  LET c == Flush(g)
         IN /\ c.graph \in FilterGraphs /\ c.how \in {"ok", "undefined"}
            /\ c.graph.parsed /\ c.graph.source /\ c.graph.context
            /\ c.graph.outs = g.outs /\ c.graph.sinks = g.sinks /\ c.graph.eof = g.eof
            /\ ~c.graph.ended /\ c.graph.inside = <<>> /\ c.graph.fed = <<>>
<1> DEFINE s == Cardinality(g.outs) = 1
           none == SubSeq(g.inside, 1, 0)
           r == [g EXCEPT !.context = FALSE, !.stale = s, !.inside = none, !.ended = FALSE, !.fed = none]
           w == [r EXCEPT !.context = TRUE]
<1>1. none = <<>> /\ none \in Seq(Frame)
  BY SubSeqEmpty, EmptySeq
<1>2. [Purged(g) EXCEPT !.stale = s] = r
  <2>1. Purged(g) = [g EXCEPT !.context = FALSE, !.stale = TRUE, !.inside = none, !.ended = FALSE, !.fed = none]
    BY <1>1 DEF Purged
  <2> HIDE DEF s, none
  <2> QED BY <2>1 DEF FilterGraphs
<1>3. s \in BOOLEAN
  OBVIOUS
<1>4. Flush(g) = Configure(r)
  BY <1>2 DEF Flush
<1> HIDE DEF s, none
<1>5. /\ r \in FilterGraphs /\ r.parsed = g.parsed /\ r.source = g.source /\ ~r.context
      /\ r.outs = g.outs /\ r.sinks = g.sinks /\ r.eof = g.eof
      /\ ~r.ended /\ r.inside = none /\ r.fed = none /\ r.stale = s
  BY <1>1, <1>3 DEF FilterGraphs
<1> HIDE DEF r
<1>6. /\ w \in FilterGraphs /\ w.parsed = r.parsed /\ w.source = r.source /\ w.context
      /\ w.outs = r.outs /\ w.sinks = r.sinks /\ w.eof = r.eof
      /\ w.ended = r.ended /\ w.inside = r.inside /\ w.fed = r.fed
  BY <1>5 DEF FilterGraphs
<1>7. r.source /\ ~r.context /\ r.outs \subseteq r.sinks
  BY <1>5
<1>8. Configure(r) = [graph |-> w, how |-> IF r.stale THEN "undefined" ELSE "ok"]
  BY <1>7 DEF Configure
<1> HIDE DEF w
<1>9. Flush(g).graph = w /\ Flush(g).how \in {"ok", "undefined"}
  BY <1>4, <1>8
<1> QED BY <1>1, <1>5, <1>6, <1>9

\* flush() of the reader: its buffers and its graph are empty.
Emptied(n) ==
  /\ n \in State /\ Wired(n) /\ Configured(n) /\ n.file = file /\ n.how \in {"ok", "undefined"}
  /\ \A b \in Buffer : Exists(n, b) <=> Made(b)
  /\ Settled(n)
  /\ \A s \in Stream : Exists(n, s) =>
       QueueOK(n.bufs[s]) /\ ~Ended(n.bufs[s]) /\ Frames(n.bufs[s]) = <<>>
  /\ n.graph.parsed => /\ Frames(n.bufs[In]) = <<>>
                       /\ n.graph.fed = <<>> /\ n.graph.inside = <<>>
                       /\ \A k \in n.graph.sinks : Frames(n.bufs[k]) = <<>>

LEMMA ReaderFlushed ==
  ASSUME ReaderInv, active, ~Lost
  PROVE  Emptied(Flushed(Now))
<1> DEFINE c == IF graph.parsed THEN Flush(graph) ELSE [graph |-> graph, how |-> "ok"]
           cleared == IF graph.parsed THEN Buffer ELSE Stream
           B == [b \in Buffer |-> IF Made(b) /\ b \in cleared THEN Clear(bufs[b]) ELSE bufs[b]]
           n == [Now EXCEPT !.graph = c.graph, !.how = c.how, !.bufs = B]
<1>1. /\ Now \in State /\ Wired(Now) /\ Configured(Now) /\ Settled(Now)
      /\ Now.file = file /\ Now.graph = graph /\ Now.bufs = bufs
      /\ \A b : Exists(Now, b) <=> Made(b)
  BY OneReads
<1>2. Flushed(Now) = n
  BY <1>1 DEF Flushed
<1>3. graph \in FilterGraphs /\ bufs \in [Buffer -> Queue \cup {NoBuffer}] /\ file \in File
  BY <1>1, StateFacts
<1>4. /\ c.graph \in FilterGraphs /\ c.how \in {"ok", "undefined"}
      /\ c.graph.parsed = graph.parsed /\ c.graph.source = graph.source
      /\ c.graph.outs = graph.outs /\ c.graph.sinks = graph.sinks /\ c.graph.eof = graph.eof
      /\ ~c.graph.ended
      /\ ~graph.parsed => c.graph = graph
      /\ graph.parsed => /\ c.graph.context
                         /\ c.graph.inside = <<>> /\ c.graph.fed = <<>>
  <2>1. CASE graph.parsed
    <3>1. graph.source /\ graph.context /\ graph.sinks = graph.outs
      BY <2>1, <1>1 DEF Wired, Configured
    <3>2. c = Flush(graph)
      BY <2>1
    <3> HIDE DEF c
    <3> QED BY <2>1, <1>3, <3>1, <3>2, GraphFlushed
  <2>2. CASE ~graph.parsed
    <3>1. c.graph = graph /\ c.how = "ok"
      BY <2>2
    <3> QED BY <2>2, <1>1, <1>3, <3>1 DEF Settled
  <2> QED BY <2>1, <2>2
<1> HIDE DEF c
<1>5. ASSUME NEW b \in Buffer, Made(b)
      PROVE  /\ QueueTypeOK(bufs[b]) /\ QueueOK(Clear(bufs[b])) /\ ~Ended(Clear(bufs[b]))
             /\ Frames(Clear(bufs[b])) = <<>> /\ Clear(bufs[b]).dynamic = bufs[b].dynamic
             /\ Clear(bufs[b]) \in Queue /\ Clear(bufs[b]) # NoBuffer
             /\ Strict(Clear(bufs[b]))
  <2>1. QueueTypeOK(bufs[b])
    BY <1>1, <1>5 DEF Wired
  <2>2. /\ QueueOK(Clear(bufs[b])) /\ ~Ended(Clear(bufs[b]))
        /\ Frames(Clear(bufs[b])) = <<>> /\ Clear(bufs[b]).dynamic = bufs[b].dynamic
    BY <2>1, FreshQueue
  <2> QED BY <2>1, <2>2, StrictOf, Names DEF QueueOK, QueueTypeOK
<1>6. B \in [Buffer -> Queue \cup {NoBuffer}]
  BY <1>3, <1>5
<1>7. \A b \in Buffer : B[b] = IF Made(b) /\ b \in cleared THEN Clear(bufs[b]) ELSE bufs[b]
  OBVIOUS
<1> HIDE DEF B
<1>8. n \in State /\ n.file = file /\ n.graph = c.graph /\ n.how = c.how /\ n.bufs = B
  BY <1>1, <1>4, <1>6 DEF State
<1> HIDE DEF n
<1>9. \A b \in Buffer : Exists(n, b) <=> Made(b)
  BY <1>5, <1>7, <1>8 DEF Exists, Made
<1>10. Wired(n)
  <2>1. /\ \A b \in Buffer : Exists(n, b) => QueueTypeOK(n.bufs[b])
        /\ \A b \in Stream \cup Sink : Exists(n, b) => RingContiguous(n.bufs[b])
    <3>1. \A b \in Stream \cup Sink : b \in Buffer
      BY Names
    <3> QED BY <1>1, <1>5, <1>7, <1>8, <1>9, <3>1 DEF Wired, QueueOK
  <2>2. \A s \in Stream : /\ n.file.sink[s] \in {s, In, NoBuffer}
                          /\ n.file.sink[s] = s <=> Exists(n, s)
                          /\ n.file.sink[s] = In => Exists(n, In)
    BY <1>1, <1>8, <1>9, Names DEF Wired
  <2>3. ~n.file.isOpen => Active(n.file) = {}
    BY <1>1, <1>8 DEF Wired
  <2>4. n.graph.parsed => Exists(n, In) /\ n.graph.source
    BY <1>1, <1>4, <1>8, <1>9, Names DEF Wired
  <2>5. n.graph.sinks \subseteq n.graph.outs /\ \A k \in n.graph.sinks : Exists(n, k)
    <3>1. \A k \in graph.sinks : k \in Buffer
      BY <1>1, StateFacts, Names
    <3> QED BY <1>1, <1>4, <1>8, <1>9, <3>1 DEF Wired
  <2>6. ~n.graph.parsed => n.graph = NoGraph
    BY <1>1, <1>4, <1>8 DEF Wired
  <2> QED BY <2>1, <2>2, <2>3, <2>4, <2>5, <2>6 DEF Wired
<1>11. Configured(n)
  BY <1>1, <1>4, <1>8 DEF Configured
<1>12. Settled(n)
  <2>1. Exists(n, In) => Strict(n.bufs[In]) /\ n.bufs[In].dynamic
    BY <1>1, <1>5, <1>7, <1>8, <1>9, Names DEF Settled
  <2>2. \A k \in Sink : Exists(n, k) => QueueOK(n.bufs[k]) /\ ~Ended(n.bufs[k])
    BY <1>1, <1>5, <1>7, <1>8, <1>9, Names DEF Settled
  <2>3. ~n.graph.eof /\ ~n.graph.ended
    BY <1>1, <1>4, <1>8 DEF Settled
  <2> QED BY <2>1, <2>2, <2>3 DEF Settled
<1>13. \A s \in Stream : Exists(n, s) =>
         QueueOK(n.bufs[s]) /\ ~Ended(n.bufs[s]) /\ Frames(n.bufs[s]) = <<>>
  BY <1>5, <1>7, <1>8, <1>9, Names
<1>14. ASSUME n.graph.parsed
       PROVE  /\ Frames(n.bufs[In]) = <<>>
              /\ n.graph.fed = <<>> /\ n.graph.inside = <<>>
              /\ \A k \in n.graph.sinks : Frames(n.bufs[k]) = <<>>
  <2>1. \A b \in Buffer : Exists(n, b) => Frames(n.bufs[b]) = <<>>
    BY <1>4, <1>5, <1>7, <1>8, <1>9, <1>14
  <2>2. Exists(n, In) /\ In \in Buffer /\ \A k \in n.graph.sinks : Exists(n, k) /\ k \in Buffer
    BY <1>8, <1>10, <1>14, StateFacts, Names DEF Wired
  <2> QED BY <1>4, <1>8, <1>14, <2>1, <2>2
<1> QED BY <1>2, <1>4, <1>8, <1>9, <1>10, <1>11, <1>12, <1>13, <1>14 DEF Emptied

\* Nothing was given away.
LEMMA NothingGone ==
  ASSUME NEW H \in Seq(Frame), NEW R \in Seq(Frame)
  PROVE  <<>> \o <<>> \o H \o R = H \o R
<1>1. <<>> \o <<>> = <<>> /\ <<>> \o H = H
  BY ConcatEmptySeq
<1> QED BY <1>1

LEMMA OnNothingType == OnNothing \in [Buffer -> Seq(Frame)] /\ \A b \in Buffer : OnNothing[b] = <<>>
<1>1. <<>> \in Seq(Frame)
  BY EmptySeq
<1> QED BY <1>1 DEF OnNothing

\* The file is somewhere else, and the buffers are empty.
LEMMA SoughtReaches ==
  ASSUME ReaderInv, active, ~Lost, NEW l, Emptied(l),
         NEW f \in File, f.sink = file.sink, f.isOpen = file.isOpen,
         NEW next \in Calls, next.at \in {"idle", "seek"}, next.at = "idle" => next = Idle
  PROVE  LET n == [l EXCEPT !.file = f]
             owed == [b \in Buffer |-> Expected(n, b)]
         IN /\ Reaches(n, next) /\ n.how = l.how
            /\ owed \in [Buffer -> Seq(Frame)] /\ Balanced(n, OnNothing, owed)
<1> DEFINE n == [l EXCEPT !.file = f]
           owed == [b \in Buffer |-> Expected(n, b)]
<1>1. /\ l \in State /\ Wired(l) /\ Configured(l) /\ l.file = file /\ l.how \in {"ok", "undefined"}
      /\ \A b \in Buffer : Exists(l, b) <=> Made(b)
      /\ Settled(l)
      /\ \A s \in Stream : Exists(l, s) =>
           QueueOK(l.bufs[s]) /\ ~Ended(l.bufs[s]) /\ Frames(l.bufs[s]) = <<>>
      /\ l.graph.parsed => /\ Frames(l.bufs[In]) = <<>>
                           /\ l.graph.fed = <<>> /\ l.graph.inside = <<>>
                           /\ \A k \in l.graph.sinks : Frames(l.bufs[k]) = <<>>
  BY DEF Emptied
<1>2. FileReady(file)
  BY OneReads
<1>3. n \in State /\ n.file = f /\ n.graph = l.graph /\ n.bufs = l.bufs /\ n.how = l.how
  BY <1>1, NewPart DEF State
<1> HIDE DEF n
<1>4. \A b : Exists(n, b) <=> Exists(l, b)
  BY <1>3 DEF Exists
<1>5. Wired(n)
  BY <1>1, <1>3, <1>4 DEF Wired, Active
<1>6. Live(n)
  BY <1>1, <1>3, <1>4 DEF Live, LiveBut, Settled
<1>7. Configured(n) /\ FileReady(n.file)
  BY <1>1, <1>2, <1>3 DEF Configured, FileReady, Active
<1>8. Reaches(n, next)
  BY <1>1, <1>3, <1>4, <1>5, <1>6, <1>7 DEF Reaches
<1>9. ASSUME NEW b \in Buffer
      PROVE  /\ owed[b] = Expected(n, b) /\ Expected(n, b) \in Seq(Frame)
             /\ \A r \in Stream : {s \in Stream : n.file.sink[s] = b} = {r} =>
                  Expected(n, b) = n.file.held[r] \o Rest(n.file, r)
  <2> DEFINE feeding == {s \in Stream : n.file.sink[s] = b}
             c == CHOOSE s \in feeding : TRUE
  <2>1. Expected(n, b) = IF feeding = {} THEN <<>> ELSE n.file.held[c] \o Rest(n.file, c)
    BY DEF Expected
  <2>2. feeding # {} => c \in feeding
    OBVIOUS
  <2>3. \A r : feeding = {r} => c = r
    BY <2>2
  <2>4. \A r \in Stream : n.file.held[r] \in Seq(Frame) /\ Rest(n.file, r) \in Seq(Frame)
    BY <1>3, StateFacts
  <2>5. \A r \in Stream : n.file.held[r] \o Rest(n.file, r) \in Seq(Frame)
    <3> TAKE r \in Stream
    <3>1. n.file.held[r] \in Seq(Frame) /\ Rest(n.file, r) \in Seq(Frame)
      BY <2>4
    <3> QED BY <3>1, ConcatProperties
  <2>6. feeding \subseteq Stream
    OBVIOUS
  <2> HIDE DEF feeding, c
  <2>7. Expected(n, b) \in Seq(Frame)
    BY <2>1, <2>2, <2>5, <2>6, EmptySeq
  <2>8. \A r \in Stream : feeding = {r} => Expected(n, b) = n.file.held[r] \o Rest(n.file, r)
    BY <2>1, <2>3
  <2> QED BY <2>7, <2>8 DEF feeding
<1>10. owed \in [Buffer -> Seq(Frame)]
  BY <1>9
<1> HIDE DEF owed
<1>11. ASSUME NEW r \in Active(n.file), Alone(n, r)
       PROVE  owed[n.file.sink[r]] = Account(n, r, OnNothing)
  <2> DEFINE b == n.file.sink[r]
             H == n.file.held[r]
             R == Rest(n.file, r)
  <2>1. /\ r \in Stream /\ b \in Buffer /\ Exists(n, b) /\ b \in {r, In}
        /\ H \in Seq(Frame) /\ R \in Seq(Frame)
    BY <1>3, <1>5, <1>11, SinkOf, StateFacts
  <2>2. {s \in Stream : n.file.sink[s] = b} = {r} /\ (b = In => n.graph.parsed)
    BY <1>11 DEF Alone
  <2>3. owed[b] = H \o R
    BY <1>9, <2>1, <2>2
  <2>4. Frames(n.bufs[b]) = <<>> /\ (IF b = In THEN n.graph.fed ELSE OnNothing[b]) = <<>>
    <3>1. CASE b = In
      BY <1>1, <1>3, <2>2, <3>1
    <3>2. CASE b # In
      BY <1>1, <1>3, <1>4, <2>1, <3>2, OnNothingType
    <3> QED BY <3>1, <3>2
  <2>5. Account(n, r, OnNothing) = <<>> \o <<>> \o H \o R
    BY <2>4, Zenon DEF Account
  <2> HIDE DEF H, R, b
  <2>6. Account(n, r, OnNothing) = owed[b]
    BY <2>1, <2>3, <2>5, NothingGone
  <2> QED BY <2>6 DEF b
<1>12. ASSUME NEW k \in n.graph.sinks
       PROVE  n.graph.fed = OnNothing[k] \o Frames(n.bufs[k]) \o n.graph.inside
  <2>1. n.graph.parsed
    BY <1>5, <1>12 DEF Wired, NoGraph
  <2>2. k \in Buffer
    BY <1>3, <1>12, StateFacts, Names
  <2>3. /\ n.graph.fed = <<>> /\ n.graph.inside = <<>> /\ Frames(n.bufs[k]) = <<>>
        /\ OnNothing[k] = <<>>
    BY <1>1, <1>3, <1>12, <2>1, <2>2, OnNothingType
  <2>4. <<>> \o <<>> = <<>>
    BY ConcatEmptySeq
  <2> QED BY <2>3, <2>4
<1> QED BY <1>3, <1>8, <1>10, <1>11, <1>12 DEF Balanced, StreamsBalanced, SinksBalanced, n, owed

\* What a seek makes of the file.
LEMMA SoughtFile ==
  ASSUME file \in File
  PROVE  /\ \A k \in DOMAIN Media :
              Sought(file, k) \in File /\ Sought(file, k).sink = file.sink
                /\ Sought(file, k).isOpen = file.isOpen
         /\ SeekFailed(file) \in File /\ SeekFailed(file).sink = file.sink
         /\ SeekFailed(file).isOpen = file.isOpen
<1>1. <<>> \in Seq(Frame)
  BY EmptySeq
<1>2. [s \in Stream |-> <<>>] \in [Stream -> Seq(Frame)]
  BY <1>1
<1> DEFINE none == [s \in Stream |-> <<>>]
           H == IF file.eof THEN none ELSE file.held
<1>3. H \in [Stream -> Seq(Frame)]
  BY <1>2 DEF File
<1>4. /\ SeekFailed(file) = [file EXCEPT !.eof = FALSE, !.held = H]
      /\ \A k : Sought(file, k) = [file EXCEPT !.pos = k, !.eof = FALSE, !.held = H]
  BY DEF Sought, SeekFailed
<1> HIDE DEF H
<1>5. SeekFailed(file) \in File /\ SeekFailed(file).sink = file.sink
      /\ SeekFailed(file).isOpen = file.isOpen
  <2> DEFINE f == [file EXCEPT !.eof = FALSE, !.held = H]
  <2>1. f.sink = file.sink /\ f.isOpen = file.isOpen
    BY DEF File
  <2>2. f \in File
    BY <1>3 DEF File
  <2> HIDE DEF f
  <2> QED BY <1>4, <2>1, <2>2 DEF f
<1>6. ASSUME NEW k \in DOMAIN Media
      PROVE  Sought(file, k) \in File /\ Sought(file, k).sink = file.sink
               /\ Sought(file, k).isOpen = file.isOpen
  <2> DEFINE f == [file EXCEPT !.pos = k, !.eof = FALSE, !.held = H]
  <2>1. k \in 1..(Len(Media) + 1)
    BY MediaFacts
  <2>2. f.sink = file.sink /\ f.isOpen = file.isOpen
    BY DEF File
  <2>3. f \in File
    BY <1>3, <2>1 DEF File
  <2> HIDE DEF f
  <2> QED BY <1>4, <2>2, <2>3 DEF f
<1> QED BY <1>5, <1>6

LEMMA SeekKeeps ==
  ASSUME ReaderInv, NEW t \in {Media[k].time : k \in DOMAIN Media}, NEW toExact \in BOOLEAN,
         Seek(t, toExact)
  PROVE  ReaderInv'
<1> DEFINE l == Flushed(Now)
           next == [Idle EXCEPT !.at = "seek", !.time = t, !.more = toExact]
<1>1. call = Idle /\ active /\ ~Lost /\ active' = active /\ gone' = OnNothing /\ said' = {}
  BY OneReads DEF Seek, Reading
<1>2. PICK k \in DOMAIN Media :
        LET moved == [l EXCEPT !.file = Sought(@, k)]
        IN /\ IF l.how = "ok" THEN Continue(moved, next) ELSE Continue(l, Idle)
           /\ due' = [b \in Buffer |-> Expected(moved, b)]
  BY DEF Seek
<1>3. Emptied(l)
  BY <1>1, ReaderFlushed
<1> HIDE DEF l
<1>4. l.file = file /\ l \in State /\ file \in File
  BY <1>3, StateFacts DEF Emptied
<1> DEFINE f == Sought(file, k)
           moved == [l EXCEPT !.file = f]
<1>5. f \in File /\ f.sink = file.sink /\ f.isOpen = file.isOpen
  BY <1>4, SoughtFile
<1>6. t \in Nat
  BY MediaFacts
<1>7. next \in Calls /\ next.at = "seek"
  BY <1>6 DEF Idle, Calls
<1> HIDE DEF next, f
<1>8. [l EXCEPT !.file = Sought(@, k)] = moved
  BY <1>4 DEF State, f
<1>9. /\ Reaches(moved, next) /\ moved.how = l.how
      /\ due' \in [Buffer -> Seq(Frame)] /\ Balanced(moved, OnNothing, due')
  BY <1>1, <1>2, <1>3, <1>5, <1>7, <1>8, SoughtReaches
<1>10. gone' \in [Buffer -> Seq(Frame)]
  BY <1>1, OnNothingType
<1>11. CASE l.how = "ok"
  <2>1. Continue(moved, next)
    BY <1>2, <1>8, <1>11
  <2> HIDE DEF moved
  <2> QED BY <1>1, <1>9, <1>10, <2>1, Continued
<1>12. CASE l.how # "ok"
  <2>1. Continue(l, Idle) /\ l.how = "undefined"
    BY <1>2, <1>3, <1>12 DEF Emptied
  <2>2. Reaches(l, Idle)
    BY <1>1, <1>3, <2>1, OneReads, IdleIsCall DEF Emptied, Reaches
  <2> QED BY <1>1, <1>9, <1>10, <2>1, <2>2, Continued
<1> QED BY <1>11, <1>12

LEMMA SeekThrowsKeeps ==
  ASSUME ReaderInv, SeekThrows
  PROVE  ReaderInv'
<1> DEFINE l == Flushed(Now)
<1>1. call = Idle /\ active /\ ~Lost /\ active' = active /\ gone' = OnNothing /\ said' = {}
  BY OneReads DEF SeekThrows, Reading
<1>2. LET failed == [l EXCEPT !.file = SeekFailed(@)]
      IN /\ Continue(IF l.how = "ok" THEN failed ELSE l, Idle)
         /\ due' = [b \in Buffer |-> Expected(failed, b)]
  BY DEF SeekThrows
<1>3. Emptied(l)
  BY <1>1, ReaderFlushed
<1> HIDE DEF l
<1>4. l.file = file /\ l \in State /\ file \in File
  BY <1>3, StateFacts DEF Emptied
<1> DEFINE f == SeekFailed(file)
           failed == [l EXCEPT !.file = f]
<1>5. f \in File /\ f.sink = file.sink /\ f.isOpen = file.isOpen
  BY <1>4, SoughtFile
<1> HIDE DEF f
<1>6. [l EXCEPT !.file = SeekFailed(@)] = failed
  BY <1>4 DEF State, f
<1>7. /\ Reaches(failed, Idle) /\ failed.how = l.how
      /\ due' \in [Buffer -> Seq(Frame)] /\ Balanced(failed, OnNothing, due')
  BY <1>1, <1>2, <1>3, <1>5, <1>6, IdleIsCall, SoughtReaches
<1>8. gone' \in [Buffer -> Seq(Frame)]
  BY <1>1, OnNothingType
<1>9. CASE l.how = "ok"
  <2>1. Continue(failed, Idle)
    BY <1>2, <1>6, <1>9
  <2> HIDE DEF failed
  <2> QED BY <1>1, <1>7, <1>8, <2>1, Continued
<1>10. CASE l.how # "ok"
  <2>1. Continue(l, Idle) /\ l.how = "undefined"
    BY <1>2, <1>3, <1>10 DEF Emptied
  <2>2. Reaches(l, Idle)
    BY <1>1, <1>3, <2>1, OneReads, IdleIsCall DEF Emptied, Reaches
  <2> QED BY <1>1, <1>7, <1>8, <2>1, <2>2, Continued
<1> QED BY <1>9, <1>10

-----------------------------------------------------------------------------
(* Setting up. *)

\* What an operation between two calls has to show of the state m it makes.
LEMMA SetUp ==
  ASSUME NEW m \in State, Wired(m), Live(m),
         file' = m.file, graph' = m.graph, bufs' = m.bufs, call' = Idle, active' \in BOOLEAN,
         active' => FileReady(m.file) /\ Configured(m),
         ~active' => m.graph.inside = <<>> /\ m.graph.fed = <<>> /\ gone' = OnNothing,
         gone' \in [Buffer -> Seq(Frame)], due' \in [Buffer -> Seq(Frame)],
         Balanced(m, gone', due'), said' = {}
  PROVE  ReaderInv'
<1>1. /\ Now' \in State /\ Wired(Now)' /\ Live(Now)' /\ Balanced(Now, gone, due)'
      /\ Configured(m) => Configured(Now)'
  BY BecomesNow
<1>2. Idle' = Idle /\ OnNothing' = OnNothing
  BY DEF Idle, OnNothing, Buffer
<1>3. Typed'
  BY <1>1, IdleIsCall DEF Typed
<1>4. Calling'
  BY <1>1, <1>2 DEF Calling, Idle
<1> QED BY <1>1, <1>3, <1>4 DEF ReaderInv

\* The reader before it is activated.
LEMMA SettingUp ==
  ASSUME ReaderInv, Setup
  PROVE  /\ Now \in State /\ Wired(Now) /\ Live(Now) /\ Balanced(Now, gone, due)
         /\ Now.file = file /\ Now.graph = graph /\ Now.bufs = bufs
         /\ \A b : Exists(Now, b) <=> Made(b)
         /\ call = Idle /\ active = FALSE /\ gone = OnNothing
         /\ graph.inside = <<>> /\ graph.fed = <<>>
         /\ gone \in [Buffer -> Seq(Frame)] /\ due \in [Buffer -> Seq(Frame)]
BY OneReads DEF Setup

LEMMA NoGraphFacts ==
  /\ NoGraph \in FilterGraphs
  /\ NoGraph.sinks = {} /\ NoGraph.outs = {} /\ ~NoGraph.parsed /\ ~NoGraph.eof /\ ~NoGraph.ended
  /\ NoGraph.inside = <<>> /\ NoGraph.fed = <<>>
<1>1. <<>> \in Seq(Frame)
  BY EmptySeq
<1> QED BY <1>1 DEF NoGraph, FilterGraphs

\* No stream is active in a file that is closed.
LEMMA NewlyOpened ==
  ASSUME NEW f \in File
  PROVE  /\ Closed(f) \in File /\ Closed(f).sink = [s \in Stream |-> NoBuffer]
         /\ \A g \in {Opened(f), HalfOpened(f), f} : g \in File /\ g.sink = f.sink
<1>1. <<>> \in Seq(Frame) /\ 1 \in 1..(Len(Media) + 1)
  BY EmptySeq, MediaFacts
<1>2. [s \in Stream |-> <<>>] \in [Stream -> Seq(Frame)]
  BY <1>1
<1>3. [s \in Stream |-> NoBuffer] \in [Stream -> Buffer \cup {NoBuffer}]
  OBVIOUS
<1>4. Closed(f) \in File /\ Closed(f).sink = [s \in Stream |-> NoBuffer]
  BY <1>1, <1>2, <1>3 DEF Closed, File
<1>5. Opened(f) \in File /\ Opened(f).sink = f.sink
  BY <1>1 DEF Opened, File
<1>6. HalfOpened(f) \in File /\ HalfOpened(f).sink = f.sink
  BY DEF HalfOpened, File
<1> QED BY <1>4, <1>5, <1>6

LEMMA CloseKeeps ==
  ASSUME ReaderInv, call = Idle, NEW f \in File, f.sink = [s \in Stream |-> NoBuffer], Close(f)
  PROVE  ReaderInv'
<1> DEFINE left == [b \in Buffer |-> IF b \in Stream \/ graph.parsed THEN NoBuffer ELSE bufs[b]]
           m == [file |-> f, graph |-> NoGraph, bufs |-> left, how |-> "ok"]
<1>1. /\ Now \in State /\ Wired(Now) /\ Settled(Now) /\ Now.bufs = bufs
      /\ bufs \in [Buffer -> Queue \cup {NoBuffer}]
  BY OneReads, StateFacts
<1>2. /\ file' = f /\ graph' = NoGraph /\ bufs' = left /\ active' = FALSE /\ call' = Idle
      /\ gone' = OnNothing /\ due' = OnNothing /\ said' = {}
  BY DEF Close
<1>3. left \in [Buffer -> Queue \cup {NoBuffer}]
  BY <1>1
<1>4. \A b \in Buffer : left[b] # NoBuffer =>
        b \notin Stream /\ left[b] = bufs[b] /\ bufs[b] # NoBuffer
  OBVIOUS
<1> HIDE DEF left
<1>5. m.file = f /\ m.graph = NoGraph /\ m.bufs = left /\ m \in State
  BY <1>3, NoGraphFacts DEF State
<1> HIDE DEF m
<1>6. Active(m.file) = {}
  BY <1>5 DEF Active
<1>7. \A b \in Buffer : Exists(m, b) =>
        b \notin Stream /\ Exists(Now, b) /\ m.bufs[b] = Now.bufs[b]
  BY <1>1, <1>4, <1>5 DEF Exists
<1>8. \A s \in Stream : ~Exists(m, s) /\ m.file.sink[s] = NoBuffer
  BY <1>5, <1>7, Names
<1>9. Wired(m)
  BY <1>1, <1>5, <1>6, <1>7, <1>8, Names, NoGraphFacts DEF Wired
<1>10. Live(m)
  BY <1>1, <1>5, <1>7, <1>8, Names, NoGraphFacts DEF Live, LiveBut, Settled
<1>11. Balanced(m, gone', due')
  BY <1>5, <1>6, NoGraphFacts DEF Balanced, StreamsBalanced, SinksBalanced
<1> QED BY <1>2, <1>5, <1>9, <1>10, <1>11, NoGraphFacts, OnNothingType, SetUp

LEMMA CloseFileKeeps ==
  ASSUME ReaderInv, CloseFile
  PROVE  ReaderInv'
<1>1. file \in File
  BY OneReads, StateFacts
<1> QED BY <1>1, NewlyOpened, CloseKeeps DEF CloseFile

LEMMA OpenFileKeeps ==
  ASSUME ReaderInv, OpenFile
  PROVE  ReaderInv'
<1>1. file \in File /\ Wired(Now) /\ Now.file = file /\ call = Idle
  BY OneReads, StateFacts DEF OpenFile
<1>2. CASE file.isOpen
  <2>1. PICK f \in {Opened(Closed(file)), HalfOpened(Closed(file)), Closed(file)} : Close(f)
    BY <1>2 DEF OpenFile
  <2>2. f \in File /\ f.sink = [s \in Stream |-> NoBuffer]
    BY <1>1, NewlyOpened
  <2> QED BY <1>1, <2>1, <2>2, CloseKeeps
<1>3. CASE ~file.isOpen
  <2>1. PICK f \in {Opened(file), HalfOpened(file), file} :
          file' = f /\ Quiet /\ UNCHANGED <<graph, bufs, active, due>>
    BY <1>3 DEF OpenFile
  <2>2. f \in File /\ f.sink = file.sink
    BY <1>1, NewlyOpened
  <2>3. Setup
    BY <1>1, <1>3, OneReads DEF Setup, FileReady
  <2> DEFINE m == [Now EXCEPT !.file = f]
  <2>4. /\ Now \in State /\ Live(Now) /\ Balanced(Now, gone, due)
        /\ Now.graph = graph /\ Now.bufs = bufs
        /\ call = Idle /\ active = FALSE /\ gone = OnNothing
        /\ graph.inside = <<>> /\ graph.fed = <<>>
        /\ gone \in [Buffer -> Seq(Frame)] /\ due \in [Buffer -> Seq(Frame)]
    BY <2>3, SettingUp
  <2>5. m \in State /\ m.file = f /\ m.graph = graph /\ m.bufs = bufs
    BY <2>2, <2>4, NewPart DEF State
  <2> HIDE DEF m
  <2>6. Active(m.file) = {} /\ Active(file) = {}
    BY <1>1, <1>3, <2>2, <2>5 DEF Wired, Active
  <2>7. \A b : Exists(m, b) <=> Exists(Now, b)
    BY <2>4, <2>5 DEF Exists
  <2>8. \A s \in Stream : ~Exists(m, s)
    BY <1>1, <2>6, <2>7, Names DEF Wired, Active
  <2>9. Wired(m)
    BY <1>1, <2>2, <2>4, <2>5, <2>6, <2>7 DEF Wired
  <2>10. Live(m)
    BY <2>4, <2>5, <2>7, <2>8 DEF Live, LiveBut, Settled
  <2>11. Balanced(m, gone, due)
    BY <2>4, <2>5, <2>6 DEF Balanced, StreamsBalanced, SinksBalanced
  <2>12. /\ call' = Idle /\ active' = FALSE /\ gone' = gone /\ due' = due /\ said' = {}
         /\ graph' = graph /\ bufs' = bufs /\ file' = f
    BY <2>1, <2>4 DEF Quiet
  <2> QED BY <2>4, <2>5, <2>9, <2>10, <2>11, <2>12, SetUp
<1> QED BY <1>2, <1>3

\* A stream that nobody uses yet gets a new decoder, which pushes to b.
LEMMA NewStream ==
  ASSUME NEW f \in File, NEW s \in Stream, f.sink[s] = NoBuffer, NEW b \in Buffer
  PROVE  LET g == WithStream(f, s, b)
         IN /\ g \in File /\ g.isOpen = f.isOpen /\ g.eof = f.eof /\ g.pos = f.pos
            /\ g.sink[s] = b /\ g.held[s] = <<>>
            /\ \A r \in Stream \ {s} : g.sink[r] = f.sink[r] /\ g.held[r] = f.held[r]
            /\ Active(g) = Active(f) \cup {s} /\ s \notin Active(f)
            /\ \A r \in Stream : Rest(g, r) = Rest(f, r)
            /\ \A r \in Stream \ {s} : Done(f, r) => Done(g, r)
<1> DEFINE g == [f EXCEPT !.sink[s] = b, !.held[s] = <<>>]
<1>1. f.sink \in [Stream -> Buffer \cup {NoBuffer}] /\ f.held \in [Stream -> Seq(Frame)]
  BY DEF File
<1>2. /\ g.isOpen = f.isOpen /\ g.eof = f.eof /\ g.pos = f.pos
      /\ g.sink = [f.sink EXCEPT ![s] = b] /\ g.held = [f.held EXCEPT ![s] = <<>>]
  BY DEF File
<1>3. <<>> \in Seq(Frame)
  BY EmptySeq
<1>4. g \in File
  <2>1. [f.sink EXCEPT ![s] = b] \in [Stream -> Buffer \cup {NoBuffer}]
    BY <1>1
  <2>2. [f.held EXCEPT ![s] = <<>>] \in [Stream -> Seq(Frame)]
    BY <1>1, <1>3
  <2> QED BY <2>1, <2>2 DEF File
<1>5. WithStream(f, s, b) = g
  BY DEF WithStream
<1> HIDE DEF g
<1>6. /\ g.sink[s] = b /\ g.held[s] = <<>>
      /\ \A r \in Stream \ {s} : g.sink[r] = f.sink[r] /\ g.held[r] = f.held[r]
  BY <1>1, <1>2
<1>7. Active(g) = Active(f) \cup {s} /\ s \notin Active(f)
  BY <1>6, Names DEF Active
<1> QED BY <1>2, <1>4, <1>5, <1>6, <1>7 DEF Rest, Done

LEMMA AddStreamKeeps ==
  ASSUME ReaderInv, NEW s \in Stream, NEW N \in Rooms, AddStream(s, N)
  PROVE  ReaderInv'
<1> DEFINE f == WithStream(file, s, s)
           q == NewQueue(N)
           made == [bufs EXCEPT ![s] = q]
           m == [file |-> f, graph |-> graph, bufs |-> made, how |-> "ok"]
<1>1. /\ Setup /\ file.isOpen /\ s \notin Active(file) /\ ~Made(s)
      /\ file' = f /\ bufs' = made /\ due' = [due EXCEPT ![s] = Rest(f, s)]
      /\ graph' = graph /\ active' = active /\ call' = call /\ gone' = gone /\ said' = {}
  BY DEF AddStream, Quiet, IsStreamActive
<1>2. /\ Now \in State /\ Wired(Now) /\ Live(Now) /\ Balanced(Now, gone, due)
      /\ Now.file = file /\ Now.graph = graph /\ Now.bufs = bufs
      /\ call = Idle /\ active = FALSE /\ gone = OnNothing
      /\ graph.inside = <<>> /\ graph.fed = <<>>
      /\ gone \in [Buffer -> Seq(Frame)] /\ due \in [Buffer -> Seq(Frame)]
      /\ ~Exists(Now, s)
  BY <1>1, SettingUp
<1>3. /\ file \in File /\ graph \in FilterGraphs /\ graph.sinks \subseteq Sink
      /\ bufs \in [Buffer -> Queue \cup {NoBuffer}] /\ file.sink[s] = NoBuffer
      /\ s \in Buffer /\ s # In /\ s \notin Sink /\ s # NoBuffer
  BY <1>1, <1>2, StateFacts, Names DEF Active
<1>4. /\ f \in File /\ f.isOpen = file.isOpen /\ f.sink[s] = s /\ f.held[s] = <<>>
      /\ \A r \in Stream \ {s} : f.sink[r] = file.sink[r] /\ f.held[r] = file.held[r]
      /\ Active(f) = Active(file) \cup {s} /\ s \notin Active(file)
      /\ \A r \in Stream : Rest(f, r) = Rest(file, r)
      /\ \A r \in Stream \ {s} : Done(file, r) => Done(f, r)
      /\ Rest(f, s) \in Seq(Frame)
  BY <1>2, <1>3, NewStream, StateFacts
<1> HIDE DEF f
<1>5. N \in Nat
  BY RoomsAssumption
<1>6. QueueOK(q) /\ ~Ended(q) /\ Frames(q) = <<>>
  BY <1>5, FreshQueue
<1> HIDE DEF q
<1>7. Strict(q) /\ QueueTypeOK(q) /\ RingContiguous(q) /\ q \in Queue /\ q # NoBuffer
  BY <1>6, OpenQueue, StrictContiguous, Names DEF Strict, QueueTypeOK, QueueOK
<1>8. /\ made \in [Buffer -> Queue \cup {NoBuffer}] /\ made[s] = q
      /\ \A b \in Buffer \ {s} : made[b] = bufs[b]
  BY <1>3, <1>7
<1> HIDE DEF made
<1>9. m \in State /\ m.file = f /\ m.graph = graph /\ m.bufs = made
  BY <1>3, <1>4, <1>8 DEF State
<1> HIDE DEF m
<1>10. /\ Exists(m, s)
       /\ \A b \in Buffer \ {s} : (Exists(m, b) <=> Exists(Now, b)) /\ m.bufs[b] = Now.bufs[b]
  BY <1>2, <1>7, <1>8, <1>9 DEF Exists
<1>11. Wired(m)
  <2>1. \A b \in Buffer : Exists(m, b) => QueueTypeOK(m.bufs[b])
    BY <1>2, <1>7, <1>8, <1>9, <1>10 DEF Wired
  <2>2. \A b \in Stream \cup Sink : Exists(m, b) => RingContiguous(m.bufs[b])
    BY <1>2, <1>7, <1>8, <1>9, <1>10, Names DEF Wired
  <2>3. \A r \in Stream : /\ m.file.sink[r] \in {r, In, NoBuffer}
                          /\ m.file.sink[r] = r <=> Exists(m, r)
                          /\ m.file.sink[r] = In => Exists(m, In)
    <3> SUFFICES ASSUME NEW r \in Stream
                 PROVE  /\ m.file.sink[r] \in {r, In, NoBuffer}
                        /\ m.file.sink[r] = r <=> Exists(m, r)
                        /\ m.file.sink[r] = In => Exists(m, In)
      OBVIOUS
    <3>1. CASE r = s
      BY <1>3, <1>4, <1>9, <1>10, <3>1
    <3>2. CASE r # s
      <4>1. m.file.sink[r] = Now.file.sink[r]
        BY <1>2, <1>4, <1>9, <3>2
      <4>2. (Exists(m, r) <=> Exists(Now, r)) /\ (Exists(m, In) <=> Exists(Now, In))
        BY <1>3, <1>10, <3>2, Names
      <4> QED BY <1>2, <4>1, <4>2 DEF Wired
    <3> QED BY <3>1, <3>2
  <2>4. m.graph.parsed => Exists(m, In) /\ m.graph.source
    BY <1>2, <1>3, <1>9, <1>10, Names DEF Wired
  <2>5. /\ m.graph.sinks \subseteq m.graph.outs /\ \A k \in m.graph.sinks : Exists(m, k)
        /\ ~m.graph.parsed => m.graph = NoGraph
    BY <1>2, <1>3, <1>9, <1>10, Names DEF Wired
  <2> QED BY <1>1, <1>4, <1>9, <2>1, <2>2, <2>3, <2>4, <2>5 DEF Wired
<1>12. Live(m)
  <2>1. Settled(m)
    BY <1>2, <1>3, <1>9, <1>10, Names DEF Live, LiveBut, Settled
  <2>2. \A r \in Stream : Exists(m, r) =>
          QueueOK(m.bufs[r]) /\ (Ended(m.bufs[r]) => Done(m.file, r))
    BY <1>2, <1>4, <1>6, <1>8, <1>9, <1>10, Names DEF Live, LiveBut
  <2> QED BY <2>1, <2>2 DEF Live, LiveBut
<1>13. due' \in [Buffer -> Seq(Frame)] /\ due'[s] = Rest(f, s)
       /\ \A b \in Buffer \ {s} : due'[b] = due[b]
  BY <1>1, <1>2, <1>3, <1>4
<1>14. ASSUME NEW r \in Active(m.file), Alone(m, r)
       PROVE  due'[m.file.sink[r]] = Account(m, r, gone)
  <2>1. CASE r = s
    <3>1. Account(m, s, gone) = <<>> \o <<>> \o <<>> \o Rest(f, s)
      BY <1>2, <1>3, <1>4, <1>6, <1>8, <1>9, OnNothingType DEF Account
    <3>2. Account(m, s, gone) = Rest(f, s)
      BY <1>4, <3>1, ConcatEmptySeq
    <3> QED BY <1>4, <1>9, <1>13, <2>1, <3>2
  <2>2. CASE r # s
    <3>1. r \in Active(Now.file) /\ r \in Stream /\ m.file.sink[r] = Now.file.sink[r]
      BY <1>2, <1>4, <1>9, <1>14, <2>2 DEF Active
    <3>2. m.file.sink[r] # s /\ m.file.sink[r] \in Buffer
      BY <1>2, <1>3, <3>1, <2>2, SinkOf
    <3>3. Alone(Now, r)
      <4>1. \A p \in Stream : Now.file.sink[p] = m.file.sink[r] <=> m.file.sink[p] = m.file.sink[r]
        BY <1>2, <1>3, <1>4, <1>9, <3>2, Names, Zenon
      <4> QED BY <1>2, <1>9, <1>14, <3>1, <4>1 DEF Alone
    <3>4. Account(m, r, gone) = Account(Now, r, gone)
      <4>1. m.bufs[m.file.sink[r]] = Now.bufs[m.file.sink[r]]
        BY <1>10, <3>2
      <4> QED BY <1>2, <1>4, <1>9, <2>2, <3>1, <4>1, Zenon DEF Account
    <3>5. due[Now.file.sink[r]] = Account(Now, r, gone)
      BY <1>2, <3>1, <3>3 DEF Balanced, StreamsBalanced
    <3> QED BY <1>13, <3>1, <3>2, <3>4, <3>5
  <2> QED BY <2>1, <2>2
<1>15. Balanced(m, gone', due')
  <2>1. \A k \in m.graph.sinks : m.bufs[k] = Now.bufs[k]
    BY <1>3, <1>9, <1>10, Names
  <2>2. SinksBalanced(m, gone')
    BY <1>1, <1>2, <1>9, <2>1 DEF Balanced, SinksBalanced
  <2>3. StreamsBalanced(m, gone', due')
    BY <1>1, <1>14 DEF StreamsBalanced
  <2> QED BY <2>2, <2>3 DEF Balanced
<1> QED BY <1>1, <1>2, <1>9, <1>11, <1>12, <1>13, <1>15, SetUp

LEMMA AddSinkKeeps ==
  ASSUME ReaderInv, NEW k \in Sink, NEW N \in Rooms, AddSink(k, N)
  PROVE  ReaderInv'
<1> DEFINE g == SinkAssigned(graph, k)
           q == NewQueue(N)
           made == [bufs EXCEPT ![k] = q]
           m == [file |-> file, graph |-> g, bufs |-> made, how |-> "ok"]
<1>1. /\ Setup /\ graph.parsed /\ k \in graph.outs /\ ~Made(k)
      /\ graph' = g /\ bufs' = made /\ file' = file /\ due' = due
      /\ active' = active /\ call' = call /\ gone' = gone /\ said' = {}
  BY DEF AddSink, Quiet, IsSink
<1>2. /\ Now \in State /\ Wired(Now) /\ Live(Now) /\ Balanced(Now, gone, due)
      /\ Now.file = file /\ Now.graph = graph /\ Now.bufs = bufs
      /\ call = Idle /\ active = FALSE /\ gone = OnNothing
      /\ graph.inside = <<>> /\ graph.fed = <<>>
      /\ gone \in [Buffer -> Seq(Frame)] /\ due \in [Buffer -> Seq(Frame)]
  BY <1>1, SettingUp
<1>3. /\ file \in File /\ graph \in FilterGraphs /\ graph.sinks \subseteq Sink
      /\ bufs \in [Buffer -> Queue \cup {NoBuffer}]
      /\ k \in Buffer /\ k # In /\ k \notin Stream
  BY <1>2, StateFacts, Names
<1>4. /\ g \in FilterGraphs /\ g.sinks = graph.sinks \cup {k} /\ g.parsed = graph.parsed
      /\ g.outs = graph.outs /\ g.source = graph.source /\ g.eof = graph.eof
      /\ g.ended = graph.ended /\ g.inside = graph.inside /\ g.fed = graph.fed
  BY <1>3 DEF SinkAssigned, FilterGraphs
<1> HIDE DEF g
<1>5. N \in Nat
  BY RoomsAssumption
<1>6. QueueOK(q) /\ ~Ended(q) /\ Frames(q) = <<>>
  BY <1>5, FreshQueue
<1> HIDE DEF q
<1>7. Strict(q) /\ QueueTypeOK(q) /\ RingContiguous(q) /\ q \in Queue /\ q # NoBuffer
  BY <1>6, OpenQueue, StrictContiguous, Names DEF Strict, QueueTypeOK, QueueOK
<1>8. /\ made \in [Buffer -> Queue \cup {NoBuffer}] /\ made[k] = q
      /\ \A b \in Buffer \ {k} : made[b] = bufs[b]
  BY <1>3, <1>7
<1> HIDE DEF made
<1>9. m \in State /\ m.file = file /\ m.graph = g /\ m.bufs = made
  BY <1>3, <1>4, <1>8 DEF State
<1> HIDE DEF m
<1>10. /\ Exists(m, k)
       /\ \A b \in Buffer \ {k} : (Exists(m, b) <=> Exists(Now, b)) /\ m.bufs[b] = Now.bufs[b]
  BY <1>2, <1>7, <1>8, <1>9 DEF Exists
<1>11. Wired(m)
  <2>1. \A b \in Buffer : Exists(m, b) => QueueTypeOK(m.bufs[b])
    BY <1>2, <1>7, <1>8, <1>9, <1>10 DEF Wired
  <2>2. \A b \in Stream \cup Sink : Exists(m, b) => RingContiguous(m.bufs[b])
    BY <1>2, <1>7, <1>8, <1>9, <1>10, Names DEF Wired
  <2>3. \A r \in Stream : /\ m.file.sink[r] \in {r, In, NoBuffer}
                          /\ m.file.sink[r] = r <=> Exists(m, r)
                          /\ m.file.sink[r] = In => Exists(m, In)
    BY <1>2, <1>3, <1>9, <1>10, Names DEF Wired
  <2>4. m.graph.parsed => Exists(m, In) /\ m.graph.source
    BY <1>2, <1>3, <1>4, <1>9, <1>10, Names DEF Wired
  <2>5. m.graph.sinks \subseteq m.graph.outs
    BY <1>1, <1>2, <1>4, <1>9 DEF Wired
  <2>6. \A j \in m.graph.sinks : Exists(m, j)
    <3>1. \A j \in graph.sinks : Exists(Now, j) /\ j \in Buffer
      BY <1>2, <1>3, Names DEF Wired
    <3> QED BY <1>4, <1>9, <1>10, <3>1
  <2>7. ~m.file.isOpen => Active(m.file) = {}
    BY <1>2, <1>9 DEF Wired
  <2> QED BY <1>1, <1>4, <1>9, <2>1, <2>2, <2>3, <2>4, <2>5, <2>6, <2>7 DEF Wired
<1>12. Live(m)
  <2>1. Settled(m)
    BY <1>2, <1>3, <1>4, <1>6, <1>8, <1>9, <1>10, Names DEF Live, LiveBut, Settled
  <2>2. \A r \in Stream : Exists(m, r) =>
          QueueOK(m.bufs[r]) /\ (Ended(m.bufs[r]) => Done(m.file, r))
    BY <1>2, <1>3, <1>9, <1>10, Names DEF Live, LiveBut
  <2> QED BY <2>1, <2>2 DEF Live, LiveBut
<1>13. ASSUME NEW r \in Active(m.file), Alone(m, r)
       PROVE  due[m.file.sink[r]] = Account(m, r, gone)
  <2>1. r \in Active(Now.file) /\ m.file.sink[r] = Now.file.sink[r]
    BY <1>2, <1>9, <1>13
  <2>2. m.file.sink[r] \in Buffer \ {k}
    BY <1>2, <1>3, <2>1, SinkOf
  <2>3. Alone(Now, r)
    BY <1>2, <1>4, <1>9, <1>13 DEF Alone
  <2>4. Account(m, r, gone) = Account(Now, r, gone)
    BY <1>2, <1>4, <1>9, <1>10, <2>1, <2>2, Zenon DEF Account
  <2> QED BY <1>2, <2>1, <2>3, <2>4 DEF Balanced, StreamsBalanced
<1>14. ASSUME NEW j \in m.graph.sinks
       PROVE  m.graph.fed = gone[j] \o Frames(m.bufs[j]) \o m.graph.inside
  <2>1. CASE j = k
    <3>1. m.graph.fed = <<>> /\ m.graph.inside = <<>> /\ Frames(m.bufs[j]) = <<>>
          /\ gone[j] = <<>>
      BY <1>2, <1>3, <1>4, <1>6, <1>8, <1>9, <2>1, OnNothingType
    <3> QED BY <3>1, ConcatEmptySeq
  <2>2. CASE j # k
    <3>1. j \in Now.graph.sinks /\ j \in Buffer \ {k}
      BY <1>2, <1>3, <1>4, <1>9, <2>2, <1>14, Names
    <3>2. m.bufs[j] = Now.bufs[j]
      BY <1>10, <3>1
    <3> QED BY <1>2, <1>4, <1>9, <3>1, <3>2 DEF Balanced, SinksBalanced
  <2> QED BY <2>1, <2>2
<1>15. Balanced(m, gone', due')
  BY <1>1, <1>13, <1>14 DEF Balanced, StreamsBalanced, SinksBalanced
<1> QED BY <1>1, <1>2, <1>4, <1>9, <1>11, <1>12, <1>15, SetUp

\* A graph that replaces another one has no outputs yet, and its input is the
\* buffer that the other one left.
LEMMA NewGraphKeeps ==
  ASSUME ReaderInv, Setup, NEW s \in Stream \ Active(file), NEW outs \in SUBSET Sink,
         file.isOpen,
         file' = WithStream(file, s, In), graph' = SourceAssigned(Parsed(outs)),
         bufs' = [bufs EXCEPT ![In] = IF Made(In) THEN @ ELSE NewQueue(0)],
         due' = [due EXCEPT ![In] = (IF Made(In) THEN Frames(bufs[In]) ELSE <<>>)
                                      \o Rest(file', s)],
         active' = active, call' = call, gone' = gone, said' = {}
  PROVE  ReaderInv'
<1> DEFINE f == WithStream(file, s, In)
           g == SourceAssigned(Parsed(outs))
           q == IF Made(In) THEN bufs[In] ELSE NewQueue(0)
           left == IF Made(In) THEN Frames(bufs[In]) ELSE <<>>
           made == [bufs EXCEPT ![In] = q]
           m == [file |-> f, graph |-> g, bufs |-> made, how |-> "ok"]
<1>1. file' = f /\ graph' = g /\ bufs' = made /\ due' = [due EXCEPT ![In] = left \o Rest(f, s)]
  OBVIOUS
<1>2. /\ Now \in State /\ Wired(Now) /\ Live(Now) /\ Balanced(Now, gone, due)
      /\ Now.file = file /\ Now.graph = graph /\ Now.bufs = bufs
      /\ call = Idle /\ active = FALSE /\ gone = OnNothing
      /\ gone \in [Buffer -> Seq(Frame)] /\ due \in [Buffer -> Seq(Frame)]
      /\ Exists(Now, In) <=> Made(In)
  BY SettingUp
<1>3. /\ file \in File /\ bufs \in [Buffer -> Queue \cup {NoBuffer}] /\ file.sink[s] = NoBuffer
      /\ s \in Stream /\ s \in Buffer /\ s # In /\ s # NoBuffer
      /\ In \in Buffer /\ In # NoBuffer
  BY <1>2, StateFacts, Names DEF Active
<1>4. /\ f \in File /\ f.isOpen = file.isOpen /\ f.sink[s] = In /\ f.held[s] = <<>>
      /\ \A r \in Stream \ {s} : f.sink[r] = file.sink[r] /\ f.held[r] = file.held[r]
      /\ Active(f) = Active(file) \cup {s} /\ s \notin Active(file)
      /\ \A r \in Stream : Rest(f, r) = Rest(file, r)
      /\ \A r \in Stream \ {s} : Done(file, r) => Done(f, r)
      /\ Rest(f, s) \in Seq(Frame)
  <2>1. Rest(file, s) \in Seq(Frame)
    BY <1>2, StateFacts
  <2>2. /\ f \in File /\ f.isOpen = file.isOpen /\ f.eof = file.eof /\ f.pos = file.pos
        /\ f.sink[s] = In /\ f.held[s] = <<>>
        /\ \A r \in Stream \ {s} : f.sink[r] = file.sink[r] /\ f.held[r] = file.held[r]
        /\ Active(f) = Active(file) \cup {s} /\ s \notin Active(file)
        /\ \A r \in Stream : Rest(f, r) = Rest(file, r)
        /\ \A r \in Stream \ {s} : Done(file, r) => Done(f, r)
    BY <1>3, NewStream
  <2> HIDE DEF f
  <2> QED BY <1>3, <2>1, <2>2
<1> HIDE DEF f
<1>5. /\ g \in FilterGraphs /\ g.parsed /\ g.source /\ g.sinks = {} /\ ~g.eof /\ ~g.ended
      /\ g.inside = <<>> /\ g.fed = <<>>
  BY NoGraphFacts DEF SourceAssigned, Parsed, NoGraph, FilterGraphs
<1> HIDE DEF g
<1>6. Strict(q) /\ q.dynamic /\ Frames(q) = left
  <2>1. CASE Made(In)
    BY <1>2, <2>1 DEF Live, LiveBut, Settled
  <2>2. CASE ~Made(In)
    <3>1. QueueOK(NewQueue(0)) /\ ~Ended(NewQueue(0)) /\ Frames(NewQueue(0)) = <<>>
          /\ NewQueue(0).dynamic
      BY FreshQueue
    <3> QED BY <2>2, <3>1, OpenQueue
  <2> QED BY <2>1, <2>2
<1> HIDE DEF q
<1>7. QueueTypeOK(q) /\ q \in Queue /\ q # NoBuffer
  BY <1>6, Names DEF Strict, QueueTypeOK
<1>8. left \in Seq(Frame)
  BY <1>6, FramesType DEF Strict
<1> HIDE DEF left
<1>9. /\ made \in [Buffer -> Queue \cup {NoBuffer}] /\ made[In] = q
      /\ \A b \in Buffer \ {In} : made[b] = bufs[b]
  BY <1>3, <1>7
<1> HIDE DEF made
<1>10. m \in State /\ m.file = f /\ m.graph = g /\ m.bufs = made
  BY <1>4, <1>5, <1>9 DEF State
<1> HIDE DEF m
<1>11. /\ Exists(m, In)
       /\ \A b \in Buffer \ {In} : (Exists(m, b) <=> Exists(Now, b)) /\ m.bufs[b] = Now.bufs[b]
  BY <1>2, <1>3, <1>7, <1>9, <1>10 DEF Exists
<1>12. Wired(m)
  <2>1. \A b \in Buffer : Exists(m, b) => QueueTypeOK(m.bufs[b])
    BY <1>2, <1>7, <1>9, <1>10, <1>11 DEF Wired
  <2>2. \A b \in Stream \cup Sink : Exists(m, b) => RingContiguous(m.bufs[b])
    BY <1>2, <1>11, Names DEF Wired
  <2>3. ASSUME NEW r \in Stream
        PROVE  /\ m.file.sink[r] \in {r, In, NoBuffer}
               /\ m.file.sink[r] = r <=> Exists(m, r)
               /\ m.file.sink[r] = In => Exists(m, In)
    <3>1. (Exists(m, r) <=> Exists(Now, r)) /\ r # In
      BY <1>11, Names
    <3>2. CASE r = s
      BY <1>2, <1>3, <1>4, <1>10, <1>11, <3>1, <3>2 DEF Wired
    <3>3. CASE r # s
      <4>1. m.file.sink[r] = Now.file.sink[r]
        BY <1>2, <1>4, <1>10, <3>3
      <4> QED BY <1>2, <1>11, <3>1, <4>1 DEF Wired
    <3> QED BY <3>2, <3>3
  <2> QED BY <1>4, <1>5, <1>10, <1>11, <2>1, <2>2, <2>3 DEF Wired
<1>13. Live(m)
  <2>1. Settled(m)
    BY <1>2, <1>5, <1>6, <1>9, <1>10, <1>11, Names DEF Live, LiveBut, Settled
  <2>2. ASSUME NEW r \in Stream, Exists(m, r)
        PROVE  QueueOK(m.bufs[r]) /\ (Ended(m.bufs[r]) => Done(m.file, r))
    <3>1. Exists(Now, r) /\ m.bufs[r] = Now.bufs[r]
      BY <1>11, <2>2, Names
    <3>2. r # s
      BY <1>2, <1>3, <3>1 DEF Wired
    <3> QED BY <1>2, <1>4, <1>10, <3>1, <3>2 DEF Live, LiveBut
  <2> QED BY <2>1, <2>2 DEF Live, LiveBut
<1>14. /\ due' \in [Buffer -> Seq(Frame)] /\ due'[In] = left \o Rest(f, s)
       /\ \A b \in Buffer \ {In} : due'[b] = due[b]
  <2> DEFINE new == left \o Rest(f, s)
  <2>1. new \in Seq(Frame)
    BY <1>4, <1>8, ConcatProperties
  <2> HIDE DEF new
  <2>2. due' = [due EXCEPT ![In] = new]
    BY <1>1 DEF new
  <2>3. due \in [Buffer -> Seq(Frame)] /\ In \in Buffer
    BY <1>2, Names
  <2>4. due' \in [Buffer -> Seq(Frame)] /\ due'[In] = new /\ \A b \in Buffer \ {In} : due'[b] = due[b]
    BY <2>1, <2>2, <2>3
  <2> QED BY <2>4 DEF new
<1>15. ASSUME NEW r \in Active(m.file), Alone(m, r)
       PROVE  due'[m.file.sink[r]] = Account(m, r, gone)
  <2>1. CASE r = s
    <3>1. Account(m, s, gone) = <<>> \o left \o <<>> \o Rest(f, s)
      BY <1>4, <1>5, <1>6, <1>9, <1>10 DEF Account
    <3>2. Account(m, s, gone) = left \o Rest(f, s)
      BY <1>4, <1>8, <3>1, ConcatEmptySeq
    <3> QED BY <1>4, <1>10, <1>14, <2>1, <3>2
  <2>2. CASE r # s
    <3>1. r \in Active(Now.file) /\ r \in Stream /\ m.file.sink[r] = Now.file.sink[r]
      BY <1>2, <1>4, <1>10, <1>15, <2>2 DEF Active
    <3>2. m.file.sink[r] # In
      BY <1>3, <1>4, <1>10, <1>15, <2>2 DEF Alone
    <3>3. m.file.sink[r] \in Buffer \ {In} /\ m.file.sink[r] # NoBuffer
      BY <1>2, <3>1, <3>2, SinkOf, Names
    <3>4. Alone(Now, r)
      <4>1. \A p \in Stream : Now.file.sink[p] = m.file.sink[r] <=> m.file.sink[p] = m.file.sink[r]
        BY <1>2, <1>3, <1>4, <1>10, <3>2, <3>3
      <4> QED BY <1>15, <3>1, <3>2, <4>1 DEF Alone
    <3>5. Account(m, r, gone) = Account(Now, r, gone)
      <4>1. m.bufs[m.file.sink[r]] = Now.bufs[m.file.sink[r]]
        BY <1>11, <3>3
      <4> QED BY <1>2, <1>4, <1>10, <2>2, <3>1, <3>2, <4>1, Zenon DEF Account
    <3>6. due[Now.file.sink[r]] = Account(Now, r, gone)
      BY <1>2, <3>1, <3>4 DEF Balanced, StreamsBalanced
    <3> QED BY <1>14, <3>1, <3>3, <3>5, <3>6
  <2> QED BY <2>1, <2>2
<1>16. Balanced(m, gone', due')
  BY <1>5, <1>10, <1>15 DEF Balanced, StreamsBalanced, SinksBalanced
<1> QED BY <1>1, <1>2, <1>5, <1>10, <1>12, <1>13, <1>14, <1>16, SetUp

\* A graph that cannot be connected is gone, and the buffers stay.
LEMMA NoGraphKeeps ==
  ASSUME ReaderInv, Setup, graph' = NoGraph, UNCHANGED <<file, bufs, due, active, call, gone>>,
         said' = {}
  PROVE  ReaderInv'
<1> DEFINE m == [Now EXCEPT !.graph = NoGraph]
<1>1. /\ Now \in State /\ Wired(Now) /\ Live(Now) /\ Balanced(Now, gone, due)
      /\ Now.file = file /\ Now.graph = graph /\ Now.bufs = bufs
      /\ call = Idle /\ active = FALSE /\ gone = OnNothing
      /\ gone \in [Buffer -> Seq(Frame)] /\ due \in [Buffer -> Seq(Frame)]
  BY SettingUp
<1>2. m \in State /\ m.file = file /\ m.graph = NoGraph /\ m.bufs = bufs
  BY <1>1, NewPart, NoGraphFacts DEF State
<1> HIDE DEF m
<1>3. \A b : Exists(m, b) <=> Exists(Now, b)
  BY <1>1, <1>2 DEF Exists
<1>4. Wired(m)
  BY <1>1, <1>2, <1>3, NoGraphFacts DEF Wired
<1>5. Live(m)
  BY <1>1, <1>2, <1>3, NoGraphFacts DEF Live, LiveBut, Settled
<1>6. ASSUME NEW r \in Active(m.file), Alone(m, r)
      PROVE  due[m.file.sink[r]] = Account(m, r, gone)
  <2>1. m.file.sink[r] # In /\ Alone(Now, r) /\ r \in Active(Now.file)
    BY SMTT(60), <1>1, <1>2, <1>6, NoGraphFacts DEF Alone
  <2>2. Account(m, r, gone) = Account(Now, r, gone)
    BY <1>1, <1>2, <2>1 DEF Account
  <2> QED BY <1>1, <1>2, <2>1, <2>2 DEF Balanced, StreamsBalanced
<1>7. Balanced(m, gone, due)
  BY <1>2, <1>6, NoGraphFacts DEF Balanced, StreamsBalanced, SinksBalanced
<1> QED BY <1>1, <1>2, <1>4, <1>5, <1>7, NoGraphFacts, SetUp

LEMMA SetFilterGraphKeeps ==
  ASSUME ReaderInv, NEW outs \in SUBSET Sink, SetFilterGraph(outs)
  PROVE  ReaderInv'
<1>1. Setup /\ file.isOpen /\ active' = active /\ call' = call /\ gone' = gone /\ said' = {}
  BY DEF SetFilterGraph, Quiet
<1>2. CASE graph' = NoGraph /\ UNCHANGED <<file, bufs, due>>
  BY <1>1, <1>2, NoGraphKeeps
<1>3. CASE \E s \in Stream \ Active(file) :
             /\ file' = WithStream(file, s, In)
             /\ graph' = SourceAssigned(Parsed(outs))
             /\ bufs' = [bufs EXCEPT ![In] = IF Made(In) THEN @ ELSE NewQueue(0)]
             /\ due' = [due EXCEPT ![In] = (IF Made(In) THEN Frames(bufs[In]) ELSE <<>>)
                                             \o Rest(file', s)]
  BY <1>1, <1>3, NewGraphKeeps
<1> QED BY <1>2, <1>3 DEF SetFilterGraph

\* configure() changes nothing of a graph but its context.
LEMMA Configures ==
  ASSUME NEW g \in FilterGraphs
  PROVE  LET c == Configure(g)
         IN /\ c.graph \in FilterGraphs /\ c.graph.parsed = g.parsed /\ c.graph.outs = g.outs
            /\ c.graph.source = g.source /\ c.graph.sinks = g.sinks /\ c.graph.eof = g.eof
            /\ c.graph.ended = g.ended /\ c.graph.inside = g.inside /\ c.graph.fed = g.fed
            /\ c.how = "ok" => c.graph.context /\ g.outs \subseteq g.sinks
<1>1. CASE ~g.source \/ g.context
  BY <1>1 DEF Configure
<1>2. CASE ~(~g.source \/ g.context)
  <2> DEFINE n == [g EXCEPT !.context = TRUE]
  <2>1. Configure(g).graph = n /\ (Configure(g).how = "ok" => g.outs \subseteq g.sinks)
    BY <1>2 DEF Configure
  <2>2. /\ n \in FilterGraphs /\ n.parsed = g.parsed /\ n.outs = g.outs
        /\ n.source = g.source /\ n.sinks = g.sinks /\ n.eof = g.eof
        /\ n.ended = g.ended /\ n.inside = g.inside /\ n.fed = g.fed /\ n.context
    BY DEF FilterGraphs
  <2> QED BY <2>1, <2>2
<1> QED BY <1>1, <1>2

LEMMA ActivateKeeps ==
  ASSUME ReaderInv, Activate
  PROVE  ReaderInv'
<1> DEFINE c == IF graph.parsed THEN Configure(graph) ELSE [graph |-> graph, how |-> "ok"]
           dangling == graph.parsed /\ Orphans # {}
           g == c.graph
           m == [Now EXCEPT !.graph = g]
<1>1. /\ Setup /\ FileReady(file)
      /\ graph' = g /\ active' = (c.how = "ok" /\ ~dangling)
      /\ call' = IF c.how = "ok" /\ dangling THEN [Idle EXCEPT !.at = "undefined"] ELSE Idle
      /\ file' = file /\ bufs' = bufs /\ gone' = gone /\ due' = due /\ said' = {}
  BY DEF Activate
<1>2. /\ Now \in State /\ Wired(Now) /\ Live(Now) /\ Balanced(Now, gone, due)
      /\ Now.file = file /\ Now.graph = graph /\ Now.bufs = bufs
      /\ call = Idle /\ active = FALSE /\ gone = OnNothing
      /\ graph.inside = <<>> /\ graph.fed = <<>>
      /\ gone \in [Buffer -> Seq(Frame)] /\ due \in [Buffer -> Seq(Frame)]
      /\ graph \in FilterGraphs
  BY <1>1, SettingUp, StateFacts
<1>3. /\ g \in FilterGraphs /\ g.parsed = graph.parsed /\ g.outs = graph.outs
      /\ g.source = graph.source /\ g.sinks = graph.sinks /\ g.eof = graph.eof
      /\ g.ended = graph.ended /\ g.inside = graph.inside /\ g.fed = graph.fed
      /\ c.how = "ok" /\ g.parsed => g.context /\ g.outs \subseteq g.sinks
      /\ ~g.parsed => g = graph
  BY <1>2, Configures
<1> HIDE DEF c, dangling
<1>4. m \in State /\ m.file = file /\ m.graph = g /\ m.bufs = bufs
  BY <1>2, <1>3, NewPart DEF State
<1> HIDE DEF m
<1>5. \A b : Exists(m, b) <=> Exists(Now, b)
  BY <1>2, <1>4 DEF Exists
<1>6. Wired(m)
  BY <1>2, <1>3, <1>4, <1>5 DEF Wired
<1>7. Live(m)
  BY <1>2, <1>3, <1>4, <1>5 DEF Live, LiveBut, Settled
<1>8. Balanced(m, gone, due)
  <2>1. SinksBalanced(m, gone)
    <3> SUFFICES ASSUME NEW k \in m.graph.sinks
                 PROVE  m.graph.fed = gone[k] \o Frames(m.bufs[k]) \o m.graph.inside
      BY DEF SinksBalanced
    <3>1. k \in Now.graph.sinks /\ m.graph.fed = Now.graph.fed
          /\ m.graph.inside = Now.graph.inside /\ m.bufs = Now.bufs
      BY <1>2, <1>3, <1>4
    <3> QED BY <3>1, <1>2 DEF Balanced, SinksBalanced
  <2>2. \A r : (Alone(m, r) <=> Alone(Now, r)) /\ Account(m, r, gone) = Account(Now, r, gone)
    <3>1. /\ m.file = Now.file /\ m.bufs = Now.bufs
          /\ m.graph.fed = Now.graph.fed /\ m.graph.parsed = Now.graph.parsed
      BY <1>2, <1>3, <1>4
    <3> QED BY <3>1, Zenon DEF Alone, Account
  <2>3. StreamsBalanced(m, gone, due)
    BY <1>2, <1>4, <2>2 DEF Balanced, StreamsBalanced
  <2> QED BY <2>1, <2>3 DEF Balanced
<1>9. c.how = "ok" => Configured(m)
  <2>1. g.sinks \subseteq g.outs
    BY <1>4, <1>6 DEF Wired
  <2>2. c.how = "ok" /\ g.parsed => g.context /\ g.sinks = g.outs
    BY <1>3, <2>1
  <2> QED BY <1>4, <2>2 DEF Configured
<1>10. CASE call' = Idle
  <2>1. active' \in BOOLEAN /\ (active' => c.how = "ok")
    BY <1>1
  <2> QED BY <1>1, <1>2, <1>3, <1>4, <1>6, <1>7, <1>8, <1>9, <1>10, <2>1, SetUp
<1>11. CASE call' # Idle
  <2>1. call' = [Idle EXCEPT !.at = "undefined"] /\ active' = FALSE
    BY <1>1, <1>11
  <2>2. call' \in Calls /\ call'.at = "undefined"
    BY <2>1, IdleIsCall DEF Calls
  <2>3. Now' \in State /\ Wired(Now)'
    BY <1>1, <1>4, <1>6, BecomesNow
  <2>4. Typed'
    BY <1>1, <1>2, <2>1, <2>2, <2>3 DEF Typed
  <2>5. Calling'
    <3>1. OnNothing' = OnNothing
      BY DEF OnNothing, Buffer
    <3> QED BY <1>1, <1>2, <1>3, <2>1, <2>2, <3>1 DEF Calling
  <2>6. Lost'
    BY <2>2 DEF Lost
  <2> QED BY <1>1, <2>3, <2>4, <2>5, <2>6 DEF ReaderInv
<1> QED BY <1>10, <1>11

-----------------------------------------------------------------------------
(* The invariant, and what follows from it. *)

LEMMA InitHolds == Init => ReaderInv
<1> SUFFICES ASSUME Init PROVE ReaderInv
  OBVIOUS
<1>1. /\ Now.file = NewFile /\ Now.graph = NoGraph /\ Now.bufs = [b \in Buffer |-> NoBuffer]
      /\ active = FALSE /\ call = Idle /\ gone = OnNothing /\ due = OnNothing /\ said = {}
  BY DEF Init, Now
<1>2. NewFile \in File /\ ~NewFile.isOpen /\ NewFile.sink = [s \in Stream |-> NoBuffer]
  <2>1. <<>> \in Seq(Frame) /\ 1 \in 1..(Len(Media) + 1)
    BY EmptySeq, MediaFacts
  <2>2. [s \in Stream |-> <<>>] \in [Stream -> Seq(Frame)]
    BY <2>1
  <2>3. [s \in Stream |-> NoBuffer] \in [Stream -> Buffer \cup {NoBuffer}]
    OBVIOUS
  <2> QED BY <2>1, <2>2, <2>3 DEF NewFile, File
<1>3. Now \in State
  <2>1. [b \in Buffer |-> NoBuffer] \in [Buffer -> Queue \cup {NoBuffer}]
    OBVIOUS
  <2>2. file \in File /\ graph \in FilterGraphs /\ bufs \in [Buffer -> Queue \cup {NoBuffer}]
    BY <1>1, <1>2, <2>1, NoGraphFacts DEF Now
  <2> QED BY <2>2 DEF Now, State
<1>4. \A b \in Buffer : ~Exists(Now, b)
  BY <1>1 DEF Exists
<1>5. Active(Now.file) = {} /\ Active(file) = {} /\ \A s \in Stream : Now.file.sink[s] = NoBuffer
  BY <1>1, <1>2 DEF Active, Now
<1>6. Wired(Now)
  BY <1>1, <1>4, <1>5, Names, NoGraphFacts DEF Wired
<1>7. Live(Now)
  BY <1>1, <1>4, Names, NoGraphFacts DEF Live, LiveBut, Settled
<1>8. Balanced(Now, gone, due)
  BY <1>1, <1>5, NoGraphFacts DEF Balanced, StreamsBalanced, SinksBalanced
<1>9. Typed
  BY <1>1, <1>3, IdleIsCall, OnNothingType DEF Typed
<1>10. Calling
  <2>1. graph = NoGraph
    BY DEF Init
  <2> QED BY <1>1, <2>1, NoGraphFacts, IdleIsCall DEF Calling
<1> QED BY <1>1, <1>6, <1>7, <1>8, <1>9, <1>10 DEF ReaderInv

LEMMA NextKeeps ==
  ASSUME ReaderInv, [Next]_vars
  PROVE  ReaderInv'
<1>1. CASE OpenFile
  BY <1>1, OpenFileKeeps
<1>2. CASE CloseFile
  BY <1>2, CloseFileKeeps
<1>3. CASE Activate
  BY <1>3, ActivateKeeps
<1>4. ASSUME NEW s \in Stream, NEW N \in Rooms, AddStream(s, N) PROVE ReaderInv'
  BY <1>4, AddStreamKeeps
<1>5. ASSUME NEW k \in Sink, NEW N \in Rooms, AddSink(k, N) PROVE ReaderInv'
  BY <1>5, AddSinkKeeps
<1>6. ASSUME NEW outs \in SUBSET Sink, SetFilterGraph(outs) PROVE ReaderInv'
  BY <1>6, SetFilterGraphKeeps
<1>7. CASE AtEndOfFile
  BY <1>7, AtEndOfFileKeeps
<1>8. ASSUME NEW b \in Buffer, AtEndOfStream(b) PROVE ReaderInv'
  BY <1>8, AtEndOfStreamKeeps
<1>9. ASSUME NEW b \in Buffer, GetTimeStamp(b) PROVE ReaderInv'
  BY <1>9, GetTimeStampKeeps
<1>10. ASSUME NEW b \in Buffer, NEW getmore \in BOOLEAN, ReadNextFrame(b, getmore)
       PROVE  ReaderInv'
  BY <1>10, ReadNextFrameKeeps
<1>11. ASSUME NEW t \in {Media[k].time : k \in DOMAIN Media}, NEW toExact \in BOOLEAN,
              Seek(t, toExact)
       PROVE  ReaderInv'
  BY <1>11, SeekKeeps
<1>12. CASE SeekThrows
  BY <1>12, SeekThrowsKeeps
<1>13. CASE TakeFrame
  BY <1>13, TakeFrameKeeps
<1>14. CASE NoFrame
  BY <1>14, NoFrameKeeps
<1>15. CASE FillBuffer
  BY <1>15, FillBufferKeeps
<1>16. CASE Land
  BY <1>16, LandKeeps
<1>17. CASE Purge
  BY <1>17, PurgeKeeps
<1>18. CASE UNCHANGED vars
  <2>1. Now' = Now /\ Outputs' = Outputs /\ call' = call /\ said' = said /\ gone' = gone
        /\ due' = due /\ active' = active /\ file' = file /\ graph' = graph /\ bufs' = bufs
    BY <1>18 DEF vars, Now, Outputs, Made
  <2>2. Typed'
    BY <2>1 DEF ReaderInv, Typed
  <2>3. Calling' /\ (Lost' <=> Lost) /\ (Honest' <=> Honest)
    BY <2>1 DEF ReaderInv, Calling, Lost, Honest, Idle, OnNothing, Buffer
  <2>4. Wired(Now)' /\ (Live(Now)' <=> Live(Now)) /\ (Noted(Now)' <=> Noted(Now))
        /\ (Balanced(Now, gone, due)' <=> Balanced(Now, gone, due))
    BY <2>1 DEF ReaderInv
  <2>5. Idle' = Idle
    BY DEF Idle
  <2> QED BY <2>1, <2>2, <2>3, <2>4, <2>5 DEF ReaderInv
<1> QED
  BY <1>1, <1>2, <1>3, <1>4, <1>5, <1>6, <1>7, <1>8, <1>9, <1>10, <1>11, <1>12, <1>13,
     <1>14, <1>15, <1>16, <1>17, <1>18
  DEF Next, GoOn

LEMMA Always == Spec => []ReaderInv
<1>1. ReaderInv /\ [Next]_vars => ReaderInv'
  BY NextKeeps
<1> QED BY <1>1, InitHolds, PTL DEF Spec

LEMMA PartsFit == ReaderInv => TypeOK
<1> SUFFICES ASSUME ReaderInv PROVE TypeOK
  OBVIOUS
<1>1. /\ Now \in State /\ Wired(Now) /\ Now.file = file /\ Now.graph = graph /\ Now.bufs = bufs
      /\ \A b : Exists(Now, b) <=> Made(b)
      /\ call \in Calls
  BY OneReads
<1>2. \A b \in Buffer : Made(b) => QueueTypeOK(bufs[b])
  BY <1>1 DEF Wired
<1>3. \A b \in Outputs : RingContiguous(bufs[b])
  BY <1>1 DEF Wired, Outputs
<1>4. \A s \in Active(file) : file.sink[s] \in {s, In} /\ Made(file.sink[s])
  BY <1>1, SinkOf
<1>5. file.pos \in 1..(Len(Media) + 1)
  BY <1>1, StateFacts
<1>6. /\ active => FileReady(file)
      /\ active /\ graph.parsed /\ call.at # "undefined" => graph.context
      /\ call.at \in {"get", "fill"} => call.buf \in Outputs
  BY <1>1 DEF ReaderInv, Calling, Configured
<1>7. call.at \in {"idle", "get", "fill", "seek", "purge", "stuck", "spin", "undefined"}
  BY <1>1 DEF Calls
<1> QED BY <1>2, <1>3, <1>4, <1>5, <1>6, <1>7 DEF TypeOK

LEMMA AccountsTally == ReaderInv => NothingLost
<1> SUFFICES ASSUME ReaderInv, ~Lost PROVE NothingLost
  BY DEF NothingLost
<1>1. /\ Balanced(Now, gone, due)
      /\ Now.file = file /\ Now.graph = graph /\ Now.bufs = bufs
  BY OneReads
<1>2. ASSUME NEW s \in Active(file),
             {r \in Stream : file.sink[r] = file.sink[s]} = {s},
             file.sink[s] = In => graph.parsed
      PROVE  due[file.sink[s]] =
               Given(file.sink[s]) \o Frames(bufs[file.sink[s]]) \o file.held[s] \o Rest(file, s)
  <2>1. Alone(Now, s)
    BY <1>1, <1>2 DEF Alone
  <2> QED BY <1>1, <2>1 DEF Balanced, StreamsBalanced, Account, Given
<1>3. \A k \in graph.sinks : graph.fed = gone[k] \o Frames(bufs[k]) \o graph.inside
  BY <1>1 DEF Balanced, SinksBalanced
<1> QED BY <1>2, <1>3 DEF NothingLost

LEMMA SaidIsTrue == ReaderInv => EofHonest
<1> SUFFICES ASSUME ReaderInv, \A b \in Outputs : bufs[b].dynamic,
                    NEW s \in said \cap Active(file), file.sink[s] = s
             PROVE  gone[s] = due[s]
  BY DEF EofHonest
<1>1. ~Lost /\ Honest
  BY DEF ReaderInv
<1>2. /\ Now \in State /\ Wired(Now) /\ Balanced(Now, gone, due)
      /\ Now.file = file /\ Now.graph = graph /\ Now.bufs = bufs
      /\ gone \in [Buffer -> Seq(Frame)]
  BY <1>1, OneReads
<1>3. s \in Stream /\ Exists(Now, s) /\ s \in Buffer /\ s # In
  BY <1>2, Names DEF Active, Wired
<1>4. Frames(bufs[s]) = <<>> /\ Done(file, s)
  BY <1>1, <1>3 DEF Honest
<1>5. Rest(file, s) = <<>> /\ file.held[s] = <<>>
  BY <1>3, <1>4, RestAtEnd DEF Done, Rest
<1>6. Alone(Now, s)
  <2>1. \A r \in Stream : file.sink[r] = s => r = s
    BY <1>2, <1>3, Names DEF Wired
  <2> QED BY <1>2, <1>3, <2>1 DEF Alone
<1>7. due[s] = gone[s] \o <<>> \o <<>> \o <<>>
  BY <1>2, <1>3, <1>4, <1>5, <1>6 DEF Balanced, StreamsBalanced, Account
<1>8. gone[s] \in Seq(Frame)
  BY <1>2, <1>3
<1> QED BY <1>7, <1>8, ConcatEmptySeq

-----------------------------------------------------------------------------
(* The times of frames. *)

\* Frames of stream s that come from packet p on, in the order of the file.
Ordered(xs, p, s) ==
  /\ \A i \in 1..Len(xs) : xs[i] >= p /\ Media[xs[i]].stream = s
  /\ \A i, j \in 1..Len(xs) : i <= j => xs[i] <= xs[j]

\* ... and in the order of their times.
Rises(xs) == \A i, j \in 1..Len(xs) : i <= j => Media[xs[i]].time <= Media[xs[j]].time

\* None of the frames after the first n is of before t.
LateFrom(xs, n, t) == \A i \in 1..Len(xs) : i > n => Media[xs[i]].time >= t

\* What stands where in a sequence made of two.
LEMMA Places ==
  ASSUME NEW xs \in Seq(Frame), NEW ys \in Seq(Frame)
  PROVE  LET c == Cat(xs, ys)
         IN /\ c \in Seq(Frame) /\ Len(c) = Len(xs) + Len(ys)
            /\ \A i \in 1..Len(c) : c[i] = IF i <= Len(xs) THEN xs[i] ELSE ys[i - Len(xs)]
<1> DEFINE c == Cat(xs, ys)
<1>1. /\ c \in Seq(Frame) /\ Len(c) = Len(xs) + Len(ys)
      /\ \A i \in 1..(Len(xs) + Len(ys)) : c[i] = IF i <= Len(xs) THEN xs[i] ELSE ys[i - Len(xs)]
  BY ConcatProperties, Zenon DEF Cat
<1> HIDE DEF c
<1>2. \A i \in 1..Len(c) : c[i] = IF i <= Len(xs) THEN xs[i] ELSE ys[i - Len(xs)]
  BY <1>1
<1> QED BY <1>1, <1>2 DEF c

LEMMA OrderedHead ==
  ASSUME NEW p \in 1..Len(Media), NEW xs \in Seq(Frame), Ordered(xs, p + 1, Media[p].stream)
  PROVE  Ordered(Cat(<<p>>, xs), p, Media[p].stream)
<1> DEFINE one == <<p>>
           c == Cat(one, xs)
           s == Media[p].stream
<1>1. p \in Frame /\ p \in Nat /\ one \in Seq(Frame) /\ Len(one) = 1 /\ one[1] = p
      /\ \A x \in Frame : x \in Nat
  BY MediaFacts
<1>2. Len(xs) \in Nat /\ \A i \in 1..Len(xs) : xs[i] \in Nat
  BY <1>1, LenProperties, ElementOfSeq
<1> HIDE DEF one
<1>3. /\ Len(c) = Len(one) + Len(xs)
      /\ \A i \in 1..Len(c) : c[i] = IF i <= Len(one) THEN one[i] ELSE xs[i - Len(one)]
  BY <1>1, Places
<1> HIDE DEF c, s
<1>4. /\ Len(c) = 1 + Len(xs)
      /\ \A i \in 1..Len(c) : c[i] = IF i <= 1 THEN one[i] ELSE xs[i - 1]
  BY <1>3, <1>1
<1>5. /\ \A i \in 1..Len(xs) : xs[i] >= p + 1 /\ Media[xs[i]].stream = s
      /\ \A i, j \in 1..Len(xs) : i <= j => xs[i] <= xs[j]
  BY DEF Ordered, s
<1>6. c[1] = p
  BY <1>1, <1>2, <1>4
<1>7. \A i \in 1..Len(c) : i # 1 => i - 1 \in 1..Len(xs) /\ c[i] = xs[i - 1]
  BY <1>2, <1>4
<1>8. \A i \in 1..Len(c) : c[i] >= p /\ Media[c[i]].stream = s
  <2> TAKE i \in 1..Len(c)
  <2>1. CASE i = 1
    BY <2>1, <1>1, <1>6 DEF s
  <2>2. CASE i # 1
    <3>1. i - 1 \in 1..Len(xs) /\ c[i] = xs[i - 1]
      BY <2>2, <1>7
    <3>2. xs[i - 1] >= p + 1 /\ Media[xs[i - 1]].stream = s /\ xs[i - 1] \in Nat
      BY <3>1, <1>2, <1>5
    <3> QED BY <3>1, <3>2, <1>1
  <2> QED BY <2>1, <2>2
<1>9. \A i, j \in 1..Len(c) : i <= j => c[i] <= c[j]
  <2> SUFFICES ASSUME NEW i \in 1..Len(c), NEW j \in 1..Len(c), i <= j PROVE c[i] <= c[j]
    OBVIOUS
  <2>1. CASE i = 1
    <3>1. c[j] >= p /\ c[j] \in Nat
      BY <1>1, <1>2, <1>6, <1>7, <1>8
    <3> QED BY <2>1, <3>1, <1>1, <1>6
  <2>2. CASE i # 1
    <3>1. j # 1
      BY <2>2
    <3>2. i - 1 \in 1..Len(xs) /\ j - 1 \in 1..Len(xs) /\ c[i] = xs[i - 1] /\ c[j] = xs[j - 1]
      BY <2>2, <3>1, <1>7
    <3>3. i - 1 <= j - 1
      BY <1>2, <1>4
    <3> QED BY <3>2, <3>3, <1>5
  <2> QED BY <2>1, <2>2
<1> QED BY <1>8, <1>9 DEF Ordered, c, one, s

LEMMA OrderedOn ==
  ASSUME NEW p \in Nat, NEW s, NEW xs \in Seq(Frame), Ordered(xs, p + 1, s)
  PROVE  Ordered(xs, p, s)
<1>1. \A i \in 1..Len(xs) : xs[i] \in Nat
  BY MediaFacts, ElementOfSeq
<1>2. \A i \in 1..Len(xs) : xs[i] >= p
  <2> TAKE i \in 1..Len(xs)
  <2>1. xs[i] >= p + 1 /\ xs[i] \in Nat
    BY <1>1 DEF Ordered
  <2> QED BY <2>1
<1> QED BY <1>2 DEF Ordered

\* The frames of a stream that are still to be read are in order.
LEMMA RestOrdered ==
  ASSUME NEW s \in Stream, NEW p \in 1..(Len(Media) + 1)
  PROVE  Ordered(RestFrom[p][s], p, s)
<1> DEFINE L == Len(Media)
           T == {n \in 0..L : Ordered(RestFrom[L + 1 - n][s], L + 1 - n, s)}
<1>1. L \in Nat
  BY MediaFacts
<1>2. 0 \in T
  <2>1. RestFrom[L + 1][s] = <<>> /\ L + 1 - 0 = L + 1
    BY <1>1, RestAtEnd
  <2>2. Ordered(<<>>, L + 1, s)
    BY DEF Ordered
  <2>3. Ordered(RestFrom[L + 1 - 0][s], L + 1 - 0, s)
    BY <2>1, <2>2
  <2> QED BY <1>1, <2>3
<1>3. ASSUME NEW n \in 1..L, n - 1 \in T PROVE n \in T
  <2> DEFINE k == L + 1 - n
             xs == RestFrom[k + 1][s]
  <2>1. k \in 1..L /\ k \in Nat /\ L + 1 - (n - 1) = k + 1 /\ k + 1 \in 1..(L + 1)
    BY <1>1
  <2>2. Ordered(xs, k + 1, s)
    BY <1>3, <2>1
  <2> HIDE DEF k
  <2>3. xs \in Seq(Frame)
    BY <2>1, RestType
  <2>4. RestFrom[k][s] = IF Media[k].intact /\ Media[k].stream = s THEN <<k>> \o xs ELSE xs
    BY <2>1, RestAtPacket
  <2> HIDE DEF xs
  <2>5. CASE Media[k].intact /\ Media[k].stream = s
    <3>1. Ordered(Cat(<<k>>, xs), k, s)
      BY <2>1, <2>2, <2>3, <2>5, OrderedHead
    <3>2. Ordered(RestFrom[k][s], k, s)
      BY <3>1, <2>4, <2>5 DEF Cat
    <3> QED BY <3>2 DEF k
  <2>6. CASE ~(Media[k].intact /\ Media[k].stream = s)
    <3>1. Ordered(xs, k, s)
      BY <2>1, <2>2, <2>3, OrderedOn
    <3>2. Ordered(RestFrom[k][s], k, s)
      BY <3>1, <2>4, <2>6
    <3> QED BY <3>2 DEF k
  <2> QED BY <2>5, <2>6
<1> HIDE DEF T
<1>4. \A n \in 0..L : n \in T
  BY <1>1, <1>2, <1>3, UpTo
<1>5. L + 1 - p \in 0..L /\ L + 1 - (L + 1 - p) = p
  BY <1>1
<1>6. L + 1 - p \in T
  BY <1>4, <1>5
<1> QED BY <1>5, <1>6 DEF T

LEMMA RestRises ==
  ASSUME NEW s \in Stream, NEW p \in 1..(Len(Media) + 1)
  PROVE  Rises(RestFrom[p][s])
<1> DEFINE xs == RestFrom[p][s]
<1>1. Ordered(xs, p, s) /\ xs \in Seq(Frame)
  BY RestOrdered, RestType
<1> HIDE DEF xs
<1>2. \A i \in 1..Len(xs) : xs[i] \in DOMAIN Media
  BY <1>1, MediaFacts, ElementOfSeq
<1>3. \A i, j \in 1..Len(xs) : i <= j =>
        xs[i] <= xs[j] /\ Media[xs[i]].stream = Media[xs[j]].stream
  BY <1>1 DEF Ordered
<1>4. \A i, j \in 1..Len(xs) : i <= j => Media[xs[i]].time <= Media[xs[j]].time
  BY <1>2, <1>3, TimesAssumption
<1> QED BY <1>4 DEF Rises, xs

\* What stands between two other parts of a sequence.
LEMMA InTheMiddle ==
  ASSUME NEW G \in Seq(Frame), NEW F \in Seq(Frame), NEW C \in Seq(Frame)
  PROVE  LET xs == Cat(Cat(G, F), C)
         IN /\ Len(G) \in Nat /\ Len(F) \in Nat /\ Len(xs) \in Nat
            /\ Len(xs) = Len(G) + Len(F) + Len(C)
            /\ \A i \in 1..Len(F) : Len(G) + i \in 1..Len(xs) /\ xs[Len(G) + i] = F[i]
<1> DEFINE g == Len(G)
           f == Len(F)
           c == Len(C)
           m == Cat(G, F)
           xs == Cat(m, C)
<1>1. g \in Nat /\ f \in Nat /\ c \in Nat
  BY LenProperties
<1>2. /\ m \in Seq(Frame) /\ Len(m) = g + f
      /\ \A i \in 1..Len(m) : m[i] = IF i <= g THEN G[i] ELSE F[i - g]
  BY Places
<1> HIDE DEF m
<1>3. /\ xs \in Seq(Frame) /\ Len(xs) = Len(m) + c
      /\ \A i \in 1..Len(xs) : xs[i] = IF i <= Len(m) THEN m[i] ELSE C[i - Len(m)]
  BY <1>2, Places
<1> HIDE DEF xs, g, f, c
<1>4. ASSUME NEW i \in 1..f PROVE g + i \in 1..Len(xs) /\ xs[g + i] = F[i]
  <2>1. g + i \in 1..Len(m) /\ g + i \in 1..Len(xs) /\ ~(g + i <= g) /\ (g + i) - g = i
    BY <1>1, <1>2, <1>3
  <2>2. g + i <= Len(m)
    BY <2>1, <1>1, <1>2
  <2>3. m[g + i] = F[i]
    BY <2>1, <1>2
  <2> QED BY <2>1, <2>2, <2>3, <1>3
<1>5. Len(xs) \in Nat /\ Len(xs) = g + f + c
  BY <1>1, <1>2, <1>3
<1> QED BY <1>1, <1>4, <1>5 DEF xs, m, g, f, c

-----------------------------------------------------------------------------
(* The buffers of outputs of a graph that is gone. *)

\* Nothing is in them: a graph goes only before it is activated, or when the file is
\* closed, and then its buffers go too.
Abandoned ==
  /\ ~active => \A k \in Sink : Made(k) => Frames(bufs[k]) = <<>>
  /\ \A k \in Orphans : Frames(bufs[k]) = <<>>
  /\ active /\ graph.parsed => Orphans = {}
  /\ graph.parsed => \E s \in Stream : file.sink[s] = In

\* The next state has the buffers and the connections of this one, and where there
\* is no graph nothing comes to the buffer of an output.
Steady ==
  /\ active' = active
  /\ file'.sink = file.sink
  /\ graph'.parsed = graph.parsed /\ graph'.sinks = graph.sinks
  /\ \A b \in Buffer : /\ bufs'[b] # NoBuffer <=> Made(b)
                       /\ Made(b) => bufs'[b].dynamic = bufs[b].dynamic
  /\ ~graph.parsed =>
       \A k \in Sink : Made(k) /\ Frames(bufs[k]) = <<>> => Frames(bufs'[k]) = <<>>

LEMMA SteadyOutputs ==
  ASSUME Steady
  PROVE  Outputs' = Outputs /\ Orphans' = Orphans
<1>1. \A b \in Stream \cup Sink : bufs'[b] # NoBuffer <=> Made(b)
  BY Names DEF Steady
<1>2. Outputs' = Outputs
  BY <1>1 DEF Outputs, Made
<1>3. graph'.sinks = graph.sinks
  BY DEF Steady
<1>4. Orphans' = Orphans
  BY <1>1, <1>3 DEF Orphans, Made
<1> QED BY <1>2, <1>4

LEMMA SteadyAbandoned ==
  ASSUME active, Abandoned, Steady
  PROVE  Abandoned'
<1>1. Orphans' = Orphans /\ active' /\ graph'.parsed = graph.parsed
  BY SteadyOutputs DEF Steady
<1>2. graph.parsed => Orphans = {}
  BY DEF Abandoned
<1>3. \A k \in Orphans : Frames(bufs'[k]) = <<>>
  BY <1>2 DEF Abandoned, Steady, Orphans
<1>4. graph'.parsed => \E s \in Stream : file'.sink[s] = In
  BY DEF Abandoned, Steady
<1> QED BY <1>1, <1>2, <1>3, <1>4 DEF Abandoned

\* A read does not touch them.
LEMMA ReadsAlone ==
  ASSUME ReaderInv, active, ~Lost, Live(Now), ~graph.parsed,
         NEW m, m = Now \/ m = ReadPacket(Now) \/ m = ReadIfReady(Now) \/ m = Probed(Now)
  PROVE  SinksAlone(Now, m)
<1> DEFINE n == ReadNextPacket(Now)
<1>1. /\ Now \in State /\ Wired(Now) /\ Now.how = "ok" /\ Now.graph = graph
      /\ gone \in [Buffer -> Seq(Frame)] /\ Balanced(Now, gone, due)
  BY OneReads
<1>2. n.graph = graph /\ SinksAlone(Now, n)
  BY <1>1, PacketReads
<1>3. ReadPacket(Now) = n
  BY <1>2 DEF ReadPacket
<1>4. SinksAlone(Now, ReadPacket(Now)) /\ SinksAlone(Now, Now)
  BY <1>2, <1>3 DEF SinksAlone
<1>5. m = Now \/ m = ReadPacket(Now)
  BY DEF ReadIfReady, Probed
<1> QED BY <1>4, <1>5

\* The parts of m are those of the reader in its next state.
LEMMA SteadyParts ==
  ASSUME ReaderInv, active' = active, NEW m, Same(Now, m),
         file' = m.file, graph' = m.graph, bufs' = m.bufs,
         ~graph.parsed =>
           \A k \in Sink : Made(k) /\ Frames(bufs[k]) = <<>> => Frames(m.bufs[k]) = <<>>
  PROVE  Steady
<1>1. Now.file = file /\ Now.graph = graph /\ Now.bufs = bufs /\ \A b : Exists(Now, b) <=> Made(b)
  BY OneReads
<1>2. \A b \in Buffer : /\ bufs'[b] # NoBuffer <=> Made(b)
                        /\ Made(b) => bufs'[b].dynamic = bufs[b].dynamic
  BY <1>1 DEF Same, Exists
<1> QED BY <1>1, <1>2 DEF Steady, Same

LEMMA ReadingSteady ==
  ASSUME ReaderInv, active, ~Lost, active' = active, NEW m,
         m = Now \/ (Live(Now) /\ (m = ReadPacket(Now) \/ m = ReadIfReady(Now) \/ m = Probed(Now))),
         file' = m.file, graph' = m.graph, bufs' = m.bufs
  PROVE  Steady
<1>1. Now.bufs = bufs
  BY OneReads
<1>2. CASE m = Now
  <2>1. Same(Now, m) /\ SinksAlone(Now, m)
    BY <1>2, SameSelf DEF SinksAlone
  <2> QED BY <1>1, <2>1, SteadyParts DEF SinksAlone
<1>3. CASE Live(Now) /\ (m = ReadPacket(Now) \/ m = ReadIfReady(Now) \/ m = Probed(Now))
  <2>1. Same(Now, m)
    BY <1>3, ReadingLeads DEF Leads
  <2>2. ~graph.parsed => SinksAlone(Now, m)
    BY <1>3, ReadsAlone
  <2> QED BY <1>1, <2>1, <2>2, SteadyParts DEF SinksAlone
<1> QED BY <1>2, <1>3

\* An output with no frame has none when one is popped.
LEMMA PopNone ==
  ASSUME NEW q, QueueOK(q), ReadyToPop(q), Frames(q) = <<>>
  PROVE  Frames(Pop(q)) = <<>>
<1>1. CASE Oldest(q) = Null
  BY <1>1, PopEof
<1>2. CASE Oldest(q) # Null
  <2> DEFINE X == <<Oldest(q)>>
             F == Frames(Pop(q))
  <2>1. Oldest(q) \in Frame /\ Frames(q) = Cat(X, F) /\ QueueOK(Pop(q))
    BY <1>2, PopFrame DEF Cat
  <2>2. X \in Seq(Frame) /\ Len(X) = 1 /\ F \in Seq(Frame)
    BY <2>1, FramesType DEF QueueOK
  <2> HIDE DEF X, F
  <2>3. Len(Cat(X, F)) = Len(X) + Len(F) /\ Len(F) \in Nat
    BY <2>2, Places, LenProperties
  <2>4. Len(<<>>) = 0
    OBVIOUS
  <2> QED BY <2>1, <2>2, <2>3, <2>4
<1> QED BY <1>1, <1>2

\* Neither does a frame that is given away.
LEMMA PoppedSteady ==
  ASSUME ReaderInv, active, active' = active, NEW m \in State, Wired(m), Live(m), Same(Now, m),
         ~graph.parsed => SinksAlone(Now, m),
         NEW b \in Stream \cup Sink, Exists(m, b), ReadyToPop(m.bufs[b]),
         file' = m.file, graph' = m.graph, bufs' = [m.bufs EXCEPT ![b] = Pop(@)]
  PROVE  Steady
<1>1. Now.bufs = bufs /\ \A c : Exists(Now, c) <=> Made(c)
  BY OneReads
<1>2. /\ b \in Buffer /\ b # In /\ QueueOK(m.bufs[b])
      /\ m.bufs \in [Buffer -> Queue \cup {NoBuffer}]
  BY Names, StateFacts DEF Live, LiveBut, Settled
<1>3. Pop(m.bufs[b]).dynamic = m.bufs[b].dynamic /\ QueueOK(Pop(m.bufs[b]))
  BY <1>2, PopRing, PopOK DEF QueueOK
<1>4. Pop(m.bufs[b]) # NoBuffer
  BY <1>3, Names DEF QueueOK, QueueTypeOK
<1>5. \A c \in Buffer : bufs'[c] = IF c = b THEN Pop(m.bufs[b]) ELSE m.bufs[c]
  BY <1>2
<1>6. \A c \in Buffer : /\ bufs'[c] # NoBuffer <=> Made(c)
                        /\ Made(c) => bufs'[c].dynamic = bufs[c].dynamic
  BY <1>1, <1>3, <1>4, <1>5 DEF Same, Exists
<1>7. ASSUME ~graph.parsed, NEW k \in Sink, Made(k), Frames(bufs[k]) = <<>>
      PROVE  Frames(bufs'[k]) = <<>>
  <2>1. k \in Buffer /\ m.bufs[k] = bufs[k]
    BY <1>1, <1>7, Names DEF SinksAlone
  <2>2. CASE k = b
    BY <2>1, <2>2, <1>2, <1>5, <1>7, PopNone
  <2>3. CASE k # b
    BY <2>1, <2>3, <1>5, <1>7
  <2> QED BY <2>2, <2>3
<1>8. Now.file = file /\ Now.graph = graph
  BY OneReads
<1> QED BY <1>6, <1>7, <1>8 DEF Steady, Same

-----------------------------------------------------------------------------
(* Where the frames of an output are among those that were due. *)

\* All that is left of xs is late enough if its oldest frame is, or if nothing is.
LEMMA OldestIsLate ==
  ASSUME NEW G \in Seq(Frame), NEW F \in Seq(Frame), NEW C \in Seq(Frame),
         Rises(Cat(Cat(G, F), C)), Len(F) > 0, NEW t \in Nat, Media[F[1]].time >= t
  PROVE  LateFrom(Cat(Cat(G, F), C), Len(G), t)
<1> DEFINE xs == Cat(Cat(G, F), C)
           g == Len(G)
<1>1. /\ g \in Nat /\ Len(F) \in Nat /\ Len(xs) \in Nat
      /\ \A i \in 1..Len(F) : g + i \in 1..Len(xs) /\ xs[g + i] = F[i]
  BY InTheMiddle
<1>2. xs \in Seq(Frame)
  BY Associative
<1>3. \A i \in 1..Len(xs) : Media[xs[i]].time \in Nat
  BY <1>2, MediaFacts, ElementOfSeq
<1>4. Rises(xs)
  OBVIOUS
<1> HIDE DEF xs, g
<1>5. 1 \in 1..Len(F) /\ g + 1 \in 1..Len(xs) /\ Media[xs[g + 1]].time >= t
  BY <1>1
<1>6. ASSUME NEW i \in 1..Len(xs), i > g PROVE Media[xs[i]].time >= t
  <2>1. g + 1 <= i
    BY <1>1, <1>6
  <2>2. Media[xs[g + 1]].time <= Media[xs[i]].time
    BY <1>4, <1>5, <2>1 DEF Rises
  <2> QED BY <1>3, <1>5, <2>2
<1> QED BY <1>6 DEF LateFrom, xs, g

LEMMA NothingIsLate ==
  ASSUME NEW G \in Seq(Frame), NEW F \in Seq(Frame), F = <<>>, NEW C \in Seq(Frame), C = <<>>, NEW t
  PROVE  LateFrom(Cat(Cat(G, F), C), Len(G), t)
<1> DEFINE xs == Cat(Cat(G, F), C)
<1>1. Len(xs) = Len(G) + Len(F) + Len(C) /\ Len(G) \in Nat
  BY InTheMiddle
<1>2. Len(F) = 0 /\ Len(C) = 0
  OBVIOUS
<1> HIDE DEF xs
<1>3. \A i \in 1..Len(xs) : ~(i > Len(G))
  BY <1>1, <1>2
<1> QED BY <1>3 DEF LateFrom, xs

LEMMA AllAreLate ==
  ASSUME NEW G \in Seq(Frame), NEW F \in Seq(Frame), NEW C \in Seq(Frame), NEW t,
         LateFrom(Cat(Cat(G, F), C), Len(G), t)
  PROVE  \A i \in 1..Len(F) : Media[F[i]].time >= t
<1> DEFINE xs == Cat(Cat(G, F), C)
           g == Len(G)
<1>1. /\ g \in Nat /\ Len(F) \in Nat /\ Len(xs) \in Nat
      /\ \A i \in 1..Len(F) : g + i \in 1..Len(xs) /\ xs[g + i] = F[i]
  BY InTheMiddle
<1>2. \A i \in 1..Len(xs) : i > g => Media[xs[i]].time >= t
  BY DEF LateFrom
<1> HIDE DEF xs, g
<1> QED BY <1>1, <1>2

LEMMA RegroupFive ==
  ASSUME NEW C \in Seq(Frame), NEW I \in Seq(Frame), NEW fs \in Seq(Frame),
         NEW H \in Seq(Frame), NEW R \in Seq(Frame)
  PROVE  /\ Cat(Cat(Cat(Cat(C, I), fs), H), R) = Cat(C, Cat(Cat(Cat(I, fs), H), R))
         /\ Cat(Cat(Cat(I, fs), H), R) \in Seq(Frame)
<1>1. Cat(Cat(C, I), fs) = Cat(C, Cat(I, fs)) /\ Cat(I, fs) \in Seq(Frame)
  BY Associative
<1>2. Cat(Cat(Cat(C, Cat(I, fs)), H), R) = Cat(C, Cat(Cat(Cat(I, fs), H), R))
  BY <1>1, Regroup
<1>3. Cat(Cat(I, fs), H) \in Seq(Frame)
  BY <1>1, Associative
<1>4. Cat(Cat(Cat(I, fs), H), R) \in Seq(Frame)
  BY <1>3, Associative
<1> QED BY <1>1, <1>2, <1>4

\* Stream s feeds output b, and no other does.
FedBy(m, b, s) == {r \in Stream : m.file.sink[r] = Source(b)} = {s}

\* What was due where the frames of output b come from is what b gave away, what is
\* in it, and more to come, unless b is a stream that is done.
Tallies(m, b, got, owed) ==
  /\ got[b] \in Seq(Frame) /\ Frames(m.bufs[b]) \in Seq(Frame)
  /\ \E c \in Seq(Frame) :
       /\ owed[Source(b)] = Cat(Cat(got[b], Frames(m.bufs[b])), c)
       /\ b \in Stream /\ Done(m.file, b) => c = <<>>

LEMMA Placed ==
  ASSUME NEW m \in State, Wired(m), NEW got \in [Buffer -> Seq(Frame)], NEW owed,
         Balanced(m, got, owed),
         NEW b \in Stream \cup Sink, Exists(m, b), b \in Sink => b \in m.graph.sinks,
         NEW s \in Stream, FedBy(m, b, s)
  PROVE  Tallies(m, b, got, owed)
<1> DEFINE G == got[b]
           F == Frames(m.bufs[b])
           H == m.file.held[s]
           R == Rest(m.file, s)
<1>1. b \in Buffer /\ G \in Seq(Frame) /\ H \in Seq(Frame) /\ R \in Seq(Frame)
  BY Names, StateFacts
<1>2. F \in Seq(Frame)
  BY <1>1, FramesType DEF Wired
<1>3. CASE b \in Stream
  <2>1. b \notin Sink /\ b # In /\ b # NoBuffer /\ Source(b) = b /\ m.file.sink[b] = b
    BY <1>3, Names DEF Source, Wired
  <2>2. s = b
    BY <1>3, <2>1 DEF FedBy
  <2>3. s \in Active(m.file) /\ Alone(m, s)
    BY <2>1, <2>2 DEF Active, Alone, FedBy
  <2>4. owed[b] = Account(m, s, got)
    BY <2>1, <2>2, <2>3 DEF Balanced, StreamsBalanced
  <2>5. Account(m, s, got) = G \o F \o H \o R
    BY <2>1, <2>2 DEF Account
  <2>6. G \o F \o H \o R = Cat(Cat(Cat(G, F), H), R)
    BY DEF Cat
  <2>7. Done(m.file, b) => H = <<>> /\ R = <<>>
    BY <1>3, <2>2, RestAtEnd DEF Done, Rest
  <2> HIDE DEF G, F, H, R
  <2> DEFINE c == Cat(H, R)
  <2>8. Cat(Cat(Cat(G, F), H), R) = Cat(Cat(G, F), c) /\ c \in Seq(Frame)
    <3>1. Cat(G, F) \in Seq(Frame)
      BY <1>1, <1>2, Associative
    <3> QED BY <1>1, <3>1, Associative
  <2>9. Done(m.file, b) => c = <<>>
    BY <2>7, ConcatEmptySeq DEF Cat
  <2>10. owed[Source(b)] = Cat(Cat(G, F), c)
    BY <2>1, <2>4, <2>5, <2>6, <2>8
  <2> HIDE DEF c
  <2> QED BY <1>1, <1>2, <2>8, <2>9, <2>10 DEF G, F, Tallies
<1>4. CASE b \notin Stream
  <2>1. b \in Sink /\ Source(b) = In /\ b \in m.graph.sinks
    BY <1>4 DEF Source
  <2>2. m.graph.parsed
    BY <2>1, NoGraphFacts DEF Wired
  <2>3. m.file.sink[s] = In /\ In # NoBuffer
    BY <2>1, Names DEF FedBy
  <2>4. s \in Active(m.file) /\ Alone(m, s)
    BY <2>1, <2>2, <2>3 DEF Active, Alone, FedBy
  <2> DEFINE I == m.graph.inside
             fs == Frames(m.bufs[In])
             fed == m.graph.fed
  <2>5. owed[In] = Account(m, s, got)
    BY <2>3, <2>4 DEF Balanced, StreamsBalanced
  <2>6. Account(m, s, got) = fed \o fs \o H \o R
    BY <2>3 DEF Account
  <2>7. fed = G \o F \o I
    BY <2>1 DEF Balanced, SinksBalanced
  <2>8. fed \o fs \o H \o R = Cat(Cat(Cat(Cat(Cat(G, F), I), fs), H), R)
    BY <2>7 DEF Cat
  <2>9. I \in Seq(Frame)
    BY StateFacts
  <2>10. fs \in Seq(Frame)
    BY <2>2, Names, FramesType DEF Wired
  <2> HIDE DEF G, F, H, R, I, fs, fed
  <2> DEFINE c == Cat(Cat(Cat(I, fs), H), R)
  <2>11. Cat(Cat(Cat(Cat(Cat(G, F), I), fs), H), R) = Cat(Cat(G, F), c) /\ c \in Seq(Frame)
    <3>1. Cat(G, F) \in Seq(Frame)
      BY <1>1, <1>2, Associative
    <3> QED BY <1>1, <2>9, <2>10, <3>1, RegroupFive
  <2>12. owed[Source(b)] = Cat(Cat(G, F), c)
    BY <2>1, <2>5, <2>6, <2>8, <2>11
  <2> HIDE DEF c
  <2> QED BY <1>1, <1>2, <1>4, <2>11, <2>12 DEF G, F, Tallies
<1> QED BY <1>3, <1>4

-----------------------------------------------------------------------------
(* Exact searches. *)

Single(b) == \A r, s \in Feeders(b) : r = s

\* Before the search the decoders hold what is due and the file has the rest of
\* it; after one that was exact, what was due is in the order of the times, and what
\* each output has not given away of it is of the time of the search or later.
Exacting ==
  /\ exact \in Nat
  /\ ~active => exact = 0
  /\ call.at = "seek" => exact = 0 /\ due = [b \in Buffer |-> Expected(Now, b)]
  /\ exact # 0 =>
       /\ \A b \in Outputs : bufs[b].dynamic
       /\ \A b \in Outputs : Rises(due[Source(b)])
       /\ call.at = "purge" => exact = call.time
       /\ call.at # "purge" /\ ~Lost =>
            \A b \in Outputs \ Orphans : Single(b) => LateFrom(due[Source(b)], Len(gone[b]), exact)

\* An output that is fed by one stream at most is fed by one.
LEMMA OneFeeder ==
  ASSUME ReaderInv, Abandoned, NEW b \in Outputs \ Orphans, Single(b)
  PROVE  /\ b \in Stream \cup Sink /\ Made(b) /\ (b \in Sink => b \in graph.sinks)
         /\ \E s \in Stream : Feeders(b) = {s}
<1>1. b \in Stream \cup Sink /\ Made(b) /\ (b \in Sink => b \in graph.sinks)
  BY DEF Outputs, Orphans
<1>2. Wired(Now) /\ Now.file = file /\ Now.graph = graph /\ \A c : Exists(Now, c) <=> Made(c)
  BY OneReads
<1>3. \E s \in Stream : file.sink[s] = Source(b)
  <2>1. CASE b \in Stream
    <3>1. b \notin Sink /\ file.sink[b] = b
      BY <1>1, <1>2, <2>1, Names DEF Wired
    <3> QED BY <2>1, <3>1 DEF Source
  <2>2. CASE b \notin Stream
    <3>1. b \in Sink /\ graph.parsed
      BY <1>1, <1>2, <2>2, NoGraphFacts DEF Wired
    <3> QED BY <3>1 DEF Abandoned, Source
  <2> QED BY <2>1, <2>2
<1>4. PICK s \in Stream : s \in Feeders(b)
  BY <1>3 DEF Feeders
<1>5. Feeders(b) = {s} 
  BY <1>4 DEF Single, Feeders
<1> QED BY <1>1, <1>5

\* The next state is such a state, if ...
LEMMA ExactNext ==
  ASSUME active, Steady, due' = due, exact' \in Nat, call'.at # "seek",
         exact' # 0 =>
           /\ \A b \in Outputs : bufs[b].dynamic
           /\ \A b \in Outputs : Rises(due[Source(b)])
           /\ call'.at = "purge" => exact' = call'.time
           /\ call'.at # "purge" /\ ~Lost' =>
                \A b \in Outputs \ Orphans :
                  Single(b) => LateFrom(due[Source(b)], Len(gone'[b]), exact')
  PROVE  Exacting'
<1>1. Outputs' = Outputs /\ Orphans' = Orphans /\ active' /\ file'.sink = file.sink
  BY SteadyOutputs DEF Steady
<1>2. \A b : Single(b)' <=> Single(b)
  BY <1>1 DEF Single, Feeders
<1>3. \A b \in Outputs : b \in Buffer /\ Made(b)
  BY Names DEF Outputs
<1>4. \A b \in Outputs : bufs'[b].dynamic = bufs[b].dynamic
  BY <1>3 DEF Steady
<1>5. exact' # 0 => \A b \in Outputs' : bufs'[b].dynamic
  BY <1>1, <1>4
<1>6. exact' # 0 => \A b \in Outputs' : Rises(due'[Source(b)])
  BY <1>1, <1>2
<1>7. exact' # 0 /\ call'.at # "purge" /\ ~Lost' =>
        \A b \in Outputs' \ Orphans' :
          Single(b)' => LateFrom(due'[Source(b)], Len(gone'[b]), exact')
  BY <1>1, <1>2
<1> QED BY <1>1, <1>5, <1>6, <1>7 DEF Exacting

\* A step of a call that does not seek.
LEMMA Onward ==
  ASSUME ReaderInv, Exacting, active, Steady, due' = due, exact' = exact,
         gone' \in [Buffer -> Seq(Frame)], \A b \in Outputs : Len(gone'[b]) >= Len(gone[b]),
         call'.at # "seek", call'.at = "purge" => call.at = "purge" /\ call'.time = call.time,
         ~Lost' => ~Lost /\ (call.at = "purge" => call'.at = "purge")
  PROVE  Exacting'
<1>1. gone \in [Buffer -> Seq(Frame)] /\ due \in [Buffer -> Seq(Frame)]
  BY OneReads
<1>2. \A b \in Outputs : Len(gone[b]) \in Nat /\ Len(gone'[b]) \in Nat
  <2>1. \A b \in Outputs : b \in Buffer
    BY Names DEF Outputs
  <2>2. \A b \in Outputs : gone[b] \in Seq(Frame) /\ gone'[b] \in Seq(Frame)
    BY <1>1, <2>1
  <2> QED BY <2>2, LenProperties
<1>3. ASSUME exact # 0, call.at # "purge", ~Lost, NEW b \in Outputs \ Orphans, Single(b)
      PROVE  LateFrom(due[Source(b)], Len(gone'[b]), exact)
  <2>1. LateFrom(due[Source(b)], Len(gone[b]), exact)
    BY <1>3 DEF Exacting
  <2> DEFINE xs == due[Source(b)]
             n == Len(gone[b])
             k == Len(gone'[b])
  <2>2. n \in Nat /\ k \in Nat /\ k >= n
    BY <1>2
  <2>3. \A i \in 1..Len(xs) : i > n => Media[xs[i]].time >= exact
    BY <2>1 DEF LateFrom
  <2> HIDE DEF xs, n, k
  <2>4. \A i \in 1..Len(xs) : i > k => i > n
    BY <2>2
  <2>5. LateFrom(xs, k, exact)
    BY <2>3, <2>4 DEF LateFrom
  <2> QED BY <2>5 DEF xs, k
<1>4. exact \in Nat
  BY DEF Exacting
<1>5. exact' # 0 =>
        /\ \A b \in Outputs : bufs[b].dynamic
        /\ \A b \in Outputs : Rises(due[Source(b)])
        /\ call'.at = "purge" => exact' = call'.time
  BY DEF Exacting
<1>6. exact' # 0 /\ call'.at # "purge" /\ ~Lost' =>
        \A b \in Outputs \ Orphans : Single(b) => LateFrom(due[Source(b)], Len(gone'[b]), exact')
  BY <1>3
<1> QED BY <1>4, <1>5, <1>6, ExactNext

LEMMA Inexact ==
  ASSUME exact' = 0, call'.at # "seek"
  PROVE  Exacting'
BY DEF Exacting


\* A call that reads and answers.
LEMMA TellingExact ==
  ASSUME ReaderInv, Abandoned, Exacting, active, ~Lost, call.at \notin {"seek", "purge"},
         NEW m, NEW next, NEW told,
         m = Now \/ (Live(Now) /\ (m = ReadPacket(Now) \/ m = ReadIfReady(Now) \/ m = Probed(Now))),
         next \in Calls, next.at \in {"idle", "get", "fill"},
         Telling(m, next, told)
  PROVE  Abandoned' /\ Exacting'
<1>1. /\ Continue(m, next) /\ active' = active /\ gone' = gone /\ due' = due /\ exact' = exact
  BY DEF Telling
<1>2. file' = m.file /\ graph' = m.graph /\ bufs' = m.bufs
  BY <1>1 DEF Continue
<1>3. Steady
  BY <1>1, <1>2, ReadingSteady
<1>4. m \in State
  BY CallReads
<1>5. call'.at \notin {"seek", "purge"}
  <2>1. CASE m.how = "ok"
    BY <1>1, <2>1 DEF Continue
  <2>2. CASE m.how = "throw"
    BY <1>1, <2>2, IdleIsCall DEF Continue
  <2>3. CASE m.how \notin {"ok", "throw"}
    <3>1. call' = [next EXCEPT !.at = m.how] /\ m.how \in {"stuck", "spin", "undefined"}
      BY <1>1, <1>4, <2>3 DEF Continue, State
    <3>2. call'.at = m.how
      BY <3>1 DEF Calls
    <3> QED BY <3>1, <3>2
  <2> QED BY <2>1, <2>2, <2>3
<1>6. gone' \in [Buffer -> Seq(Frame)] /\ \A b \in Outputs : Len(gone'[b]) >= Len(gone[b])
  <2>1. gone \in [Buffer -> Seq(Frame)] /\ \A b \in Outputs : b \in Buffer
    BY OneReads, Names DEF Outputs
  <2>2. \A b \in Outputs : Len(gone[b]) \in Nat
    BY <2>1, LenProperties
  <2> QED BY <1>1, <2>1, <2>2
<1>7. Exacting'
  BY <1>1, <1>3, <1>5, <1>6, Onward
<1> QED BY <1>3, <1>7, SteadyAbandoned

LEMMA AtEndOfFileExact ==
  ASSUME ReaderInv, Abandoned, Exacting, AtEndOfFile
  PROVE  Abandoned' /\ Exacting'
<1> DEFINE m == Probed(Now)
           told == IF AllEof(m) THEN Outputs ELSE {}
<1>1. active /\ call = Idle /\ ~Lost /\ Telling(m, Idle, told)
  BY OneReads DEF AtEndOfFile, Reading
<1>2. m = Now \/ Live(Now)
  BY <1>1, OneReads, NotedAnswers
<1> HIDE DEF told
<1> QED BY <1>1, <1>2, IdleIsCall, TellingExact

LEMMA AtEndOfStreamExact ==
  ASSUME ReaderInv, Abandoned, Exacting, NEW b \in Buffer, AtEndOfStream(b)
  PROVE  Abandoned' /\ Exacting'
<1> DEFINE m == IF ReadyToPop(bufs[b]) THEN Now ELSE ReadIfReady(Now)
           told == IF AtEof(m.bufs[b]) THEN {b} ELSE {}
<1>1. active /\ call = Idle /\ ~Lost /\ b \in Outputs /\ Telling(m, Idle, told)
  BY OneReads DEF AtEndOfStream, Reading
<1>2. m = Now \/ (Live(Now) /\ m = ReadIfReady(Now))
  BY <1>1, OneReads, NotedAnswers
<1> HIDE DEF told, m
<1> QED BY <1>1, <1>2, IdleIsCall, TellingExact

LEMMA GetTimeStampExact ==
  ASSUME ReaderInv, Abandoned, Exacting, NEW b \in Buffer, GetTimeStamp(b)
  PROVE  Abandoned' /\ Exacting'
<1> DEFINE m == IF ReadyToPop(bufs[b]) THEN Now ELSE ReadIfReady(Now)
<1>1. active /\ call = Idle /\ ~Lost /\ b \in Outputs /\ Telling(m, Idle, {})
  BY OneReads DEF GetTimeStamp, Reading
<1>2. m = Now \/ (Live(Now) /\ m = ReadIfReady(Now))
  BY <1>1, OneReads, NotedAnswers
<1> HIDE DEF m
<1> QED BY <1>1, <1>2, IdleIsCall, TellingExact

LEMMA ReadNextFrameExact ==
  ASSUME ReaderInv, Abandoned, Exacting, NEW b \in Buffer, NEW getmore \in BOOLEAN,
         ReadNextFrame(b, getmore)
  PROVE  Abandoned' /\ Exacting'
<1> DEFINE m == Probed(Now)
           next == [Idle EXCEPT !.at = "get", !.buf = b, !.more = getmore]
<1>1. active /\ call = Idle /\ ~Lost
  BY OneReads DEF ReadNextFrame, Reading
<1>2. m = Now \/ Live(Now)
  BY <1>1, OneReads, NotedAnswers
<1>3. Telling(m, Idle, Outputs) \/ Telling(m, next, {})
  BY DEF ReadNextFrame
<1>4. next \in Calls /\ next.at = "get"
  BY DEF Idle, Calls
<1> HIDE DEF next
<1> QED BY <1>1, <1>2, <1>3, <1>4, IdleIsCall, TellingExact

LEMMA NoFrameExact ==
  ASSUME ReaderInv, Abandoned, Exacting, NoFrame
  PROVE  Abandoned' /\ Exacting'
<1>1. call.at \in {"get", "fill"} /\ active /\ ~Lost
  BY DEF NoFrame, Lost, ReaderInv, Calling
<1>2. PICK told : Telling(Now, Idle, told)
  BY DEF NoFrame
<1> QED BY <1>1, <1>2, IdleIsCall, TellingExact

LEMMA FillBufferExact ==
  ASSUME ReaderInv, Abandoned, Exacting, FillBuffer
  PROVE  Abandoned' /\ Exacting'
<1> DEFINE next == [Around EXCEPT !.at = "fill"]
<1>1. call.at \in {"get", "fill"} /\ active /\ ~Lost /\ call # Idle
  BY DEF FillBuffer, Lost, Idle, ReaderInv, Calling
<1>2. Live(Now) /\ call \in Calls
  BY <1>1, OneReads
<1>3. next \in Calls /\ next.at = "fill"
  BY <1>2 DEF Around, Calls
<1>4. Telling(ReadPacket(Now), next, {})
  BY DEF FillBuffer
<1> HIDE DEF next
<1> QED BY <1>1, <1>2, <1>3, <1>4, TellingExact

\* What an output has given away does not get less.
LEMMA GivesMore ==
  ASSUME NEW got \in [Buffer -> Seq(Frame)], NEW m, NEW b \in Buffer,
         Oldest(m.bufs[b]) = Null \/ Oldest(m.bufs[b]) \in Frame
  PROVE  \A c \in Buffer : Len(GivenUp(m, b, got)[c]) >= Len(got[c])
<1> DEFINE x == Oldest(m.bufs[b])
           new == GivenUp(m, b, got)
<1>1. \A c \in Buffer : got[c] \in Seq(Frame) /\ Len(got[c]) \in Nat
  BY LenProperties
<1>2. CASE x = Null
  BY <1>1, <1>2 DEF GivenUp
<1>3. CASE x # Null
  <2>1. new = [got EXCEPT ![b] = Append(@, x)]
    BY <1>3 DEF GivenUp
  <2> HIDE DEF x, new
  <2>2. \A c \in Buffer : new[c] = IF c = b THEN Append(got[b], x) ELSE got[c]
    BY <2>1
  <2>3. Len(Append(got[b], x)) = Len(got[b]) + 1
    BY <1>1, <1>3, AppendProperties DEF x
  <2>4. Len(new[b]) >= Len(got[b])
    <3>1. new[b] = Append(got[b], x)
      BY <2>2
    <3>2. Len(got[b]) \in Nat
      BY <1>1
    <3>3. Len(new[b]) = Len(got[b]) + 1
      BY <2>3, <3>1
    <3> QED BY <3>2, <3>3
  <2> QED BY <1>1, <2>2, <2>4 DEF new
<1> QED BY <1>2, <1>3

LEMMA OldestIs ==
  ASSUME NEW q, QueueOK(q), ReadyToPop(q)
  PROVE  Oldest(q) = Null \/ Oldest(q) \in Frame
BY PopFrame

LEMMA TakeFrameExact ==
  ASSUME ReaderInv, ReaderInv', Abandoned, Exacting, TakeFrame
  PROVE  Abandoned' /\ Exacting'
<1> DEFINE b == call.buf
<1>1. /\ call.at \in {"get", "fill"} /\ active /\ ~Lost /\ call # Idle /\ b \in Outputs
      /\ ReadyToPop(bufs[b]) /\ Take(b)
  BY DEF TakeFrame, Lost, Idle, ReaderInv, Calling
<1>2. /\ Now \in State /\ Wired(Now) /\ Live(Now)
      /\ Now.file = file /\ Now.graph = graph /\ Now.bufs = bufs
      /\ \A c : Exists(Now, c) <=> Made(c)
      /\ gone \in [Buffer -> Seq(Frame)]
  BY <1>1, OneReads
<1>3. b \in Stream \cup Sink /\ b \in Buffer /\ Exists(Now, b) /\ ReadyToPop(Now.bufs[b])
  BY <1>1, <1>2, Names DEF Outputs
<1>4. /\ file' = file /\ graph' = graph /\ bufs' = [bufs EXCEPT ![b] = Pop(@)]
      /\ call' = Idle /\ active' = active /\ due' = due /\ exact' = exact
  BY <1>1 DEF Take
<1>5. gone' = GivenUp(Now, b, gone)
  <2>1. bufs[b] = Now.bufs[b]
    BY <1>2
  <2>2. gone' = [gone EXCEPT ![b] =
                   IF Oldest(bufs[b]) = Null THEN @ ELSE Append(@, Oldest(bufs[b]))]
    BY <1>1 DEF Take
  <2> DEFINE x == Oldest(bufs[b])
  <2>3. x = Oldest(Now.bufs[b])
    BY <2>1
  <2> HIDE DEF x, b
  <2>4. gone' = IF x = Null THEN gone ELSE [gone EXCEPT ![b] = Append(@, x)]
    BY <1>2, <2>2 DEF x
  <2> QED BY <2>3, <2>4 DEF GivenUp
<1> HIDE DEF b
<1>6. QueueOK(Now.bufs[b])
  BY <1>2, <1>3 DEF Live, LiveBut, Settled
<1>7. \A c \in Buffer : Len(gone'[c]) >= Len(gone[c])
  BY <1>2, <1>3, <1>5, <1>6, GivesMore, OldestIs
<1>8. gone' \in [Buffer -> Seq(Frame)]
  BY DEF ReaderInv, Typed
<1>9. \A c \in Outputs : Len(gone'[c]) >= Len(gone[c])
  BY <1>7, Names DEF Outputs
<1>10. Steady
  <2>1. Same(Now, Now) /\ SinksAlone(Now, Now)
    BY SameSelf DEF SinksAlone
  <2>2. file' = Now.file /\ graph' = Now.graph /\ bufs' = [Now.bufs EXCEPT ![b] = Pop(@)]
    BY <1>2, <1>4
  <2> QED BY <1>1, <1>2, <1>3, <1>4, <2>1, <2>2, PoppedSteady
<1>11. Exacting'
  BY <1>1, <1>4, <1>8, <1>9, <1>10, IdleIsCall, Onward
<1> QED BY <1>1, <1>10, <1>11, SteadyAbandoned

\* Whatever is purged next, what a purge leaves in each output is late enough.
LEMMA PurgedLate ==
  ASSUME ReaderInv, Abandoned, Exacting, active, ~Lost, call.at = "purge", exact # 0,
         NEW m, Leads(Now, m, gone, due), m.how = "ok",
         \A b \in Outputs : Reached(m, b, call.time),
         NEW b \in Outputs \ Orphans, Single(b)
  PROVE  LateFrom(due[Source(b)], Len(gone[b]), exact)
<1>1. /\ b \in Stream \cup Sink /\ Made(b) /\ (b \in Sink => b \in graph.sinks)
      /\ \E s \in Stream : Feeders(b) = {s}
  BY OneFeeder
<1>2. PICK s \in Stream : Feeders(b) = {s}
  BY <1>1
<1>3. /\ m \in State /\ Wired(m) /\ Same(Now, m) /\ Live(m) /\ Balanced(m, gone, due)
  BY DEF Leads
<1>4. /\ Now.file = file /\ Now.graph = graph /\ \A c : Exists(Now, c) <=> Made(c)
      /\ gone \in [Buffer -> Seq(Frame)] /\ due \in [Buffer -> Seq(Frame)]
  BY OneReads
<1>5. b \in Buffer /\ b # In
  BY <1>1, Names
<1>6. /\ Exists(m, b) /\ m.file.sink = file.sink /\ m.graph.sinks = graph.sinks
  BY <1>1, <1>3, <1>4, <1>5 DEF Same
<1>7. FedBy(m, b, s)
  BY <1>2, <1>6 DEF Feeders, FedBy
<1>8. Tallies(m, b, gone, due)
  BY <1>1, <1>3, <1>4, <1>6, <1>7, Placed
<1>9. PICK c \in Seq(Frame) :
        /\ due[Source(b)] = Cat(Cat(gone[b], Frames(m.bufs[b])), c)
        /\ b \in Stream /\ Done(m.file, b) => c = <<>>
  BY <1>8 DEF Tallies
<1>10. exact = call.time /\ exact \in Nat /\ Rises(due[Source(b)])
  BY DEF Exacting
<1>11. /\ QueueOK(m.bufs[b]) /\ (b \in Sink => ~Ended(m.bufs[b]))
       /\ (b \in Stream => (Ended(m.bufs[b]) => Done(m.file, b)))
  BY <1>1, <1>3, <1>6 DEF Live, LiveBut, Settled
<1>12. /\ ReadyToPop(m.bufs[b])
       /\ Oldest(m.bufs[b]) # Null => Media[Oldest(m.bufs[b])].time >= call.time
  BY DEF Reached
<1> DEFINE G == gone[b]
           q == m.bufs[b]
           F == Frames(q)
           x == Oldest(q)
<1>13. CASE x = Null
  <2>1. Ended(q) /\ F = <<>>
    BY <1>11, <1>12, <1>13, PopEof
  <2>2. c = <<>>
    BY <1>1, <1>9, <1>11, <2>1
  <2> HIDE DEF G, F, x, q
  <2>3. LateFrom(Cat(Cat(G, F), c), Len(G), exact)
    BY <1>8, <2>1, <2>2, NothingIsLate DEF Tallies, G, F, q
  <2> QED BY <1>9, <2>3 DEF G, F, q
<1>14. CASE x # Null
  <2>1. x \in Frame /\ F = <<x>> \o Frames(Pop(q)) /\ QueueOK(Pop(q))
    BY <1>11, <1>12, <1>14, PopFrame
  <2> DEFINE one == <<x>>
             E == Frames(Pop(q))
  <2>2. one \in Seq(Frame) /\ Len(one) = 1 /\ one[1] = x /\ E \in Seq(Frame)
    BY <2>1, FramesType DEF QueueOK
  <2>3. F = Cat(one, E)
    BY <2>1 DEF Cat
  <2>4. Media[x].time >= exact
    BY <1>10, <1>12, <1>14
  <2> HIDE DEF one, E, x
  <2>5. /\ Len(F) = Len(one) + Len(E) /\ Len(E) \in Nat
        /\ \A i \in 1..Len(F) : F[i] = IF i <= Len(one) THEN one[i] ELSE E[i - Len(one)]
    <3> HIDE DEF F
    <3> QED BY <2>2, <2>3, Places, LenProperties
  <2> HIDE DEF G, F, q
  <2>6. Len(F) > 0 /\ F[1] = x
    BY <2>2, <2>5
  <2>7. Media[F[1]].time >= exact
    BY <2>4, <2>6
  <2>8. due[Source(b)] = Cat(Cat(G, F), c)
    BY <1>9 DEF G, F, q
  <2>9. G \in Seq(Frame) /\ F \in Seq(Frame)
    BY <1>8 DEF Tallies, G, F, q
  <2>10. Rises(Cat(Cat(G, F), c))
    BY <1>10, <2>8
  <2>11. LateFrom(Cat(Cat(G, F), c), Len(G), exact)
    BY <1>10, <2>6, <2>7, <2>9, <2>10, OldestIsLate
  <2> QED BY <2>8, <2>11 DEF G
<1> QED BY <1>13, <1>14

LEMMA PurgeExact ==
  ASSUME ReaderInv, ReaderInv', Abandoned, Exacting, Purge
  PROVE  Abandoned' /\ Exacting'
<1> DEFINE m == ReadIfReady(Now)
           short == {b \in Outputs : ~Reached(m, b, call.time)}
           first == IF short \cap Stream # {} THEN short \cap Stream ELSE short
           over == ~ReadyToRead(Now) \/ m.how # "ok" \/ short = {}
<1>1. call.at = "purge" /\ active /\ ~Lost /\ call # Idle
  BY DEF Purge, Lost, Idle, ReaderInv, Calling
<1>2. /\ Now \in State /\ Wired(Now) /\ Live(Now) /\ call \in Calls /\ Now.bufs = bufs
      /\ gone \in [Buffer -> Seq(Frame)]
  BY <1>1, OneReads
<1>3. Leads(Now, m, gone, due)
  BY <1>1, <1>2, ReadingLeads
<1>4. Around \in Calls /\ Around.at = "purge" /\ Around.time = call.time
  BY <1>1, <1>2 DEF Around, Calls
<1>5. active' = active /\ due' = due
  BY DEF Purge
<1>6. \/ over /\ Continue(m, Idle) /\ gone' = gone /\ exact' = IF m.how = "throw" THEN 0 ELSE exact
      \/ ~over /\ exact' = exact /\ Continue(m, Around) /\ gone' = gone
      \/ ~over /\ exact' = exact /\ \E b \in first :
           /\ ReadyToPop(m.bufs[b])
           /\ Continue([m EXCEPT !.bufs[b] = Pop(@)], Around)
           /\ gone' = [gone EXCEPT ![b] = Append(@, Oldest(m.bufs[b]))]
  BY DEF Purge
<1>7. ~over => m.how = "ok"
  OBVIOUS
<1>8. ASSUME over, exact # 0, m.how = "ok" PROVE \A b \in Outputs : Reached(m, b, call.time)
  <2>1. \A b \in Outputs : bufs[b].dynamic
    BY <1>8 DEF Exacting
  <2>2. ReadyToRead(Now)
    BY <1>2, <2>1 DEF ReadyToRead, ReadyToPush
  <2> QED BY <1>8, <2>2
<1>9. \A b \in first : b \in Outputs /\ ~Reached(m, b, call.time)
  OBVIOUS
<1>10. (Continue(m, Idle) \/ Continue(m, Around)) => Steady
  <2>1. Continue(m, Idle) \/ Continue(m, Around) =>
          file' = m.file /\ graph' = m.graph /\ bufs' = m.bufs
    BY DEF Continue
  <2> QED BY <1>1, <1>2, <1>5, <2>1, ReadingSteady
<1>11. ~graph.parsed => SinksAlone(Now, m)
  BY <1>1, <1>2, ReadsAlone
<1> HIDE DEF m, short, first, over
<1>12. m \in State /\ Wired(m) /\ Same(Now, m) /\ m.how \in {"ok", "throw", "stuck", "spin"}
       /\ (m.how = "ok" => Live(m))
  BY <1>3 DEF Leads
<1>13. gone' \in [Buffer -> Seq(Frame)]
  BY DEF ReaderInv, Typed
<1>14. \A b \in Outputs : b \in Buffer /\ b \in Stream \cup Sink /\ Len(gone[b]) \in Nat
  <2>1. \A b \in Outputs : b \in Buffer /\ b \in Stream \cup Sink
    BY Names DEF Outputs
  <2>2. \A b \in Outputs : gone[b] \in Seq(Frame)
    BY <1>2, <2>1
  <2> QED BY <2>1, <2>2, LenProperties
<1>15. CASE over /\ Continue(m, Idle) /\ gone' = gone
              /\ exact' = IF m.how = "throw" THEN 0 ELSE exact
  <2>1. call'.at \notin {"seek", "purge"} /\ (m.how \in {"stuck", "spin"} => Lost')
    <3>1. CASE m.how \in {"ok", "throw"}
      BY <1>15, <3>1, IdleIsCall DEF Continue
    <3>2. CASE m.how \in {"stuck", "spin"}
      <4>1. call' = [Idle EXCEPT !.at = m.how]
        BY <1>15, <3>2 DEF Continue
      <4>2. call'.at = m.how
        BY <4>1, IdleIsCall DEF Calls
      <4> QED BY <3>2, <4>2 DEF Lost
    <3> QED BY <1>12, <3>1, <3>2
  <2>2. Steady
    BY <1>10, <1>15
  <2>3. exact \in Nat /\ exact' \in Nat /\ (exact' # 0 => exact' = exact /\ m.how # "throw")
    BY <1>15 DEF Exacting
  <2>4. exact' # 0 => /\ \A b \in Outputs : bufs[b].dynamic
                      /\ \A b \in Outputs : Rises(due[Source(b)])
    BY <2>3 DEF Exacting
  <2>5. ASSUME exact' # 0, ~Lost', NEW b \in Outputs \ Orphans, Single(b)
        PROVE  LateFrom(due[Source(b)], Len(gone'[b]), exact')
    <3>1. m.how = "ok" /\ exact # 0
      BY <1>12, <2>1, <2>3, <2>5
    <3>2. LateFrom(due[Source(b)], Len(gone[b]), exact)
      BY <1>1, <1>3, <1>8, <1>15, <2>5, <3>1, PurgedLate
    <3> QED BY <1>15, <2>3, <2>5, <3>2
  <2>6. Exacting'
    BY <1>1, <1>5, <2>1, <2>2, <2>3, <2>4, <2>5, ExactNext
  <2> QED BY <1>1, <2>2, <2>6, SteadyAbandoned
<1>16. ASSUME ~over, exact' = exact, Steady, call' = Around,
              \A b \in Outputs : Len(gone'[b]) >= Len(gone[b])
       PROVE  Abandoned' /\ Exacting'
  <2>1. call'.at = "purge" /\ call'.time = call.time /\ ~Lost'
    BY <1>4, <1>16 DEF Lost
  <2>2. Exacting'
    BY <1>1, <1>5, <1>13, <1>16, <2>1, Onward
  <2> QED BY <1>1, <1>16, <2>2, SteadyAbandoned
<1>17. CASE ~over /\ exact' = exact /\ Continue(m, Around) /\ gone' = gone
  <2>1. call' = Around
    BY <1>7, <1>17 DEF Continue
  <2>2. \A b \in Outputs : Len(gone'[b]) >= Len(gone[b])
    BY <1>14, <1>17
  <2> QED BY <1>10, <1>16, <1>17, <2>1, <2>2
<1>18. CASE ~over /\ exact' = exact /\ \E b \in first :
              /\ ReadyToPop(m.bufs[b])
              /\ Continue([m EXCEPT !.bufs[b] = Pop(@)], Around)
              /\ gone' = [gone EXCEPT ![b] = Append(@, Oldest(m.bufs[b]))]
  <2>1. PICK b \in first : /\ ReadyToPop(m.bufs[b])
                           /\ Continue([m EXCEPT !.bufs[b] = Pop(@)], Around)
                           /\ gone' = [gone EXCEPT ![b] = Append(@, Oldest(m.bufs[b]))]
    BY <1>18
  <2>2. b \in Outputs /\ ~Reached(m, b, call.time) /\ m.how = "ok" /\ Live(m)
    BY <1>7, <1>9, <1>12, <1>18
  <2>3. Oldest(m.bufs[b]) # Null /\ b \in Stream \cup Sink /\ Made(b) /\ b \in Buffer
    BY <1>14, <2>1, <2>2 DEF Reached, Outputs
  <2>4. Exists(m, b)
    <3>1. Exists(Now, b)
      BY <2>3, OneReads
    <3> QED BY <1>12, <2>3, <3>1 DEF Same
  <2> DEFINE n == [m EXCEPT !.bufs[b] = Pop(@)]
  <2>5. /\ n.file = m.file /\ n.graph = m.graph /\ n.how = m.how
        /\ n.bufs = [m.bufs EXCEPT ![b] = Pop(@)]
    BY <1>12, NewPart DEF State
  <2>6. Continue(n, Around)
    BY <2>1
  <2> HIDE DEF n
  <2>7. /\ call' = Around /\ file' = m.file /\ graph' = m.graph
        /\ bufs' = [m.bufs EXCEPT ![b] = Pop(@)]
    BY <2>2, <2>5, <2>6 DEF Continue
  <2>8. Steady
    BY <1>1, <1>5, <1>11, <1>12, <2>1, <2>2, <2>3, <2>4, <2>7, PoppedSteady
  <2>9. gone' = GivenUp(m, b, gone)
    BY <2>1, <2>3 DEF GivenUp
  <2>10. QueueOK(m.bufs[b])
    BY <2>2, <2>3, <2>4 DEF Live, LiveBut, Settled
  <2>11. \A c \in Buffer : Len(gone'[c]) >= Len(gone[c])
    BY <1>2, <2>1, <2>3, <2>9, <2>10, GivesMore, OldestIs
  <2>12. \A c \in Outputs : Len(gone'[c]) >= Len(gone[c])
    BY <1>14, <2>11
  <2> QED BY <1>16, <1>18, <2>7, <2>8, <2>12
<1> QED BY <1>6, <1>15, <1>17, <1>18


\* At the end of the file nothing is late: there is nothing left.
LEMMA EndLate ==
  ASSUME ReaderInv, Abandoned, active, ~Lost, NEW m, Leads(Now, m, gone, due), m.how = "ok",
         NEW b \in Outputs \ Orphans, Single(b), NEW t,
         b \in Stream, Frames(m.bufs[b]) = <<>>, Done(m.file, b)
  PROVE  LateFrom(due[Source(b)], Len(gone[b]), t)
<1>1. PICK s \in Stream : Feeders(b) = {s}
  BY OneFeeder
<1>2. m \in State /\ Wired(m) /\ Same(Now, m) /\ Balanced(m, gone, due)
  BY DEF Leads
<1>3. /\ Now.file = file /\ \A c : Exists(Now, c) <=> Made(c)
      /\ gone \in [Buffer -> Seq(Frame)] /\ due \in [Buffer -> Seq(Frame)]
  BY OneReads
<1>4. b \in Stream \cup Sink /\ b \notin Sink /\ Exists(m, b) /\ m.file.sink = file.sink
  BY <1>2, <1>3, Names DEF Same, Outputs
<1>5. FedBy(m, b, s)
  BY <1>1, <1>4 DEF Feeders, FedBy
<1>6. Tallies(m, b, gone, due)
  BY <1>2, <1>3, <1>4, <1>5, Placed
<1>7. PICK c \in Seq(Frame) :
        due[Source(b)] = Cat(Cat(gone[b], Frames(m.bufs[b])), c) /\ c = <<>>
  BY <1>6 DEF Tallies
<1>8. gone[b] \in Seq(Frame) /\ Frames(m.bufs[b]) \in Seq(Frame)
  BY <1>6 DEF Tallies
<1>9. LateFrom(Cat(Cat(gone[b], Frames(m.bufs[b])), c), Len(gone[b]), t)
  BY <1>7, <1>8, NothingIsLate
<1> QED BY <1>7, <1>9

\* After a seek that leaves nothing in the decoders the rest of the media is due.
LEMMA SoughtRises ==
  ASSUME ReaderInv, due = [b \in Buffer |-> Expected(Now, b)],
         \A s \in Stream : file.held[s] = <<>>, NEW b \in Outputs
  PROVE  Rises(due[Source(b)])
<1> DEFINE a == Source(b)
           feeding == {s \in Stream : file.sink[s] = a}
           c == CHOOSE s \in feeding : TRUE
<1>1. a \in Buffer
  BY Names DEF Source, Outputs
<1>2. Now \in State /\ Now.file = file
  BY OneReads
<1>3. due[a] = IF feeding = {} THEN <<>> ELSE file.held[c] \o Rest(file, c)
  BY <1>1, <1>2 DEF Expected
<1>4. feeding # {} => c \in feeding
  OBVIOUS
<1>5. feeding \subseteq Stream
  OBVIOUS
<1> HIDE DEF feeding, c, a
<1>6. CASE feeding = {}
  <2>1. Rises(<<>>)
    BY DEF Rises
  <2> QED BY <1>3, <1>6, <2>1 DEF a
<1>7. CASE feeding # {}
  <2>1. c \in Stream /\ file.held[c] = <<>>
    BY <1>4, <1>5, <1>7
  <2>2. Rest(file, c) \in Seq(Frame) /\ file.pos \in 1..(Len(Media) + 1)
    BY <1>2, <2>1, StateFacts
  <2>3. <<>> \o Rest(file, c) = Rest(file, c)
    BY <2>2, ConcatEmptySeq
  <2>4. due[a] = Rest(file, c)
    BY <1>3, <1>7, <2>1, <2>3
  <2>5. Rises(Rest(file, c))
    BY <2>1, <2>2, RestRises DEF Rest
  <2> QED BY <2>4, <2>5 DEF a
<1> QED BY <1>6, <1>7

LEMMA LandExact ==
  ASSUME ReaderInv, Abandoned, Exacting, Land
  PROVE  Abandoned' /\ Exacting'
<1> DEFINE m == Probed(Now)
           atEnd == m.how = "ok" /\ AllEof(m)
           next == IF call.more /\ ~atEnd THEN [call EXCEPT !.at = "purge"] ELSE Idle
           n == IF atEnd THEN PushEof(m) ELSE m
           clean == call.more /\ m.how = "ok" /\ CleanSeek(Now)
<1>1. call.at = "seek" /\ active /\ ~Lost /\ call # Idle
  BY DEF Land, Lost, Idle, ReaderInv, Calling
<1>2. /\ Live(Now) /\ call \in Calls /\ Now.file = file /\ Now.bufs = bufs
      /\ \A b : Exists(Now, b) <=> Made(b)
  BY <1>1, OneReads
<1>3. Leads(Now, m, gone, due)
  BY <1>1, <1>2, ReadingLeads
<1>4. /\ active' = active /\ gone' = gone /\ due' = due
      /\ Continue(n, next) /\ exact' = IF clean THEN call.time ELSE 0
  BY DEF Land
<1>5. /\ next \in Calls /\ next.at \in {"idle", "purge"}
      /\ next.at = "purge" => next.time = call.time
      /\ next.at = "idle" => atEnd \/ ~call.more
  BY <1>2, IdleIsCall DEF Calls
<1>6. atEnd => /\ Reaches(PushEof(m), Idle) /\ Same(m, PushEof(m))
               /\ \A b \in Outputs : b \in Stream /\ Frames(m.bufs[b]) = <<>> /\ Done(m.file, b)
  <2> HIDE DEF m
  <2> QED BY <1>1, <1>3, EndNoted
<1>7. clean => (\A s \in Stream : file.held[s] = <<>>) /\ \A b \in Outputs : bufs[b].dynamic
  BY <1>2 DEF CleanSeek
<1>8. ~atEnd => n = m
  OBVIOUS
<1>9. file' = n.file /\ graph' = n.graph /\ bufs' = n.bufs
  BY <1>4 DEF Continue
<1>10. ~atEnd => Steady
  BY <1>1, <1>2, <1>4, <1>8, <1>9, ReadingSteady
<1>11. n.how = "ok" => call' = next
  BY <1>4 DEF Continue
<1>12. clean => m.how = "ok" /\ call.more
  OBVIOUS
<1>13. atEnd => n = PushEof(m) /\ m.how = "ok"
  OBVIOUS
<1> HIDE DEF m, atEnd, clean, n, next
<1>14. m \in State /\ Same(Now, m)
  BY <1>3 DEF Leads
<1>15. n \in State
  BY <1>6, <1>8, <1>13, <1>14 DEF Reaches
<1>16. atEnd => Steady
  <2>1. SUFFICES ASSUME atEnd PROVE Steady
    OBVIOUS
  <2>2. Same(Now, n)
    BY <1>6, <1>13, <1>14, <2>1, SameTrans
  <2>3. \A k \in Sink : ~Made(k)
    BY <1>6, <2>1, Names DEF Outputs
  <2> QED BY <1>1, <1>4, <1>9, <2>2, <2>3, SteadyParts
<1>17. Steady
  BY <1>10, <1>16
<1>18. call'.at # "seek" /\ (call'.at = "purge" => call'.time = call.time)
  <2>1. CASE n.how = "ok"
    BY <1>5, <1>11, <2>1
  <2>2. CASE n.how = "throw"
    BY <1>4, <2>2, IdleIsCall DEF Continue
  <2>3. CASE n.how \notin {"ok", "throw"}
    <3>1. call' = [next EXCEPT !.at = n.how] /\ n.how \in {"stuck", "spin", "undefined"}
      BY <1>4, <1>15, <2>3 DEF Continue, State
    <3>2. call'.at = n.how
      BY <1>5, <3>1 DEF Calls
    <3> QED BY <3>1, <3>2
  <2> QED BY <2>1, <2>2, <2>3
<1>19. call.time \in Nat /\ exact' \in Nat /\ (exact' # 0 => clean /\ exact' = call.time)
  BY <1>2, <1>4 DEF Calls
<1>20. due = [b \in Buffer |-> Expected(Now, b)]
  BY <1>1 DEF Exacting
<1>21. exact' # 0 => /\ \A b \in Outputs : bufs[b].dynamic
                     /\ \A b \in Outputs : Rises(due[Source(b)])
  BY <1>7, <1>19, <1>20, SoughtRises
<1>22. ASSUME exact' # 0, call'.at # "purge", ~Lost', NEW b \in Outputs \ Orphans, Single(b)
       PROVE  LateFrom(due[Source(b)], Len(gone'[b]), exact')
  <2>1. m.how = "ok" /\ call.more
    BY <1>12, <1>19, <1>22
  <2>2. atEnd
    <3>1. ~atEnd => n.how = "ok" /\ next.at = "purge" /\ call' = next
      BY <1>5, <1>8, <1>11, <2>1
    <3> QED BY <1>22, <3>1
  <2>3. b \in Stream /\ Frames(m.bufs[b]) = <<>> /\ Done(m.file, b)
    BY <1>6, <2>2
  <2>4. LateFrom(due[Source(b)], Len(gone[b]), exact')
    BY <1>1, <1>3, <1>22, <2>1, <2>3, EndLate
  <2> QED BY <1>4, <2>4
<1>23. exact' # 0 =>
         /\ \A b \in Outputs : bufs[b].dynamic
         /\ \A b \in Outputs : Rises(due[Source(b)])
         /\ call'.at = "purge" => exact' = call'.time
         /\ call'.at # "purge" /\ ~Lost' =>
              \A b \in Outputs \ Orphans :
                Single(b) => LateFrom(due[Source(b)], Len(gone'[b]), exact')
  BY <1>18, <1>19, <1>21, <1>22
<1>24. Exacting'
  BY <1>1, <1>4, <1>17, <1>18, <1>19, <1>23, ExactNext
<1> QED BY <1>1, <1>17, <1>24, SteadyAbandoned

\* flush() leaves the connections as they are, and the buffers of a graph that is
\* gone.
LEMMA FlushedSteady ==
  ASSUME ReaderInv, active, ~Lost, active' = active, file'.sink = file.sink,
         graph' = Flushed(Now).graph, bufs' = Flushed(Now).bufs
  PROVE  Steady
<1> DEFINE c == IF graph.parsed THEN Flush(graph) ELSE [graph |-> graph, how |-> "ok"]
           cleared == IF graph.parsed THEN Buffer ELSE Stream
           B == [b \in Buffer |-> IF Made(b) /\ b \in cleared THEN Clear(bufs[b]) ELSE bufs[b]]
           n == [Now EXCEPT !.graph = c.graph, !.how = c.how, !.bufs = B]
<1>1. /\ Now \in State /\ Wired(Now) /\ Configured(Now)
      /\ Now.file = file /\ Now.graph = graph /\ Now.bufs = bufs
      /\ \A b : Exists(Now, b) <=> Made(b)
  BY OneReads
<1>2. Flushed(Now) = n
  BY <1>1 DEF Flushed
<1>3. graph \in FilterGraphs
  BY <1>1, StateFacts
<1>4. c.graph.parsed = graph.parsed /\ c.graph.sinks = graph.sinks
  <2>1. CASE graph.parsed
    <3>1. graph.source /\ graph.context /\ graph.sinks = graph.outs
      BY <2>1, <1>1 DEF Wired, Configured
    <3>2. c = Flush(graph)
      BY <2>1
    <3> HIDE DEF c
    <3> QED BY <2>1, <1>3, <3>1, <3>2, GraphFlushed
  <2>2. CASE ~graph.parsed
    BY <2>2
  <2> QED BY <2>1, <2>2
<1>5. \A b \in Buffer : B[b] = IF Made(b) /\ b \in cleared THEN Clear(bufs[b]) ELSE bufs[b]
  OBVIOUS
<1>6. ~graph.parsed => cleared = Stream
  OBVIOUS
<1> HIDE DEF c, B, cleared
<1>7. n.graph = c.graph /\ n.bufs = B
  BY DEF Now
<1>8. ASSUME NEW b \in Buffer, Made(b)
      PROVE  Clear(bufs[b]) # NoBuffer /\ Clear(bufs[b]).dynamic = bufs[b].dynamic
  <2>1. QueueTypeOK(bufs[b])
    BY <1>1, <1>8 DEF Wired
  <2>2. QueueOK(Clear(bufs[b])) /\ Clear(bufs[b]).dynamic = bufs[b].dynamic
    BY <2>1, FreshQueue
  <2> QED BY <2>2, Names DEF QueueOK, QueueTypeOK
<1>9. bufs' = B /\ graph' = c.graph
  BY <1>2, <1>7
<1>10. \A b \in Buffer : /\ bufs'[b] # NoBuffer <=> Made(b)
                         /\ Made(b) => bufs'[b].dynamic = bufs[b].dynamic
  BY <1>5, <1>8, <1>9 DEF Made
<1>11. ~graph.parsed => \A k \in Sink : bufs'[k] = bufs[k]
  BY <1>5, <1>6, <1>9, Names
<1> QED BY <1>4, <1>9, <1>10, <1>11 DEF Steady

LEMMA SeekExactly ==
  ASSUME ReaderInv, ReaderInv', Abandoned, Exacting,
         NEW t \in {Media[k].time : k \in DOMAIN Media}, NEW toExact \in BOOLEAN,
         Seek(t, toExact)
  PROVE  Abandoned' /\ Exacting'
<1> DEFINE l == Flushed(Now)
           next == [Idle EXCEPT !.at = "seek", !.time = t, !.more = toExact]
<1>1. call = Idle /\ active /\ ~Lost /\ active' = active /\ exact' = 0
  BY OneReads DEF Seek, Reading
<1>2. PICK k \in DOMAIN Media :
        LET moved == [l EXCEPT !.file = Sought(@, k)]
        IN /\ IF l.how = "ok" THEN Continue(moved, next) ELSE Continue(l, Idle)
           /\ due' = [b \in Buffer |-> Expected(moved, b)]
  BY DEF Seek
<1>3. Emptied(l)
  BY <1>1, ReaderFlushed
<1>4. l.file = file /\ l \in State /\ file \in File
  BY <1>3, StateFacts DEF Emptied
<1> DEFINE f == Sought(file, k)
           moved == [l EXCEPT !.file = f]
<1>5. f.sink = file.sink
  BY <1>4, SoughtFile
<1>6. [l EXCEPT !.file = Sought(@, k)] = moved
  BY <1>4 DEF State
<1>7. moved.file = f /\ moved.graph = l.graph /\ moved.bufs = l.bufs /\ moved.how = l.how
  BY <1>4 DEF State
<1> HIDE DEF f, moved, next
<1>8. /\ IF l.how = "ok" THEN Continue(moved, next) ELSE Continue(l, Idle)
      /\ due' = [b \in Buffer |-> Expected(moved, b)]
  BY <1>2, <1>6 DEF next
<1>9. graph' = l.graph /\ bufs' = l.bufs /\ file'.sink = file.sink
  BY <1>4, <1>5, <1>7, <1>8 DEF Continue
<1>10. Steady
  BY <1>1, <1>9, FlushedSteady
<1> HIDE DEF l
<1>11. CASE l.how = "ok"
  <2>1. file' = f /\ call' = next
    BY <1>7, <1>8, <1>11 DEF Continue
  <2>2. Now'.file = moved.file
    <3>1. Now'.file = file'
      BY DEF Now
    <3> QED BY <1>7, <2>1, <3>1
  <2>3. \A b \in Buffer : Expected(Now', b) = Expected(moved, b)
    BY <2>2 DEF Expected
  <2>4. due' = [b \in Buffer |-> Expected(Now', b)]
    BY <1>8, <2>3
  <2>5. Exacting'
    BY <1>1, <2>4 DEF Exacting
  <2> QED BY <1>1, <1>10, <2>5, SteadyAbandoned
<1>12. CASE l.how # "ok"
  <2>1. l.how = "undefined"
    BY <1>3, <1>12 DEF Emptied
  <2>2. call' = [Idle EXCEPT !.at = "undefined"]
    BY <1>8, <2>1 DEF Continue
  <2>3. call'.at = "undefined"
    BY <2>2 DEF Idle
  <2>4. Exacting'
    BY <1>1, <2>3, Inexact
  <2> QED BY <1>1, <1>10, <2>4, SteadyAbandoned
<1> QED BY <1>11, <1>12

LEMMA SeekThrowsExact ==
  ASSUME ReaderInv, Abandoned, Exacting, SeekThrows
  PROVE  Abandoned' /\ Exacting'
<1> DEFINE l == Flushed(Now)
           failed == [l EXCEPT !.file = SeekFailed(@)]
           n == IF l.how = "ok" THEN failed ELSE l
<1>1. call = Idle /\ active /\ ~Lost /\ active' = active /\ exact' = 0
  BY OneReads DEF SeekThrows, Reading
<1>2. Continue(n, Idle)
  BY DEF SeekThrows
<1>3. Emptied(l)
  BY <1>1, ReaderFlushed
<1>4. l.file = file /\ l \in State /\ file \in File
  BY <1>3, StateFacts DEF Emptied
<1>5. failed.file = SeekFailed(file) /\ failed.graph = l.graph /\ failed.bufs = l.bufs
      /\ failed.how = l.how
  BY <1>4 DEF State
<1>6. SeekFailed(file).sink = file.sink
  BY <1>4, SoughtFile
<1> HIDE DEF failed
<1>7. n.file.sink = file.sink /\ n.graph = l.graph /\ n.bufs = l.bufs /\ n.how = l.how
  BY <1>4, <1>5, <1>6
<1> HIDE DEF n
<1>8. file'.sink = file.sink /\ graph' = l.graph /\ bufs' = l.bufs
  BY <1>2, <1>7 DEF Continue
<1>9. Steady
  BY <1>1, <1>8, FlushedSteady
<1> HIDE DEF l
<1>10. call'.at # "seek"
  <2>1. CASE l.how = "ok"
    BY <1>2, <1>7, <2>1, IdleIsCall DEF Continue
  <2>2. CASE l.how = "undefined"
    <3>1. call' = [Idle EXCEPT !.at = "undefined"]
      BY <1>2, <1>7, <2>2 DEF Continue
    <3> QED BY <3>1 DEF Idle
  <2> QED BY <1>3, <2>1, <2>2 DEF Emptied
<1> QED BY <1>1, <1>9, <1>10, Inexact, SteadyAbandoned

\* Before the reader is activated.
LEMMA InactiveExact ==
  ASSUME active' = FALSE, exact' = 0, call'.at # "seek",
         \A k \in Sink : bufs'[k] # NoBuffer => Frames(bufs'[k]) = <<>>,
         graph'.parsed => \E s \in Stream : file'.sink[s] = In
  PROVE  Abandoned' /\ Exacting'
<1>1. \A k \in Sink : Made(k)' => Frames(bufs'[k]) = <<>>
  BY DEF Made
<1>2. \A k \in Orphans' : k \in Sink /\ Made(k)'
  BY DEF Orphans
<1> QED BY <1>1, <1>2, Inexact DEF Abandoned

LEMMA CloseExact ==
  ASSUME ReaderInv, Abandoned, call = Idle, NEW f, Close(f)
  PROVE  Abandoned' /\ Exacting'
<1>1. /\ active' = FALSE /\ exact' = 0 /\ call' = Idle /\ graph' = NoGraph
      /\ bufs' = [b \in Buffer |-> IF b \in Stream \/ graph.parsed THEN NoBuffer ELSE bufs[b]]
  BY DEF Close
<1>2. Wired(Now) /\ Now.graph = graph
  BY OneReads
<1>3. ASSUME NEW k \in Sink, bufs'[k] # NoBuffer
      PROVE  Frames(bufs'[k]) = <<>>
  <2>1. bufs'[k] = bufs[k] /\ ~graph.parsed
    BY <1>1, <1>3, Names
  <2>2. k \in Orphans
    BY <1>2, <1>3, <2>1, NoGraphFacts DEF Wired, Orphans, Made
  <2> QED BY <2>1, <2>2 DEF Abandoned
<1> QED BY <1>1, <1>3, IdleIsCall, NoGraphFacts, InactiveExact

LEMMA CloseFileExact ==
  ASSUME ReaderInv, Abandoned, CloseFile
  PROVE  Abandoned' /\ Exacting'
BY CloseExact DEF CloseFile

LEMMA OpenFileExact ==
  ASSUME ReaderInv, Abandoned, Exacting, OpenFile
  PROVE  Abandoned' /\ Exacting'
<1>1. file \in File /\ Now.file = file /\ call = Idle
  BY OneReads, StateFacts DEF OpenFile
<1>2. CASE file.isOpen
  <2>1. PICK f \in {Opened(Closed(file)), HalfOpened(Closed(file)), Closed(file)} : Close(f)
    BY <1>2 DEF OpenFile
  <2> QED BY <1>1, <2>1, CloseExact
<1>3. CASE ~file.isOpen
  <2>1. PICK f \in {Opened(file), HalfOpened(file), file} :
          file' = f /\ Quiet /\ UNCHANGED <<graph, bufs, active, due>>
    BY <1>3 DEF OpenFile
  <2>2. file'.sink = file.sink
    BY <1>1, <2>1, NewlyOpened
  <2>3. active = FALSE
    BY <1>1, <1>3, OneReads DEF FileReady
  <2>4. /\ active' = FALSE /\ exact' = 0 /\ call' = Idle /\ graph' = graph /\ bufs' = bufs
    BY <1>1, <2>1, <2>3 DEF Quiet, Exacting
  <2>5. \A k \in Sink : bufs'[k] # NoBuffer => Frames(bufs'[k]) = <<>>
    BY <2>3, <2>4 DEF Abandoned, Made
  <2>6. graph'.parsed => \E s \in Stream : file'.sink[s] = In
    BY <2>2, <2>4 DEF Abandoned
  <2> QED BY <2>4, <2>5, <2>6, IdleIsCall, InactiveExact
<1> QED BY <1>2, <1>3

LEMMA AddStreamExact ==
  ASSUME ReaderInv, Abandoned, Exacting, NEW s \in Stream, NEW N \in Rooms, AddStream(s, N)
  PROVE  Abandoned' /\ Exacting'
<1>1. /\ Setup /\ file.isOpen /\ ~IsStreamActive(file, s)
      /\ file' = WithStream(file, s, s) /\ bufs' = [bufs EXCEPT ![s] = NewQueue(N)]
      /\ graph' = graph /\ active' = active /\ call' = call /\ exact' = exact
  BY DEF AddStream, Quiet
<1>2. /\ active = FALSE /\ call = Idle /\ file \in File
      /\ bufs \in [Buffer -> Queue \cup {NoBuffer}]
  BY <1>1, SettingUp, StateFacts
<1>3. file.sink[s] = NoBuffer /\ s \in Buffer /\ s # In /\ In # NoBuffer
  BY <1>1, Names DEF IsStreamActive, Active
<1>4. \A r \in Stream \ {s} : file'.sink[r] = file.sink[r]
  BY <1>1, <1>2, <1>3, NewStream
<1>5. graph'.parsed => \E r \in Stream : file'.sink[r] = In
  BY <1>1, <1>3, <1>4 DEF Abandoned
<1>6. \A k \in Sink : bufs'[k] = bufs[k]
  BY <1>1, <1>2, Names
<1>7. \A k \in Sink : bufs'[k] # NoBuffer => Frames(bufs'[k]) = <<>>
  BY <1>2, <1>6 DEF Abandoned, Made
<1>8. exact' = 0
  BY <1>1, <1>2 DEF Exacting
<1> QED BY <1>1, <1>2, <1>5, <1>7, <1>8, IdleIsCall, InactiveExact

LEMMA AddSinkExact ==
  ASSUME ReaderInv, Abandoned, Exacting, NEW k \in Sink, NEW N \in Rooms, AddSink(k, N)
  PROVE  Abandoned' /\ Exacting'
<1>1. /\ Setup /\ graph' = SinkAssigned(graph, k) /\ bufs' = [bufs EXCEPT ![k] = NewQueue(N)]
      /\ file' = file /\ active' = active /\ call' = call /\ exact' = exact
  BY DEF AddSink, Quiet
<1>2. /\ active = FALSE /\ call = Idle /\ graph \in FilterGraphs
      /\ bufs \in [Buffer -> Queue \cup {NoBuffer}]
  BY <1>1, SettingUp, StateFacts
<1>3. graph'.parsed = graph.parsed
  BY <1>1, <1>2 DEF SinkAssigned, FilterGraphs
<1>4. graph'.parsed => \E r \in Stream : file'.sink[r] = In
  BY <1>1, <1>3 DEF Abandoned
<1>5. Frames(NewQueue(N)) = <<>>
  BY RoomsAssumption, FreshQueue
<1>6. \A j \in Sink : bufs'[j] = IF j = k THEN NewQueue(N) ELSE bufs[j]
  BY <1>1, <1>2, Names
<1>7. \A j \in Sink : bufs'[j] # NoBuffer => Frames(bufs'[j]) = <<>>
  BY <1>2, <1>5, <1>6 DEF Abandoned, Made
<1>8. exact' = 0
  BY <1>1, <1>2 DEF Exacting
<1> QED BY <1>1, <1>2, <1>4, <1>7, <1>8, IdleIsCall, InactiveExact

LEMMA SetFilterGraphExact ==
  ASSUME ReaderInv, Abandoned, Exacting, NEW outs \in SUBSET Sink, SetFilterGraph(outs)
  PROVE  Abandoned' /\ Exacting'
<1>1. Setup /\ active' = active /\ call' = call /\ exact' = exact
  BY DEF SetFilterGraph, Quiet
<1>2. /\ active = FALSE /\ call = Idle /\ file \in File
      /\ bufs \in [Buffer -> Queue \cup {NoBuffer}]
  BY <1>1, SettingUp, StateFacts
<1>3. exact' = 0
  BY <1>1, <1>2 DEF Exacting
<1>4. CASE graph' = NoGraph /\ bufs' = bufs
  <2>1. \A k \in Sink : bufs'[k] # NoBuffer => Frames(bufs'[k]) = <<>>
    BY <1>2, <1>4 DEF Abandoned, Made
  <2> QED BY <1>1, <1>2, <1>3, <1>4, <2>1, NoGraphFacts, IdleIsCall, InactiveExact
<1>5. CASE \E s \in Stream \ Active(file) :
             /\ file' = WithStream(file, s, In)
             /\ bufs' = [bufs EXCEPT ![In] = IF Made(In) THEN @ ELSE NewQueue(0)]
  <2>1. PICK s \in Stream \ Active(file) :
          /\ file' = WithStream(file, s, In)
          /\ bufs' = [bufs EXCEPT ![In] = IF Made(In) THEN @ ELSE NewQueue(0)]
    BY <1>5
  <2>2. s \in Stream /\ file.sink[s] = NoBuffer /\ In \in Buffer
    BY Names DEF Active
  <2>3. file'.sink[s] = In
    BY <1>2, <2>1, <2>2, NewStream
  <2>4. \A k \in Sink : bufs'[k] = bufs[k]
    BY <1>2, <2>1, Names
  <2>5. \A k \in Sink : bufs'[k] # NoBuffer => Frames(bufs'[k]) = <<>>
    BY <1>2, <2>4 DEF Abandoned, Made
  <2> QED BY <1>1, <1>2, <1>3, <2>2, <2>3, <2>5, IdleIsCall, InactiveExact
<1> QED BY <1>4, <1>5 DEF SetFilterGraph

LEMMA ActivateExact ==
  ASSUME ReaderInv, Abandoned, Exacting, Activate
  PROVE  Abandoned' /\ Exacting'
<1> DEFINE c == IF graph.parsed THEN Configure(graph) ELSE [graph |-> graph, how |-> "ok"]
           dangling == graph.parsed /\ Orphans # {}
<1>1. /\ Setup /\ graph' = c.graph /\ active' = (c.how = "ok" /\ ~dangling)
      /\ call' = IF c.how = "ok" /\ dangling THEN [Idle EXCEPT !.at = "undefined"] ELSE Idle
      /\ file' = file /\ bufs' = bufs /\ exact' = exact
  BY DEF Activate
<1>2. active = FALSE /\ graph \in FilterGraphs
  BY <1>1, SettingUp, StateFacts
<1>3. c.graph.parsed = graph.parsed /\ c.graph.sinks = graph.sinks
  BY <1>2, Configures
<1>4. active' => (graph.parsed => Orphans = {})
  BY <1>1
<1> HIDE DEF c, dangling
<1>5. exact' = 0 /\ call'.at # "seek"
  <2>1. call'.at \in {"undefined", "idle"}
    BY <1>1 DEF Idle
  <2> QED BY <1>1, <1>2, <2>1 DEF Exacting
<1>6. Orphans' = Orphans /\ graph'.parsed = graph.parsed
  BY <1>1, <1>3 DEF Orphans, Made
<1>7. \A k \in Sink : Made(k) => Frames(bufs[k]) = <<>>
  BY <1>2 DEF Abandoned
<1>8. \A k \in Sink : Made(k)' => Frames(bufs'[k]) = <<>>
  BY <1>1, <1>7 DEF Made
<1>9. \A k \in Orphans' : Frames(bufs'[k]) = <<>>
  BY <1>8 DEF Orphans
<1>10. graph'.parsed => \E s \in Stream : file'.sink[s] = In
  BY <1>1, <1>6 DEF Abandoned
<1>11. Abandoned'
  BY <1>4, <1>6, <1>8, <1>9, <1>10 DEF Abandoned
<1> QED BY <1>5, <1>11, Inexact

LEMMA InitExact == Init => Abandoned /\ Exacting
<1> SUFFICES ASSUME Init PROVE Abandoned /\ Exacting
  OBVIOUS
<1>1. /\ graph = NoGraph /\ bufs = [b \in Buffer |-> NoBuffer] /\ active = FALSE
      /\ call = Idle /\ exact = 0
  BY DEF Init
<1>2. \A k \in Sink : ~Made(k)
  BY <1>1, Names DEF Made
<1>3. Orphans = {}
  BY <1>2 DEF Orphans
<1> QED BY <1>1, <1>2, <1>3, NoGraphFacts, IdleIsCall DEF Abandoned, Exacting

LEMMA NextExact ==
  ASSUME ReaderInv, ReaderInv', Abandoned, Exacting, [Next]_vars
  PROVE  Abandoned' /\ Exacting'
<1>1. CASE OpenFile
  BY <1>1, OpenFileExact
<1>2. CASE CloseFile
  BY <1>2, CloseFileExact
<1>3. CASE Activate
  BY <1>3, ActivateExact
<1>4. ASSUME NEW s \in Stream, NEW N \in Rooms, AddStream(s, N) PROVE Abandoned' /\ Exacting'
  BY <1>4, AddStreamExact
<1>5. ASSUME NEW k \in Sink, NEW N \in Rooms, AddSink(k, N) PROVE Abandoned' /\ Exacting'
  BY <1>5, AddSinkExact
<1>6. ASSUME NEW outs \in SUBSET Sink, SetFilterGraph(outs) PROVE Abandoned' /\ Exacting'
  BY <1>6, SetFilterGraphExact
<1>7. CASE AtEndOfFile
  BY <1>7, AtEndOfFileExact
<1>8. ASSUME NEW b \in Buffer, AtEndOfStream(b) PROVE Abandoned' /\ Exacting'
  BY <1>8, AtEndOfStreamExact
<1>9. ASSUME NEW b \in Buffer, GetTimeStamp(b) PROVE Abandoned' /\ Exacting'
  BY <1>9, GetTimeStampExact
<1>10. ASSUME NEW b \in Buffer, NEW getmore \in BOOLEAN, ReadNextFrame(b, getmore)
       PROVE  Abandoned' /\ Exacting'
  BY <1>10, ReadNextFrameExact
<1>11. ASSUME NEW t \in {Media[k].time : k \in DOMAIN Media}, NEW toExact \in BOOLEAN,
              Seek(t, toExact)
       PROVE  Abandoned' /\ Exacting'
  BY <1>11, SeekExactly
<1>12. CASE SeekThrows
  BY <1>12, SeekThrowsExact
<1>13. CASE TakeFrame
  BY <1>13, TakeFrameExact
<1>14. CASE NoFrame
  BY <1>14, NoFrameExact
<1>15. CASE FillBuffer
  BY <1>15, FillBufferExact
<1>16. CASE Land
  BY <1>16, LandExact
<1>17. CASE Purge
  BY <1>17, PurgeExact
<1>18. CASE UNCHANGED vars
  <2>1. /\ file' = file /\ graph' = graph /\ bufs' = bufs /\ active' = active /\ call' = call
        /\ gone' = gone /\ due' = due /\ exact' = exact
    BY <1>18 DEF vars
  <2>2. Outputs' = Outputs /\ Orphans' = Orphans /\ (\A b : Made(b)' <=> Made(b)) /\ Now' = Now
    BY <2>1 DEF Outputs, Orphans, Made, Now
  <2>3. (\A b : Single(b)' <=> Single(b)) /\ (Lost' <=> Lost)
    BY <2>1 DEF Single, Feeders, Lost
  <2>4. Abandoned'
    BY <2>1, <2>2 DEF Abandoned
  <2>5. Exacting'
    BY <2>1, <2>2, <2>3 DEF Exacting
  <2> QED BY <2>4, <2>5
<1> QED
  BY <1>1, <1>2, <1>3, <1>4, <1>5, <1>6, <1>7, <1>8, <1>9, <1>10, <1>11, <1>12, <1>13,
     <1>14, <1>15, <1>16, <1>17, <1>18
  DEF Next, GoOn

LEMMA AlwaysExact == Spec => [](ReaderInv /\ Abandoned /\ Exacting)
<1>1. ReaderInv /\ Abandoned /\ Exacting /\ [Next]_vars => (ReaderInv /\ Abandoned /\ Exacting)'
  BY NextKeeps, NextExact
<1> QED BY <1>1, InitHolds, InitExact, PTL DEF Spec

LEMMA NoneTooEarly == ReaderInv /\ Abandoned /\ Exacting => SeekExact
<1> SUFFICES ASSUME ReaderInv, Abandoned, Exacting, exact # 0, call.at # "purge", ~Lost,
                    NEW b \in Outputs, \A r, s \in Feeders(b) : r = s
             PROVE  \A i \in DOMAIN Frames(bufs[b]) : Media[Frames(bufs[b])[i]].time >= exact
  BY DEF SeekExact
<1>1. CASE b \in Orphans
  <2>1. Frames(bufs[b]) = <<>>
    BY <1>1 DEF Abandoned
  <2>2. DOMAIN Frames(bufs[b]) = {}
    BY <2>1
  <2> QED BY <2>2
<1>2. CASE b \notin Orphans
  <2>1. Single(b) /\ b \in Outputs \ Orphans
    BY <1>2 DEF Single
  <2>2. /\ b \in Stream \cup Sink /\ Made(b) /\ (b \in Sink => b \in graph.sinks)
        /\ \E s \in Stream : Feeders(b) = {s}
    BY <2>1, OneFeeder
  <2>3. PICK s \in Stream : Feeders(b) = {s}
    BY <2>2
  <2>4. /\ Now \in State /\ Wired(Now) /\ Now.file = file /\ Now.graph = graph /\ Now.bufs = bufs
        /\ Balanced(Now, gone, due) /\ \A c : Exists(Now, c) <=> Made(c)
        /\ gone \in [Buffer -> Seq(Frame)] /\ due \in [Buffer -> Seq(Frame)]
    BY OneReads
  <2>5. FedBy(Now, b, s)
    BY <2>3, <2>4 DEF Feeders, FedBy
  <2>6. Exists(Now, b) /\ (b \in Sink => b \in Now.graph.sinks)
    BY <2>2, <2>4
  <2>7. Tallies(Now, b, gone, due)
    BY <2>2, <2>4, <2>5, <2>6, Placed
  <2>8. PICK c \in Seq(Frame) : due[Source(b)] = Cat(Cat(gone[b], Frames(bufs[b])), c)
    BY <2>4, <2>7 DEF Tallies
  <2>9. gone[b] \in Seq(Frame) /\ Frames(bufs[b]) \in Seq(Frame)
    BY <2>4, <2>7 DEF Tallies
  <2>10. LateFrom(due[Source(b)], Len(gone[b]), exact)
    BY <2>1 DEF Exacting
  <2>11. \A i \in 1..Len(Frames(bufs[b])) : Media[Frames(bufs[b])[i]].time >= exact
    BY <2>8, <2>9, <2>10, AllAreLate
  <2>12. DOMAIN Frames(bufs[b]) = 1..Len(Frames(bufs[b]))
    BY <2>9, LenProperties
  <2> QED BY <2>11, <2>12
<1> QED BY <1>1, <1>2


\* The reader's parts fit together, whatever is opened, added, replaced, closed
\* and sought, and wherever a read throws: the buffers stay rings, an active stream
\* has its buffer, and an active reader an open file and a configured graph.  This
\* is about openFile(), closeFile(), setFilterGraph(), activate(), read and seek.
THEOREM PartsOfTheReaderFit == Spec => []TypeOK
BY Always, PartsFit, PTL

\* Between two seeks every frame of a stream comes out of its buffer exactly once
\* and in the order of the file, and every output of the graph gets every frame that
\* went into it: no frame is lost, doubled or overtaken in readNextPacket(),
\* processPacket(), processFrame(), push(), expand() and pop(), however the calls
\* of the client follow one another.
THEOREM NoFrameIsLost == Spec => []NothingLost
BY Always, AccountsTally, PTL

\* With dynamic buffers, atEndOfFile(), atEndOfStream() and readNextFrame() report
\* the end of a stream only once the client has got every frame of it.
THEOREM EndOfStreamIsHonest == Spec => []EofHonest
BY Always, SaidIsTrue, PTL

\* After an exact search every frame in a buffer is of the time that was sought or
\* of a later one, however many frames purge_until() had to read and to drop, and
\* whatever the client reads afterwards.  This is about seek(), purge_until(),
\* checkNextTimeStamp() and the reads that follow, for the buffers that one stream
\* leads to.
THEOREM ExactSeekIsExact == Spec => []SeekExact
BY AlwaysExact, NoneTooEarly, PTL
=============================================================================
