-------------------------- MODULE FrameQueueProofs --------------------------
(***************************************************************************)
(* What each critical section of AVFrameQueue does to a well-formed queue, *)
(* for every size of the ring.                                             *)
(***************************************************************************)
EXTENDS FrameQueue, SequenceTheorems, TLAPS

(***************************************************************************)
(* The types of a queue's parts.                                           *)
(***************************************************************************)
LEMMA QueueFacts ==
  ASSUME NEW q, QueueTypeOK(q)
  PROVE  /\ q.que \in Seq(Slot)
         /\ Size(q) \in Nat \ {0}
         /\ DOMAIN q.que = 1..Size(q)
         /\ q.wr \in 1..Size(q) /\ q.rd \in 1..Size(q)
         /\ q.dynamic \in BOOLEAN /\ q.killnow \in BOOLEAN
         /\ \A i \in 1..Size(q) : q.que[i] \in Slot
         /\ \A i \in 1..Size(q) : After(q, i) \in 1..Size(q) /\ Before(q, i) \in 1..Size(q)
<1>1. q.que \in Seq(Slot) /\ q.dynamic \in BOOLEAN /\ q.killnow \in BOOLEAN
  BY DEF QueueTypeOK, Queue
<1>2. Size(q) \in Nat /\ DOMAIN q.que = 1..Size(q)
  BY <1>1, LenProperties DEF Size
<1>3. q.wr \in 1..Size(q) /\ q.rd \in 1..Size(q)
  BY <1>2 DEF QueueTypeOK
<1>4. \A i \in 1..Size(q) : q.que[i] \in Slot
  BY <1>1, ElementOfSeq DEF Size
<1> QED BY <1>1, <1>2, <1>3, <1>4 DEF After, Before

(***************************************************************************)
(* A queue with another ring and other positions.                          *)
(***************************************************************************)
LEMMA RingFields ==
  ASSUME NEW q, QueueTypeOK(q), NEW s \in Seq(Slot), NEW w \in 1..Len(s), NEW r \in 1..Len(s)
  PROVE  LET p == WithRing(q, s, w, r)
         IN /\ QueueTypeOK(p)
            /\ p.que = s /\ p.wr = w /\ p.rd = r
            /\ p.dynamic = q.dynamic /\ p.killnow = q.killnow
            /\ Size(p) = Len(s)
<1> DEFINE p == WithRing(q, s, w, r)
<1>1. q \in Queue
  BY DEF QueueTypeOK
<1>2. Len(s) \in Nat /\ DOMAIN s = 1..Len(s)
  BY LenProperties
<1>3. /\ p.que = s /\ p.wr = w /\ p.rd = r
      /\ p.dynamic = q.dynamic /\ p.killnow = q.killnow
  BY <1>1 DEF Queue, WithRing
<1>4. w \in Nat /\ r \in Nat
  BY <1>2
<1>5. p \in Queue
  BY <1>1, <1>4 DEF Queue, WithRing
<1> QED BY <1>2, <1>3, <1>5 DEF QueueTypeOK, Size

(***************************************************************************)
(* A queue with one slot put, and other positions.                         *)
(***************************************************************************)
LEMMA SlotPut ==
  ASSUME NEW q, QueueTypeOK(q), NEW i \in 1..Size(q), NEW e \in Slot,
         NEW w \in 1..Size(q), NEW r \in 1..Size(q)
  PROVE  LET p == WithRing(q, [q.que EXCEPT ![i] = e], w, r)
         IN /\ QueueTypeOK(p) /\ Size(p) = Size(q)
            /\ p.wr = w /\ p.rd = r
            /\ p.dynamic = q.dynamic /\ p.killnow = q.killnow
            /\ \A j \in 1..Size(q) : p.que[j] = IF j = i THEN e ELSE q.que[j]
<1> DEFINE s == [q.que EXCEPT ![i] = e]
<1>1. q.que \in Seq(Slot)
  BY QueueFacts
<1>2. s \in Seq(Slot)
  BY <1>1, ExceptSeq DEF Size
<1>3. Len(s) = Size(q)
  BY <1>1, ExceptSeq DEF Size
<1>4. \A j \in 1..Size(q) : s[j] = IF j = i THEN e ELSE q.que[j]
  BY <1>1, ExceptSeq DEF Size
<1>5. w \in 1..Len(s) /\ r \in 1..Len(s)
  BY <1>3
<1> HIDE DEF s
<1>6. LET p == WithRing(q, s, w, r)
      IN /\ QueueTypeOK(p) /\ p.que = s /\ Size(p) = Len(s) /\ p.wr = w /\ p.rd = r
         /\ p.dynamic = q.dynamic /\ p.killnow = q.killnow
  BY <1>2, <1>5, RingFields
<1> QED BY <1>3, <1>4, <1>6 DEF s

LEMMA SlotFields ==
  /\ VacantSlot \in Slot /\ VacantSlot.frame = Null /\ ~VacantSlot.eof /\ ~VacantSlot.populated
  /\ \A x \in Frame \cup {Null} :
       /\ Holding(x) \in Slot /\ Holding(x).frame = x /\ Holding(x).populated
       /\ Holding(x).eof <=> x = Null
BY DEF VacantSlot, Holding, Slot

LEMMA FillShape ==
  ASSUME NEW q, QueueTypeOK(q), NEW x \in Frame \cup {Null}
  PROVE  LET p == Fill(q, x)
         IN /\ QueueTypeOK(p) /\ Size(p) = Size(q)
            /\ p.wr = After(q, q.wr) /\ p.rd = q.rd
            /\ p.dynamic = q.dynamic /\ p.killnow = q.killnow
            /\ \A j \in 1..Size(q) :
                 p.que[j] = IF j = q.wr THEN Holding(x) ELSE q.que[j]
<1> DEFINE w == After(q, q.wr)
           i == q.wr
           r == q.rd
           p == WithRing(q, [q.que EXCEPT ![i] = Holding(x)], w, r)
<1>1. Holding(x) \in Slot
  BY SlotFields
<1>2. i \in 1..Size(q) /\ r \in 1..Size(q) /\ w \in 1..Size(q)
  BY QueueFacts
<1>3. /\ QueueTypeOK(p) /\ Size(p) = Size(q)
      /\ p.wr = w /\ p.rd = r
      /\ p.dynamic = q.dynamic /\ p.killnow = q.killnow
      /\ \A j \in 1..Size(q) : p.que[j] = IF j = i THEN Holding(x) ELSE q.que[j]
  <2> HIDE DEF w, i, r
  <2> QED BY <1>1, <1>2, SlotPut
<1>4. p = Fill(q, x)
  BY DEF Fill
<1> HIDE DEF p
<1> QED BY <1>3, <1>4

LEMMA FillOK ==
  ASSUME NEW q, QueueOK(q), ~q.que[q.wr].populated, ~Ended(q), NEW x \in Frame \cup {Null}
  PROVE  QueueOK(Fill(q, x))
<1> DEFINE p == Fill(q, x)
           N == Size(q)
<1>1. QueueTypeOK(q)
  BY DEF QueueOK
<1>2. /\ N \in Nat \ {0} /\ DOMAIN q.que = 1..N
      /\ q.wr \in 1..N /\ q.rd \in 1..N
  BY <1>1, QueueFacts
<1>3. QueueTypeOK(p) /\ Size(p) = N /\ p.wr = After(q, q.wr) /\ p.rd = q.rd
  BY <1>1, FillShape
<1>4. \A j \in 1..N :
        p.que[j] = IF j = q.wr THEN Holding(x) ELSE q.que[j]
  BY <1>1, FillShape
<1>5. DOMAIN p.que = 1..N
  BY <1>3, QueueFacts
<1>6. \A i \in 1..N : q.que[i].eof \in BOOLEAN /\ q.que[i].populated \in BOOLEAN
  BY <1>1, QueueFacts DEF Slot
<1> HIDE DEF p
<1>7. \A i \in 1..N : ~q.que[i].eof
  BY <1>2, <1>6 DEF QueueOK, EofIsLast, Ended, Before
<1>8. \A i \in 1..N : /\ p.que[i].populated <=> i = q.wr \/ q.que[i].populated
                      /\ p.que[i].eof <=> i = q.wr /\ x = Null
  BY <1>4, <1>6, <1>7, SlotFields
<1>9. RingContiguous(p)
  <2>1. \A i \in 1..N : q.que[i].populated <=> Between(q, i)
    BY <1>2, <1>7 DEF QueueOK, RingContiguous
  <2>2. \A i \in 1..N : p.que[i].populated <=> Between(p, i)
    BY <1>2, <1>3, <1>8, <2>1 DEF Between, After
  <2>3. ASSUME p.rd = p.wr PROVE \A i \in 1..N : Between(p, i)
    BY <1>2, <1>3, <1>8, <2>1, <2>3 DEF Between, After
  <2> QED BY <1>5, <2>2, <2>3 DEF RingContiguous
<1>10. SlotsClean(p)
  BY <1>2, <1>4, <1>5, SlotFields, NullAssumption DEF QueueOK, SlotsClean
<1>11. EofIsLast(p)
  BY <1>2, <1>3, <1>5, <1>8 DEF After, Before, EofIsLast
<1> QED BY <1>3, <1>9, <1>10, <1>11 DEF QueueOK, p

(***************************************************************************)
(* push() with no frame argument does what push(f) does.                   *)
(***************************************************************************)
LEMMA MarkPopulatedIsFill ==
  ASSUME NEW q, QueueOK(q), ~q.que[q.wr].populated, NEW f \in Frame
  PROVE  MarkPopulated(q, f) = Fill(q, f)
<1>1. QueueTypeOK(q)
  BY DEF QueueOK
<1>2. q.wr \in DOMAIN q.que /\ q.que[q.wr] \in Slot
  BY <1>1, QueueFacts
<1>3. q.que[q.wr].eof = FALSE
  BY <1>2 DEF QueueOK, SlotsClean, Slot
<1>4. f # Null
  BY NullAssumption
<1>5. [frame |-> f, eof |-> q.que[q.wr].eof, populated |-> TRUE] = Holding(f)
  BY <1>3, <1>4 DEF Holding
<1> QED BY <1>5 DEF MarkPopulated, Fill

(***************************************************************************)
(* InsertAt, of the community modules.                                     *)
(***************************************************************************)
LEMMA InsertAtProperties ==
  ASSUME NEW S, NEW s \in Seq(S), NEW i \in 1..(Len(s) + 1), NEW e \in S
  PROVE  /\ InsertAt(s, i, e) \in Seq(S)
         /\ Len(InsertAt(s, i, e)) = Len(s) + 1
         /\ \A j \in 1..(Len(s) + 1) :
              InsertAt(s, i, e)[j] = IF j < i THEN s[j] ELSE IF j = i THEN e ELSE s[j - 1]
<1> DEFINE a == SubSeq(s, 1, i - 1)
           b == <<e>>
           c == SubSeq(s, i, Len(s))
           N == Len(s)
<1>1. N \in Nat /\ \A j \in 1..N : s[j] \in S
  BY LenProperties, ElementOfSeq
<1>2. /\ a \in Seq(S) /\ Len(a) = i - 1
      /\ \A j \in 1..(i - 1) : a[j] = s[j]
  <2>1. 1 \in Int /\ i - 1 \in Int /\ \A j \in 1..(i - 1) : s[j] \in S
    BY <1>1
  <2> QED BY <1>1, <2>1, SubSeqProperties
<1>3. /\ c \in Seq(S) /\ Len(c) = N - i + 1
      /\ \A j \in 1..(N - i + 1) : c[j] = s[i + j - 1]
  <2>1. i \in Int /\ N \in Int /\ \A j \in i..N : s[j] \in S
    BY <1>1
  <2> QED BY <1>1, <2>1, SubSeqProperties
<1>4. b \in Seq(S) /\ Len(b) = 1 /\ b[1] = e
  OBVIOUS
<1> HIDE DEF a, b, c
<1>5. /\ a \o b \in Seq(S) /\ Len(a \o b) = i
      /\ \A j \in 1..i : (a \o b)[j] = IF j < i THEN s[j] ELSE e
  <2>1. /\ a \o b \in Seq(S) /\ Len(a \o b) = Len(a) + Len(b)
        /\ \A j \in 1..(Len(a) + Len(b)) :
             (a \o b)[j] = IF j <= Len(a) THEN a[j] ELSE b[j - Len(a)]
    BY <1>2, <1>4, ConcatProperties
  <2> QED BY <1>1, <1>2, <1>4, <2>1
<1> DEFINE d == a \o b
<1>6. /\ d \o c \in Seq(S) /\ Len(d \o c) = N + 1
      /\ \A j \in 1..(N + 1) : (d \o c)[j] = IF j <= i THEN d[j] ELSE c[j - i]
  <2>1. d \in Seq(S) /\ Len(d) = i
    BY <1>5
  <2> HIDE DEF d
  <2>2. /\ d \o c \in Seq(S) /\ Len(d \o c) = Len(d) + Len(c)
        /\ \A j \in 1..(Len(d) + Len(c)) :
             (d \o c)[j] = IF j <= Len(d) THEN d[j] ELSE c[j - Len(d)]
    BY <1>3, <2>1, ConcatProperties
  <2> QED BY <1>1, <1>3, <2>1, <2>2
<1>7. InsertAt(s, i, e) = d \o c
  BY DEF InsertAt, a, b, c
<1>8. \A j \in 1..(N + 1) :
        (d \o c)[j] = IF j < i THEN s[j] ELSE IF j = i THEN e ELSE s[j - 1]
  BY <1>1, <1>3, <1>5, <1>6
<1> QED BY <1>6, <1>7, <1>8

(***************************************************************************)
(* expand(), on the one occasion it is called once the queue is made: the  *)
(* write position has caught up with the read position.                    *)
(***************************************************************************)
LEMMA ExpandShape ==
  ASSUME NEW q, QueueTypeOK(q), q.que[q.wr].populated
  PROVE  LET p == Expand(q)
             at == IF q.wr = 1 THEN Size(q) + 1 ELSE q.wr
         IN /\ QueueTypeOK(p) /\ Size(p) = Size(q) + 1
            /\ p.wr = at /\ p.rd = IF q.wr > 1 THEN q.rd + 1 ELSE q.rd
            /\ p.dynamic = q.dynamic /\ p.killnow = q.killnow
            /\ \A j \in 1..(Size(q) + 1) :
                 p.que[j] = IF j < at THEN q.que[j] ELSE IF j = at THEN VacantSlot ELSE q.que[j - 1]
<1> DEFINE at == IF q.wr = 1 THEN Size(q) + 1 ELSE q.wr
           r == IF q.wr > 1 THEN q.rd + 1 ELSE q.rd
           s == InsertAt(q.que, at, VacantSlot)
           p == WithRing(q, s, at, r)
<1>1. q.que \in Seq(Slot) /\ Size(q) \in Nat \ {0} /\ q.wr \in 1..Size(q) /\ q.rd \in 1..Size(q)
  BY QueueFacts
<1>2. at \in 1..(Len(q.que) + 1)
  BY <1>1 DEF Size
<1>3. VacantSlot \in Slot
  BY SlotFields
<1>4. /\ s \in Seq(Slot) /\ Len(s) = Size(q) + 1
      /\ \A j \in 1..(Size(q) + 1) :
           s[j] = IF j < at THEN q.que[j] ELSE IF j = at THEN VacantSlot ELSE q.que[j - 1]
  <2>1. Size(q) = Len(q.que) /\ q.que \in Seq(Slot)
    BY <1>1 DEF Size
  <2> DEFINE t == q.que
  <2>2. /\ InsertAt(t, at, VacantSlot) \in Seq(Slot)
        /\ Len(InsertAt(t, at, VacantSlot)) = Len(t) + 1
        /\ \A j \in 1..(Len(t) + 1) :
             InsertAt(t, at, VacantSlot)[j]
               = IF j < at THEN t[j] ELSE IF j = at THEN VacantSlot ELSE t[j - 1]
    <3>1. t \in Seq(Slot) /\ at \in 1..(Len(t) + 1)
      BY <2>1, <1>2
    <3> HIDE DEF at, t
    <3> QED BY <3>1, <1>3, InsertAtProperties
  <2> HIDE DEF at
  <2> QED BY <2>1, <2>2
<1>5. at \in 1..Len(s) /\ r \in 1..Len(s)
  BY <1>1, <1>2, <1>4 DEF Size
<1>6. s \in Seq(Slot)
  BY <1>4
<1>7. /\ QueueTypeOK(p) /\ Size(p) = Len(s) /\ p.que = s /\ p.wr = at /\ p.rd = r
      /\ p.dynamic = q.dynamic /\ p.killnow = q.killnow
  <2> HIDE DEF at, r, s
  <2> QED BY <1>5, <1>6, RingFields
<1>8. p = Expand(q)
  BY DEF Expand
<1> HIDE DEF p, s
<1> QED BY <1>4, <1>7, <1>8

LEMMA ExpandOK ==
  ASSUME NEW q, QueueOK(q), q.que[q.wr].populated, ~Ended(q)
  PROVE  /\ QueueOK(Expand(q)) /\ ~Ended(Expand(q))
         /\ ~Expand(q).que[Expand(q).wr].populated
<1> DEFINE p == Expand(q)
           N == Size(q)
           at == IF q.wr = 1 THEN N + 1 ELSE q.wr
<1>1. QueueTypeOK(q)
  BY DEF QueueOK
<1>2. N \in Nat \ {0} /\ DOMAIN q.que = 1..N /\ q.wr \in 1..N /\ q.rd \in 1..N
  BY <1>1, QueueFacts
<1>3. /\ QueueTypeOK(p) /\ Size(p) = N + 1
      /\ p.wr = at /\ p.rd = IF q.wr > 1 THEN q.rd + 1 ELSE q.rd
  BY <1>1, ExpandShape
<1>4. \A j \in 1..(N + 1) :
        p.que[j] = IF j < at THEN q.que[j] ELSE IF j = at THEN VacantSlot ELSE q.que[j - 1]
  BY <1>1, ExpandShape
<1>5. DOMAIN p.que = 1..(N + 1)
  BY <1>2, <1>3, QueueFacts
<1> HIDE DEF p
<1>6. \A i \in 1..N : ~q.que[i].eof
  BY <1>2 DEF QueueOK, EofIsLast, Ended, Before
<1>7. q.rd = q.wr /\ \A i \in 1..N : q.que[i].populated
  BY <1>2, <1>6 DEF QueueOK, RingContiguous, Between
<1>9. at \in 1..(N + 1)
  BY <1>2
<1>8. \A j \in 1..(N + 1) : ~p.que[j].eof /\ (p.que[j].populated <=> j # at)
  <2> HIDE DEF at
  <2> SUFFICES ASSUME NEW j \in 1..(N + 1)
               PROVE  ~p.que[j].eof /\ (p.que[j].populated <=> j # at)
    OBVIOUS
  <2>1. CASE j < at
    BY <1>2, <1>4, <1>6, <1>7, <1>9, <2>1
  <2>2. CASE j = at
    BY <1>4, <2>2, SlotFields
  <2>3. CASE j > at
    BY <1>2, <1>4, <1>6, <1>7, <1>9, <2>3
  <2> QED BY <1>2, <1>9, <2>1, <2>2, <2>3
<1>10. RingContiguous(p)
  BY <1>2, <1>3, <1>5, <1>7, <1>8 DEF RingContiguous, Between
<1>11. SlotsClean(p)
  <2>1. \A i \in 1..N : q.que[i].frame \in Frame
    BY <1>2, <1>6, <1>7 DEF QueueOK, SlotsClean
  <2>2. ASSUME NEW j \in 1..(N + 1)
        PROVE  IF j = at THEN p.que[j].frame = Null ELSE p.que[j].frame \in Frame
    <3> HIDE DEF at
    <3>1. CASE j < at
      BY <1>2, <1>4, <1>9, <2>1, <3>1
    <3>2. CASE j = at
      BY <1>4, <3>2, SlotFields
    <3>3. CASE j > at
      BY <1>2, <1>4, <1>9, <2>1, <3>3
    <3> QED BY <1>2, <1>9, <3>1, <3>2, <3>3
  <2> QED BY <1>5, <1>8, <2>2, NullAssumption DEF SlotsClean
<1>12. EofIsLast(p)
  BY <1>5, <1>8 DEF EofIsLast
<1>13. ~Ended(p)
  BY <1>2, <1>3, <1>8, <1>9 DEF Ended, Before
<1> QED BY <1>3, <1>8, <1>9, <1>10, <1>11, <1>12, <1>13 DEF QueueOK, p

(***************************************************************************)
(* pop().                                                                  *)
(***************************************************************************)
LEMMA PopShape ==
  ASSUME NEW q, QueueTypeOK(q)
  PROVE  LET p == Pop(q)
         IN /\ QueueTypeOK(p) /\ Size(p) = Size(q)
            /\ p.wr = q.wr /\ p.rd = After(q, q.rd)
            /\ p.dynamic = q.dynamic /\ p.killnow = q.killnow
            /\ \A j \in 1..Size(q) :
                 p.que[j] = IF j = q.rd /\ ~q.que[j].eof THEN VacantSlot ELSE q.que[j]
<1> DEFINE w == q.wr
           i == q.rd
           r == After(q, q.rd)
<1>1. w \in 1..Size(q) /\ i \in 1..Size(q) /\ r \in 1..Size(q)
  BY QueueFacts
<1>2. CASE q.que[i].eof
  <2> DEFINE s == q.que
             p == WithRing(q, s, w, r)
  <2>1. Len(s) = Size(q)
    BY DEF Size
  <2>2. w \in 1..Len(s) /\ r \in 1..Len(s) /\ s \in Seq(Slot)
    BY <1>1, <2>1, QueueFacts
  <2>3. /\ QueueTypeOK(p) /\ Size(p) = Len(s) /\ p.que = s /\ p.wr = w /\ p.rd = r
        /\ p.dynamic = q.dynamic /\ p.killnow = q.killnow
    <3> HIDE DEF w, r, s
    <3> QED BY <2>2, RingFields
  <2>4. p = Pop(q)
    BY <1>2 DEF Pop
  <2> HIDE DEF p
  <2> QED BY <1>2, <2>1, <2>3, <2>4
<1>3. CASE ~q.que[i].eof
  <2> DEFINE p == WithRing(q, [q.que EXCEPT ![i] = VacantSlot], w, r)
  <2>1. VacantSlot \in Slot
    BY SlotFields
  <2>2. /\ QueueTypeOK(p) /\ Size(p) = Size(q) /\ p.wr = w /\ p.rd = r
        /\ p.dynamic = q.dynamic /\ p.killnow = q.killnow
        /\ \A j \in 1..Size(q) : p.que[j] = IF j = i THEN VacantSlot ELSE q.que[j]
    <3> HIDE DEF w, r, i
    <3> QED BY <1>1, <2>1, SlotPut
  <2>3. p = Pop(q)
    BY <1>3 DEF Pop
  <2> HIDE DEF p
  <2> QED BY <1>3, <2>2, <2>3
<1> QED BY <1>2, <1>3

LEMMA PopOK ==
  ASSUME NEW q, QueueOK(q), ReadyToPop(q)
  PROVE  QueueOK(Pop(q)) /\ (Ended(Pop(q)) <=> Ended(q))
<1> DEFINE p == Pop(q)
           N == Size(q)
<1>1. QueueTypeOK(q)
  BY DEF QueueOK
<1>2. N \in Nat \ {0} /\ DOMAIN q.que = 1..N /\ q.wr \in 1..N /\ q.rd \in 1..N
  BY <1>1, QueueFacts
<1>3. QueueTypeOK(p) /\ Size(p) = N /\ p.wr = q.wr /\ p.rd = After(q, q.rd)
  BY <1>1, PopShape
<1>4. \A j \in 1..N : p.que[j] = IF j = q.rd /\ ~q.que[j].eof THEN VacantSlot ELSE q.que[j]
  BY <1>1, PopShape
<1>5. DOMAIN p.que = 1..N
  BY <1>3, QueueFacts
<1>6. \A i \in 1..N : q.que[i].eof \in BOOLEAN /\ q.que[i].populated \in BOOLEAN
  BY <1>1, QueueFacts DEF Slot
<1> HIDE DEF p
<1>7. \A j \in 1..N : /\ p.que[j].eof <=> q.que[j].eof
                      /\ p.que[j].populated <=> q.que[j].populated /\ ~(j = q.rd /\ ~q.que[j].eof)
  BY <1>4, <1>6, SlotFields
<1>8. \A j \in 1..N : q.que[j].eof => j = Before(q, q.wr)
  BY <1>2 DEF QueueOK, EofIsLast
<1>9. \A i \in 1..N :
        q.que[i].populated <=> Between(q, i) \/ (q.rd = q.wr /\ i = Before(q, q.wr) /\ q.que[i].eof)
  BY <1>2 DEF QueueOK, RingContiguous
<1>10. q.que[q.rd].populated
  BY DEF ReadyToPop
<1>11. RingContiguous(p)
  <2>1. CASE q.rd = q.wr /\ N = 1
    BY <1>2, <1>3, <1>5, <1>7, <1>8, <1>10, <2>1 DEF RingContiguous, Between, Before, After
  <2>2. CASE q.rd = q.wr /\ N # 1
    <3>1. \A i \in 1..N : q.que[i].populated
      BY <1>9, <1>10, <2>2 DEF Between
    <3>2. ~q.que[q.rd].eof
      BY <1>2, <1>8, <2>2 DEF Before
    <3>3. \A i \in 1..N : p.que[i].populated <=> i # q.rd
      BY <1>7, <3>1, <3>2
    <3> QED BY <1>2, <1>3, <1>5, <2>2, <3>3 DEF RingContiguous, Between, Before, After
  <2>3. CASE q.rd # q.wr /\ ~q.que[q.rd].eof
    <3>1. \A i \in 1..N : p.que[i].populated <=> Between(q, i) /\ i # q.rd
      BY <1>7, <1>9, <2>3
    <3>2. ~p.que[q.rd].eof
      BY <1>2, <1>7, <2>3
    <3>3. CASE p.rd = p.wr
      <4>1. \A i \in 1..N : ~p.que[i].populated
        BY <1>2, <1>3, <2>3, <3>1, <3>3 DEF Between, After
      <4>2. Before(p, p.wr) = q.rd
        BY <1>2, <1>3, <3>3 DEF Before, After
      <4> QED BY <1>2, <1>3, <1>5, <3>2, <3>3, <4>1, <4>2 DEF RingContiguous, Between
    <3>4. CASE p.rd # p.wr
      <4>1. \A i \in 1..N : Between(p, i) <=> Between(q, i) /\ i # q.rd
        BY <1>2, <1>3, <2>3, <3>4 DEF Between, After
      <4> QED BY <1>5, <3>1, <3>4, <4>1 DEF RingContiguous
    <3> QED BY <3>3, <3>4
  <2>4. CASE q.rd # q.wr /\ q.que[q.rd].eof
    <3>1. q.rd = Before(q, q.wr) /\ p.rd = p.wr
      BY <1>2, <1>3, <1>8, <2>4 DEF Before, After
    <3>2. \A i \in 1..N : Between(q, i) <=> i = q.rd
      BY <1>2, <2>4, <3>1 DEF Between, Before
    <3>3. \A i \in 1..N : p.que[i].populated <=> i = q.rd
      BY <1>7, <1>9, <2>4, <3>2
    <3>4. p.que[q.rd].eof
      BY <1>2, <1>7, <2>4
    <3>5. Before(p, p.wr) = q.rd /\ p.rd # q.rd /\ p.rd \in 1..N
      BY <1>2, <1>3, <2>4, <3>1 DEF Before
    <3> QED BY <1>2, <1>3, <1>5, <3>1, <3>3, <3>4, <3>5 DEF RingContiguous, Between
  <2> QED BY <2>1, <2>2, <2>3, <2>4
<1>12. SlotsClean(p)
  BY <1>2, <1>4, <1>5, SlotFields, NullAssumption DEF QueueOK, SlotsClean
<1>13. EofIsLast(p) /\ (Ended(p) <=> Ended(q))
  BY <1>2, <1>3, <1>5, <1>7, <1>8 DEF EofIsLast, Before, Ended
<1> QED BY <1>3, <1>11, <1>12, <1>13 DEF QueueOK, p

(***************************************************************************)
(* clear().                                                                *)
(***************************************************************************)
LEMMA ClearOK ==
  ASSUME NEW q, QueueTypeOK(q)
  PROVE  /\ QueueOK(Clear(q)) /\ ~Ended(Clear(q)) /\ Count(Clear(q)) = 0
         /\ Size(Clear(q)) = Size(q) /\ Clear(q).dynamic = q.dynamic
<1> DEFINE s == [i \in 1..Size(q) |-> VacantSlot]
           a == WithRing(q, s, 1, 1)
           p == Clear(q)
<1>1. QueueTypeOK(q) /\ Size(q) \in Nat \ {0}
  BY QueueFacts
<1>2. s \in Seq(Slot) /\ Len(s) = Size(q)
  BY <1>1, SlotFields
<1>3. 1 \in 1..Len(s)
  BY <1>1, <1>2
<1>4. QueueTypeOK(a) /\ a.que = s /\ a.wr = 1 /\ a.rd = 1 /\ a.dynamic = q.dynamic
  <2> HIDE DEF s
  <2> QED BY <1>1, <1>2, <1>3, RingFields
<1>5. p = [a EXCEPT !.killnow = FALSE]
  BY DEF Clear
<1> HIDE DEF a, p
<1>6. /\ p \in Queue /\ p.que = s /\ p.wr = 1 /\ p.rd = 1 /\ p.dynamic = q.dynamic
  BY <1>4, <1>5 DEF QueueTypeOK, Queue
<1>7. Size(p) = Size(q) /\ DOMAIN p.que = 1..Size(q) /\ \A i \in 1..Size(q) : p.que[i] = VacantSlot
  BY <1>2, <1>6 DEF Size
<1> HIDE DEF s
<1>8. QueueTypeOK(p)
  BY <1>1, <1>6, <1>7 DEF QueueTypeOK
<1>9. \A i \in 1..Size(q) : ~p.que[i].populated /\ ~p.que[i].eof /\ p.que[i].frame = Null
  BY <1>7, SlotFields
<1>10. RingContiguous(p) /\ SlotsClean(p) /\ EofIsLast(p)
  BY <1>1, <1>6, <1>7, <1>9, NullAssumption DEF RingContiguous, Between, SlotsClean, EofIsLast
<1>11. ~Ended(p) /\ Count(p) = 0
  BY <1>1, <1>6, <1>7, <1>9 DEF Ended, Count, Before
<1> QED BY <1>6, <1>7, <1>8, <1>10, <1>11 DEF QueueOK, p

(***************************************************************************)
(* A new queue.                                                            *)
(***************************************************************************)
LEMMA NewQueueOK ==
  ASSUME NEW N \in Nat
  PROVE  LET q == NewQueue(N)
         IN /\ QueueOK(q) /\ ~Ended(q) /\ Count(q) = 0 /\ q.dynamic = (N = 0)
<1> DEFINE q == NewQueue(N)
           M == IF N = 0 THEN 1 ELSE N
           s == [i \in 1..M |-> VacantSlot]
<1>1. M \in Nat \ {0}
  OBVIOUS
<1>2. s \in Seq(Slot) /\ Len(s) = M
  BY <1>1, SlotFields
<1>3. q.que = s /\ q.wr = 1 /\ q.rd = 1 /\ q.dynamic = (N = 0) /\ q.killnow = FALSE
  BY DEF NewQueue
<1>4. q \in Queue
  <2> HIDE DEF s
  <2>1. q = [que |-> s, wr |-> 1, rd |-> 1, dynamic |-> N = 0, killnow |-> FALSE]
    BY DEF NewQueue, s
  <2> QED BY <1>2, <2>1 DEF Queue
<1> HIDE DEF q
<1>5. Size(q) = M /\ DOMAIN q.que = 1..M /\ \A i \in 1..M : q.que[i] = VacantSlot
  BY <1>2, <1>3 DEF Size
<1> HIDE DEF s, M
<1>6. QueueTypeOK(q)
  BY <1>1, <1>3, <1>4, <1>5 DEF QueueTypeOK
<1>7. \A i \in 1..M : ~q.que[i].populated /\ ~q.que[i].eof /\ q.que[i].frame = Null
  BY <1>5, SlotFields
<1>8. RingContiguous(q) /\ SlotsClean(q) /\ EofIsLast(q)
  BY <1>1, <1>3, <1>5, <1>7, NullAssumption DEF RingContiguous, Between, SlotsClean, EofIsLast
<1>9. ~Ended(q) /\ Count(q) = 0
  BY <1>1, <1>3, <1>5, <1>7 DEF Ended, Count, Before
<1> QED BY <1>3, <1>6, <1>8, <1>9 DEF QueueOK, q

(***************************************************************************)
(* Taking back what was pushed last: popLastPushed() and clrEof().         *)
(***************************************************************************)
LEMMA RetractShape ==
  ASSUME NEW q, QueueTypeOK(q), NEW i \in 1..Size(q)
  PROVE  LET p == Retract(q, i)
         IN /\ QueueTypeOK(p) /\ Size(p) = Size(q)
            /\ p.wr = i /\ p.rd = q.rd
            /\ p.dynamic = q.dynamic /\ p.killnow = q.killnow
            /\ \A j \in 1..Size(q) : p.que[j] = IF j = i THEN VacantSlot ELSE q.que[j]
<1> DEFINE r == q.rd
           p == WithRing(q, [q.que EXCEPT ![i] = VacantSlot], i, r)
<1>1. r \in 1..Size(q) /\ VacantSlot \in Slot
  BY QueueFacts, SlotFields
<1>2. /\ QueueTypeOK(p) /\ Size(p) = Size(q) /\ p.wr = i /\ p.rd = r
      /\ p.dynamic = q.dynamic /\ p.killnow = q.killnow
      /\ \A j \in 1..Size(q) : p.que[j] = IF j = i THEN VacantSlot ELSE q.que[j]
  <2> HIDE DEF r
  <2> QED BY <1>1, SlotPut
<1>3. p = Retract(q, i)
  BY DEF Retract
<1> HIDE DEF p
<1> QED BY <1>2, <1>3

LEMMA RetractOK ==
  ASSUME NEW q, QueueOK(q), Count(q) # 0
  PROVE  LET p == Retract(q, Before(q, q.wr))
         IN QueueOK(p) /\ ~Ended(p) /\ Count(p) = Count(q) - 1
<1> DEFINE p == Retract(q, Before(q, q.wr))
           N == Size(q)
           i == Before(q, q.wr)
<1>1. QueueTypeOK(q)
  BY DEF QueueOK
<1>2. /\ N \in Nat \ {0} /\ DOMAIN q.que = 1..N
      /\ q.wr \in 1..N /\ q.rd \in 1..N /\ i \in 1..N
  BY <1>1, QueueFacts
<1>3. QueueTypeOK(p) /\ Size(p) = N /\ p.wr = i /\ p.rd = q.rd
  BY <1>1, <1>2, RetractShape
<1>4. \A j \in 1..N : p.que[j] = IF j = i THEN VacantSlot ELSE q.que[j]
  BY <1>1, <1>2, RetractShape
<1>5. DOMAIN p.que = 1..N
  BY <1>3, QueueFacts
<1> HIDE DEF p
<1>6. \A j \in 1..N : ~p.que[j].eof /\ (p.que[j].populated <=> q.que[j].populated /\ j # i)
  BY <1>2, <1>4, SlotFields DEF QueueOK, EofIsLast
<1>7. \A j \in 1..N : q.que[j].populated <=> Between(q, j)
  <2>1. q.rd = q.wr => q.que[q.rd].populated
    BY <1>2 DEF Count
  <2> QED BY <1>2, <2>1 DEF QueueOK, RingContiguous, Between
<1>14. q.que[q.rd].populated
  <2>1. Between(q, q.rd)
    BY <1>2 DEF Between, Count
  <2> QED BY <1>2, <1>7, <2>1
<1>15. i # q.rd => p.que[q.rd].populated
  BY <1>2, <1>6, <1>14
<1>16. ~p.que[i].populated
  BY <1>2, <1>6
<1>8. \A j \in 1..N : p.que[j].populated <=> Between(p, j)
  <2>1. \A j \in 1..N : Between(p, j) <=> Between(q, j) /\ j # i
    <3>1. CASE q.rd = q.wr
      BY <1>2, <1>3, <1>14, <1>15, <1>16, <3>1 DEF Between, Before
    <3>2. CASE q.rd < q.wr
      BY <1>2, <1>3, <1>14, <1>15, <1>16, <3>2 DEF Between, Before
    <3>3. CASE q.rd > q.wr
      BY <1>2, <1>3, <1>14, <1>15, <1>16, <3>3 DEF Between, Before
    <3> QED BY <1>2, <3>1, <3>2, <3>3
  <2> QED BY <1>6, <1>7, <2>1
<1>9. RingContiguous(p)
  BY <1>5, <1>6, <1>8 DEF RingContiguous
<1>10. SlotsClean(p)
  BY <1>2, <1>4, <1>5, SlotFields, NullAssumption DEF QueueOK, SlotsClean
<1>11. EofIsLast(p)
  BY <1>5, <1>6 DEF EofIsLast
<1>12. ~Ended(p)
  <2>1. Before(p, p.wr) \in 1..N
    BY <1>2, <1>3 DEF Before
  <2> QED BY <1>6, <2>1 DEF Ended
<1>13. Count(p) = Count(q) - 1
  <2>1. CASE q.rd = q.wr
    BY <1>2, <1>3, <1>14, <1>15, <1>16, <2>1 DEF Count, Before
  <2>2. CASE q.rd < q.wr
    BY <1>2, <1>3, <1>14, <1>15, <1>16, <2>2 DEF Count, Before
  <2>3. CASE q.rd > q.wr
    BY <1>2, <1>3, <1>14, <1>15, <1>16, <2>3 DEF Count, Before
  <2> QED BY <1>2, <2>1, <2>2, <2>3
<1> QED BY <1>3, <1>9, <1>10, <1>11, <1>12, <1>13 DEF QueueOK, p

(***************************************************************************)
(* What a queue holds is a sequence of Count(q) frames.                    *)
(***************************************************************************)
LEMMA ContentsSeq ==
  ASSUME NEW q, QueueTypeOK(q)
  PROVE  /\ Count(q) \in 0..Size(q)
         /\ \A k \in 1..Count(q) : At(q, k) \in 1..Size(q)
         /\ Contents(q) \in Seq(Frame \cup {Null})
         /\ Len(Contents(q)) = Count(q)
         /\ \A k \in 1..Count(q) : Contents(q)[k] = q.que[At(q, k)].frame
<1>1. Size(q) \in Nat \ {0} /\ q.wr \in 1..Size(q) /\ q.rd \in 1..Size(q)
  BY QueueFacts
<1>2. Count(q) \in 0..Size(q)
  BY <1>1 DEF Count
<1>3. \A k \in 1..Count(q) : At(q, k) \in 1..Size(q)
  BY <1>1, <1>2 DEF At
<1>4. \A k \in 1..Count(q) : q.que[At(q, k)].frame \in Frame \cup {Null}
  BY <1>3, QueueFacts DEF Slot
<1>5. Count(q) \in Nat
  BY <1>1, <1>2
<1>6. Contents(q) \in [1..Count(q) -> Frame \cup {Null}]
  BY <1>4 DEF Contents
<1>7. Contents(q) \in Seq(Frame \cup {Null})
  BY <1>5, <1>6, SeqDef
<1>8. Len(Contents(q)) = Count(q)
  BY <1>5, <1>6, <1>7, LenProperties
<1> QED BY <1>2, <1>3, <1>7, <1>8 DEF Contents

(***************************************************************************)
(* A queue whose populated slots are those from rd to wr, whatever they    *)
(* hold.  So are all well-formed queues, but one that gave up its end of   *)
(* file; and pushes behind an end of file leave a queue like that.         *)
(***************************************************************************)
Strict(q) ==
  /\ QueueTypeOK(q) /\ SlotsClean(q)
  /\ \A i \in DOMAIN q.que : q.que[i].populated <=> Between(q, i)

LEMMA StrictOf ==
  ASSUME NEW q, QueueOK(q), ~Ended(q) \/ ReadyToPop(q)
  PROVE  Strict(q)
<1>1. /\ Size(q) \in Nat \ {0} /\ DOMAIN q.que = 1..Size(q)
      /\ q.wr \in 1..Size(q) /\ q.rd \in 1..Size(q)
  BY QueueFacts DEF QueueOK
<1>2. q.rd = q.wr /\ ReadyToPop(q) => \A i \in 1..Size(q) : q.que[i].populated /\ Between(q, i)
  <2> SUFFICES ASSUME q.rd = q.wr, ReadyToPop(q), NEW i \in 1..Size(q)
               PROVE  q.que[i].populated /\ Between(q, i)
    OBVIOUS
  <2>1. Between(q, i)
    BY DEF Between, ReadyToPop
  <2> QED BY <1>1, <2>1 DEF QueueOK, RingContiguous
<1>3. ~Ended(q) => \A i \in 1..Size(q) : ~(i = Before(q, q.wr) /\ q.que[i].eof)
  BY DEF Ended
<1> QED BY <1>1, <1>2, <1>3 DEF Strict, QueueOK, RingContiguous

(***************************************************************************)
(* push() appends, and expand() leaves what the queue holds as it is.      *)
(***************************************************************************)
LEMMA ContentsFill ==
  ASSUME NEW q, Strict(q), ~q.que[q.wr].populated, NEW x \in Frame \cup {Null}
  PROVE  /\ Contents(Fill(q, x)) = Append(Contents(q), x)
         /\ Ended(Fill(q, x)) <=> x = Null
         /\ Count(q) < Size(q)
<1> DEFINE p == Fill(q, x)
           N == Size(q)
           S == Frame \cup {Null}
<1>1. QueueTypeOK(q)
  BY DEF Strict
<1>2. N \in Nat \ {0} /\ DOMAIN q.que = 1..N /\ q.wr \in 1..N /\ q.rd \in 1..N
  BY <1>1, QueueFacts
<1>3. QueueTypeOK(p) /\ Size(p) = N /\ p.wr = After(q, q.wr) /\ p.rd = q.rd
  BY <1>1, FillShape
<1>4. \A j \in 1..N : p.que[j] = IF j = q.wr THEN Holding(x) ELSE q.que[j]
  BY <1>1, FillShape
<1> HIDE DEF p
<1>5. \A i \in 1..N : q.que[i].populated <=> Between(q, i)
  BY <1>2 DEF Strict
<1>6. Count(q) < N /\ Count(p) = Count(q) + 1 /\ Count(q) \in Nat
  <2>1. p.que[q.wr].populated
    BY <1>2, <1>4, SlotFields
  <2>2. q.rd # q.wr => p.que[q.rd].populated
    <3>1. q.rd # q.wr => Between(q, q.rd)
      BY <1>2 DEF Between
    <3> QED BY <1>2, <1>4, <1>5, <3>1
  <2>3. CASE q.rd = q.wr
    BY <1>2, <1>3, <2>1, <2>3 DEF Count, After
  <2>4. CASE q.rd < q.wr
    BY <1>2, <1>3, <2>2, <2>4 DEF Count, After
  <2>5. CASE q.rd > q.wr
    <3>1. p.wr = q.wr + 1 /\ Count(q) = N - q.rd + q.wr
      BY <1>2, <1>3, <2>5 DEF After, Count
    <3>2. CASE q.rd = q.wr + 1
      <4>1. p.rd = p.wr /\ p.que[p.rd].populated
        BY <1>2, <1>3, <2>2, <2>5, <3>1, <3>2
      <4>2. Count(p) = N
        BY <1>2, <1>3, <4>1 DEF Count
      <4>3. Count(q) = N - 1
        BY <1>2, <3>1, <3>2
      <4> QED BY <1>2, <4>2, <4>3
    <3>3. CASE q.rd > q.wr + 1
      BY <1>2, <1>3, <2>5, <3>1, <3>3 DEF Count
    <3> QED BY <1>2, <2>5, <3>2, <3>3
  <2> QED BY <1>2, <2>3, <2>4, <2>5
<1>7. \A k \in 1..Count(q) : At(p, k) = At(q, k) /\ At(q, k) # q.wr /\ At(q, k) \in 1..N
  <2> SUFFICES ASSUME NEW k \in 1..Count(q)
               PROVE  At(p, k) = At(q, k) /\ At(q, k) # q.wr /\ At(q, k) \in 1..N
    OBVIOUS
  <2>1. k \in Nat /\ 1 <= k /\ k <= Count(q)
    BY <1>6
  <2>2. At(p, k) = At(q, k)
    BY <1>3 DEF At
  <2>3. At(q, k) \in 1..N
    BY <1>2, <1>6, <2>1 DEF At
  <2>4. At(q, k) # q.wr
    <3>1. CASE q.rd = q.wr
      BY <1>2, <1>6, <2>1, <3>1 DEF At, Count
    <3>2. CASE q.rd < q.wr
      BY <1>2, <2>1, <3>2 DEF At, Count
    <3>3. CASE q.rd > q.wr
      BY <1>2, <2>1, <3>3 DEF At, Count
    <3> QED BY <1>2, <3>1, <3>2, <3>3
  <2> QED BY <2>2, <2>3, <2>4
<1>8. At(p, Count(q) + 1) = q.wr
  BY <1>2, <1>3, <1>6 DEF At, Count
<1>9. \A k \in 1..Count(p) : Contents(p)[k] = Append(Contents(q), x)[k]
  <2> SUFFICES ASSUME NEW k \in 1..Count(p)
               PROVE  Contents(p)[k] = Append(Contents(q), x)[k]
    OBVIOUS
  <2>1. Contents(p)[k] = p.que[At(p, k)].frame
    BY <1>3, ContentsSeq
  <2>2. CASE k <= Count(q)
    <3>1. k \in 1..Count(q)
      BY <1>6, <2>2
    <3>2. Contents(q)[k] = q.que[At(q, k)].frame /\ Contents(q) \in Seq(S) /\ Len(Contents(q)) = Count(q)
      BY <1>1, <3>1, ContentsSeq
    <3>3. p.que[At(p, k)] = q.que[At(q, k)]
      BY <1>4, <1>7, <3>1
    <3>4. Append(Contents(q), x)[k] = Contents(q)[k]
      BY <3>1, <3>2, AppendProperties
    <3> QED BY <2>1, <3>2, <3>3, <3>4
  <2>3. CASE k = Count(q) + 1
    <3>1. Contents(q) \in Seq(S) /\ Len(Contents(q)) = Count(q)
      BY <1>1, ContentsSeq
    <3>2. Append(Contents(q), x)[k] = x
      BY <2>3, <3>1, AppendProperties
    <3>3. p.que[At(p, k)].frame = x
      BY <1>2, <1>4, <1>8, <2>3, SlotFields
    <3> QED BY <2>1, <3>2, <3>3
  <2>4. k <= Count(q) \/ k = Count(q) + 1
    BY <1>6
  <2> QED BY <2>2, <2>3, <2>4
<1>10. Contents(p) = Append(Contents(q), x)
  <2>1. Contents(p) \in Seq(S) /\ Len(Contents(p)) = Count(p)
    BY <1>3, ContentsSeq
  <2>2. Contents(q) \in Seq(S) /\ Len(Contents(q)) = Count(q)
    BY <1>1, ContentsSeq
  <2>3. Append(Contents(q), x) \in Seq(S) /\ Len(Append(Contents(q), x)) = Count(p)
    BY <1>6, <2>2, AppendProperties
  <2> QED BY <1>9, <2>1, <2>3, SeqEqual
<1>11. Ended(p) <=> x = Null
  <2>1. Before(p, p.wr) = q.wr
    BY <1>2, <1>3 DEF Before, After
  <2> QED BY <1>2, <1>4, <2>1, SlotFields DEF Ended
<1> QED BY <1>6, <1>10, <1>11 DEF p

LEMMA ContentsExpand ==
  ASSUME NEW q, Strict(q), q.que[q.wr].populated
  PROVE  Contents(Expand(q)) = Contents(q)
<1> DEFINE p == Expand(q)
           N == Size(q)
           S == Frame \cup {Null}
           at == IF q.wr = 1 THEN N + 1 ELSE q.wr
<1>1. QueueTypeOK(q)
  BY DEF Strict
<1>2. N \in Nat \ {0} /\ DOMAIN q.que = 1..N /\ q.wr \in 1..N /\ q.rd \in 1..N
  BY <1>1, QueueFacts
<1>3. /\ QueueTypeOK(p) /\ Size(p) = N + 1
      /\ p.wr = at /\ p.rd = IF q.wr > 1 THEN q.rd + 1 ELSE q.rd
  BY <1>1, ExpandShape
<1>4. \A j \in 1..(N + 1) :
        p.que[j] = IF j < at THEN q.que[j] ELSE IF j = at THEN VacantSlot ELSE q.que[j - 1]
  BY <1>1, ExpandShape
<1> HIDE DEF p
<1>5. q.rd = q.wr
  BY <1>2 DEF Strict, Between
<1>6. Count(q) = N /\ Count(p) = N
  <2>1. Count(q) = N
    BY <1>2, <1>5 DEF Count
  <2>2. p.rd < p.wr \/ p.rd > p.wr
    BY <1>2, <1>3, <1>5
  <2> QED BY <1>2, <1>3, <1>5, <2>1, <2>2 DEF Count
<1>7. \A k \in 1..N : p.que[At(p, k)] = q.que[At(q, k)]
  <2> SUFFICES ASSUME NEW k \in 1..N PROVE p.que[At(p, k)] = q.que[At(q, k)]
    OBVIOUS
  <2>1. CASE q.wr = 1
    <3>1. At(q, k) = k /\ At(p, k) = k
      BY <1>2, <1>3, <1>5, <2>1 DEF At
    <3> QED BY <1>2, <1>4, <2>1, <3>1
  <2>2. CASE q.wr > 1 /\ q.rd + k - 1 <= N
    <3>1. At(q, k) = q.wr + k - 1 /\ At(p, k) = q.wr + k
      BY <1>2, <1>3, <1>5, <2>2 DEF At
    <3>2. q.wr + k \in 1..(N + 1) /\ q.wr + k > q.wr /\ (q.wr + k) - 1 = q.wr + k - 1
      BY <1>2, <1>5, <2>2
    <3>3. ASSUME NEW j \in 1..(N + 1), j > q.wr, q.wr > 1
          PROVE  p.que[j] = q.que[j - 1]
      BY <1>2, <1>4, <3>3
    <3>4. p.que[q.wr + k] = q.que[(q.wr + k) - 1]
      BY <2>2, <3>2, <3>3
    <3> QED BY <3>1, <3>2, <3>4
  <2>3. CASE q.wr > 1 /\ q.rd + k - 1 > N
    <3>0. Size(p) = N + 1 /\ p.rd = q.wr + 1
      BY <1>3, <1>5, <2>3
    <3>a. At(q, k) = q.wr + k - 1 - N
      BY <1>2, <1>5, <2>3 DEF At
    <3>b. At(p, k) = q.wr + k - 1 - N
      BY <1>2, <1>5, <2>3, <3>0 DEF At
    <3>1. At(q, k) = q.wr + k - 1 - N /\ At(p, k) = q.wr + k - 1 - N
      BY <3>a, <3>b
    <3>2. q.wr + k - 1 - N \in 1..(N + 1) /\ q.wr + k - 1 - N < q.wr
      BY <1>2, <1>5, <2>3
    <3>3. p.que[q.wr + k - 1 - N] = q.que[q.wr + k - 1 - N]
      BY <1>2, <1>4, <2>3, <3>2
    <3> QED BY <3>1, <3>3
  <2> QED BY <1>2, <2>1, <2>2, <2>3
<1>8. /\ Contents(q) \in Seq(S) /\ Len(Contents(q)) = N
      /\ Contents(p) \in Seq(S) /\ Len(Contents(p)) = N
  BY <1>1, <1>3, <1>6, ContentsSeq
<1>9. \A k \in 1..N : Contents(p)[k] = Contents(q)[k]
  BY <1>1, <1>3, <1>6, <1>7, ContentsSeq
<1>10. Contents(p) = Contents(q)
  BY <1>8, <1>9, SeqEqual
<1> QED BY <1>10 DEF p

(***************************************************************************)
(* push(frame): on a queue that is ready for it, the frame is appended.    *)
(***************************************************************************)
LEMMA PushSpec ==
  ASSUME NEW q, QueueOK(q), ReadyToPush(q), ~Ended(q), NEW x \in Frame \cup {Null}
  PROVE  /\ QueueOK(MakeRoom(q)) /\ ~MakeRoom(q).que[MakeRoom(q).wr].populated
         /\ ~Ended(MakeRoom(q)) /\ Contents(MakeRoom(q)) = Contents(q)
         /\ Capacity(MakeRoom(q)) = Capacity(q)
         /\ QueueOK(Push(q, x)) /\ Contents(Push(q, x)) = Append(Contents(q), x)
         /\ Ended(Push(q, x)) <=> x = Null
         /\ Capacity(Push(q, x)) = Capacity(q)
         /\ q.dynamic \/ Len(Contents(q)) < Size(q)
<1> DEFINE m == MakeRoom(q)
<1>1. QueueTypeOK(q)
  BY DEF QueueOK
<1>2. /\ QueueOK(m) /\ ~m.que[m.wr].populated /\ ~Ended(m) /\ Contents(m) = Contents(q)
      /\ m.dynamic = q.dynamic /\ (q.dynamic \/ m = q)
  <2>1. CASE q.que[q.wr].populated
    <3>1. m = Expand(q) /\ q.dynamic
      BY <2>1 DEF MakeRoom, ReadyToPush
    <3>2. QueueOK(Expand(q)) /\ ~Ended(Expand(q)) /\ ~Expand(q).que[Expand(q).wr].populated
      BY <2>1, ExpandOK
    <3>3. Contents(Expand(q)) = Contents(q)
      BY <2>1, StrictOf, ContentsExpand
    <3>4. Expand(q).dynamic = q.dynamic
      BY <1>1, <2>1, ExpandShape
    <3> QED BY <3>1, <3>2, <3>3, <3>4
  <2>2. CASE ~q.que[q.wr].populated
    BY <2>2 DEF MakeRoom
  <2> QED BY <2>1, <2>2
<1>3. Capacity(m) = Capacity(q)
  BY <1>2 DEF Capacity
<1> HIDE DEF m
<1>4. Push(q, x) = Fill(m, x)
  BY DEF Push, m
<1>5. QueueOK(Fill(m, x))
  BY <1>2, FillOK
<1>6. /\ Contents(Fill(m, x)) = Append(Contents(m), x)
      /\ Ended(Fill(m, x)) <=> x = Null
      /\ Count(m) < Size(m)
  BY <1>2, StrictOf, ContentsFill
<1>7. QueueTypeOK(m)
  BY <1>2 DEF QueueOK
<1>8. Size(Fill(m, x)) = Size(m) /\ Fill(m, x).dynamic = m.dynamic
  BY <1>7, FillShape
<1>9. Capacity(Fill(m, x)) = Capacity(m)
  BY <1>8 DEF Capacity
<1>10. Len(Contents(m)) = Count(m)
  BY <1>7, ContentsSeq
<1>11. q.dynamic \/ Len(Contents(q)) < Size(q)
  BY <1>2, <1>6, <1>10
<1>12. QueueOK(m) /\ ~m.que[m.wr].populated /\ ~Ended(m) /\ Contents(m) = Contents(q)
  BY <1>2
<1> QED BY <1>3, <1>4, <1>5, <1>6, <1>9, <1>11, <1>12 DEF m

(***************************************************************************)
(* pop(): the head is taken off, but the end of file of a one-slot queue.  *)
(***************************************************************************)
LEMMA PopSpec ==
  ASSUME NEW q, Strict(q), ReadyToPop(q), q.que[q.rd].eof => EofIsLast(q)
  PROVE  /\ Contents(q) # <<>>
         /\ Oldest(q) = Head(Contents(q))
         /\ \/ Contents(Pop(q)) = Tail(Contents(q))
            \/ Contents(q) = <<Null>> /\ Contents(Pop(q)) = Contents(q)
         /\ Capacity(Pop(q)) = Capacity(q)
<1> DEFINE p == Pop(q)
           N == Size(q)
           S == Frame \cup {Null}
<1>1. QueueTypeOK(q)
  BY DEF Strict
<1>2. N \in Nat \ {0} /\ DOMAIN q.que = 1..N /\ q.wr \in 1..N /\ q.rd \in 1..N
  BY <1>1, QueueFacts
<1>3. QueueTypeOK(p) /\ Size(p) = N /\ p.wr = q.wr /\ p.rd = After(q, q.rd)
  BY <1>1, PopShape
<1>4. \A j \in 1..N : p.que[j] = IF j = q.rd /\ ~q.que[j].eof THEN VacantSlot ELSE q.que[j]
  BY <1>1, PopShape
<1>5. p.dynamic = q.dynamic
  BY <1>1, PopShape
<1> HIDE DEF p
<1>6. q.que[q.rd].populated
  BY DEF ReadyToPop
<1>7. Count(q) \in 1..N /\ At(q, 1) = q.rd
  BY <1>2, <1>6 DEF Count, At
<1>8. /\ Contents(q) \in Seq(S) /\ Len(Contents(q)) = Count(q)
      /\ \A k \in 1..Count(q) : Contents(q)[k] = q.que[At(q, k)].frame
  BY <1>1, ContentsSeq
<1>9. Contents(q) # <<>>
  BY <1>7, <1>8
<1>10. Oldest(q) = Head(Contents(q))
  BY <1>7, <1>8, <1>9 DEF Oldest
<1>11. /\ Contents(p) \in Seq(S) /\ Len(Contents(p)) = Count(p)
       /\ \A k \in 1..Count(p) : Contents(p)[k] = p.que[At(p, k)].frame
  BY <1>3, ContentsSeq
<1>12. ASSUME N = 1 /\ q.que[q.rd].eof
       PROVE  Contents(q) = <<Null>> /\ Contents(p) = Contents(q)
  <2>1. p.que[1] = q.que[1] /\ p.rd = 1 /\ p.wr = 1 /\ q.rd = 1 /\ q.wr = 1
    BY <1>2, <1>3, <1>4, <1>12 DEF After
  <2>2. Count(q) = 1 /\ Count(p) = 1 /\ At(q, 1) = 1 /\ At(p, 1) = 1
    BY <1>3, <1>6, <1>12, <2>1 DEF Count, At
  <2>3. q.que[1].frame = Null
    BY <1>2, <1>12, <2>1 DEF Strict, SlotsClean
  <2>4. Contents(q)[1] = Null /\ Contents(p)[1] = Null
    BY <1>8, <1>11, <2>1, <2>2, <2>3
  <2>5. Contents(p) = Contents(q)
    BY <1>8, <1>11, <2>2, <2>4, SeqEqual
  <2>6. Contents(q) = <<Null>>
    BY <1>8, <2>2, <2>4
  <2> QED BY <2>5, <2>6
<1>13. ASSUME ~(N = 1 /\ q.que[q.rd].eof)
       PROVE  Contents(p) = Tail(Contents(q))
  <2>1. q.rd = q.wr /\ N # 1 => ~q.que[q.rd].eof
    BY <1>2 DEF EofIsLast, Before
  <2>2. q.rd = q.wr => ~p.que[q.rd].populated
    BY <1>2, <1>4, <1>13, <2>1, SlotFields
  <2>3. q.rd = q.wr => Count(q) = N
    BY <1>2, <1>6 DEF Count
  <2>4. q.rd # q.wr /\ p.rd = p.wr => ~p.que[p.rd].populated
    <3> SUFFICES ASSUME q.rd # q.wr, p.rd = p.wr, p.que[p.rd].populated PROVE FALSE
      OBVIOUS
    <3>1. q.que[q.wr].populated
      BY <1>2, <1>3, <1>4, SlotFields
    <3>2. ~Between(q, q.wr)
      BY <1>2 DEF Between
    <3> QED BY <1>2, <3>1, <3>2 DEF Strict
  <2>5. Count(p) = Count(q) - 1
    <3>1. CASE q.rd = q.wr
      BY <1>2, <1>3, <2>2, <2>3, <3>1 DEF Count, After
    <3>2. CASE q.rd < q.wr
      <4>1. p.rd = q.rd + 1 /\ Count(q) = q.wr - q.rd
        BY <1>2, <1>3, <3>2 DEF Count, After
      <4>2. p.rd = p.wr => Count(p) = 0
        BY <1>2, <1>3, <2>4, <3>2 DEF Count
      <4>3. p.rd < p.wr => Count(p) = p.wr - p.rd
        BY DEF Count
      <4> QED BY <1>2, <1>3, <3>2, <4>1, <4>2, <4>3
    <3>3. CASE q.rd > q.wr
      <4>1. Count(q) = N - q.rd + q.wr
        BY <1>2, <3>3 DEF Count
      <4>2. CASE q.rd = N
        <5>1. p.rd = 1 /\ (p.rd = p.wr => Count(p) = 0)
          BY <1>2, <1>3, <2>4, <3>3, <4>2 DEF Count, After
        <5>2. p.rd < p.wr => Count(p) = p.wr - p.rd
          BY DEF Count
        <5> QED BY <1>2, <1>3, <3>3, <4>1, <4>2, <5>1, <5>2
      <4>3. CASE q.rd < N
        <5>1. p.rd = q.rd + 1
          BY <1>2, <1>3, <4>3 DEF After
        <5>2. Count(p) = N - p.rd + p.wr
          BY <1>2, <1>3, <3>3, <5>1 DEF Count
        <5> QED BY <1>2, <1>3, <3>3, <4>1, <5>1, <5>2
      <4> QED BY <1>2, <4>2, <4>3
    <3> QED BY <1>2, <3>1, <3>2, <3>3
  <2>6. \A k \in 1..Count(p) : At(p, k) = At(q, k + 1) /\ At(q, k + 1) \in 1..N /\ At(q, k + 1) # q.rd
    <3> SUFFICES ASSUME NEW k \in 1..Count(p)
                 PROVE  At(p, k) = At(q, k + 1) /\ At(q, k + 1) \in 1..N /\ At(q, k + 1) # q.rd
      OBVIOUS
    <3>1. k \in Nat /\ 1 <= k /\ k + 1 <= N
      BY <1>2, <1>7, <2>5
    <3>2. At(q, k + 1) = IF q.rd + k <= N THEN q.rd + k ELSE q.rd + k - N
      BY <1>2, <3>1 DEF At
    <3>3. CASE q.rd = N
      <4>1. p.rd = 1
        BY <1>3, <3>3 DEF After
      <4>2. At(p, k) = k
        BY <1>2, <1>3, <3>1, <4>1 DEF At
      <4> QED BY <1>2, <3>1, <3>2, <3>3, <4>2
    <3>4. CASE q.rd # N
      <4>1. p.rd = q.rd + 1
        BY <1>3, <3>4 DEF After
      <4>2. At(p, k) = IF q.rd + k <= N THEN q.rd + k ELSE q.rd + k - N
        BY <1>2, <1>3, <3>1, <4>1 DEF At
      <4> QED BY <1>2, <3>1, <3>2, <4>2
    <3> QED BY <3>3, <3>4
  <2>7. \A k \in 1..Count(p) : Contents(p)[k] = Contents(q)[k + 1]
    <3> SUFFICES ASSUME NEW k \in 1..Count(p) PROVE Contents(p)[k] = Contents(q)[k + 1]
      OBVIOUS
    <3>1. k + 1 \in 1..Count(q)
      BY <1>7, <2>5
    <3>2. p.que[At(p, k)] = q.que[At(q, k + 1)]
      BY <1>4, <2>6
    <3> QED BY <1>8, <1>11, <3>1, <3>2
  <2>8. /\ Tail(Contents(q)) \in Seq(S) /\ Len(Tail(Contents(q))) = Count(p)
        /\ \A k \in 1..Count(p) : Tail(Contents(q))[k] = Contents(q)[k + 1]
    BY <1>8, <1>9, <2>5, HeadTailProperties
  <2>9. Contents(p) = Tail(Contents(q))
    BY <1>11, <2>7, <2>8, SeqEqual
  <2> QED BY <2>9
<1>14. Capacity(p) = Capacity(q)
  BY <1>3, <1>5 DEF Capacity
<1> QED BY <1>9, <1>10, <1>12, <1>13, <1>14 DEF p

LEMMA ContentsPop ==
  ASSUME NEW q, QueueOK(q), ReadyToPop(q)
  PROVE  /\ Contents(q) # <<>>
         /\ Oldest(q) = Head(Contents(q))
         /\ \/ Contents(Pop(q)) = Tail(Contents(q))
            \/ Contents(q) = <<Null>> /\ Contents(Pop(q)) = Contents(q)
         /\ Capacity(Pop(q)) = Capacity(q)
<1>1. Strict(q) /\ EofIsLast(q)
  BY StrictOf DEF QueueOK
<1> QED BY <1>1, PopSpec

(***************************************************************************)
(* popLastPushed() and clrEof(): the last element is taken off.            *)
(***************************************************************************)
LEMMA ContentsRetract ==
  ASSUME NEW q, QueueOK(q), Count(q) # 0
  PROVE  LET p == Retract(q, Before(q, q.wr))
         IN /\ Contents(q) # <<>> /\ Contents(p) = Front(Contents(q))
            /\ Capacity(p) = Capacity(q)
<1> DEFINE i == Before(q, q.wr)
           p == Retract(q, i)
           N == Size(q)
           S == Frame \cup {Null}
<1>1. QueueTypeOK(q)
  BY DEF QueueOK
<1>2. /\ N \in Nat \ {0} /\ DOMAIN q.que = 1..N
      /\ q.wr \in 1..N /\ q.rd \in 1..N /\ i \in 1..N
  BY <1>1, QueueFacts
<1>3. QueueTypeOK(p) /\ Size(p) = N /\ p.wr = i /\ p.rd = q.rd /\ p.dynamic = q.dynamic
  BY <1>1, <1>2, RetractShape
<1>4. \A j \in 1..N : p.que[j] = IF j = i THEN VacantSlot ELSE q.que[j]
  BY <1>1, <1>2, RetractShape
<1>5. Count(p) = Count(q) - 1 /\ QueueOK(p)
  BY RetractOK
<1> HIDE DEF p
<1>6. Count(q) \in 1..N
  BY <1>1, ContentsSeq
<1>7. \A k \in 1..Count(p) : At(p, k) = At(q, k) /\ At(q, k) \in 1..N /\ At(q, k) # i
  <2>1. \A k \in 1..Count(p) : At(p, k) = At(q, k) /\ At(q, k) \in 1..N
    BY <1>2, <1>3, <1>5, <1>6 DEF At
  <2>2. CASE q.rd < q.wr
    BY <1>2, <1>5, <2>1, <2>2 DEF At, Count, Before
  <2>3. CASE q.rd > q.wr
    <3>1. Count(q) = N - q.rd + q.wr
      BY <1>2, <2>3 DEF Count
    <3>2. CASE q.wr = 1
      <4>1. \A k \in 1..Count(p) : q.rd + k - 1 < N /\ i = N
        BY <1>2, <1>5, <2>3, <3>1, <3>2 DEF Before
      <4> QED BY <1>2, <1>5, <2>1, <3>1, <4>1 DEF At
    <3>3. CASE q.wr > 1
      <4>1. \A k \in 1..Count(p) : q.rd + k - 1 - N < i /\ i < q.rd + k - 1
        BY <1>2, <1>5, <2>3, <3>1, <3>3 DEF Before
      <4> QED BY <1>2, <1>5, <2>1, <3>1, <4>1 DEF At
    <3> QED BY <1>2, <3>2, <3>3
  <2>4. CASE q.rd = q.wr
    <3>1. Count(q) = N
      BY <1>2, <1>6, <2>4 DEF Count
    <3>2. \A k \in 1..(N - 1) : At(q, k) # i
      BY <1>2, <2>4 DEF At, Before
    <3> QED BY <1>5, <2>1, <3>1, <3>2
  <2> QED BY <1>2, <2>2, <2>3, <2>4
<1>8. /\ Contents(q) \in Seq(S) /\ Len(Contents(q)) = Count(q)
      /\ \A k \in 1..Count(q) : Contents(q)[k] = q.que[At(q, k)].frame
  BY <1>1, ContentsSeq
<1>9. /\ Contents(p) \in Seq(S) /\ Len(Contents(p)) = Count(p)
      /\ \A k \in 1..Count(p) : Contents(p)[k] = p.que[At(p, k)].frame
  BY <1>3, ContentsSeq
<1>10. Contents(q) # <<>>
  BY <1>6, <1>8
<1>11. \A k \in 1..Count(p) : Contents(p)[k] = Contents(q)[k]
  BY <1>4, <1>5, <1>6, <1>7, <1>8, <1>9
<1>12. /\ Front(Contents(q)) \in Seq(S) /\ Len(Front(Contents(q))) = Count(p)
       /\ \A k \in 1..Count(p) : Front(Contents(q))[k] = Contents(q)[k]
  <2> DEFINE c == Contents(q)
  <2> HIDE DEF c
  <2>1. c \in Seq(S) /\ Len(c) \in Nat \ {0} /\ Len(c) - 1 \in 0..Len(c)
    BY <1>6, <1>8 DEF c
  <2>2. Front(c) = SubSeq(c, 1, Len(c) - 1)
    BY DEF Front
  <2>3. Front(c) \in Seq(S) /\ Len(Front(c)) = Len(c) - 1
    <3>1. \A k \in 1..(Len(c) - 1) : c[k] \in S
      BY <2>1
    <3> HIDE DEF S
    <3>2. SubSeq(c, 1, Len(c) - 1) \in Seq(S)
      BY <2>1, <3>1, SubSeqProperties
    <3>3. Len(SubSeq(c, 1, Len(c) - 1)) = Len(c) - 1
      BY <2>1
    <3> QED BY <2>2, <3>2, <3>3
  <2>4. \A k \in 1..(Len(c) - 1) : Front(c)[k] = c[k]
    BY <2>1, <2>2, SubSeqProperties
  <2> QED BY <1>5, <1>8, <2>3, <2>4 DEF c
<1>13. Contents(p) = Front(Contents(q))
  BY <1>9, <1>11, <1>12, SeqEqual
<1>14. Capacity(p) = Capacity(q)
  BY <1>3 DEF Capacity
<1> QED BY <1>10, <1>13, <1>14 DEF p

LEMMA PopLastPushedIsRetract ==
  ASSUME NEW q, QueueOK(q), ~Drained(q), Size(q) = 1 \/ q.wr > 1
  PROVE  \/ PopLastPushed(q) = q
         \/ Count(q) # 0 /\ PopLastPushed(q) = Retract(q, Before(q, q.wr))
<1>1. q.wr \in 1..Size(q) /\ q.rd \in 1..Size(q) /\ Size(q) \in Nat \ {0}
  BY QueueFacts DEF QueueOK
<1>2. LastPushed(q) = Before(q, q.wr)
  BY <1>1 DEF LastPushed, Before
<1>3. q.que[q.rd].populated => Count(q) # 0
  BY <1>1 DEF Count
<1> QED BY <1>2, <1>3 DEF PopLastPushed, IsEmpty

LEMMA ClrEofIsRetract ==
  ASSUME NEW q, QueueOK(q), ~Drained(q)
  PROVE  \/ ClrEof(q) = q
         \/ Count(q) # 0 /\ ClrEof(q) = Retract(q, Before(q, q.wr))
BY DEF ClrEof, Drained, Ended

(***************************************************************************)
(* clear() and the constructor leave nothing in a queue.                   *)
(***************************************************************************)
LEMMA ContentsEmpty ==
  ASSUME NEW q, QueueTypeOK(q), Count(q) = 0
  PROVE  Contents(q) = <<>>
BY ContentsSeq, EmptySeq

(***************************************************************************)
(* kill() sets a flag that no other property of a queue depends on.        *)
(***************************************************************************)
LEMMA KilledShape ==
  ASSUME NEW q, QueueTypeOK(q)
  PROVE  LET p == Killed(q)
         IN /\ QueueTypeOK(p) /\ p.que = q.que /\ p.wr = q.wr /\ p.rd = q.rd
            /\ p.dynamic = q.dynamic /\ p.killnow
BY DEF QueueTypeOK, Queue, Killed

LEMMA KilledOK ==
  ASSUME NEW q, QueueOK(q)
  PROVE  LET p == Killed(q)
         IN /\ QueueOK(p) /\ Contents(p) = Contents(q) /\ (Ended(p) <=> Ended(q))
            /\ Capacity(p) = Capacity(q)
            /\ (ReadyToPop(p) <=> ReadyToPop(q)) /\ (ReadyToPush(p) <=> ReadyToPush(q))
            /\ p.que[p.wr] = q.que[q.wr]
<1> DEFINE p == Killed(q)
<1>1. /\ QueueTypeOK(p) /\ p.que = q.que /\ p.wr = q.wr /\ p.rd = q.rd
      /\ p.dynamic = q.dynamic
  BY KilledShape DEF QueueOK
<1> HIDE DEF p
<1>2. RingContiguous(p) /\ SlotsClean(p) /\ EofIsLast(p)
  BY <1>1 DEF QueueOK, RingContiguous, SlotsClean, EofIsLast, Between, Before, Size
<1>3. Contents(p) = Contents(q)
  BY <1>1 DEF Contents, Count, At, Size
<1>4. Ended(p) <=> Ended(q)
  BY <1>1 DEF Ended, Before, Size
<1>5. Capacity(p) = Capacity(q)
  BY <1>1 DEF Capacity, Size
<1>6. (ReadyToPop(p) <=> ReadyToPop(q)) /\ (ReadyToPush(p) <=> ReadyToPush(q))
  BY <1>1 DEF ReadyToPop, ReadyToPush
<1> QED BY <1>1, <1>2, <1>3, <1>4, <1>5, <1>6 DEF QueueOK, p

(***************************************************************************)
(* pop() waits for something to deliver.                                   *)
(***************************************************************************)
LEMMA ReadyIsNonEmpty ==
  ASSUME NEW q, QueueOK(q)
  PROVE  /\ ReadyToPop(q) <=> Contents(q) # <<>>
         /\ ReadyToPop(q) <=> Count(q) # 0
<1>1. Size(q) \in Nat \ {0} /\ DOMAIN q.que = 1..Size(q) /\ q.wr \in 1..Size(q) /\ q.rd \in 1..Size(q)
  BY QueueFacts DEF QueueOK
<1>2. Len(Contents(q)) = Count(q) /\ Contents(q) \in Seq(Frame \cup {Null}) /\ Count(q) \in Nat
  BY <1>1, ContentsSeq DEF QueueOK
<1>3. q.que[q.rd].populated => Count(q) # 0
  BY <1>1 DEF Count
<1>4. Count(q) # 0 => q.que[q.rd].populated
  <2> SUFFICES ASSUME Count(q) # 0 PROVE q.que[q.rd].populated
    OBVIOUS
  <2>1. Between(q, q.rd)
    BY <1>1 DEF Between, Count
  <2> QED BY <1>1, <2>1 DEF QueueOK, RingContiguous
<1> QED BY <1>2, <1>3, <1>4 DEF ReadyToPop

-----------------------------------------------------------------------------
(* What an update does to the stream of a queue. *)

Appends(a, b, x) ==
  /\ QueueOK(b) /\ Contents(b) = Append(Contents(a), x) /\ (Ended(b) <=> x = Null)
  /\ ~Ended(a) /\ (Capacity(a) = 0 \/ Len(Contents(a)) < Capacity(a))
  /\ Capacity(b) = Capacity(a)

Keeps(a, b) ==
  /\ QueueOK(b) /\ Contents(b) = Contents(a) /\ (Ended(b) <=> Ended(a))
  /\ Capacity(b) = Capacity(a)

Takes(a, b) ==
  /\ QueueOK(b) /\ Contents(a) # <<>> /\ (Ended(b) <=> Ended(a))
  /\ Contents(b) = Tail(Contents(a)) \/ (Contents(a) = <<Null>> /\ Contents(b) = Contents(a))
  /\ Capacity(b) = Capacity(a)

TakesBack(a, b) ==
  /\ QueueOK(b) /\ Contents(a) # <<>> /\ ~Ended(b) /\ Contents(b) = Front(Contents(a))
  /\ Capacity(b) = Capacity(a)

Empties(a, b) ==
  /\ QueueOK(b) /\ Contents(b) = <<>> /\ ~Ended(b) /\ Capacity(b) = Capacity(a)

LEMMA PushAppends ==
  ASSUME NEW a, QueueOK(a), ReadyToPush(a), ~Ended(a), NEW x \in Frame \cup {Null}
  PROVE  Appends(a, Push(a, x), x)
<1>1. a.dynamic \in BOOLEAN
  BY QueueFacts DEF QueueOK
<1>2. a.dynamic => Capacity(a) = 0
  BY DEF Capacity
<1>3. ~a.dynamic => Capacity(a) = Size(a)
  BY DEF Capacity
<1>4. a.dynamic \/ Len(Contents(a)) < Size(a)
  BY PushSpec
<1>5. QueueOK(Push(a, x)) /\ Contents(Push(a, x)) = Append(Contents(a), x)
  BY PushSpec
<1>6. (Ended(Push(a, x)) <=> x = Null) /\ Capacity(Push(a, x)) = Capacity(a)
  BY PushSpec
<1> QED BY <1>2, <1>3, <1>4, <1>5, <1>6 DEF Appends

LEMMA MarkAppends ==
  ASSUME NEW a, QueueOK(a), ReadyToPush(a), ~a.que[a.wr].populated, ~Ended(a), NEW f \in Frame
  PROVE  Appends(a, MarkPopulated(a, f), f)
<1>1. MarkPopulated(a, f) = Push(a, f)
  BY MarkPopulatedIsFill DEF Push, MakeRoom
<1> QED BY <1>1, PushAppends

LEMMA MakeRoomKeeps ==
  ASSUME NEW a, QueueOK(a), ReadyToPush(a), ~Ended(a)
  PROVE  Keeps(a, MakeRoom(a)) /\ ~MakeRoom(a).que[MakeRoom(a).wr].populated
<1> DEFINE m == MakeRoom(a)
<1>1. /\ QueueOK(m) /\ ~m.que[m.wr].populated
      /\ ~Ended(m) /\ Contents(m) = Contents(a)
      /\ Capacity(m) = Capacity(a)
  <2>1. Null \in Frame \cup {Null}
    OBVIOUS
  <2> QED BY <2>1, PushSpec
<1> HIDE DEF m
<1>2. Keeps(a, m)
  BY <1>1 DEF Keeps
<1> QED BY <1>1, <1>2 DEF m

LEMMA PopTakes ==
  ASSUME NEW a, QueueOK(a), ReadyToPop(a)
  PROVE  Takes(a, Pop(a))
BY PopOK, ContentsPop DEF Takes

LEMMA TakingBack ==
  ASSUME NEW a, QueueOK(a), ~Drained(a), NEW b,
         b = ClrEof(a) \/ (b = PopLastPushed(a) /\ (Size(a) = 1 \/ a.wr > 1))
  PROVE  b = a \/ (TakesBack(a, b) /\ ReadyToPop(a))
<1>1. b = a \/ (Count(a) # 0 /\ b = Retract(a, Before(a, a.wr)))
  BY PopLastPushedIsRetract, ClrEofIsRetract
<1> SUFFICES ASSUME Count(a) # 0, b = Retract(a, Before(a, a.wr))
             PROVE  TakesBack(a, b) /\ ReadyToPop(a)
  BY <1>1
<1>2. QueueOK(b) /\ ~Ended(b)
  BY RetractOK
<1>3. Contents(a) # <<>> /\ Contents(b) = Front(Contents(a)) /\ Capacity(b) = Capacity(a)
  BY ContentsRetract
<1> QED BY <1>2, <1>3, ReadyIsNonEmpty DEF TakesBack

LEMMA ClearEmpties ==
  ASSUME NEW a, QueueOK(a)
  PROVE  Empties(a, Clear(a))
<1> DEFINE c == Clear(a)
<1>1. /\ QueueOK(c) /\ ~Ended(c) /\ Count(c) = 0
      /\ Size(c) = Size(a) /\ c.dynamic = a.dynamic
  BY ClearOK DEF QueueOK
<1> HIDE DEF c
<1>2. Contents(c) = <<>>
  BY <1>1, ContentsEmpty DEF QueueOK
<1>3. Capacity(c) = Capacity(a)
  BY <1>1 DEF Capacity
<1> QED BY <1>1, <1>2, <1>3 DEF Empties, c

LEMMA KillKeeps ==
  ASSUME NEW a, QueueOK(a)
  PROVE  Keeps(a, Killed(a))
BY KilledOK DEF Keeps

LEMMA EndedBoolean ==
  ASSUME NEW a, QueueOK(a)
  PROVE  Ended(a) \in BOOLEAN /\ Capacity(a) \in Nat
BY QueueFacts DEF QueueOK, Ended, Slot, Capacity

\* The queries of a queue, told from its stream.
LEMMA StreamQueries ==
  ASSUME NEW q, QueueOK(q)
  PROVE  /\ IsEmpty(q) <=> Contents(q) = <<>>
         /\ IsFull(q) <=> Capacity(q) # 0 /\ Len(Contents(q)) = Capacity(q)
         /\ HasEof(q) => Ended(q)
         /\ Drained(q) <=> Ended(q) /\ Contents(q) = <<>>
         /\ Contents(q) \in Seq(Frame \cup {Null})
         /\ Capacity(q) # 0 => Len(Contents(q)) <= Capacity(q)
         /\ ReadyToPush(q) <=> ~IsFull(q)
<1>1. /\ Size(q) \in Nat \ {0} /\ DOMAIN q.que = 1..Size(q)
      /\ q.wr \in 1..Size(q) /\ q.rd \in 1..Size(q) /\ q.dynamic \in BOOLEAN
      /\ \A j \in 1..Size(q) : q.que[j] \in Slot
  BY QueueFacts DEF QueueOK
<1>2. Len(Contents(q)) = Count(q) /\ Contents(q) \in Seq(Frame \cup {Null}) /\ Count(q) \in 0..Size(q)
  BY ContentsSeq DEF QueueOK
<1>3. Count(q) = 0 <=> Contents(q) = <<>>
  BY <1>2
<1>4. q.que[q.wr].populated <=> Count(q) = Size(q)
  <2>1. q.que[q.wr].populated => q.rd = q.wr
    BY <1>1 DEF QueueOK, RingContiguous, Between
  <2> QED BY <1>1, <2>1 DEF Count
<1>5. HasEof(q) => Ended(q)
  BY <1>1 DEF HasEof, Ended, QueueOK, EofIsLast
<1>6. IsEmpty(q) <=> Contents(q) = <<>>
  BY ReadyIsNonEmpty DEF IsEmpty, ReadyToPop
<1>7. IsFull(q) <=> Capacity(q) # 0 /\ Len(Contents(q)) = Capacity(q)
  BY <1>1, <1>2, <1>4 DEF IsFull, Capacity
<1>8. Capacity(q) # 0 => Len(Contents(q)) <= Capacity(q)
  BY <1>1, <1>2 DEF Capacity
<1>9. ReadyToPush(q) <=> ~IsFull(q)
  BY <1>1 DEF ReadyToPush, IsFull, Slot
<1> QED BY <1>2, <1>3, <1>5, <1>6, <1>7, <1>8, <1>9 DEF Drained

-----------------------------------------------------------------------------
(* Pushing without a look at what is there: no end of file is waited for.  *)

\* The slots that a push can take.
Holes(q) == {i \in DOMAIN q.que : ~q.que[i].populated}

LEMMA StrictContiguous ==
  ASSUME NEW q, Strict(q)
  PROVE  QueueTypeOK(q) /\ RingContiguous(q)
<1>1. QueueTypeOK(q) /\ SlotsClean(q)
  BY DEF Strict
<1>2. \A i \in DOMAIN q.que : q.que[i].eof => Between(q, i)
  BY DEF Strict, SlotsClean
<1> QED BY <1>1, <1>2 DEF Strict, RingContiguous

LEMMA StrictFill ==
  ASSUME NEW q, Strict(q), ~q.que[q.wr].populated, NEW x \in Frame \cup {Null}
  PROVE  /\ Strict(Fill(q, x)) /\ Fill(q, x).dynamic = q.dynamic
         /\ q.wr \in Holes(q) /\ Holes(Fill(q, x)) = Holes(q) \ {q.wr}
<1> DEFINE p == Fill(q, x)
           N == Size(q)
<1>1. QueueTypeOK(q)
  BY DEF Strict
<1>2. N \in Nat \ {0} /\ DOMAIN q.que = 1..N /\ q.wr \in 1..N /\ q.rd \in 1..N
  BY <1>1, QueueFacts
<1>3. /\ QueueTypeOK(p) /\ Size(p) = N /\ p.wr = After(q, q.wr) /\ p.rd = q.rd
      /\ p.dynamic = q.dynamic
  BY <1>1, FillShape
<1>4. \A j \in 1..N : p.que[j] = IF j = q.wr THEN Holding(x) ELSE q.que[j]
  BY <1>1, FillShape
<1>5. DOMAIN p.que = 1..N
  BY <1>3, QueueFacts
<1>6. \A i \in 1..N : q.que[i].eof \in BOOLEAN /\ q.que[i].populated \in BOOLEAN
  BY <1>1, QueueFacts DEF Slot
<1> HIDE DEF p
<1>7. \A i \in 1..N : p.que[i].populated <=> i = q.wr \/ q.que[i].populated
  BY <1>4, <1>6, SlotFields
<1>8. \A i \in 1..N : p.que[i].populated <=> Between(p, i)
  <2>1. \A i \in 1..N : q.que[i].populated <=> Between(q, i)
    BY <1>2 DEF Strict
  <2> QED BY <1>2, <1>3, <1>7, <2>1 DEF Between, After
<1>9. SlotsClean(p)
  BY <1>2, <1>4, <1>5, SlotFields, NullAssumption DEF Strict, SlotsClean
<1>10. q.wr \in Holes(q) /\ Holes(p) = Holes(q) \ {q.wr}
  BY <1>2, <1>5, <1>7 DEF Holes
<1>11. Strict(p)
  BY <1>3, <1>5, <1>8, <1>9 DEF Strict
<1> QED BY <1>3, <1>10, <1>11 DEF p

LEMMA StrictExpand ==
  ASSUME NEW q, Strict(q), q.que[q.wr].populated
  PROVE  /\ Strict(Expand(q)) /\ Expand(q).dynamic = q.dynamic
         /\ ~Expand(q).que[Expand(q).wr].populated
<1> DEFINE p == Expand(q)
           N == Size(q)
           at == IF q.wr = 1 THEN N + 1 ELSE q.wr
<1>1. QueueTypeOK(q)
  BY DEF Strict
<1>2. N \in Nat \ {0} /\ DOMAIN q.que = 1..N /\ q.wr \in 1..N /\ q.rd \in 1..N
  BY <1>1, QueueFacts
<1>3. /\ QueueTypeOK(p) /\ Size(p) = N + 1 /\ p.dynamic = q.dynamic
      /\ p.wr = at /\ p.rd = IF q.wr > 1 THEN q.rd + 1 ELSE q.rd
  BY <1>1, ExpandShape
<1>4. \A j \in 1..(N + 1) :
        p.que[j] = IF j < at THEN q.que[j] ELSE IF j = at THEN VacantSlot ELSE q.que[j - 1]
  BY <1>1, ExpandShape
<1>5. DOMAIN p.que = 1..(N + 1) /\ at \in 1..(N + 1)
  BY <1>2, <1>3, QueueFacts
<1> HIDE DEF p
<1>6. q.rd = q.wr /\ \A i \in 1..N : q.que[i].populated
  BY <1>2 DEF Strict, Between
<1>7. \A j \in 1..(N + 1) :
        j = at \/ \E i \in 1..N : p.que[j] = q.que[i]
  <2> HIDE DEF at
  <2> SUFFICES ASSUME NEW j \in 1..(N + 1), j # at
               PROVE  \E i \in 1..N : p.que[j] = q.que[i]
    OBVIOUS
  <2>1. CASE j < at
    <3>1. j \in 1..N /\ p.que[j] = q.que[j]
      BY <1>2, <1>4, <1>5, <2>1
    <3> QED BY <3>1
  <2>2. CASE j > at
    <3>1. j - 1 \in 1..N /\ p.que[j] = q.que[j - 1]
      BY <1>2, <1>4, <1>5, <2>2
    <3> QED BY <3>1
  <2> QED BY <1>2, <1>5, <2>1, <2>2
<1>8. p.que[at] = VacantSlot
  BY <1>4, <1>5
<1>9. \A j \in 1..(N + 1) : p.que[j].populated <=> j # at
  BY <1>6, <1>7, <1>8, SlotFields
<1>10. \A j \in 1..(N + 1) : Between(p, j) <=> j # at
  BY <1>2, <1>3, <1>5, <1>6 DEF Between
<1>11. SlotsClean(p)
  <2> DEFINE Clean(e) == /\ e.eof => e.populated /\ e.frame = Null
                         /\ ~e.eof => /\ (e.populated <=> e.frame \in Frame)
                                      /\ ~e.populated => e.frame = Null
  <2>1. \A k \in 1..N : Clean(q.que[k])
    BY <1>2 DEF Strict, SlotsClean
  <2>2. Clean(VacantSlot)
    BY SlotFields, NullAssumption
  <2> HIDE DEF Clean, at
  <2>3. \A j \in 1..(N + 1) : Clean(p.que[j])
    BY <1>7, <1>8, <2>1, <2>2
  <2> USE DEF Clean
  <2> QED BY <1>5, <2>3 DEF SlotsClean
<1>12. Strict(p)
  BY <1>3, <1>5, <1>9, <1>10, <1>11 DEF Strict
<1> QED BY <1>3, <1>5, <1>9, <1>12 DEF p

\* push() on a queue that has room, whatever was pushed last.
LEMMA StrictPush ==
  ASSUME NEW q, Strict(q), ReadyToPush(q), NEW x \in Frame \cup {Null}
  PROVE  /\ Strict(Push(q, x)) /\ Push(q, x).dynamic = q.dynamic
         /\ Contents(Push(q, x)) = Append(Contents(q), x)
         /\ ~q.dynamic => q.wr \in Holes(q) /\ Holes(Push(q, x)) = Holes(q) \ {q.wr}
<1> DEFINE m == MakeRoom(q)
<1>1. /\ Strict(m) /\ ~m.que[m.wr].populated /\ Contents(m) = Contents(q)
      /\ m.dynamic = q.dynamic /\ (q.dynamic \/ m = q)
  <2>1. CASE q.que[q.wr].populated
    BY <2>1, StrictExpand, ContentsExpand DEF MakeRoom, ReadyToPush
  <2>2. CASE ~q.que[q.wr].populated
    BY <2>2 DEF MakeRoom
  <2> QED BY <2>1, <2>2
<1> HIDE DEF m
<1>2. Push(q, x) = Fill(m, x)
  BY DEF Push, m
<1>3. /\ Strict(Fill(m, x)) /\ Fill(m, x).dynamic = m.dynamic
      /\ m.wr \in Holes(m) /\ Holes(Fill(m, x)) = Holes(m) \ {m.wr}
  BY <1>1, StrictFill
<1>4. Contents(Fill(m, x)) = Append(Contents(m), x)
  BY <1>1, ContentsFill
<1> QED BY <1>1, <1>2, <1>3, <1>4

LEMMA StrictPop ==
  ASSUME NEW q, Strict(q), ReadyToPop(q), Oldest(q) # Null
  PROVE  /\ Strict(Pop(q)) /\ Pop(q).dynamic = q.dynamic
         /\ Contents(q) # <<>> /\ Oldest(q) = Head(Contents(q))
         /\ Contents(Pop(q)) = Tail(Contents(q))
<1> DEFINE p == Pop(q)
           N == Size(q)
<1>1. QueueTypeOK(q) /\ SlotsClean(q)
  BY DEF Strict
<1>2. N \in Nat \ {0} /\ DOMAIN q.que = 1..N /\ q.wr \in 1..N /\ q.rd \in 1..N
  BY <1>1, QueueFacts
<1>3. ~q.que[q.rd].eof
  BY <1>1, <1>2 DEF SlotsClean, Oldest
<1>4. /\ QueueTypeOK(p) /\ Size(p) = N /\ p.wr = q.wr /\ p.rd = After(q, q.rd)
      /\ p.dynamic = q.dynamic
      /\ \A j \in 1..N : p.que[j] = IF j = q.rd /\ ~q.que[j].eof THEN VacantSlot ELSE q.que[j]
  BY <1>1, PopShape
<1>5. DOMAIN p.que = 1..N
  BY <1>2, <1>4, QueueFacts
<1> HIDE DEF p
<1>6. \A j \in 1..N : p.que[j] = IF j = q.rd THEN VacantSlot ELSE q.que[j]
  BY <1>3, <1>4
<1>7. \A j \in 1..N : p.que[j].populated <=> j # q.rd /\ q.que[j].populated
  BY <1>6, SlotFields, QueueFacts, <1>1 DEF Slot
<1>8. \A j \in 1..N : q.que[j].populated <=> Between(q, j)
  BY <1>2 DEF Strict
<1>9. Between(q, q.rd)
  BY <1>2, <1>8 DEF ReadyToPop
<1>10. \A j \in 1..N : p.que[j].populated <=> Between(p, j)
  <2>1. p.rd = p.wr => ~p.que[p.rd].populated
    BY <1>2, <1>4, <1>7, <1>8, <1>9 DEF Between, After
  <2> QED BY <1>2, <1>4, <1>7, <1>8, <1>9, <2>1 DEF Between, After
<1>11. SlotsClean(p)
  BY <1>1, <1>2, <1>5, <1>6, SlotFields, NullAssumption DEF SlotsClean
<1>12. Strict(p)
  BY <1>4, <1>5, <1>10, <1>11 DEF Strict
<1>13. /\ Contents(q) # <<>> /\ Oldest(q) = Head(Contents(q))
       /\ \/ Contents(p) = Tail(Contents(q))
          \/ Contents(q) = <<Null>> /\ Contents(p) = Contents(q)
  BY <1>3, PopSpec DEF p
<1>14. Contents(q) # <<Null>>
  BY <1>13
<1> QED BY <1>4, <1>12, <1>13, <1>14 DEF p

\* The places of what a queue holds, the newest of it right before wr.
LEMMA PlacesBetween ==
  ASSUME NEW q, Strict(q)
  PROVE  /\ \A i \in DOMAIN q.que : q.que[i].populated => \E k \in 1..Count(q) : At(q, k) = i
         /\ Count(q) # 0 => At(q, Count(q)) = Before(q, q.wr)
         /\ \A k \in 1..Count(q) : At(q, k) \in DOMAIN q.que /\ q.que[At(q, k)].populated
         /\ \A k \in 1..Count(q) : At(q, k) = Before(q, q.wr) => k = Count(q)
<1> DEFINE N == Size(q)
<1>1. QueueTypeOK(q)
  BY DEF Strict
<1>2. N \in Nat \ {0} /\ DOMAIN q.que = 1..N /\ q.wr \in 1..N /\ q.rd \in 1..N
  BY <1>1, QueueFacts
<1>3. \A i \in 1..N : q.que[i].populated <=> Between(q, i)
  BY <1>2 DEF Strict
<1>4. Count(q) \in 0..N
  BY <1>1, ContentsSeq
<1>5. ASSUME NEW i \in 1..N, Between(q, i) PROVE \E k \in 1..Count(q) : At(q, k) = i
  <2>1. CASE q.rd <= i
    <3>1. i - q.rd + 1 \in 1..Count(q) /\ At(q, i - q.rd + 1) = i
      BY <1>2, <1>5, <2>1 DEF Between, Count, At
    <3> QED BY <3>1
  <2>2. CASE i < q.rd
    <3> DEFINE k == N - q.rd + i + 1
    <3>1. k \in 1..Count(q)
      <4>1. q.rd > q.wr => i < q.wr /\ Count(q) = N - q.rd + q.wr
        BY <1>2, <1>5, <2>2 DEF Between, Count
      <4>2. ~(q.rd > q.wr) => q.rd = q.wr /\ Count(q) = N
        BY <1>2, <1>5, <2>2 DEF Between, Count
      <4> QED BY <1>2, <2>2, <4>1, <4>2
    <3>2. q.rd + k - 1 = N + i
      BY <1>2
    <3>3. At(q, k) = i
      BY <1>2, <3>2 DEF At
    <3> QED BY <3>1, <3>3
  <2> QED BY <1>2, <2>1, <2>2
<1>6. Count(q) # 0 => At(q, Count(q)) = Before(q, q.wr)
  BY <1>2 DEF Count, At, Before
<1>7. ASSUME NEW k \in 1..Count(q)
      PROVE  /\ At(q, k) \in 1..N /\ Between(q, At(q, k))
             /\ At(q, k) = Before(q, q.wr) => k = Count(q)
  <2>1. CASE q.rd < q.wr
    BY <1>2, <2>1 DEF Count, At, Between, Before
  <2>2. CASE q.rd > q.wr
    BY <1>2, <2>2 DEF Count, At, Between, Before
  <2>3. CASE q.rd = q.wr
    BY <1>2, <2>3 DEF Count, At, Between, Before
  <2> QED BY <1>2, <2>1, <2>2, <2>3
<1> QED BY <1>2, <1>3, <1>5, <1>6, <1>7

\* A queue whose end of file is the last thing in it is well-formed.
LEMMA StrictWellFormed ==
  ASSUME NEW q, Strict(q), \A k \in 1..Count(q) : Contents(q)[k] = Null => k = Count(q)
  PROVE  QueueOK(q) /\ (Ended(q) <=> Count(q) # 0 /\ Contents(q)[Count(q)] = Null)
<1>1. QueueTypeOK(q) /\ RingContiguous(q) /\ SlotsClean(q)
  BY StrictContiguous DEF Strict
<1>2. /\ Count(q) \in Nat
      /\ \A k \in 1..Count(q) : Contents(q)[k] = q.que[At(q, k)].frame
  BY <1>1, ContentsSeq
<1>3. Before(q, q.wr) \in DOMAIN q.que
  BY <1>1, QueueFacts
<1>4. ASSUME NEW i \in DOMAIN q.que, q.que[i].eof
      PROVE  i = Before(q, q.wr) /\ Count(q) # 0 /\ Contents(q)[Count(q)] = Null
  <2>1. q.que[i].populated /\ q.que[i].frame = Null
    BY <1>1, <1>4 DEF SlotsClean
  <2>2. PICK k \in 1..Count(q) : At(q, k) = i
    BY <2>1, PlacesBetween
  <2>3. Contents(q)[k] = Null
    BY <1>2, <2>1, <2>2
  <2>4. k = Count(q)
    BY <2>3
  <2> QED BY <1>2, <2>2, <2>3, <2>4, PlacesBetween
<1>5. ASSUME Count(q) # 0, Contents(q)[Count(q)] = Null PROVE q.que[Before(q, q.wr)].eof
  <2>1. Count(q) \in 1..Count(q)
    BY <1>2, <1>5
  <2>2. q.que[Before(q, q.wr)].frame = Null /\ q.que[Before(q, q.wr)].populated
    BY <1>2, <1>5, <2>1, PlacesBetween
  <2> QED BY <1>1, <1>3, <2>2, NullAssumption DEF SlotsClean
<1> QED BY <1>1, <1>3, <1>4, <1>5 DEF QueueOK, EofIsLast, Ended
=============================================================================
