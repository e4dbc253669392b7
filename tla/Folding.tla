------------------------------ MODULE Folding ------------------------------
(***************************************************************************)
(* What FoldLeft of the community modules computes, for an operator Op     *)
(* that is given when the module is instantiated; its first argument c is  *)
(* what the step refers to besides what it has got so far and the element. *)
(*                                                                         *)
(* FoldLeft is a recursive function on sets, and nothing is known of a     *)
(* recursive function before it is shown to exist.  That is induction on   *)
(* the length of the sequence, here in the form that a set of numbers has  *)
(* a least element (WellOrdered): the first length that fails has one before   *)
(* it.                                                                     *)
(*                                                                         *)
(* Every instance brings all that this module extends into the proofs      *)
(* that use it, so it extends little.  Fold is FoldLeft written out, and a *)
(* user shows that the two are one by expanding both; and that numbers are *)
(* ordered, which is a theorem of WellFoundedInduction, the theorems leave *)
(* to the user, who proves it once for all instances.                      *)
(***************************************************************************)
EXTENDS Integers, Sequences

CONSTANT Op(_, _, _)

\* A set of numbers with any element has a least one.
WellOrdered == \A T \in SUBSET Nat : T # {} => \E n \in T : \A m \in T : ~(m < n)

\* Induction up to n, on the set of numbers for which something holds.
LEMMA UpTo ==
  ASSUME WellOrdered, NEW n \in Nat, NEW T, 0 \in T, \A i \in 1..n : i - 1 \in T => i \in T
  PROVE  \A i \in 0..n : i \in T
<1> DEFINE W == {i \in 0..n : i \notin T}
<1> SUFFICES ASSUME W # {} PROVE FALSE
  OBVIOUS
<1>1. PICK i \in W : \A j \in W : ~(j < i)
  <2>1. W \subseteq Nat
    OBVIOUS
  <2> HIDE DEF W
  <2> QED BY <2>1 DEF WellOrdered
<1>2. i \in 1..n /\ i - 1 \in 0..n /\ i - 1 < i
  OBVIOUS
<1>3. i - 1 \in T
  BY <1>1, <1>2
<1> QED BY <1>2, <1>3

\* The greatest of a set of positions.
Greatest(s) == CHOOSE x \in s : \A y \in s : x >= y

\* What the definition of FoldLeft recurs on: sets of positions, by their maximum.
IsIter(c, iter, base, seq, n) ==
  iter = [s \in SUBSET (1..n) |->
            IF s = {} THEN base
            ELSE LET x == Greatest(s) IN Op(c, iter[s \ {x}], seq[x])]

LEMMA MaxIs ==
  ASSUME NEW n \in Nat, NEW s \in SUBSET (1..n), n \in s
  PROVE  Greatest(s) = n
<1>1. \A y \in s : n >= y
  OBVIOUS
<1>2. \A x \in s : (\A y \in s : x >= y) => x = n
  OBVIOUS
<1>3. \E x \in s : \A y \in s : x >= y
  BY <1>1
<1> DEFINE M == CHOOSE x \in s : \A y \in s : x >= y
<1>4. M \in s /\ \A y \in s : M >= y
  BY <1>3
<1> HIDE DEF M
<1>5. M = n
  BY <1>2, <1>4
<1> QED BY <1>5 DEF Greatest, M

LEMMA IterExists ==
  ASSUME WellOrdered, NEW c, NEW base, NEW seq
  PROVE  \A n \in Nat : \E iter : IsIter(c, iter, base, seq, n)
<1> DEFINE T == {n \in Nat : ~\E iter : IsIter(c, iter, base, seq, n)}
<1> SUFFICES ASSUME T # {} PROVE FALSE
  OBVIOUS
<1>1. PICK n \in T : \A m \in T : ~(m < n)
  <2> HIDE DEF T
  <2>1. T \subseteq Nat
    BY DEF T
  <2> QED BY <2>1 DEF WellOrdered
<1>2. n \in Nat /\ ~\E iter : IsIter(c, iter, base, seq, n)
  OBVIOUS
<1>3. n # 0
  <2> SUFFICES ASSUME n = 0 PROVE FALSE
    OBVIOUS
  <2> DEFINE it == [s \in SUBSET (1..0) |-> base]
  <2>1. \A s \in SUBSET (1..0) : s = {}
    OBVIOUS
  <2>2. IsIter(c, it, base, seq, 0)
    BY <2>1 DEF IsIter
  <2> HIDE DEF it
  <2> QED BY <1>2, <2>2
<1>4. n - 1 \in Nat /\ n - 1 \notin T
  BY <1>1, <1>2, <1>3
<1>5. PICK it : IsIter(c, it, base, seq, n - 1)
  BY <1>4
<1> DEFINE m == n - 1
           new == [s \in SUBSET (1..n) |-> IF n \in s THEN Op(c, it[s \ {n}], seq[n]) ELSE it[s]]
<1>6. ASSUME NEW s \in SUBSET (1..n)
      PROVE  new[s] = IF s = {} THEN base ELSE LET x == Greatest(s) IN Op(c, new[s \ {x}], seq[x])
  <2>0. DOMAIN new = SUBSET (1..n)
    OBVIOUS
  <2>1. CASE n \in s
    <3>1. Greatest(s) = n /\ s # {}
      BY <1>2, <2>1, MaxIs
    <3>2. s \ {n} \in SUBSET (1..n) /\ n \notin s \ {n}
      OBVIOUS
    <3>3. new[s \ {n}] = it[s \ {n}]
      BY <3>2
    <3>4. new[s] = Op(c, it[s \ {n}], seq[n])
      BY <2>1
    <3> HIDE DEF new
    <3> QED BY <3>1, <3>3, <3>4
  <2>2. CASE n \notin s
    <3>1. s \in SUBSET (1..m) /\ new[s] = it[s]
      BY <1>2, <2>2
    <3>2. it[s] = IF s = {} THEN base ELSE LET x == Greatest(s) IN Op(c, it[s \ {x}], seq[x])
      BY <1>5, <3>1 DEF IsIter
    <3>3. s # {} => \A x : new[s \ {x}] = it[s \ {x}]
      BY <1>2, <2>2
    <3> HIDE DEF new
    <3> QED BY <3>1, <3>2, <3>3
  <2> QED BY <2>1, <2>2
<1>7. IsIter(c, new, base, seq, n)
  <2> HIDE DEF T
  <2> QED BY <1>6 DEF IsIter
<1> HIDE DEF new
<1> QED BY <1>2, <1>7

-----------------------------------------------------------------------------
\* FoldLeft(LAMBDA x, y : Op(c, x, y), base, seq), with the definitions it rests on put in.
Fold(c, base, seq) ==
  LET iter[s \in SUBSET (DOMAIN seq)] ==
        IF s = {} THEN base
        ELSE LET x == Greatest(s) IN Op(c, iter[s \ {x}], seq[x])
  IN  iter[DOMAIN seq]

\* F lists what becomes of base as the elements of seq are taken up.
Steps(c, F, base, seq, n) ==
  F[0] = base /\ \A i \in 1..n : F[i] = Op(c, F[i - 1], seq[i])

THEOREM FoldSteps ==
  ASSUME WellOrdered, NEW c, NEW base, NEW seq, NEW n \in Nat, DOMAIN seq = 1..n
  PROVE  \E F : Steps(c, F, base, seq, n) /\ Fold(c, base, seq) = F[n]
<1> DEFINE iter == CHOOSE iter : IsIter(c, iter, base, seq, n)
           F == [i \in 0..n |-> iter[1..i]]
<1>1. IsIter(c, iter, base, seq, n)
  BY IterExists
<1>2. Fold(c, base, seq) = iter[1..n]
  BY DEF Fold, IsIter
<1> HIDE DEF iter
<1>3. iter[{}] = base
  <2>1. {} \in SUBSET (1..n)
    OBVIOUS
  <2> QED BY <1>1, <2>1 DEF IsIter
<1>4. ASSUME NEW i \in 1..n PROVE iter[1..i] = Op(c, iter[1..(i - 1)], seq[i])
  <2>1. 1..i \in SUBSET (1..n) /\ 1..i # {} /\ (1..i) \ {i} = 1..(i - 1)
    <3>1. 1..i \in SUBSET (1..n)
      OBVIOUS
    <3>2. i \in 1..i
      OBVIOUS
    <3>3. \A j : j \in (1..i) \ {i} <=> j \in 1..(i - 1)
      OBVIOUS
    <3> QED BY <3>1, <3>2, <3>3
  <2>2. Greatest(1..i) = i
    <3>1. i \in Nat /\ i \in 1..i /\ 1..i \in SUBSET (1..i)
      OBVIOUS
    <3> QED BY <3>1, MaxIs
  <2>3. iter[1..i] = Op(c, iter[(1..i) \ {Greatest(1..i)}], seq[Greatest(1..i)])
    BY <1>1, <2>1 DEF IsIter
  <2> QED BY <2>1, <2>2, <2>3
<1>5. 1..0 = {}
  OBVIOUS
<1>6. F[0] = base /\ F[n] = iter[1..n]
  BY <1>3, <1>5
<1>7. ASSUME NEW i \in 1..n PROVE F[i] = Op(c, F[i - 1], seq[i])
  <2>1. i \in 0..n /\ i - 1 \in 0..n
    OBVIOUS
  <2>2. F[i] = iter[1..i] /\ F[i - 1] = iter[1..(i - 1)]
    BY <2>1
  <2> HIDE DEF F
  <2> QED BY <1>4, <2>2
<1> HIDE DEF F
<1>8. Steps(c, F, base, seq, n)
  BY <1>6, <1>7 DEF Steps
<1> QED BY <1>2, <1>6, <1>8

\* Two lists of steps agree as far as their sequences do.
LEMMA StepsAgree ==
  ASSUME WellOrdered, NEW c, NEW base, NEW s, NEW t, NEW n \in Nat, NEW m \in Nat, n <= m,
         \A i \in 1..n : s[i] = t[i],
         NEW F, Steps(c, F, base, s, n), NEW G, Steps(c, G, base, t, m)
  PROVE  F[n] = G[n]
<1> DEFINE T == {i \in 0..n : F[i] = G[i]}
<1>1. 0 \in T
  BY DEF Steps
<1>2. ASSUME NEW i \in 1..n, i - 1 \in T PROVE i \in T
  <2>1. F[i] = Op(c, F[i - 1], s[i]) /\ G[i] = Op(c, G[i - 1], t[i])
    BY DEF Steps
  <2> QED BY <1>2, <2>1
<1> HIDE DEF T
<1>3. \A i \in 0..n : i \in T
  BY <1>1, <1>2, UpTo
<1> QED BY <1>3 DEF T

\* Nothing to take up.
THEOREM FoldEmpty ==
  ASSUME WellOrdered, NEW c, NEW base
  PROVE  Fold(c, base, <<>>) = base
<1>1. PICK F : Steps(c, F, base, <<>>, 0) /\ Fold(c, base, <<>>) = F[0]
  <2>1. DOMAIN <<>> = 1..0
    OBVIOUS
  <2> QED BY <2>1, FoldSteps
<1> QED BY <1>1 DEF Steps

\* One more element at the end.
THEOREM FoldAppend ==
  ASSUME WellOrdered, NEW c, NEW base, NEW S, NEW seq \in Seq(S), NEW e \in S
  PROVE  Fold(c, base, Append(seq, e)) = Op(c, Fold(c, base, seq), e)
<1> DEFINE n == Len(seq)
           t == Append(seq, e)
<1>1. n \in Nat /\ DOMAIN seq = 1..n
  OBVIOUS
<1>2. /\ t \in Seq(S) /\ Len(t) = n + 1 /\ t[n + 1] = e
      /\ \A i \in 1..n : t[i] = seq[i]
  OBVIOUS
<1>3. DOMAIN t = 1..(n + 1)
  BY <1>2
<1> HIDE DEF t, n
<1>4. PICK F : Steps(c, F, base, seq, n) /\ Fold(c, base, seq) = F[n]
  BY <1>1, FoldSteps
<1>5. PICK G : Steps(c, G, base, t, n + 1) /\ Fold(c, base, t) = G[n + 1]
  <2>1. n + 1 \in Nat
    BY <1>1
  <2> QED BY <1>3, <2>1, FoldSteps
<1>6. G[n] = F[n]
  <2>1. n \in Nat /\ n + 1 \in Nat /\ n <= n + 1 /\ \A i \in 1..n : seq[i] = t[i]
    BY <1>1, <1>2
  <2> QED BY <1>4, <1>5, <2>1, StepsAgree
<1>7. G[n + 1] = Op(c, G[n], t[n + 1])
  BY <1>1, <1>5 DEF Steps
<1> QED BY <1>2, <1>4, <1>5, <1>6, <1>7 DEF t
=============================================================================
