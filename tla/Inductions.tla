----------------------------- MODULE Inductions -----------------------------
(***************************************************************************)
(* Induction over numbers and over sequences, and what folds compute, for  *)
(* the proofs about data of any length.  The induction theorems of the     *)
(* library take an operator for the property to be proved; here it is a    *)
(* set, of those numbers or sequences that have it, and the steps of a     *)
(* fold are a function.                                                    *)
(***************************************************************************)
EXTENDS Naturals, SequencesExt, WellFoundedInduction, SequenceTheorems, TLAPS

-----------------------------------------------------------------------------
(* Induction.                                                              *)

\* A set of numbers has a least one.
LEMMA LeastNumber ==
    ASSUME NEW T \in SUBSET Nat, T # {}
    PROVE  \E x \in T : \A y \in T : x <= y
<1>1. PICK x \in T : \A y \in T : ~ (<<y, x>> \in OpToRel(<, Nat))
  BY WFMin, NatLessThanWellFounded
<1>2. \A y \in T : ~ (y < x)
  BY <1>1 DEF OpToRel
<1>3. QED  BY <1>2

\* A set with 0, and with the successors of its numbers, has all numbers.
LEMMA NumbersFrom0 ==
    ASSUME NEW T, 0 \in T, \A n \in Nat : n \in T => n + 1 \in T
    PROVE  Nat \subseteq T
<1>1. SUFFICES ASSUME Nat \ T # {} PROVE FALSE
  OBVIOUS
<1>2. PICK x \in Nat \ T : \A y \in Nat \ T : x <= y
  BY <1>1, LeastNumber
<1>3. x - 1 \in Nat /\ x - 1 \notin Nat \ T /\ x = (x - 1) + 1
  BY <1>2
<1>4. QED  BY <1>2, <1>3

\* The same for sequences, one element longer each time.
LEMMA SequencesFromEmpty ==
    ASSUME NEW S, NEW T, <<>> \in T,
           \A s \in Seq(S), e \in S : s \in T => Append(s, e) \in T
    PROVE  Seq(S) \subseteq T
<1> DEFINE Lengths == {n \in Nat : \A s \in Seq(S) : Len(s) = n => s \in T}
<1>1. 0 \in Lengths
  <2>1. \A s \in Seq(S) : Len(s) = 0 => s = <<>>
    BY EmptySeq
  <2>2. QED  BY <2>1
<1>2. ASSUME NEW n \in Nat, n \in Lengths PROVE n + 1 \in Lengths
  <2>1. SUFFICES ASSUME NEW s \in Seq(S), Len(s) = n + 1 PROVE s \in T
    OBVIOUS
  <2> DEFINE r == SubSeq(s, 1, n)
  <2>2. \A i \in 1..(n + 1) : s[i] \in S
    BY <2>1, ElementOfSeq
  <2>3. r \in Seq(S) /\ Len(r) = n /\ \A i \in 1..n : r[i] = s[i]
    <3>1. 1 \in Int /\ n \in Int /\ \A i \in 1..n : s[i] \in S
      BY <2>2
    <3>2. /\ r \in Seq(S)
          /\ Len(r) = IF 1 <= n THEN n - 1 + 1 ELSE 0
          /\ \A i \in 1..(n - 1 + 1) : r[i] = s[1 + i - 1]
      BY <3>1, SubSeqProperties
    <3>3. QED  BY <3>2
  <2>4. s = Append(r, s[n + 1])
    <3>1. /\ Append(r, s[n + 1]) \in Seq(S)
          /\ Len(Append(r, s[n + 1])) = n + 1
          /\ \A i \in 1..n : Append(r, s[n + 1])[i] = r[i]
          /\ Append(r, s[n + 1])[n + 1] = s[n + 1]
      BY <2>2, <2>3, AppendProperties
    <3>2. \A i \in 1..(n + 1) : Append(r, s[n + 1])[i] = s[i]
      BY <2>3, <3>1
    <3>3. QED  BY <2>1, <3>1, <3>2, SeqEqual
  <2>5. r \in T
    BY <1>2, <2>3
  <2>6. s[n + 1] \in S
    BY <2>2
  <2>7. Append(r, s[n + 1]) \in T
    BY <2>3, <2>5, <2>6
  <2>8. QED  BY <2>4, <2>7
<1>3. Nat \subseteq Lengths
  <2> HIDE DEF Lengths
  <2>1. QED  BY <1>1, <1>2, NumbersFrom0
<1>4. QED  BY <1>3, LenProperties

\* Max finds the greatest.
LEMMA MaxProperties ==
    ASSUME NEW n \in Nat, NEW S \in SUBSET (1..n), S # {}
    PROVE  Max(S) \in S /\ \A y \in S : Max(S) >= y
<1> DEFINE T == {n - x : x \in S}
<1>1. T \in SUBSET Nat /\ T # {}
  <2>1. \A x \in S : n - x \in Nat
    OBVIOUS
  <2>2. PICK x \in S : TRUE
    OBVIOUS
  <2>3. n - x \in T
    OBVIOUS
  <2>4. QED  BY <2>1, <2>3
<1>2. PICK t \in T : \A u \in T : t <= u
  BY <1>1, LeastNumber
<1>3. PICK x \in S : t = n - x
  BY <1>2
<1>4. \A y \in S : n - y \in T
  OBVIOUS
<1>5. \A y \in S : x >= y
  <2>1. SUFFICES ASSUME NEW y \in S PROVE x >= y
    OBVIOUS
  <2>2. t <= n - y
    BY <1>2, <1>4
  <2> HIDE DEF T
  <2>3. QED  BY <1>3, <2>2
<1>6. QED  BY <1>5 DEF Max

\* The end of a range is the greatest in it.
LEMMA MaxIsLast ==
    ASSUME NEW n \in Nat, NEW S \in SUBSET (1..n), n \in S
    PROVE  Max(S) = n
<1>1. PICK m : m = Max(S)
  OBVIOUS
<1>2. S # {}
  OBVIOUS
<1>3. m \in S /\ m >= n
  BY <1>1, <1>2, MaxProperties
<1>4. QED  BY <1>1, <1>3

-----------------------------------------------------------------------------
(* Folds.                                                                  *)

\* F computes one step of a fold: from a value in D and an element in B.
IsStep(F, D, B) == F \in [D \X B -> D]

\* What a fold from the left computes for each set of positions: the step of
\* the last of them, on what the others give.
Computes(g, F, D, base, s) ==
    /\ g[{}] = base
    /\ \A d \in SUBSET (1..Len(s)) :
          d # {} /\ g[d \ {Max(d)}] \in D => g[d] = F[<<g[d \ {Max(d)}], s[Max(d)]>>]

\* Values stay within the domain of F.
LEMMA ComputesWithin ==
    ASSUME NEW D, NEW B, NEW F, IsStep(F, D, B), NEW base \in D, NEW s \in Seq(B),
           NEW g, Computes(g, F, D, base, s)
    PROVE  \A d \in SUBSET (1..Len(s)) : g[d] \in D
<1> DEFINE T == {m \in Nat : m <= Len(s) => \A d \in SUBSET (1..m) : g[d] \in D}
<1>0. Len(s) \in Nat /\ \A i \in 1..Len(s) : s[i] \in B
  BY LenProperties, ElementOfSeq
<1>1. 0 \in T
  <2>1. \A d \in SUBSET (1..0) : d = {}
    OBVIOUS
  <2>2. QED  BY <2>1 DEF Computes
<1>2. ASSUME NEW m \in Nat, m \in T PROVE m + 1 \in T
  <2>1. SUFFICES ASSUME m + 1 <= Len(s), NEW d \in SUBSET (1..(m + 1)) PROVE g[d] \in D
    OBVIOUS
  <2>2. \A c \in SUBSET (1..m) : g[c] \in D
    BY <1>2, <2>1, <1>0
  <2>3. CASE m + 1 \notin d
    <3>1. d \in SUBSET (1..m)
      BY <2>3
    <3>2. QED  BY <2>2, <3>1
  <2>4. CASE m + 1 \in d
    <3>1. Max(d) = m + 1
      BY <2>4, MaxIsLast
    <3>2. d \ {m + 1} \in SUBSET (1..m) /\ d # {} /\ d \in SUBSET (1..Len(s))
      BY <2>1, <2>4, <1>0
    <3>3. g[d \ {m + 1}] \in D
      BY <2>2, <3>2
    <3>4. g[d] = F[<<g[d \ {m + 1}], s[m + 1]>>]
      BY <3>1, <3>2, <3>3 DEF Computes
    <3>5. s[m + 1] \in B
      BY <1>0, <2>1
    <3>6. QED  BY <3>3, <3>4, <3>5 DEF IsStep
  <2>5. QED  BY <2>3, <2>4
<1>3. Nat \subseteq T
  <2> HIDE DEF T
  <2>1. QED  BY <1>1, <1>2, NumbersFrom0
<1>4. Len(s) \in T
  BY <1>0, <1>3
<1>5. QED  BY <1>4

\* More elements change nothing for the positions before them.
LEMMA ComputesSame ==
    ASSUME NEW D, NEW B, NEW F, IsStep(F, D, B), NEW base \in D,
           NEW s \in Seq(B), NEW e \in B,
           NEW g, Computes(g, F, D, base, s),
           NEW h, Computes(h, F, D, base, Append(s, e))
    PROVE  g[1..Len(s)] = h[1..Len(s)]
<1> DEFINE n == Len(s)
           t == Append(s, e)
           T == {m \in Nat : m <= n => \A d \in SUBSET (1..m) : g[d] = h[d]}
<1>0. /\ n \in Nat /\ t \in Seq(B) /\ Len(t) = n + 1
      /\ \A i \in 1..n : s[i] = t[i]
  BY LenProperties, AppendProperties
<1>6. Computes(h, F, D, base, t) /\ Computes(g, F, D, base, s)
  OBVIOUS
<1> HIDE DEF t
<1>1. 0 \in T
  <2>1. \A d \in SUBSET (1..0) : d = {}
    OBVIOUS
  <2>2. QED  BY <1>6, <2>1 DEF Computes
<1>2. ASSUME NEW m \in Nat, m \in T PROVE m + 1 \in T
  <2>1. SUFFICES ASSUME m + 1 <= n, NEW d \in SUBSET (1..(m + 1)) PROVE g[d] = h[d]
    OBVIOUS
  <2>2. \A c \in SUBSET (1..m) : g[c] = h[c]
    BY <1>2, <2>1
  <2>3. CASE m + 1 \notin d
    <3>1. d \in SUBSET (1..m)
      BY <2>3
    <3>2. QED  BY <2>2, <3>1
  <2>4. CASE m + 1 \in d
    <3>1. Max(d) = m + 1
      BY <2>4, MaxIsLast
    <3>2. /\ d \ {m + 1} \in SUBSET (1..m) /\ d # {}
          /\ d \in SUBSET (1..Len(s)) /\ d \in SUBSET (1..Len(t))
          /\ d \ {m + 1} \in SUBSET (1..Len(s))
      BY <2>1, <2>4, <1>0
    <3>3. g[d \ {m + 1}] = h[d \ {m + 1}]
      BY <2>2, <3>2
    <3>4. g[d \ {m + 1}] \in D
      BY <3>2, ComputesWithin
    <3>5. g[d] = F[<<g[d \ {m + 1}], s[m + 1]>>]
      BY <3>1, <3>2, <3>4 DEF Computes
    <3>6. h[d] = F[<<h[d \ {m + 1}], t[m + 1]>>]
      BY <1>6, <3>1, <3>2, <3>3, <3>4 DEF Computes
    <3>7. s[m + 1] = t[m + 1]
      BY <1>0, <2>1
    <3>8. QED  BY <3>3, <3>5, <3>6, <3>7
  <2>5. QED  BY <2>3, <2>4
<1>3. Nat \subseteq T
  <2> HIDE DEF T
  <2>1. QED  BY <1>1, <1>2, NumbersFrom0
<1>4. n \in T
  BY <1>0, <1>3
<1>5. QED  BY <1>4

\* It exists.
LEMMA ComputesExists ==
    ASSUME NEW D, NEW B, NEW F, IsStep(F, D, B), NEW base \in D, NEW s \in Seq(B)
    PROVE  \E g \in [SUBSET (1..Len(s)) -> D] : Computes(g, F, D, base, s)
<1> DEFINE P(m, g) == /\ g \in [SUBSET (1..m) -> D]
                      /\ g[{}] = base
                      /\ \A d \in SUBSET (1..m) :
                            d # {} => g[d] = F[<<g[d \ {Max(d)}], s[Max(d)]>>]
           T == {m \in Nat : m <= Len(s) => \E g : P(m, g)}
<1>0. Len(s) \in Nat /\ \A i \in 1..Len(s) : s[i] \in B
  BY LenProperties, ElementOfSeq
<1>1. 0 \in T
  <2>1. \A d \in SUBSET (1..0) : d = {}
    OBVIOUS
  <2>2. {} \in SUBSET (1..0)
    OBVIOUS
  <2>3. P(0, [d \in SUBSET (1..0) |-> base])
    BY <2>1, <2>2
  <2> HIDE DEF P
  <2>4. QED  BY <2>3
<1>2. ASSUME NEW m \in Nat, m \in T PROVE m + 1 \in T
  <2> HIDE DEF P
  <2>1. SUFFICES ASSUME m + 1 <= Len(s) PROVE \E g : P(m + 1, g)
    OBVIOUS
  <2>2. PICK g : P(m, g)
    BY <1>0, <1>2, <2>1
  <2> USE DEF P
  <2> DEFINE h == [d \in SUBSET (1..(m + 1)) |->
                     IF m + 1 \in d THEN F[<<g[d \ {m + 1}], s[m + 1]>>] ELSE g[d]]
  <2>3. \A d \in SUBSET (1..(m + 1)) : d \ {m + 1} \in SUBSET (1..m)
    OBVIOUS
  <2>4. \A d \in SUBSET (1..(m + 1)) : m + 1 \notin d => d \in SUBSET (1..m)
    OBVIOUS
  <2>5. s[m + 1] \in B
    BY <1>0, <2>1
  <2>6. h \in [SUBSET (1..(m + 1)) -> D]
    <3>1. ASSUME NEW d \in SUBSET (1..(m + 1))
          PROVE (IF m + 1 \in d THEN F[<<g[d \ {m + 1}], s[m + 1]>>] ELSE g[d]) \in D
      <4>1. CASE m + 1 \in d
        <5>1. g[d \ {m + 1}] \in D
          BY <2>2, <2>3
        <5>2. QED  BY <2>5, <4>1, <5>1 DEF IsStep
      <4>2. CASE m + 1 \notin d
        BY <2>2, <2>4, <4>2
      <4>3. QED  BY <4>1, <4>2
    <3>2. QED  BY <3>1
  <2>7. h[{}] = base
    BY <2>2
  <2>8. ASSUME NEW d \in SUBSET (1..(m + 1)), d # {}
        PROVE  h[d] = F[<<h[d \ {Max(d)}], s[Max(d)]>>]
    <3>1. CASE m + 1 \in d
      <4>1. Max(d) = m + 1
        BY <3>1, MaxIsLast
      <4>2. h[d \ {m + 1}] = g[d \ {m + 1}]
        BY <2>3
      <4>3. QED  BY <3>1, <4>1, <4>2
    <3>2. CASE m + 1 \notin d
      <4>1. d \in SUBSET (1..m)
        BY <2>4, <3>2
      <4>2. PICK k : k = Max(d)
        OBVIOUS
      <4>3. h[d] = g[d] /\ h[d \ {k}] = g[d \ {k}] /\ d \ {k} \in SUBSET (1..(m + 1))
        BY <3>2, <4>1
      <4>4. g[d] = F[<<g[d \ {k}], s[k]>>]
        BY <2>2, <2>8, <4>1, <4>2
      <4>5. QED  BY <4>2, <4>3, <4>4
    <3>3. QED  BY <3>1, <3>2
  <2> HIDE DEF h
  <2>9. P(m + 1, h)
    BY <2>6, <2>7, <2>8
  <2>10. QED  BY <2>9
<1>3. Nat \subseteq T
  <2> HIDE DEF T
  <2>1. QED  BY <1>1, <1>2, NumbersFrom0
<1>4. PICK g : P(Len(s), g)
  <2> HIDE DEF P
  <2>1. Len(s) \in T
    BY <1>0, <1>3
  <2>2. QED  BY <1>0, <2>1
<1>5. QED  BY <1>4 DEF Computes

\* The result of a fold, with its steps as a function.
IsFold(value, F, D, base, s) ==
    \E g : Computes(g, F, D, base, s) /\ value = g[1..Len(s)]

\* Of nothing a fold gives its base.
LEMMA FoldEmpty ==
    ASSUME NEW D, NEW F, NEW base, NEW value, IsFold(value, F, D, base, <<>>)
    PROVE  value = base
<1>1. 1..Len(<<>>) = {}
  OBVIOUS
<1>2. QED  BY <1>1 DEF IsFold, Computes

\* What it gives is in the domain of its steps.
LEMMA FoldWithin ==
    ASSUME NEW D, NEW B, NEW F, IsStep(F, D, B), NEW base \in D, NEW s \in Seq(B),
           NEW value, IsFold(value, F, D, base, s)
    PROVE  value \in D
<1>1. PICK g : Computes(g, F, D, base, s) /\ value = g[1..Len(s)]
  BY DEF IsFold
<1>2. \A d \in SUBSET (1..Len(s)) : g[d] \in D
  BY <1>1, ComputesWithin
<1>3. QED  BY <1>1, <1>2

\* One more element is one more step.
LEMMA FoldAppend ==
    ASSUME NEW D, NEW B, NEW F, IsStep(F, D, B), NEW base \in D,
           NEW s \in Seq(B), NEW e \in B,
           NEW value, IsFold(value, F, D, base, s),
           NEW next, IsFold(next, F, D, base, Append(s, e))
    PROVE  next = F[<<value, e>>]
<1> DEFINE n == Len(s)
           t == Append(s, e)
<1>1. /\ n \in Nat /\ t \in Seq(B) /\ Len(t) = n + 1 /\ t[n + 1] = e
      /\ \A i \in 1..n : s[i] = t[i]
  BY LenProperties, AppendProperties
<1> HIDE DEF t, n
<1>2. PICK g : Computes(g, F, D, base, s) /\ value = g[1..n]
  BY DEF IsFold, n
<1>3. PICK h : Computes(h, F, D, base, t) /\ next = h[1..(n + 1)]
  BY <1>1 DEF IsFold, t
<1>4. g[1..n] = h[1..n]
  <2>1. Computes(g, F, D, base, s)
    BY <1>2
  <2>2. Computes(h, F, D, base, Append(s, e))
    BY <1>3 DEF t
  <2>3. g[1..Len(s)] = h[1..Len(s)]
    BY <2>1, <2>2, ComputesSame
  <2>4. QED  BY <2>3 DEF n
<1>5. value \in D
  BY <1>2, ComputesWithin DEF n
<1>6. Max(1..(n + 1)) = n + 1
  <2>1. n + 1 \in Nat /\ n + 1 \in 1..(n + 1) /\ 1..(n + 1) \in SUBSET (1..(n + 1))
    BY <1>1
  <2>2. QED  BY <2>1, MaxIsLast
<1>7. (1..(n + 1)) \ {n + 1} = 1..n /\ 1..(n + 1) # {} /\ 1..(n + 1) \in SUBSET (1..Len(t))
  <2>1. \A i : i \in 1..n <=> i \in 1..(n + 1) /\ i # n + 1
    BY <1>1
  <2>2. n + 1 \in 1..(n + 1) /\ Len(t) = n + 1
    BY <1>1
  <2>3. QED  BY <2>1, <2>2
<1>8. h[1..(n + 1)] = F[<<h[1..n], t[n + 1]>>]
  <2>1. h[(1..(n + 1)) \ {Max(1..(n + 1))}] \in D
    BY <1>2, <1>4, <1>5, <1>6, <1>7
  <2>2. h[1..(n + 1)] = F[<<h[(1..(n + 1)) \ {Max(1..(n + 1))}], t[Max(1..(n + 1))]>>]
    BY <1>3, <1>7, <2>1 DEF Computes
  <2>3. QED  BY <1>6, <1>7, <2>2
<1>9. QED  BY <1>1, <1>2, <1>3, <1>4, <1>8
=============================================================================
