------------------------- MODULE EnumerationProofs -------------------------
(***************************************************************************)
(* What the proofs about loops over slices need: induction on the length,  *)
(* and what InOrder, SetToSeqs and FlattenSeq give.                        *)
(***************************************************************************)
EXTENDS Enumeration, Sequences, SequencesExt, FiniteSetTheorems, SequenceTheorems, TLAPS

\* A set of natural numbers has a least member.
LEMMA NatSetMin ==
  ASSUME NEW T \in SUBSET Nat, T # {}
  PROVE  \E x \in T : \A y \in T : ~(y < x)
<1>1. \E x \in T : \A y \in T : ~(<<y, x>> \in OpToRel(<, Nat))
  BY NatLessThanWellFounded, WFMin, Zenon
<1> QED BY <1>1 DEF OpToRel

\* Induction: a set with 0 that is closed under successor has every number.
LEMMA SetInduction ==
  ASSUME NEW S, 0 \in S, \A n \in Nat : n \in S => n + 1 \in S
  PROVE  Nat \subseteq S
<1> SUFFICES ASSUME Nat \ S # {} PROVE FALSE
  OBVIOUS
<1>1. PICK x \in Nat \ S : \A y \in Nat \ S : ~(y < x)
  BY NatSetMin
<1>2. x # 0
  BY <1>1
<1>3. x - 1 \in Nat /\ x - 1 < x
  BY <1>1, <1>2
<1>4. x - 1 \in S
  BY <1>1, <1>3
<1>5. (x - 1) + 1 \in S
  BY <1>3, <1>4
<1> QED BY <1>1, <1>5

\* The same up to a bound.
LEMMA BoundedInduction ==
  ASSUME NEW n \in Nat, NEW S, 0 \in S,
         \A k \in 0 .. n - 1 : k \in S => k + 1 \in S
  PROVE  0 .. n \subseteq S
<1> DEFINE R == { k \in Nat : k <= n => k \in S }
<1>1. 0 \in R
  OBVIOUS
<1>2. ASSUME NEW k \in Nat, k \in R PROVE k + 1 \in R
  BY <1>2
<1> HIDE DEF R
<1>3. Nat \subseteq R
  BY <1>1, <1>2, SetInduction
<1> QED BY <1>3 DEF R

\* A sequence holds finitely many elements.
LEMMA RangeFinite ==
  ASSUME NEW S, NEW seq \in Seq(S)
  PROVE  IsFiniteSet(Range(seq))
<1>1. Len(seq) \in Nat /\ DOMAIN seq = 1 .. Len(seq) /\ seq \in [1 .. Len(seq) -> S]
  OBVIOUS
<1>2. seq \in Surjection(1 .. Len(seq), Range(seq))
  BY <1>1 DEF Surjection, Range
<1> QED BY <1>1, <1>2, FS_Surjection, FS_Interval

\* The members of S in some order are all of them.
LEMMA SetToSeqsRange ==
  ASSUME NEW S, IsFiniteSet(S), NEW f \in SetToSeqs(S)
  PROVE  /\ f \in Seq(S)
         /\ DOMAIN f = 1 .. Cardinality(S)
         /\ Range(f) = S
<1> DEFINE D == 1 .. Cardinality(S)
<1>1. Cardinality(S) \in Nat
  BY FS_CardinalityType
<1>2. f \in [D -> S] /\ \A i, j \in D : i # j => f[i] # f[j]
  BY DEF SetToSeqs
<1>3. f \in Injection(D, S)
  BY <1>2 DEF Injection, IsInjective
<1>4. IsFiniteSet(D) /\ Cardinality(D) = Cardinality(S)
  BY <1>1, FS_Interval
<1>5. f \in Surjection(D, S)
  BY <1>3, <1>4, FS_Injection
<1>6. \A s \in S : \E i \in D : f[i] = s
  BY <1>5 DEF Surjection
<1>7. f \in Seq(S)
  BY <1>1, <1>2
<1> QED BY <1>2, <1>6, <1>7 DEF Range

\* InOrder lists every member of I once.
LEMMA InOrderLists ==
  ASSUME NEW I \in SUBSET Nat, IsFiniteSet(I)
  PROVE  /\ Cardinality(I) \in Nat
         /\ InOrder(I) \in [1 .. Cardinality(I) -> I]
         /\ \A i \in I : \E k \in 1 .. Cardinality(I) : InOrder(I)[k] = i
         /\ \A k, l \in 1 .. Cardinality(I) : InOrder(I)[k] = InOrder(I)[l] => k = l
<1> DEFINE Below(i) == { j \in I : j < i }
           n == Cardinality(I)
           rank == [i \in I |-> Cardinality(Below(i)) + 1]
<1>1. n \in Nat
  BY FS_CardinalityType
<1>2. ASSUME NEW i \in I
      PROVE  /\ IsFiniteSet(Below(i)) /\ Cardinality(Below(i)) \in Nat
             /\ Cardinality(Below(i)) < n
  <2>1. Below(i) \in SUBSET I /\ i \notin Below(i)
    OBVIOUS
  <2>2. IsFiniteSet(Below(i)) /\ Cardinality(Below(i)) <= n /\ (n = Cardinality(Below(i)) => I = Below(i))
    BY <2>1, FS_Subset
  <2>3. Cardinality(Below(i)) \in Nat
    BY <2>2, FS_CardinalityType
  <2>4. I # Below(i)
    BY <2>1
  <2> QED BY <2>2, <2>3, <2>4, <1>1
<1>3. ASSUME NEW i \in I, NEW j \in I, i < j
      PROVE  Cardinality(Below(i)) < Cardinality(Below(j))
  <2>0. \A x \in I : x < i => x < j
    BY <1>3
  <2>4. \A x \in Below(i) : x \in Below(j)
    BY <2>0
  <2>5. i \in Below(j) /\ i \notin Below(i)
    BY <1>3
  <2>1. Below(i) \in SUBSET Below(j) /\ i \in Below(j) /\ i \notin Below(i)
    <3> HIDE DEF Below
    <3> QED BY <2>4, <2>5
  <2>2. /\ Cardinality(Below(i)) <= Cardinality(Below(j))
        /\ Cardinality(Below(j)) = Cardinality(Below(i)) => Below(j) = Below(i)
    BY <2>1, <1>2, FS_Subset
  <2>3. Cardinality(Below(i)) \in Nat /\ Cardinality(Below(j)) \in Nat
    BY <1>2
  <2> HIDE DEF Below
  <2>6. Below(j) # Below(i)
    BY <2>1
  <2> QED BY <2>2, <2>3, <2>6
<1>4. rank \in [I -> 1 .. n]
  BY <1>1, <1>2
<1>5. ASSUME NEW i \in I, NEW j \in I, rank[i] = rank[j]
      PROVE  i = j
  <2>1. Cardinality(Below(i)) = Cardinality(Below(j))
    BY <1>5, <1>2
  <2>2. ~(i < j) /\ ~(j < i)
    BY <2>1, <1>2, <1>3
  <2> QED BY <2>2
<1>6. rank \in Injection(I, 1 .. n)
  BY <1>4, <1>5 DEF Injection, IsInjective
<1>7. IsFiniteSet(1 .. n) /\ Cardinality(1 .. n) = n
  BY <1>1, FS_Interval
<1>8. rank \in Surjection(I, 1 .. n)
  BY <1>6, <1>7, FS_Injection
<1>9. ASSUME NEW k \in 1 .. n
      PROVE  InOrder(I)[k] \in I /\ rank[InOrder(I)[k]] = k
  <2>1. PICK i \in I : rank[i] = k
    BY <1>8 DEF Surjection
  <2>2. Cardinality(Below(i)) = k - 1
    BY <2>1, <1>2
  <2>3. InOrder(I)[k] = CHOOSE x \in I : Cardinality(Below(x)) = k - 1
    BY DEF InOrder
  <2>4. InOrder(I)[k] \in I /\ Cardinality(Below(InOrder(I)[k])) = k - 1
    BY <2>2, <2>3
  <2> QED BY <2>4, <1>2
<1>10. ASSUME NEW i \in I
       PROVE  \E k \in 1 .. n : InOrder(I)[k] = i
  <2>1. rank[i] \in 1 .. n
    BY <1>4
  <2>2. InOrder(I)[rank[i]] \in I /\ rank[InOrder(I)[rank[i]]] = rank[i]
    BY <2>1, <1>9
  <2>3. InOrder(I)[rank[i]] = i
    BY <2>2, <1>5
  <2> QED BY <2>1, <2>3
<1>11. InOrder(I) \in [1 .. n -> I]
  <2> DEFINE At(k) == CHOOSE i \in I : Cardinality({ j \in I : j < i }) = k - 1
  <2>1. InOrder(I) = [k \in 1 .. n |-> At(k)]
    BY DEF InOrder
  <2> HIDE DEF At, n
  <2>2. \A k \in 1 .. n : At(k) \in I
    BY <2>1, <1>9
  <2> QED BY <2>1, <2>2
<1> QED BY <1>1, <1>9, <1>10, <1>11

\* Only keeps the elements at I, and nothing else.
LEMMA OnlyKeeps ==
  ASSUME NEW R, NEW seq \in Seq(R), NEW I \in SUBSET DOMAIN seq
  PROVE  /\ Only(seq, I) \in Seq(R)
         /\ Range(Only(seq, I)) = { seq[i] : i \in I }
<1>1. IsFiniteSet(I) /\ I \in SUBSET Nat
  <2>1. IsFiniteSet(1 .. Len(seq))
    BY FS_Interval
  <2> QED BY <2>1, FS_Subset
<1>2. /\ Cardinality(I) \in Nat
      /\ InOrder(I) \in [1 .. Cardinality(I) -> I]
      /\ \A i \in I : \E k \in 1 .. Cardinality(I) : InOrder(I)[k] = i
  BY <1>1, InOrderLists
<1>3. \A k \in 1 .. Cardinality(I) : Only(seq, I)[k] = seq[InOrder(I)[k]] /\ Only(seq, I)[k] \in R
  BY <1>2 DEF Only
<1>4. Only(seq, I) \in Seq(R)
  <2>1. Only(seq, I) \in [1 .. Cardinality(I) -> R]
    BY <1>3 DEF Only
  <2> QED BY <2>1, <1>2
<1>5. DOMAIN Only(seq, I) = 1 .. Cardinality(I)
  BY DEF Only
<1> QED BY <1>2, <1>3, <1>4, <1>5 DEF Range

\* FlattenSeq appends sequences one to the other: it has the elements of all.
LEMMA FlattenSeqRange ==
  ASSUME NEW R, NEW n \in Nat, NEW seqs \in [1 .. n -> Seq(R)]
  PROVE  /\ FlattenSeq(seqs) \in Seq(R)
         /\ Range(FlattenSeq(seqs)) = UNION { Range(seqs[k]) : k \in 1 .. n }
<1>1. seqs \in Seq(Seq(R)) /\ Len(seqs) = n
  OBVIOUS
<1>2. CASE n = 0
  <2>1. seqs = << >> /\ FlattenSeq(seqs) = seqs
    BY <1>1, <1>2 DEF FlattenSeq
  <2>2. FlattenSeq(seqs) \in Seq(R) /\ Range(FlattenSeq(seqs)) = {}
    <3>1. << >> \in Seq(R) /\ DOMAIN << >> = {}
      OBVIOUS
    <3>2. Range(<< >>) = {}
      BY <3>1, Zenon DEF Range
    <3> QED BY <2>1, <3>1, <3>2
  <2>3. 1 .. n = {}
    BY <1>2
  <2> QED BY <2>2, <2>3
<1>3. CASE n > 0
  <2> DEFINE Step(f, i) == IF i = 1 THEN seqs[i] ELSE f[i-1] \o seqs[i]
             Flat(f, m) == f \in [1 .. m -> Seq(R)] /\ \A i \in 1 .. m : f[i] = Step(f, i)
             E == { m \in 0 .. n : \E f : Flat(f, m) }
             F == CHOOSE f : f = [i \in 1 .. n |-> Step(f, i)]
  <2>1. FlattenSeq(seqs) = F[n]
    BY <1>1, <1>3 DEF FlattenSeq
  <2>2. 0 \in E
    <3>1. Flat([i \in 1 .. 0 |-> << >>], 0)
      OBVIOUS
    <3>2. 0 \in 0 .. n
      OBVIOUS
    <3> HIDE DEF Flat
    <3> QED BY <3>1, <3>2
  <2>3. ASSUME NEW k \in 0 .. n - 1, k \in E
        PROVE  k + 1 \in E
    <3>1. PICK f : Flat(f, k)
      BY <2>3
    <3> DEFINE g == [i \in 1 .. k + 1 |-> IF i <= k THEN f[i] ELSE Step(f, k + 1)]
    <3>2. Step(f, k + 1) \in Seq(R)
      <4>1. seqs[k + 1] \in Seq(R)
        OBVIOUS
      <4>2. k > 0 => f[k] \in Seq(R)
        BY <3>1
      <4> QED BY <4>1, <4>2
    <3>3. g \in [1 .. k + 1 -> Seq(R)]
      <4>1. \A i \in 1 .. k + 1 : i <= k => f[i] \in Seq(R)
        BY <3>1
      <4> HIDE DEF Step
      <4> QED BY <4>1, <3>2
    <3>4. \A i \in 1 .. k + 1 : g[i] = Step(g, i)
      <4>0. \A i \in 1 .. k : f[i] = Step(f, i)
        BY <3>1
      <4>1. \A i \in 1 .. k : g[i] = f[i] /\ f[i] = Step(f, i)
        <5> HIDE DEF Step
        <5> QED BY <4>0
      <4>2. g[k + 1] = Step(f, k + 1)
        OBVIOUS
      <4>3. \A i \in 1 .. k + 1 : i # 1 => g[i - 1] = f[i - 1]
        OBVIOUS
      <4>4. \A i \in 1 .. k + 1 : Step(g, i) = Step(f, i)
        BY <4>3
      <4> HIDE DEF g, Step
      <4> QED BY <4>1, <4>2, <4>4
    <3>5. k + 1 \in 0 .. n
      OBVIOUS
    <3> HIDE DEF g, Step
    <3> QED BY <3>3, <3>4, <3>5
  <2>4. n \in E
    <3> HIDE DEF E
    <3>1. 0 .. n \subseteq E
      BY <2>2, <2>3, BoundedInduction
    <3> QED BY <3>1
  <2>5. PICK f : Flat(f, n)
    BY <2>4
  <2>6. f = [i \in 1 .. n |-> Step(f, i)]
    BY <2>5
  <2>7. F = [i \in 1 .. n |-> Step(F, i)]
    <3> HIDE DEF Step
    <3> QED BY <2>6
  <2>8. \A i \in 1 .. n : F[i] = Step(F, i)
    <3> HIDE DEF Step, F
    <3> QED BY <2>7
  <2> DEFINE Good(i) == /\ F[i] \in Seq(R)
                        /\ Range(F[i]) = UNION { Range(seqs[k]) : k \in 1 .. i }
             G == { i \in 0 .. n : i > 0 => Good(i) }
  <2> HIDE DEF F
  <2>9. 0 \in G
    OBVIOUS
  <2>10. ASSUME NEW k \in 0 .. n - 1, k \in G
         PROVE  k + 1 \in G
    <3>1. CASE k = 0
      <4>1. F[1] = seqs[1]
        BY <2>8, <1>3
      <4>2. 1 .. 1 = {1}
        OBVIOUS
      <4>3. Good(1)
        BY <4>1, <4>2, <1>3
      <4> QED BY <4>3, <3>1
    <3>2. CASE k > 0
      <4>0. k + 1 \in 1 .. n /\ k + 1 # 1 /\ (k + 1) - 1 = k
        BY <3>2
      <4>1. F[k + 1] = F[k] \o seqs[k + 1]
        BY <2>8, <4>0
      <4>2. F[k] \in Seq(R) /\ seqs[k + 1] \in Seq(R)
            /\ Range(F[k]) = UNION { Range(seqs[j]) : j \in 1 .. k }
        BY <2>10, <3>2
      <4>3. F[k + 1] \in Seq(R) /\ Range(F[k + 1]) = Range(F[k]) \cup Range(seqs[k + 1])
        BY <4>1, <4>2, RangeConcatenation, ConcatProperties
      <4>4. 1 .. k + 1 = (1 .. k) \cup {k + 1}
        OBVIOUS
      <4>5. UNION { Range(seqs[j]) : j \in 1 .. k + 1 }
              = (UNION { Range(seqs[j]) : j \in 1 .. k }) \cup Range(seqs[k + 1])
        BY <4>4
      <4>6. Good(k + 1)
        BY <4>2, <4>3, <4>5
      <4> QED BY <4>6, <4>0
    <3> QED BY <3>1, <3>2
  <2>11. 0 .. n \subseteq G
    <3> HIDE DEF G
    <3> QED BY <2>9, <2>10, BoundedInduction
  <2>12. Good(n)
    <3>1. n \in 0 .. n
      OBVIOUS
    <3>2. n \in G
      BY <2>11, <3>1
    <3> HIDE DEF Good
    <3> QED BY <3>2, <1>3
  <2> QED BY <2>1, <2>12
<1> QED BY <1>2, <1>3
=============================================================================
