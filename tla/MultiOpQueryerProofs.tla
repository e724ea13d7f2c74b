------------------------ MODULE MultiOpQueryerProofs ------------------------
(***************************************************************************)
(* Query for every number of inputs, every maxBatchSize and every choice   *)
(* of files: chunks cover the inputs without overlapping, so answers come  *)
(* to their inputs and each input is sent once.                            *)
(***************************************************************************)
EXTENDS MultiOpQueryer, EnumerationProofs

\* Products grow with their first factor.
LEMMA TimesMonotonic ==
  ASSUME NEW i \in Nat, NEW j \in Nat, NEW m \in Nat, i <= j
  PROVE  i * m \in Nat /\ j * m \in Nat /\ i * m <= j * m
OBVIOUS

LEMMA Quotient ==
  ASSUME NEW k \in Nat, NEW m \in Nat \ {0}
  PROVE  /\ k \div m \in Nat
         /\ (k \div m) * m <= k
         /\ k < (k \div m + 1) * m
OBVIOUS

LEMMA QuotientMonotonic ==
  ASSUME NEW k \in Nat, NEW l \in Nat, NEW m \in Nat \ {0}, k <= l
  PROVE  k \div m <= l \div m
BY Quotient, TimesMonotonic

LEMMA NextProduct ==
  ASSUME NEW i \in Nat, NEW m \in Nat
  PROVE  (i + 1) * m = i * m + m
OBVIOUS

LEMMA CallType ==
  ASSUME NEW c \in Call
  PROVE  c.n \in Nat /\ c.max \in Nat \ {0} /\ c.files \subseteq 1 .. c.n
BY CallAssumption

LEMMA LesserOf ==
  ASSUME NEW a \in Nat, NEW b \in Nat
  PROVE  Min({a, b}) = IF a <= b THEN a ELSE b
BY DEF Min

\* Chunks begin within the inputs, or right behind them.
LEMMA ChunkBegins ==
  ASSUME NEW c \in Call, NEW i \in Chunks(c)
  PROVE  i \in Nat /\ i * c.max \in Nat /\ i * c.max <= c.n
<1> DEFINE n == c.n
           max == c.max
<1>1. n \in Nat /\ max \in Nat \ {0}
  BY CallType
<1> HIDE DEF n, max
<1>2. CASE n <= max
  <2>1. i = 0
    BY <1>2 DEF Chunks, n, max
  <2> QED BY <2>1, <1>1 DEF n, max
<1>3. CASE ~(n <= max)
  <2>1. i \in 0 .. n \div max
    BY <1>3 DEF Chunks, n, max
  <2>2. n \div max \in Nat /\ (n \div max) * max <= n
    BY <1>1, Quotient
  <2>3. i \in Nat /\ i <= n \div max
    BY <2>1, <2>2
  <2>4. i * max \in Nat /\ i * max <= (n \div max) * max /\ (n \div max) * max \in Nat
    BY <1>1, <2>2, <2>3, TimesMonotonic
  <2>5. i * max <= n
    BY <1>1, <2>2, <2>4
  <2> QED BY <2>3, <2>4, <2>5 DEF n, max
<1> QED BY <1>2, <1>3

\* Where chunk i ends.
Ends(c, i) == IF (i + 1) * c.max < c.n THEN (i + 1) * c.max ELSE c.n

LEMMA ChunkEnds ==
  ASSUME NEW c \in Call, NEW i \in Chunks(c)
  PROVE  /\ (i + 1) * c.max = i * c.max + c.max
         /\ Ends(c, i) \in Nat
         /\ i * c.max <= Ends(c, i) /\ Ends(c, i) <= c.n
         /\ Ends(c, i) <= i * c.max + c.max
<1>1. c.n \in Nat /\ c.max \in Nat \ {0}
  BY CallType
<1>2. i \in Nat /\ i * c.max \in Nat /\ i * c.max <= c.n
  BY ChunkBegins
<1>3. (i + 1) * c.max = i * c.max + c.max
  BY <1>1, <1>2, NextProduct
<1> QED BY <1>1, <1>2, <1>3 DEF Ends

\* Slice: the inputs of chunk i, one after the other.
LEMMA SliceIs ==
  ASSUME NEW c \in Call, NEW i \in Chunks(c)
  PROVE  /\ Slice(c, i) \in Seq(1 .. c.n)
         /\ Len(Slice(c, i)) = Ends(c, i) - i * c.max
         /\ DOMAIN Slice(c, i) = 1 .. Ends(c, i) - i * c.max
         /\ \A p \in 1 .. Ends(c, i) - i * c.max : Slice(c, i)[p] = i * c.max + p
<1> DEFINE all == [k \in 1 .. c.n |-> k]
           lo == i * c.max
           hi == Ends(c, i)
<1>1. c.n \in Nat /\ c.max \in Nat \ {0}
  BY CallType
<1>2. lo \in Nat /\ hi \in Nat /\ lo <= hi /\ hi <= c.n
  BY ChunkBegins, ChunkEnds
<1>3. Min({(i + 1) * c.max, c.n}) = hi
  <2>1. (i + 1) * c.max \in Nat
    BY <1>1, ChunkBegins, ChunkEnds
  <2>2. Min({(i + 1) * c.max, c.n}) = IF (i + 1) * c.max <= c.n THEN (i + 1) * c.max ELSE c.n
    BY <1>1, <2>1, LesserOf
  <2> QED BY <1>1, <2>1, <2>2 DEF Ends
<1>4. Slice(c, i) = SubSeq(all, lo + 1, hi)
  BY <1>3 DEF Slice
<1> HIDE DEF lo, hi
<1>5. \A k \in lo + 1 .. hi : all[k] = k /\ all[k] \in 1 .. c.n
  BY <1>1, <1>2
<1> HIDE DEF all
<1>6. /\ SubSeq(all, lo + 1, hi) \in Seq(1 .. c.n)
      /\ Len(SubSeq(all, lo + 1, hi)) = IF lo + 1 <= hi THEN hi - (lo + 1) + 1 ELSE 0
      /\ \A p \in 1 .. hi - (lo + 1) + 1 : SubSeq(all, lo + 1, hi)[p] = all[(lo + 1) + p - 1]
  BY <1>2, <1>5, SubSeqProperties
<1>7. Len(SubSeq(all, lo + 1, hi)) = hi - lo
  BY <1>2, <1>6
<1>8. \A p \in 1 .. hi - lo : SubSeq(all, lo + 1, hi)[p] = lo + p
  <2> TAKE p \in 1 .. hi - lo
  <2>1. (lo + 1) + p - 1 = lo + p /\ lo + p \in lo + 1 .. hi
    BY <1>2
  <2>2. p \in 1 .. hi - (lo + 1) + 1
    BY <1>2
  <2> QED BY <1>5, <1>6, <2>1, <2>2
<1>9. DOMAIN SubSeq(all, lo + 1, hi) = 1 .. hi - lo
  BY <1>6, <1>7, LenProperties
<1> QED BY <1>4, <1>6, <1>7, <1>8, <1>9 DEF lo, hi

\* No input is in two chunks, and each is in one.
LEMMA SlicesDisjoint ==
  ASSUME NEW c \in Call, NEW i \in Chunks(c), NEW j \in Chunks(c), i # j
  PROVE  Range(Slice(c, i)) \cap Range(Slice(c, j)) = {}
<1>1. c.n \in Nat /\ c.max \in Nat \ {0}
  BY CallType
<1>2. i \in Nat /\ j \in Nat /\ i * c.max \in Nat /\ j * c.max \in Nat
  BY ChunkBegins
<1>3. ASSUME NEW k \in Nat, NEW l \in Nat, k < l
      PROVE  k * c.max + c.max <= l * c.max
  <2>1. (k + 1) * c.max <= l * c.max
    BY <1>1, <1>3, TimesMonotonic
  <2>2. (k + 1) * c.max = k * c.max + c.max
    BY <1>1, NextProduct
  <2> QED BY <2>1, <2>2
<1>4. \/ i * c.max + c.max <= j * c.max
      \/ j * c.max + c.max <= i * c.max
  BY <1>2, <1>3
<1>5. ASSUME NEW k, k \in Range(Slice(c, i)), k \in Range(Slice(c, j))
      PROVE  FALSE
  <2>1. PICK p \in 1 .. Ends(c, i) - i * c.max : k = i * c.max + p
    BY <1>5, SliceIs DEF Range
  <2>2. PICK q \in 1 .. Ends(c, j) - j * c.max : k = j * c.max + q
    BY <1>5, SliceIs DEF Range
  <2>3. /\ Ends(c, i) \in Nat /\ Ends(c, i) <= i * c.max + c.max
        /\ Ends(c, j) \in Nat /\ Ends(c, j) <= j * c.max + c.max
    BY ChunkEnds
  <2>4. i * c.max < k /\ k <= i * c.max + c.max /\ j * c.max < k /\ k <= j * c.max + c.max
    <3> HIDE DEF Ends
    <3> DEFINE a == i * c.max
               b == j * c.max
    <3>1. a \in Nat /\ b \in Nat /\ k = a + p /\ k = b + q
      BY <1>2, <2>1, <2>2
    <3>2. p \in 1 .. Ends(c, i) - a /\ q \in 1 .. Ends(c, j) - b
      OBVIOUS
    <3>3. Ends(c, i) <= a + c.max /\ Ends(c, j) <= b + c.max
      BY <2>3
    <3> HIDE DEF a, b
    <3>4. a < k /\ k <= a + c.max /\ b < k /\ k <= b + c.max
      BY <1>1, <2>3, <3>1, <3>2, <3>3
    <3> QED BY <3>4 DEF a, b
  <2>5. k \in Nat
    BY <1>2, <2>1
  <2> QED BY <1>1, <1>2, <1>4, <2>4, <2>5
<1> QED BY <1>5

LEMMA SlicesCover ==
  ASSUME NEW c \in Call
  PROVE  UNION { Range(Slice(c, i)) : i \in Chunks(c) } = 1 .. c.n
<1>1. c.n \in Nat /\ c.max \in Nat \ {0}
  BY CallType
<1>2. ASSUME NEW i \in Chunks(c) PROVE Range(Slice(c, i)) \subseteq 1 .. c.n
  <2>1. Slice(c, i) \in Seq(1 .. c.n)
    BY SliceIs
  <2>2. \A p \in DOMAIN Slice(c, i) : Slice(c, i)[p] \in 1 .. c.n
    <3> DEFINE R == 1 .. c.n
               S == Slice(c, i)
    <3>1. S \in Seq(R)
      BY <2>1
    <3> HIDE DEF R, S
    <3>2. \A p \in DOMAIN S : S[p] \in R
      BY <3>1
    <3> QED BY <3>2 DEF R, S
  <2> QED BY <2>2 DEF Range
<1>3. ASSUME NEW k \in 1 .. c.n
      PROVE  \E i \in Chunks(c) : k \in Range(Slice(c, i))
  <2>1. CASE c.n <= c.max
    <3>1. 0 \in Chunks(c)
      BY <2>1 DEF Chunks
    <3>2. 0 * c.max = 0 /\ Ends(c, 0) = c.n
      BY <1>1, <2>1 DEF Ends
    <3>3. k \in 1 .. Ends(c, 0) - 0 * c.max /\ 0 * c.max + k = k
      BY <1>1, <3>2
    <3>4. k \in DOMAIN Slice(c, 0) /\ Slice(c, 0)[k] = k
      BY <3>1, <3>3, SliceIs
    <3> QED BY <3>1, <3>4 DEF Range
  <2>2. CASE ~(c.n <= c.max)
    <3> DEFINE q == (k - 1) \div c.max
    <3>1. k - 1 \in Nat /\ k - 1 <= c.n
      BY <1>1
    <3>2. /\ q \in Nat
          /\ q * c.max <= k - 1
          /\ k - 1 < (q + 1) * c.max
      BY <1>1, <3>1, Quotient
    <3>3. q <= c.n \div c.max /\ c.n \div c.max \in Nat
      BY <1>1, <3>1, Quotient, QuotientMonotonic
    <3> HIDE DEF q
    <3>4. q \in Chunks(c)
      BY <2>2, <3>2, <3>3 DEF Chunks
    <3> DEFINE lo == q * c.max
               end == (q + 1) * c.max
    <3>5. lo \in Nat /\ end = lo + c.max
      BY <3>4, ChunkBegins, ChunkEnds
    <3>6. lo < k /\ k <= Ends(c, q)
      <4>1. Ends(c, q) = IF end < c.n THEN end ELSE c.n
        BY DEF Ends
      <4>2. lo <= k - 1 /\ k - 1 < end
        BY <3>2
      <4> HIDE DEF lo, end
      <4> QED BY <1>1, <3>5, <4>1, <4>2
    <3>7. Ends(c, q) \in Nat
      BY <3>4, ChunkEnds
    <3> HIDE DEF lo, end
    <3>8. k - lo \in 1 .. Ends(c, q) - lo /\ lo + (k - lo) = k
      BY <3>5, <3>6, <3>7
    <3>9. DOMAIN Slice(c, q) = 1 .. Ends(c, q) - lo
          /\ \A p \in 1 .. Ends(c, q) - lo : Slice(c, q)[p] = lo + p
      BY <3>4, SliceIs DEF lo
    <3>10. k - lo \in DOMAIN Slice(c, q) /\ Slice(c, q)[k - lo] = k
      BY <3>8, <3>9
    <3> QED BY <3>4, <3>10 DEF Range
  <2> QED BY <2>1, <2>2
<1> QED BY <1>2, <1>3
-----------------------------------------------------------------------------
\* The loop over a chunk's inputs sorts them into those with files and the rest.
LEMMA Sorted ==
  ASSUME call \in Call, NEW i \in Chunks(call)
  PROVE  /\ FilesOf(i) \in Seq(Inputs) /\ ToFetch(i) \in Seq(Inputs)
         /\ Range(FilesOf(i)) \cup Range(ToFetch(i)) = Range(Slice(call, i))
         /\ Len(ToFetch(i)) \in Nat /\ Len(ToFetch(i)) <= call.max
<1> DEFINE S == Slice(call, i)
           F == { p \in DOMAIN S : S[p] \in call.files }
           T == { p \in DOMAIN S : S[p] \notin call.files }
<1>1. S \in Seq(Inputs) /\ DOMAIN S = 1 .. Len(S) /\ Len(S) \in Nat
  BY SliceIs DEF Inputs
<1>2. FilesOf(i) = Only(S, F) /\ ToFetch(i) = Only(S, T)
  BY DEF FilesOf, ToFetch
<1>3. Len(S) <= call.max
  <2>1. Len(S) = Ends(call, i) - i * call.max
    BY SliceIs
  <2>2. Ends(call, i) <= i * call.max + call.max /\ Ends(call, i) \in Nat
    BY ChunkEnds
  <2>3. i * call.max \in Nat /\ call.max \in Nat
    BY ChunkBegins, CallType
  <2> HIDE DEF S
  <2> QED BY <2>1, <2>2, <2>3
<1> HIDE DEF S
<1>4. F \in SUBSET DOMAIN S /\ T \in SUBSET DOMAIN S /\ F \cup T = DOMAIN S
  OBVIOUS
<1>5. IsFiniteSet(1 .. Len(S)) /\ Cardinality(1 .. Len(S)) = Len(S)
  BY <1>1, FS_Interval
<1> HIDE DEF F, T
<1>6. IsFiniteSet(T) /\ Cardinality(T) <= Len(S) /\ Cardinality(T) \in Nat
  BY <1>1, <1>4, <1>5, FS_Subset, FS_CardinalityType
<1>7. Len(Only(S, T)) = Cardinality(T)
  BY <1>6 DEF Only
<1>8. /\ Only(S, F) \in Seq(Inputs) /\ Range(Only(S, F)) = { S[p] : p \in F }
      /\ Only(S, T) \in Seq(Inputs) /\ Range(Only(S, T)) = { S[p] : p \in T }
  BY <1>1, <1>4, OnlyKeeps
<1>9. Range(Only(S, F)) \cup Range(Only(S, T)) = Range(S)
  BY <1>4, <1>8 DEF Range
<1>10. Len(Only(S, T)) <= call.max /\ Len(Only(S, T)) \in Nat
  <2>1. call.max \in Nat
    BY CallType
  <2> QED BY <1>1, <1>3, <1>6, <1>7, <2>1
<1> QED BY <1>2, <1>8, <1>9, <1>10 DEF S

\* The position of an input of chunk i is a position of its results.
LEMMA PositionIs ==
  ASSUME call \in Call, NEW i \in Chunks(call), NEW k \in Range(Slice(call, i))
  PROVE  /\ Position(i, k) \in 1 .. Len(Slice(call, i))
         /\ Slice(call, i)[Position(i, k)] = k
<1>1. PICK p \in 1 .. Ends(call, i) - i * call.max : k = i * call.max + p
  BY SliceIs DEF Range
<1>2. i * call.max \in Nat
  BY ChunkBegins
<1>3. k - i * call.max = p
  <2> DEFINE lo == i * call.max
  <2>1. p \in Nat
    OBVIOUS
  <2> HIDE DEF lo
  <2> QED BY <1>1, <1>2, <2>1 DEF lo
<1> QED BY <1>1, <1>3, SliceIs DEF Position

-----------------------------------------------------------------------------
LEMMA ChunkType ==
  ASSUME TypeOK, NEW i \in Chunks(call)
  PROVE  /\ chunk[i].at \in {"files", "ok", "err", "folded", "foldedErr"}
         /\ chunk[i].uploads \in Nat /\ chunk[i].answers \in Nat
         /\ chunk[i].post \in Seq(Inputs) /\ chunk[i].results \in Seq(Data)
         /\ chunk[i].failure \in BOOLEAN
         /\ DOMAIN chunk = Chunks(call)
BY DEF TypeOK, Chunk

\* A record with the fields of a chunk, each of its type, is a chunk.
LEMMA ChunkFields ==
  ASSUME NEW c,
         DOMAIN c = {"at", "uploads", "post", "answers", "failure", "results"},
         c = [x \in DOMAIN c |-> c[x]],
         c.at \in {"files", "ok", "err", "folded", "foldedErr"},
         c.uploads \in Nat, c.post \in Seq(Inputs), c.answers \in Nat,
         c.failure \in BOOLEAN, c.results \in Seq(Data)
  PROVE  c \in Chunk
BY DEF Chunk

\* Init: nothing is sent and there are no results.
LEMMA InitIInv == Init => IInv
<1> SUFFICES ASSUME Init PROVE IInv
  OBVIOUS
<1>1. call \in Call /\ call.n \in Nat
  BY CallType DEF Init
<1>2. NoData \in Data
  BY DEF Data
<1> DEFINE c(i) ==
      [at |-> "files", uploads |-> 0, post |-> <<>>, answers |-> 0, failure |-> FALSE,
       results |-> [k \in DOMAIN Slice(call, i) |-> NoData]]
<1>3. chunk = [i \in Chunks(call) |-> c(i)]
  BY DEF Init
<1>4. ASSUME NEW i \in Chunks(call)
      PROVE  /\ c(i) \in Chunk
             /\ Len(c(i).results) = Len(Slice(call, i))
             /\ \A p \in 1 .. Len(c(i).results) : c(i).results[p] = NoData
             /\ Len(FilesOf(i)) \in Nat
  <2>1. DOMAIN Slice(call, i) = 1 .. Len(Slice(call, i)) /\ Len(Slice(call, i)) \in Nat
    BY <1>1, SliceIs, LenProperties
  <2> DEFINE r == [k \in DOMAIN Slice(call, i) |-> NoData]
  <2>2. r \in Seq(Data) /\ Len(r) = Len(Slice(call, i)) /\ \A p \in 1 .. Len(r) : r[p] = NoData
    BY <1>2, <2>1
  <2>3. <<>> \in Seq(Inputs)
    OBVIOUS
  <2>4. Len(FilesOf(i)) \in Nat
    BY <1>1, Sorted, LenProperties
  <2> HIDE DEF r
  <2>5. c(i) = [at |-> "files", uploads |-> 0, post |-> <<>>, answers |-> 0, failure |-> FALSE,
                results |-> r]
    BY DEF r
  <2>6. c(i) \in Chunk
    BY <2>2, <2>3, <2>5 DEF Chunk
  <2> QED BY <2>2, <2>4, <2>5, <2>6
<1> HIDE DEF c
<1>5. chunk \in [Chunks(call) -> Chunk]
  BY <1>3, <1>4
<1>6. acc \in Seq(Data) /\ Len(acc) = call.n /\ \A k \in Inputs : acc[k] = NoData
  BY <1>1, <1>2 DEF Init, Inputs
<1>7. ASSUME NEW i \in Chunks(call) PROVE ChunkInv(i)
  <2>1. /\ chunk[i].uploads = 0 /\ chunk[i].post = <<>> /\ chunk[i].failure = FALSE
        /\ chunk[i].at = "files" /\ chunk[i].results = c(i).results
    BY <1>3 DEF c
  <2> QED BY <1>4, <2>1 DEF ChunkInv
<1>8. outcome = "running"
  BY DEF Init
<1> QED BY <1>1, <1>5, <1>6, <1>7, <1>8 DEF IInv, TypeOK

\* A step of chunk i that leaves the reducer alone.
LEMMA ChunkStep ==
  ASSUME IInv, NEW i \in Chunks(call), NEW c \in Chunk,
         UNCHANGED <<call, acc>>,
         chunk' = [chunk EXCEPT ![i] = c],
         outcome = "running", outcome' \in {"running", "panic"},
         c.uploads <= Len(FilesOf(i)),
         c.post \in {<<>>, ToFetch(i)},
         Len(c.results) = Len(Slice(call, i)),
         \A p \in 1 .. Len(c.results) : c.results[p] \in {Slice(call, i)[p], NoData},
         c.failure => c.at \in {"err", "foldedErr"},
         c.at \in {"ok", "folded"} => c.uploads = Len(FilesOf(i)) /\ c.post = ToFetch(i)
  PROVE  IInv'
<1>1. TypeOK'
  BY DEF IInv, TypeOK, Chunk, Inputs, Data
<1>2. ASSUME NEW j \in Chunks(call) PROVE ChunkInv(j)'
  <2>1. FilesOf(j)' = FilesOf(j) /\ ToFetch(j)' = ToFetch(j) /\ Slice(call, j)' = Slice(call, j)
    BY DEF FilesOf, ToFetch
  <2>2. chunk'[j] = IF j = i THEN c ELSE chunk[j]
    BY DEF IInv, TypeOK
  <2>3. CASE j = i
    BY <2>1, <2>2, <2>3 DEF ChunkInv
  <2>4. CASE j # i
    <3>1. ChunkInv(j)
      BY DEF IInv
    <3> QED BY <2>1, <2>2, <2>4, <3>1 DEF ChunkInv
  <2> QED BY <2>3, <2>4
<1>3. /\ Chunks(call)' = Chunks(call) /\ Inputs' = Inputs
      /\ acc' = acc /\ call' = call /\ outcome' # "done"
  BY DEF Chunks, Inputs
<1> QED BY <1>1, <1>2, <1>3 DEF IInv

LEMMA FetchFileKeeps ==
  ASSUME IInv, NEW i \in Chunks(call), outcome = "running", FetchFile(i)
  PROVE  IInv'
<1> DEFINE k == FilesOf(i)[chunk[i].uploads + 1]
           sent == [chunk[i] EXCEPT !.uploads = @ + 1, !.results[Position(i, k)] = k]
           failed == [chunk[i] EXCEPT !.uploads = @ + 1, !.failure = TRUE, !.at = "err"]
<1>1. TypeOK /\ ChunkInv(i) /\ call \in Call
  BY DEF IInv, TypeOK
<1>2. /\ chunk[i].at = "files" /\ chunk[i].uploads < Len(FilesOf(i))
      /\ UNCHANGED <<call, acc, outcome>>
  BY DEF FetchFile
<1>3. /\ chunk[i].uploads \in Nat /\ chunk[i].results \in Seq(Data) /\ chunk[i] \in Chunk
      /\ DOMAIN chunk = Chunks(call)
  BY <1>1, ChunkType DEF TypeOK
<1>4. FilesOf(i) \in Seq(Inputs) /\ Len(FilesOf(i)) \in Nat
  BY <1>1, Sorted, LenProperties
<1>5. k \in Range(FilesOf(i)) /\ k \in Inputs
  <2>1. chunk[i].uploads + 1 \in 1 .. Len(FilesOf(i))
    BY <1>2, <1>3, <1>4
  <2>2. DOMAIN FilesOf(i) = 1 .. Len(FilesOf(i)) /\ FilesOf(i)[chunk[i].uploads + 1] \in Inputs
    BY <1>4, <2>1, ElementOfSeq, LenProperties
  <2> QED BY <2>1, <2>2 DEF Range
<1>6. k \in Range(Slice(call, i))
  BY <1>1, <1>5, Sorted
<1> DEFINE p == Position(i, k)
<1>7. p \in 1 .. Len(Slice(call, i)) /\ Slice(call, i)[p] = k
  BY <1>1, <1>6, PositionIs
<1>0. \/ chunk' = [chunk EXCEPT ![i] = sent]
      \/ chunk' = [chunk EXCEPT ![i] = failed]
  <2>1. \/ chunk' = [chunk EXCEPT ![i].uploads = @ + 1, ![i].results[p] = k]
        \/ chunk' = [chunk EXCEPT ![i].uploads = @ + 1, ![i].failure = TRUE, ![i].at = "err"]
    BY DEF FetchFile
  <2> HIDE DEF k, p
  <2>2. [chunk EXCEPT ![i].uploads = @ + 1, ![i].results[p] = k]
          = [chunk EXCEPT ![i] = [chunk[i] EXCEPT !.uploads = @ + 1, !.results[p] = k]]
    BY <1>3, Zenon
  <2>3. [chunk EXCEPT ![i].uploads = @ + 1, ![i].failure = TRUE, ![i].at = "err"]
          = [chunk EXCEPT ![i] = failed]
    BY <1>3, Zenon
  <2> QED BY <2>1, <2>2, <2>3 DEF p, k
<1> HIDE DEF k, p
<1>8. CASE chunk' = [chunk EXCEPT ![i] = sent]
  <2> DEFINE r == [chunk[i].results EXCEPT ![p] = k]
  <2>1. Len(chunk[i].results) = Len(Slice(call, i))
    BY <1>1 DEF ChunkInv
  <2>2. k \in Data
    BY <1>5 DEF Data
  <2>3. /\ r \in Seq(Data) /\ Len(r) = Len(Slice(call, i))
        /\ \A q \in 1 .. Len(r) : r[q] = IF q = p THEN k ELSE chunk[i].results[q]
    BY <1>3, <1>7, <2>1, <2>2, ExceptSeq
  <2>4. /\ sent.at = chunk[i].at /\ sent.uploads = chunk[i].uploads + 1
        /\ sent.post = chunk[i].post /\ sent.answers = chunk[i].answers
        /\ sent.failure = chunk[i].failure /\ sent.results = r
    BY <1>3 DEF Chunk, p
  <2> HIDE DEF r
  <2>5. sent \in Chunk
    <3>1. /\ DOMAIN sent = {"at", "uploads", "post", "answers", "failure", "results"}
          /\ sent = [x \in DOMAIN sent |-> sent[x]]
      BY <1>3 DEF Chunk
    <3> HIDE DEF sent
    <3>2. /\ chunk[i].post \in Seq(Inputs) /\ chunk[i].answers \in Nat
          /\ chunk[i].failure \in BOOLEAN /\ chunk[i].uploads + 1 \in Nat
          /\ chunk[i].at \in {"files", "ok", "err", "folded", "foldedErr"}
      BY <1>1, ChunkType
    <3> QED BY <2>3, <2>4, <3>1, <3>2, ChunkFields
  <2> HIDE DEF sent
  <2>6. \A q \in 1 .. Len(r) : r[q] \in {Slice(call, i)[q], NoData}
    BY <1>1, <1>7, <2>1, <2>3 DEF ChunkInv
  <2>7. /\ sent.uploads <= Len(FilesOf(i)) /\ sent.post \in {<<>>, ToFetch(i)}
        /\ sent.failure => sent.at \in {"err", "foldedErr"}
        /\ sent.at = "files"
    BY <1>1, <1>2, <1>3, <1>4, <2>4 DEF ChunkInv
  <2>8. sent.at \notin {"ok", "folded"}
    BY <2>7
  <2> QED BY <1>2, <1>8, <2>3, <2>4, <2>5, <2>6, <2>7, <2>8, ChunkStep
<1>9. CASE chunk' = [chunk EXCEPT ![i] = failed]
  <2>0. /\ failed.at = "err" /\ failed.uploads = chunk[i].uploads + 1 /\ failed.failure
        /\ failed.answers = chunk[i].answers
        /\ failed.post = chunk[i].post /\ failed.results = chunk[i].results
    BY <1>3 DEF Chunk
  <2>1. failed \in Chunk
    <3>1. /\ DOMAIN failed = {"at", "uploads", "post", "answers", "failure", "results"}
          /\ failed = [x \in DOMAIN failed |-> failed[x]]
      BY <1>3 DEF Chunk
    <3>2. failed.failure = TRUE
      BY <1>3 DEF Chunk
    <3> HIDE DEF failed
    <3>3. /\ chunk[i].post \in Seq(Inputs) /\ chunk[i].answers \in Nat
          /\ chunk[i].uploads + 1 \in Nat
      BY <1>1, ChunkType
    <3> QED BY <1>3, <2>0, <3>1, <3>2, <3>3, ChunkFields
  <2> HIDE DEF failed
  <2>2. failed.uploads <= Len(FilesOf(i))
    BY <1>2, <1>3, <1>4, <2>0
  <2>3. /\ failed.post \in {<<>>, ToFetch(i)}
        /\ Len(failed.results) = Len(Slice(call, i))
        /\ \A q \in 1 .. Len(failed.results) : failed.results[q] \in {Slice(call, i)[q], NoData}
    BY <1>1, <2>0 DEF ChunkInv
  <2>4. failed.at \notin {"ok", "folded"}
    BY <2>0
  <2> QED BY <1>2, <1>9, <2>0, <2>1, <2>2, <2>3, <2>4, ChunkStep
<1> QED BY <1>0, <1>8, <1>9

\* What holds of a chunk that has sent its files.
LEMMA Uploaded ==
  ASSUME IInv, NEW i \in Chunks(call), AllUploaded(i)
  PROVE  /\ chunk[i] \in Chunk /\ DOMAIN chunk = Chunks(call) /\ call \in Call
         /\ chunk[i].uploads \in Nat /\ chunk[i].answers \in Nat
         /\ chunk[i].uploads = Len(FilesOf(i))
         /\ chunk[i].at = "files" /\ ~chunk[i].failure /\ chunk[i].failure \in BOOLEAN
         /\ chunk[i].results \in Seq(Data)
         /\ Len(chunk[i].results) = Len(Slice(call, i))
         /\ \A p \in 1 .. Len(chunk[i].results) : chunk[i].results[p] \in {Slice(call, i)[p], NoData}
         /\ ToFetch(i) \in Seq(Inputs) /\ Len(ToFetch(i)) \in Nat
         /\ chunk[i].post \in {<<>>, ToFetch(i)}
<1>1. TypeOK /\ ChunkInv(i) /\ call \in Call
  BY DEF IInv, TypeOK
<1>2. chunk[i] \in Chunk
  BY <1>1 DEF TypeOK
<1>3. chunk[i].at = "files" /\ chunk[i].uploads = Len(FilesOf(i))
  BY DEF AllUploaded
<1>4. ~chunk[i].failure
  BY <1>1, <1>3 DEF ChunkInv
<1>5. /\ Len(chunk[i].results) = Len(Slice(call, i))
      /\ \A p \in 1 .. Len(chunk[i].results) : chunk[i].results[p] \in {Slice(call, i)[p], NoData}
      /\ chunk[i].post \in {<<>>, ToFetch(i)}
  BY <1>1 DEF ChunkInv
<1>6. ToFetch(i) \in Seq(Inputs) /\ Len(ToFetch(i)) \in Nat
  BY <1>1, Sorted
<1> QED BY <1>1, <1>2, <1>3, <1>4, <1>5, <1>6, ChunkType

LEMMA NothingToFetchKeeps ==
  ASSUME IInv, NEW i \in Chunks(call), outcome = "running", NothingToFetch(i)
  PROVE  IInv'
<1> DEFINE c == [chunk[i] EXCEPT !.at = "ok"]
<1>1. /\ AllUploaded(i) /\ ToFetch(i) = <<>> /\ UNCHANGED <<call, acc, outcome>>
      /\ chunk' = [chunk EXCEPT ![i] = c]
  BY DEF NothingToFetch
<1>2. /\ chunk[i] \in Chunk /\ ~chunk[i].failure
      /\ chunk[i].uploads \in Nat /\ chunk[i].uploads = Len(FilesOf(i))
      /\ Len(chunk[i].results) = Len(Slice(call, i))
      /\ \A p \in 1 .. Len(chunk[i].results) : chunk[i].results[p] \in {Slice(call, i)[p], NoData}
      /\ chunk[i].post = ToFetch(i)
  BY <1>1, Uploaded
<1>3. /\ c \in Chunk /\ c.at = "ok" /\ c.uploads = chunk[i].uploads /\ c.post = chunk[i].post
      /\ c.results = chunk[i].results /\ c.failure = chunk[i].failure
  BY <1>2 DEF Chunk
<1> HIDE DEF c
<1>4. c.uploads <= Len(FilesOf(i))
  BY <1>2, <1>3
<1> QED BY <1>1, <1>2, <1>3, <1>4, ChunkStep

LEMMA FetchFailsKeeps ==
  ASSUME IInv, NEW i \in Chunks(call), outcome = "running", FetchFails(i)
  PROVE  IInv'
<1> DEFINE c == [chunk[i] EXCEPT !.post = ToFetch(i), !.failure = TRUE, !.at = "err"]
<1>1. AllUploaded(i) /\ UNCHANGED <<call, acc, outcome>>
  BY DEF FetchFails
<1>2. /\ chunk[i] \in Chunk /\ DOMAIN chunk = Chunks(call)
      /\ chunk[i].uploads \in Nat /\ chunk[i].uploads = Len(FilesOf(i))
      /\ chunk[i].answers \in Nat /\ chunk[i].results \in Seq(Data)
      /\ Len(chunk[i].results) = Len(Slice(call, i))
      /\ \A p \in 1 .. Len(chunk[i].results) : chunk[i].results[p] \in {Slice(call, i)[p], NoData}
      /\ ToFetch(i) \in Seq(Inputs)
  BY <1>1, Uploaded
<1>3. chunk' = [chunk EXCEPT ![i] = c]
  BY <1>2 DEF FetchFails
<1>4. /\ DOMAIN c = {"at", "uploads", "post", "answers", "failure", "results"}
      /\ c = [x \in DOMAIN c |-> c[x]]
      /\ c.at = "err" /\ c.failure = TRUE /\ c.post = ToFetch(i) /\ c.uploads = chunk[i].uploads
      /\ c.answers = chunk[i].answers /\ c.results = chunk[i].results
  BY <1>2 DEF Chunk
<1> HIDE DEF c
<1>5. c \in Chunk
  BY <1>2, <1>4, ChunkFields
<1>6. c.uploads <= Len(FilesOf(i)) /\ c.at \notin {"ok", "folded"}
  BY <1>2, <1>4
<1> QED BY <1>1, <1>2, <1>3, <1>4, <1>5, <1>6, ChunkStep

\* However many answers come, they are put at the places of the inputs asked for.
LEMMA PlacedIsInPlace ==
  ASSUME IInv, NEW i \in Chunks(call), AllUploaded(i), NEW count \in Nat
  PROVE  /\ Placed(i, count) \in Seq(Data)
         /\ Len(Placed(i, count)) = Len(Slice(call, i))
         /\ \A p \in 1 .. Len(Placed(i, count)) : Placed(i, count)[p] \in {Slice(call, i)[p], NoData}
<1> DEFINE S == Slice(call, i)
           R == chunk[i].results
           P == Placed(i, count)
           L == Len(S)
<1>1. /\ R \in Seq(Data) /\ Len(R) = L
      /\ \A p \in 1 .. Len(R) : R[p] \in {S[p], NoData}
  BY Uploaded
<1>2. S \in Seq(Inputs)
  BY Uploaded, SliceIs DEF Inputs
<1>3. L \in Nat /\ \A p \in 1 .. L : S[p] \in Data
  BY <1>2 DEF Data
<1>4. DOMAIN R = 1 .. L
  BY <1>1, LenProperties
<1>5. P = [p \in 1 .. L |-> IF \E a \in 1 .. count : Position(i, ToFetch(i)[a]) = p THEN S[p] ELSE R[p]]
  BY <1>4 DEF Placed
<1> HIDE DEF S, R, P
<1>6. \A p \in 1 .. L : P[p] \in {S[p], NoData}
  BY <1>1, <1>5
<1>7. NoData \in Data
  BY DEF Data
<1>8. P \in [1 .. L -> Data]
  BY <1>3, <1>5, <1>6, <1>7
<1> HIDE DEF L
<1>9. P \in Seq(Data) /\ Len(P) = L
  BY <1>3, <1>8
<1> QED BY <1>6, <1>9 DEF P, S, L

LEMMA FetchKeeps ==
  ASSUME IInv, NEW i \in Chunks(call), outcome = "running", Fetch(i)
  PROVE  IInv'
<1>1. AllUploaded(i) /\ UNCHANGED <<call, acc>>
  BY DEF Fetch
<1>2. /\ chunk[i] \in Chunk /\ DOMAIN chunk = Chunks(call)
      /\ chunk[i].at = "files" /\ chunk[i].failure = FALSE
      /\ chunk[i].uploads \in Nat /\ chunk[i].uploads = Len(FilesOf(i))
      /\ chunk[i].results \in Seq(Data)
      /\ Len(chunk[i].results) = Len(Slice(call, i))
      /\ \A p \in 1 .. Len(chunk[i].results) : chunk[i].results[p] \in {Slice(call, i)[p], NoData}
      /\ ToFetch(i) \in Seq(Inputs) /\ Len(ToFetch(i)) \in Nat
  BY <1>1, Uploaded
<1>3. PICK count \in 0 .. Len(ToFetch(i)) + Surplus :
        LET posted == [chunk EXCEPT ![i].post = ToFetch(i), ![i].answers = count]
        IN \/ /\ chunk' = [posted EXCEPT ![i].failure = TRUE, ![i].at = "err"]
              /\ UNCHANGED outcome
           \/ /\ chunk' = [posted EXCEPT ![i].results = Placed(i, count), ![i].at = "ok"]
              /\ UNCHANGED outcome
           \/ /\ chunk' = posted
              /\ outcome' = "panic"
  BY DEF Fetch
<1>4. count \in Nat
  BY <1>2, SurplusAssumption
<1> DEFINE posted == [chunk[i] EXCEPT !.post = ToFetch(i), !.answers = count]
           failed == [posted EXCEPT !.failure = TRUE, !.at = "err"]
           placed == [posted EXCEPT !.results = Placed(i, count), !.at = "ok"]
<1>5. \/ chunk' = [chunk EXCEPT ![i] = failed] /\ UNCHANGED outcome
      \/ chunk' = [chunk EXCEPT ![i] = placed] /\ UNCHANGED outcome
      \/ chunk' = [chunk EXCEPT ![i] = posted] /\ outcome' = "panic"
  BY <1>2, <1>3
<1>6. /\ posted \in Chunk
      /\ posted.post = ToFetch(i) /\ posted.answers = count
      /\ posted.at = "files" /\ posted.failure = FALSE
      /\ posted.uploads = chunk[i].uploads /\ posted.results = chunk[i].results
  BY <1>2, <1>4 DEF Chunk
<1> HIDE DEF posted
<1>7. CASE chunk' = [chunk EXCEPT ![i] = posted] /\ outcome' = "panic"
  <2>1. posted.uploads <= Len(FilesOf(i)) /\ posted.at \notin {"ok", "folded"} /\ ~posted.failure
    BY <1>2, <1>6
  <2> QED BY <1>1, <1>2, <1>6, <1>7, <2>1, ChunkStep
<1>8. CASE chunk' = [chunk EXCEPT ![i] = failed] /\ UNCHANGED outcome
  <2>1. /\ DOMAIN failed = {"at", "uploads", "post", "answers", "failure", "results"}
        /\ failed = [x \in DOMAIN failed |-> failed[x]]
        /\ failed.at = "err" /\ failed.failure = TRUE /\ failed.post = ToFetch(i)
        /\ failed.uploads = chunk[i].uploads /\ failed.answers = count
        /\ failed.results = chunk[i].results
    BY <1>6 DEF Chunk
  <2> HIDE DEF failed
  <2>2. failed \in Chunk
    BY <1>2, <1>4, <2>1, ChunkFields
  <2>3. failed.uploads <= Len(FilesOf(i)) /\ failed.at \notin {"ok", "folded"}
    BY <1>2, <2>1
  <2> QED BY <1>1, <1>2, <1>8, <2>1, <2>2, <2>3, ChunkStep
<1>9. CASE chunk' = [chunk EXCEPT ![i] = placed] /\ UNCHANGED outcome
  <2>0. /\ Placed(i, count) \in Seq(Data)
        /\ Len(Placed(i, count)) = Len(Slice(call, i))
        /\ \A p \in 1 .. Len(Placed(i, count)) : Placed(i, count)[p] \in {Slice(call, i)[p], NoData}
    BY <1>1, <1>4, PlacedIsInPlace
  <2>1. /\ DOMAIN placed = {"at", "uploads", "post", "answers", "failure", "results"}
        /\ placed = [x \in DOMAIN placed |-> placed[x]]
        /\ placed.at = "ok" /\ placed.failure = FALSE /\ placed.post = ToFetch(i)
        /\ placed.uploads = chunk[i].uploads /\ placed.answers = count
        /\ placed.results = Placed(i, count)
    BY <1>6 DEF Chunk
  <2> HIDE DEF placed
  <2>2. placed \in Chunk
    BY <1>2, <1>4, <2>0, <2>1, ChunkFields
  <2>3. placed.uploads <= Len(FilesOf(i)) /\ placed.uploads = Len(FilesOf(i)) /\ ~placed.failure
    BY <1>2, <2>1
  <2>4. \A p \in 1 .. Len(placed.results) : placed.results[p] \in {Slice(call, i)[p], NoData}
    BY <2>0, <2>1
  <2> QED BY <1>1, <1>9, <2>0, <2>1, <2>2, <2>3, <2>4, ChunkStep
<1> QED BY <1>5, <1>7, <1>8, <1>9
-----------------------------------------------------------------------------
\* Splicing in a chunk replaces its part of the list and nothing else.
LEMMA SplicedInPlace ==
  ASSUME IInv, NEW i \in Chunks(call)
  PROVE  /\ Spliced(i) \in Seq(Data)
         /\ Len(Spliced(i)) = call.n
         /\ \A k \in Inputs : Spliced(i)[k] \in {k, NoData}
<1> DEFINE lo == i * call.max
           hi == Ends(call, i)
           n == call.n
           A == SubSeq(acc, 1, lo)
           R == chunk[i].results
           T == IF (i + 1) * call.max < call.n
                THEN SubSeq(acc, (i + 1) * call.max + 1, Len(acc)) ELSE <<>>
           S == Slice(call, i)
<1>1. /\ call \in Call /\ acc \in Seq(Data) /\ Len(acc) = n
      /\ \A k \in 1 .. n : acc[k] \in {k, NoData}
      /\ R \in Seq(Data) /\ Len(R) = Len(S)
      /\ \A p \in 1 .. Len(R) : R[p] \in {S[p], NoData}
  <2>1. TypeOK /\ ChunkInv(i)
    BY DEF IInv
  <2> QED BY <2>1, ChunkType DEF IInv, TypeOK, ChunkInv, Inputs
<1>2. /\ n \in Nat /\ lo \in Nat /\ hi \in Nat /\ lo <= hi /\ hi <= n
  BY <1>1, CallType, ChunkBegins, ChunkEnds
<1>3. Len(S) = hi - lo /\ \A p \in 1 .. hi - lo : S[p] = lo + p
  BY <1>1, SliceIs
<1>4. Spliced(i) = (A \o R) \o T
  BY DEF Spliced
<1>5. A \in Seq(Data) /\ Len(A) = lo /\ \A k \in 1 .. lo : A[k] = acc[k]
  <2> HIDE DEF lo, n
  <2>1. \A k \in 1 .. lo : acc[k] \in Data
    BY <1>1, <1>2
  <2>2. /\ SubSeq(acc, 1, lo) \in Seq(Data)
        /\ Len(SubSeq(acc, 1, lo)) = IF 1 <= lo THEN lo - 1 + 1 ELSE 0
        /\ \A k \in 1 .. lo - 1 + 1 : SubSeq(acc, 1, lo)[k] = acc[1 + k - 1]
    BY <1>2, <2>1, SubSeqProperties
  <2>3. \A k \in 1 .. lo : k \in 1 .. lo - 1 + 1 /\ 1 + k - 1 = k
    BY <1>2
  <2> QED BY <1>2, <2>2, <2>3
<1>6. T \in Seq(Data) /\ Len(T) = n - hi /\ \A q \in 1 .. n - hi : T[q] = acc[hi + q]
  <2>1. CASE (i + 1) * call.max < call.n
    <3>1. T = SubSeq(acc, hi + 1, n)
      BY <1>1, <2>1 DEF Ends
    <3> HIDE DEF hi, n, T
    <3>2. \A k \in hi + 1 .. n : acc[k] \in Data
      BY <1>1, <1>2
    <3>3. hi + 1 \in Int /\ n \in Int
      BY <1>2
    <3>4. /\ SubSeq(acc, hi + 1, n) \in Seq(Data)
          /\ Len(SubSeq(acc, hi + 1, n)) = IF hi + 1 <= n THEN n - (hi + 1) + 1 ELSE 0
          /\ \A k \in 1 .. n - (hi + 1) + 1 : SubSeq(acc, hi + 1, n)[k] = acc[(hi + 1) + k - 1]
      BY <3>2, <3>3, SubSeqProperties
    <3>5. \A k \in 1 .. n - hi : k \in 1 .. n - (hi + 1) + 1 /\ (hi + 1) + k - 1 = hi + k
      BY <1>2
    <3> QED BY <1>2, <3>1, <3>4, <3>5
  <2>2. CASE ~((i + 1) * call.max < call.n)
    <3>1. T = <<>> /\ hi = n
      BY <2>2 DEF Ends
    <3>2. <<>> \in Seq(Data) /\ Len(<<>>) = 0
      OBVIOUS
    <3> HIDE DEF hi, n, T
    <3>3. n - hi = 0 /\ 1 .. n - hi = {}
      BY <1>2, <3>1
    <3> QED BY <3>1, <3>2, <3>3
  <2> QED BY <2>1, <2>2
<1> HIDE DEF lo, hi, n, A, R, T, S
<1>7. /\ A \o R \in Seq(Data) /\ Len(A \o R) = lo + (hi - lo)
      /\ \A k \in 1 .. lo + (hi - lo) : (A \o R)[k] = IF k <= lo THEN A[k] ELSE R[k - lo]
  BY <1>1, <1>3, <1>5, ConcatProperties
<1>8. lo + (hi - lo) = hi /\ hi + (n - hi) = n
  BY <1>2
<1>9. /\ (A \o R) \o T \in Seq(Data) /\ Len((A \o R) \o T) = n
      /\ \A k \in 1 .. n : ((A \o R) \o T)[k] = IF k <= hi THEN (A \o R)[k] ELSE T[k - hi]
  <2> DEFINE B == A \o R
  <2>1. B \in Seq(Data) /\ Len(B) = hi
    BY <1>7, <1>8
  <2> HIDE DEF B
  <2>2. /\ B \o T \in Seq(Data) /\ Len(B \o T) = hi + (n - hi)
        /\ \A k \in 1 .. hi + (n - hi) : (B \o T)[k] = IF k <= hi THEN B[k] ELSE T[k - hi]
    <3>1. /\ B \o T \in Seq(Data) /\ Len(B \o T) = Len(B) + Len(T)
          /\ \A k \in 1 .. Len(B) + Len(T) : (B \o T)[k] = IF k <= Len(B) THEN B[k] ELSE T[k - Len(B)]
      <4>1. T \in Seq(Data)
        BY <1>6
      <4> QED BY <2>1, <4>1, ConcatProperties
    <3> QED BY <1>6, <2>1, <3>1
  <2> QED BY <1>8, <2>2 DEF B
<1>10. ASSUME NEW k \in 1 .. n
       PROVE  ((A \o R) \o T)[k] \in {k, NoData}
  <2>0. k \in Nat
    OBVIOUS
  <2>1. CASE k <= lo
    <3>1. k <= hi /\ k \in 1 .. hi /\ k \in 1 .. lo
      BY <1>2, <2>1
    <3>2. ((A \o R) \o T)[k] = acc[k]
      BY <1>5, <1>7, <1>8, <1>9, <2>1, <3>1
    <3> QED BY <1>1, <3>2
  <2>2. CASE ~(k <= lo) /\ k <= hi
    <3>1. k \in 1 .. hi /\ k - lo \in 1 .. hi - lo /\ lo + (k - lo) = k
      BY <1>2, <2>2
    <3>2. ((A \o R) \o T)[k] = R[k - lo]
      BY <1>7, <1>8, <1>9, <2>2, <3>1
    <3>3. S[k - lo] = k
      BY <1>3, <3>1
    <3>4. R[k - lo] \in {S[k - lo], NoData}
      BY <1>1, <1>3, <3>1
    <3> QED BY <3>2, <3>3, <3>4
  <2>3. CASE ~(k <= hi)
    <3>1. k - hi \in 1 .. n - hi /\ hi + (k - hi) = k
      BY <1>2, <2>3
    <3>2. ((A \o R) \o T)[k] = acc[k]
      BY <1>6, <1>9, <2>3, <3>1
    <3> QED BY <1>1, <3>2
  <2> QED BY <2>1, <2>2, <2>3
<1>11. Inputs = 1 .. n
  BY DEF Inputs, n
<1> QED BY <1>4, <1>9, <1>10, <1>11 DEF n

\* A step of the reducer, which moves chunk i and may replace the list.
LEMMA FoldStep ==
  ASSUME IInv, NEW i \in Chunks(call), NEW place,
         UNCHANGED <<call, outcome>>, outcome = "running",
         \/ place = "folded" /\ chunk[i].at = "ok"
         \/ place = "foldedErr" /\ chunk[i].at = "err",
         chunk' = [chunk EXCEPT ![i].at = place],
         acc' \in Seq(Data), Len(acc') = call.n,
         \A k \in Inputs : acc'[k] \in {k, NoData}
  PROVE  IInv'
<1>1. TypeOK /\ ChunkInv(i) /\ chunk \in [Chunks(call) -> Chunk]
  BY DEF IInv, TypeOK
<1> DEFINE c == [chunk[i] EXCEPT !.at = place]
<1>2. chunk' = [chunk EXCEPT ![i] = c]
  BY <1>1
<1>3. /\ c \in Chunk /\ c.at = place /\ c.uploads = chunk[i].uploads /\ c.post = chunk[i].post
      /\ c.results = chunk[i].results /\ c.failure = chunk[i].failure
  BY <1>1 DEF Chunk
<1> HIDE DEF c
<1>4. TypeOK'
  <2>1. chunk' \in [Chunks(call) -> Chunk]
    BY <1>1, <1>2, <1>3
  <2> QED BY <1>1, <2>1 DEF TypeOK, Chunk, Inputs, Data
<1>5. ASSUME NEW j \in Chunks(call) PROVE ChunkInv(j)'
  <2>1. FilesOf(j)' = FilesOf(j) /\ ToFetch(j)' = ToFetch(j) /\ Slice(call, j)' = Slice(call, j)
    BY DEF FilesOf, ToFetch
  <2>2. chunk'[j] = IF j = i THEN c ELSE chunk[j]
    BY <1>1, <1>2
  <2>3. CASE j = i
    <3>1. chunk'[j] = c
      BY <2>2, <2>3
    <3> QED BY <1>1, <1>3, <2>1, <2>3, <3>1 DEF ChunkInv
  <2>4. CASE j # i
    <3>1. ChunkInv(j) /\ chunk'[j] = chunk[j]
      BY <2>2, <2>4 DEF IInv
    <3> QED BY <2>1, <3>1 DEF ChunkInv
  <2> QED BY <2>3, <2>4
<1>6. Chunks(call)' = Chunks(call) /\ Inputs' = Inputs /\ call' = call /\ outcome' # "done"
  BY DEF Chunks, Inputs
<1> QED BY <1>4, <1>5, <1>6 DEF IInv

LEMMA FoldChunkKeeps ==
  ASSUME IInv, NEW i \in Chunks(call), outcome = "running", FoldChunk(i)
  PROVE  IInv'
<1>1. /\ chunk[i].at = "ok" /\ acc' = Spliced(i) /\ UNCHANGED <<call, outcome>>
      /\ chunk' = [chunk EXCEPT ![i].at = "folded"]
  BY DEF FoldChunk
<1> QED BY <1>1, SplicedInPlace, FoldStep

LEMMA FoldErrorKeeps ==
  ASSUME IInv, NEW i \in Chunks(call), outcome = "running", FoldError(i)
  PROVE  IInv'
<1>1. /\ chunk[i].at = "err" /\ UNCHANGED <<call, acc, outcome>>
      /\ chunk' = [chunk EXCEPT ![i].at = "foldedErr"]
  BY DEF FoldError
<1>2. acc \in Seq(Data) /\ Len(acc) = call.n /\ \A k \in Inputs : acc[k] \in {k, NoData}
  BY DEF IInv, TypeOK
<1> QED BY <1>1, <1>2, FoldStep

LEMMA NextIInv == IInv /\ [Next]_vars => IInv'
<1> SUFFICES ASSUME IInv, [Next]_vars PROVE IInv'
  OBVIOUS
<1>1. DOMAIN chunk = Chunks(call)
  BY DEF IInv, TypeOK
<1>2. ASSUME UNCHANGED vars PROVE IInv'
  <2>1. UNCHANGED <<call, chunk, acc, outcome>>
    BY <1>2 DEF vars
  <2>2. TypeOK'
    BY <2>1 DEF IInv, TypeOK, Chunk, Inputs, Data
  <2>3. ASSUME NEW j \in Chunks(call) PROVE ChunkInv(j)'
    BY <2>1 DEF IInv, ChunkInv, FilesOf, ToFetch
  <2>4. Chunks(call)' = Chunks(call) /\ Inputs' = Inputs
    BY <2>1 DEF Chunks, Inputs
  <2> QED BY <2>1, <2>2, <2>3, <2>4 DEF IInv
<1>3. ASSUME outcome = "running", Return PROVE IInv'
  <2>1. UNCHANGED <<call, chunk, acc>>
    BY <1>3 DEF Return
  <2>2. /\ outcome' \in {"done", "failed"}
        /\ outcome' = "done" => \A i \in Chunks(call) : chunk[i].at = "folded"
    BY <1>1, <1>3 DEF Return
  <2>3. TypeOK'
    BY <2>1, <2>2 DEF IInv, TypeOK, Chunk, Inputs, Data
  <2>4. ASSUME NEW j \in Chunks(call) PROVE ChunkInv(j)'
    BY <2>1 DEF IInv, ChunkInv, FilesOf, ToFetch
  <2>5. Chunks(call)' = Chunks(call) /\ Inputs' = Inputs
    BY <2>1 DEF Chunks, Inputs
  <2> QED BY <2>1, <2>2, <2>3, <2>4, <2>5 DEF IInv
<1>4. ASSUME outcome = "running", NEW i \in Chunks(call),
             QueryBatch(i) \/ FoldChunk(i) \/ FoldError(i)
      PROVE  IInv'
  BY <1>4, FetchFileKeeps, NothingToFetchKeeps, FetchFailsKeeps, FetchKeeps,
     FoldChunkKeeps, FoldErrorKeeps DEF QueryBatch
<1> QED BY <1>1, <1>2, <1>3, <1>4 DEF Next, Returned

\* The inductive invariant of Query with its chunks and its reducer.
THEOREM Invariance == Spec => []IInv
BY InitIInv, NextIInv, PTL DEF Spec

\* The list that Query returns is as long as its inputs, and has at each place
\* the answer to the input there or nothing, for every batch limit and however
\* the chunks come; a call that succeeds has passed over no failure.
THEOREM AnswersStayInPlace == Spec => []AnswersInPlace
<1>1. IInv => AnswersInPlace
  <2> SUFFICES ASSUME IInv PROVE AnswersInPlace
    OBVIOUS
  <2>1. DOMAIN chunk = Chunks(call)
    BY DEF IInv, TypeOK
  <2>2. Len(acc) = call.n /\ \A k \in 1 .. call.n : acc[k] \in {k, NoData}
    BY DEF IInv, Inputs
  <2>3. ASSUME outcome = "done", NEW i \in Chunks(call) PROVE ~chunk[i].failure
    <3>1. chunk[i].at = "folded" /\ ChunkInv(i)
      BY <2>3 DEF IInv
    <3> QED BY <3>1 DEF ChunkInv
  <2> QED BY <2>1, <2>2, <2>3 DEF AnswersInPlace
<1> QED BY <1>1, Invariance, PTL

\* What chunk i has sent is its own.
LEMMA SendsItsOwn ==
  ASSUME IInv, NEW i \in Chunks(call)
  PROVE  Sent(i) \subseteq Range(Slice(call, i))
<1>1. TypeOK /\ ChunkInv(i) /\ call \in Call
  BY DEF IInv, TypeOK
<1>2. /\ FilesOf(i) \in Seq(Inputs)
      /\ Range(FilesOf(i)) \subseteq Range(Slice(call, i))
      /\ Range(ToFetch(i)) \subseteq Range(Slice(call, i))
  BY <1>1, Sorted
<1>3. ASSUME NEW f \in 1 .. chunk[i].uploads
      PROVE  FilesOf(i)[f] \in Range(FilesOf(i))
  <2>1. chunk[i].uploads \in Nat /\ chunk[i].uploads <= Len(FilesOf(i))
    BY <1>1, ChunkType DEF ChunkInv
  <2>2. DOMAIN FilesOf(i) = 1 .. Len(FilesOf(i)) /\ Len(FilesOf(i)) \in Nat
    BY <1>2, LenProperties
  <2>3. f \in DOMAIN FilesOf(i)
    BY <2>1, <2>2
  <2> QED BY <2>3 DEF Range
<1>4. Range(chunk[i].post) \subseteq Range(Slice(call, i))
  <2>1. DOMAIN <<>> = {}
    OBVIOUS
  <2>2. Range(<<>>) = {}
    BY <2>1, Zenon DEF Range
  <2>3. chunk[i].post = <<>> \/ chunk[i].post = ToFetch(i)
    BY <1>1 DEF ChunkInv
  <2> QED BY <1>2, <2>2, <2>3
<1> QED BY <1>2, <1>3, <1>4 DEF Sent

\* No input is sent twice, none is left out by a call that succeeds, and no
\* batch is larger than maxBatchSize, for every call.
THEOREM EachInputSentOnce == Spec => []SentOnce
<1>1. IInv => SentOnce
  <2> SUFFICES ASSUME IInv PROVE SentOnce
    OBVIOUS
  <2>1. TypeOK /\ call \in Call /\ DOMAIN chunk = Chunks(call)
    BY DEF IInv, TypeOK
  <2>2. ASSUME NEW i \in Chunks(call), NEW j \in Chunks(call), i # j
        PROVE  Sent(i) \cap Sent(j) = {}
    <3>1. Range(Slice(call, i)) \cap Range(Slice(call, j)) = {}
      BY <2>1, <2>2, SlicesDisjoint
    <3>2. Sent(i) \subseteq Range(Slice(call, i)) /\ Sent(j) \subseteq Range(Slice(call, j))
      BY SendsItsOwn
    <3> QED BY <3>1, <3>2
  <2>3. ASSUME NEW i \in Chunks(call)
        PROVE  Len(chunk[i].post) <= call.max
    <3>1. chunk[i].post = <<>> \/ chunk[i].post = ToFetch(i)
      BY DEF IInv, ChunkInv
    <3>2. Len(ToFetch(i)) <= call.max /\ call.max \in Nat
      BY <2>1, Sorted, CallType
    <3>3. Len(<<>>) = 0
      OBVIOUS
    <3> QED BY <3>1, <3>2, <3>3
  <2>4. ASSUME outcome = "done"
        PROVE  UNION { Sent(i) : i \in Chunks(call) } = 1 .. call.n
    <3>1. ASSUME NEW i \in Chunks(call) PROVE Sent(i) = Range(Slice(call, i))
      <4>1. chunk[i].uploads = Len(FilesOf(i)) /\ chunk[i].post = ToFetch(i)
        BY <2>4 DEF IInv, ChunkInv
      <4>2. FilesOf(i) \in Seq(Inputs)
        BY <2>1, Sorted
      <4>3. DOMAIN FilesOf(i) = 1 .. Len(FilesOf(i))
        BY <4>2, LenProperties
      <4>4. { FilesOf(i)[f] : f \in 1 .. chunk[i].uploads } = Range(FilesOf(i))
        BY <4>1, <4>3 DEF Range
      <4>5. Range(FilesOf(i)) \cup Range(ToFetch(i)) = Range(Slice(call, i))
        BY <2>1, Sorted
      <4> QED BY <4>1, <4>4, <4>5 DEF Sent
    <3>2. UNION { Range(Slice(call, i)) : i \in Chunks(call) } = 1 .. call.n
      BY <2>1, SlicesCover
    <3> QED BY <3>1, <3>2
  <2> QED BY <2>1, <2>2, <2>3, <2>4 DEF SentOnce
<1> QED BY <1>1, Invariance, PTL
=============================================================================
