---------------------------- MODULE StartupProofs ----------------------------
(***************************************************************************)
(* NewGateway for any services and both mergers: the schemas are merged in *)
(* the order of the urls, each with its own, whichever introspection comes *)
(* first; each is read as the service has it; the merger does what the     *)
(* properties say of its result, one service after the other; and clients  *)
(* read that result as it is.                                              *)
(***************************************************************************)
EXTENDS Startup, EnumerationProofs

-----------------------------------------------------------------------------
\* Sorting by the index.

LEMMA Increasing ==
  ASSUME NEW n \in Nat, NEW f \in [1 .. n -> 1 .. n],
         \A j, k \in 1 .. n : j < k => f[j] < f[k]
  PROVE  \A k \in 1 .. n : f[k] = k
<1> DEFINE G == { k \in 0 .. n : k > 0 => f[k] >= k }
           H == { m \in 0 .. n : m < n => f[n - m] <= n - m }
<1>1. 0 \in G
  OBVIOUS
<1>2. ASSUME NEW k \in 0 .. n - 1, k \in G PROVE k + 1 \in G
  <2>1. CASE k = 0
    <3>1. f[1] \in 1 .. n
      OBVIOUS
    <3> QED BY <2>1, <3>1
  <2>2. CASE k > 0
    <3>1. k \in 1 .. n /\ k + 1 \in 1 .. n /\ f[k] >= k
      BY <1>2, <2>2
    <3>2. f[k] < f[k + 1]
      BY <3>1
    <3>3. f[k] \in 1 .. n /\ f[k + 1] \in 1 .. n
      BY <3>1
    <3> QED BY <3>1, <3>2, <3>3
  <2> QED BY <2>1, <2>2
<1>3. 0 \in H
  OBVIOUS
<1>4. ASSUME NEW m \in 0 .. n - 1, m \in H PROVE m + 1 \in H
  <2>1. SUFFICES ASSUME m + 1 < n PROVE f[n - (m + 1)] <= n - (m + 1)
    OBVIOUS
  <2>2. n - m \in 1 .. n /\ n - (m + 1) \in 1 .. n /\ f[n - m] <= n - m
    BY <1>4, <2>1
  <2>3. f[n - (m + 1)] < f[n - m] /\ f[n - m] \in 1 .. n /\ f[n - (m + 1)] \in 1 .. n
    BY <2>2
  <2> QED BY <2>2, <2>3
<1>5. 0 .. n \subseteq G /\ 0 .. n \subseteq H
  <2> HIDE DEF G, H
  <2>1. 0 .. n \subseteq G
    BY <1>1, <1>2, BoundedInduction
  <2>2. 0 .. n \subseteq H
    BY <1>3, <1>4, BoundedInduction
  <2> QED BY <2>1, <2>2
<1>6. ASSUME NEW k \in 1 .. n PROVE f[k] = k
  <2> HIDE DEF G, H
  <2>0. k \in 0 .. n /\ n - k \in 0 .. n
    OBVIOUS
  <2>1. k \in G /\ n - k \in H
    BY <1>5, <2>0, Zenon
  <2> USE DEF G, H
  <2>2. f[k] >= k /\ f[n - (n - k)] <= n - (n - k) /\ f[k] \in 1 .. n
    BY <2>1
  <2>3. n - (n - k) = k
    OBVIOUS
  <2> QED BY <2>2, <2>3
<1> QED BY <1>6

LEMMA ByIndexSorts ==
  ASSUME NEW n \in Nat, NEW schemas, DOMAIN schemas = 1 .. n,
         \A k \in 1 .. n : schemas[k].index \in 1 .. n,
         \A j, k \in 1 .. n : schemas[j].index = schemas[k].index => j = k
  PROVE  /\ ByIndex(schemas) = [k \in 1 .. n |-> ByIndex(schemas)[k]]
         /\ \A k \in 1 .. n : \E j \in 1 .. n :
              ByIndex(schemas)[k] = schemas[j] /\ schemas[j].index = k
<1> DEFINE D == 1 .. n
           index == [k \in D |-> schemas[k].index]
           Sorts(p) == \A j, k \in D :
                         j < k => p[j] # p[k] /\ schemas[p[j]].index <= schemas[p[k]].index
           order == CHOOSE p \in [D -> D] : Sorts(p)
           at == [i \in D |-> CHOOSE k \in D : schemas[k].index = i]
<1>1. index \in Injection(D, D)
  BY DEF Injection, IsInjective
<1>2. index \in Surjection(D, D)
  <2>1. IsFiniteSet(D)
    <3>1. 1 \in Int /\ n \in Int
      OBVIOUS
    <3> HIDE DEF index
    <3> QED BY <3>1, FS_Interval, Zenon
  <2> HIDE DEF D, index
  <2> QED BY <1>1, <2>1, FS_Injection
<1>3. \A i \in D : \E k \in D : schemas[k].index = i
  <2>1. \A i \in D : \E k \in D : index[k] = i
    <3> HIDE DEF D, index
    <3> QED BY <1>2 DEF Surjection
  <2> QED BY <2>1
<1>4. \A i \in D : at[i] \in D /\ schemas[at[i]].index = i
  <2> HIDE DEF D
  <2> QED BY <1>3
<1>5. at \in [D -> D] /\ Sorts(at)
  <2>1. at \in [D -> D]
    BY <1>4
  <2>2. ASSUME NEW j \in D, NEW k \in D, j < k
        PROVE  at[j] # at[k] /\ schemas[at[j]].index <= schemas[at[k]].index
    <3>1. schemas[at[j]].index = j /\ schemas[at[k]].index = k /\ j \in Int /\ k \in Int
      BY <1>4
    <3> HIDE DEF at
    <3> QED BY <2>2, <3>1
  <2> HIDE DEF at
  <2> QED BY <2>1, <2>2
<1>6. order \in [D -> D] /\ Sorts(order)
  <2> HIDE DEF at, Sorts, D
  <2> QED BY <1>5
<1>7. ByIndex(schemas) = [k \in D |-> schemas[order[k]]]
  BY DEF ByIndex
<1> HIDE DEF order
<1> DEFINE f == [k \in D |-> schemas[order[k]].index]
<1>8. f \in [D -> D] /\ \A j, k \in D : j < k => f[j] < f[k]
  <2>1. \A k \in D : order[k] \in D
    BY <1>6
  <2>2. ASSUME NEW j \in D, NEW k \in D, j < k PROVE f[j] < f[k]
    <3>1. order[j] # order[k] /\ schemas[order[j]].index <= schemas[order[k]].index
      BY <1>6, <2>2
    <3>2. schemas[order[j]].index # schemas[order[k]].index
      BY <2>1, <3>1
    <3>3. schemas[order[j]].index \in 1 .. n /\ schemas[order[k]].index \in 1 .. n
      BY <2>1
    <3> QED BY <3>1, <3>2, <3>3
  <2> QED BY <2>1, <2>2
<1>9. \A k \in D : f[k] = k
  <2> HIDE DEF f
  <2> QED BY <1>8, Increasing
<1> QED BY <1>6, <1>7, <1>9
-----------------------------------------------------------------------------
\* The introspections.

LEMMA WorldFacts ==
  ASSUME world \in World
  PROVE  /\ Services \in Seq(Range(Services)) /\ Len(Services) \in Nat \ {0}
         /\ DOMAIN Services = 1 .. Len(Services)
         /\ IsFiniteSet(DOMAIN Services)
<1>1. Services \in Seq(Range(Services)) /\ Services # <<>>
  BY WorldAssumption DEF Services
<1>2. Len(Services) \in Nat \ {0} /\ DOMAIN Services = 1 .. Len(Services)
  BY <1>1
<1>3. IsFiniteSet(DOMAIN Services)
  <2>1. 1 \in Int /\ Len(Services) \in Int
    BY <1>2
  <2> QED BY <1>2, <2>1, FS_Interval, Zenon
<1> QED BY <1>1, <1>2, <1>3

\* What of the state is about the services alone.
LEMMA WorldStays ==
  ASSUME world' = world
  PROVE  /\ Services' = Services
         /\ \A i : /\ Answer(i)' = Answer(i)
                   /\ (Readable(i)' <=> Readable(i)) /\ (Failing(i)' <=> Failing(i))
         /\ InUrlOrder' = InUrlOrder
         /\ Merged(Paired(InUrlOrder))' = Merged(Paired(InUrlOrder))
<1>1. Services' = Services
  BY DEF Services
<1>2. \A i : Answer(i)' = Answer(i)
  BY DEF Answer, Services
<1>3. \A i : (Readable(i)' <=> Readable(i)) /\ (Failing(i)' <=> Failing(i))
  BY DEF Readable, Failing, Answer, Services
<1>4. InUrlOrder' = InUrlOrder
  BY DEF InUrlOrder, Answer, Services
<1>5. Merged(Paired(InUrlOrder))' = Merged(Paired(InUrlOrder))
  BY DEF Merged, Paired, InUrlOrder, Answer, Services
<1> QED BY <1>1, <1>2, <1>3, <1>4, <1>5

Folded == { i \in DOMAIN Services : introspection[i] = "folded" }

LEMMA FoldedGrows ==
  ASSUME StartupTypeOK, world' = world, NEW i \in DOMAIN introspection, introspection[i] # "folded",
         introspection' = [introspection EXCEPT ![i] = "folded"]
  PROVE  /\ introspection' \in [DOMAIN Services -> {"asked", "read", "failed", "folded"}]
         /\ Cardinality(Folded') = Cardinality(Folded) + 1
<1>1. introspection \in [DOMAIN Services -> {"asked", "read", "failed", "folded"}]
  BY DEF StartupTypeOK
<1>2. IsFiniteSet(Folded)
  <2>1. IsFiniteSet(DOMAIN Services) /\ Folded \subseteq DOMAIN Services
    BY WorldFacts DEF StartupTypeOK, Folded
  <2> QED BY <2>1, FS_Subset
<1>3. Folded' = Folded \cup {i} /\ i \notin Folded
  BY <1>1 DEF Folded, Services
<1>4. Cardinality(Folded \cup {i}) = Cardinality(Folded) + 1
  BY <1>2, <1>3, FS_AddElement
<1> QED BY <1>1, <1>3, <1>4

LEMMA InitIInv == Init => IInv
<1> SUFFICES ASSUME Init PROVE IInv
  OBVIOUS
<1>1. /\ world \in World /\ introspection = [i \in DOMAIN Services |-> "asked"]
      /\ acc = <<>> /\ errs = 0 /\ gateway = NoSchema /\ phase = "introspect"
  BY DEF Init, Services
<1>2. StartupTypeOK
  <2>1. Range(acc) = {} /\ acc \in Seq(Range(acc)) /\ Len(acc) = 0
    BY <1>1 DEF Range
  <2>2. Folded = {}
    BY <1>1 DEF Folded
  <2>3. Cardinality({}) = 0
    BY FS_EmptySet
  <2>4. Len(acc) + errs = Cardinality(Folded)
    BY <1>1, <2>1, <2>2, <2>3
  <2>5. { a.index : a \in Range(acc) } \subseteq DOMAIN Services
    BY <2>1
  <2> QED BY <1>1, <2>1, <2>4, <2>5 DEF StartupTypeOK, Folded
<1>3. ReadInv
  BY <1>1 DEF ReadInv
<1> QED BY <1>1, <1>2, <1>3 DEF IInv

\* A service is read, fails, or brings the process down.
LEMMA IntrospectIInv ==
  ASSUME IInv, NEW i \in DOMAIN introspection, phase = "introspect", introspection[i] = "asked",
         NEW outcome \in {"read", "failed"},
         outcome = "read" => Readable(i),
         outcome = "failed" => Failing(i),
         introspection' = [introspection EXCEPT ![i] = outcome],
         UNCHANGED <<world, acc, errs, gateway, phase>>
  PROVE  IInv'
<1>1. introspection \in [DOMAIN Services -> {"asked", "read", "failed", "folded"}]
      /\ StartupTypeOK /\ ReadInv
  BY DEF IInv, StartupTypeOK
<1>2. Services' = Services /\ \A j : Answer(j)' = Answer(j) /\ (Readable(j)' <=> Readable(j)) /\ (Failing(j)' <=> Failing(j))
  BY WorldStays
<1>3. \A j \in DOMAIN Services : introspection'[j] = IF j = i THEN outcome ELSE introspection[j]
  BY <1>1
<1>4. StartupTypeOK'
  <2>1. { j \in DOMAIN Services : introspection[j] = "folded" }' = { j \in DOMAIN Services : introspection[j] = "folded" }
    BY <1>1, <1>2, <1>3
  <2>2. introspection' \in [DOMAIN Services -> {"asked", "read", "failed", "folded"}]
    BY <1>1
  <2> QED BY <1>1, <1>2, <2>1, <2>2 DEF StartupTypeOK
<1>5. ReadInv'
  <2>1. \A k \in DOMAIN acc :
          /\ acc[k].index \in DOMAIN Services /\ introspection'[acc[k].index] = "folded" /\ Readable(acc[k].index)
          /\ acc[k] = [index |-> acc[k].index, schema |-> ParseSchema(Answer(acc[k].index))]
    BY <1>1, <1>3 DEF ReadInv
  <2>2. \A j \in DOMAIN Services :
          /\ introspection'[j] = "read" => Readable(j)
          /\ introspection'[j] = "failed" => Failing(j)
          /\ introspection'[j] = "folded" =>
               (\E k \in DOMAIN acc : acc[k].index = j) \/ (Failing(j) /\ errs > 0)
    BY <1>1, <1>3 DEF ReadInv
  <2> QED BY <1>1, <1>2, <2>1, <2>2 DEF ReadInv
<1> QED BY <1>4, <1>5 DEF IInv

LEMMA PanicIInv ==
  ASSUME IInv, NEW i \in DOMAIN introspection, IntrospectPanics(i)
  PROVE  IInv'
<1>1. StartupTypeOK /\ ReadInv /\ i \in DOMAIN Services
  BY DEF IInv, StartupTypeOK
<1>2. /\ phase = "introspect" /\ phase' = "panic" /\ Services[i].answers /\ ParsePanics(Answer(i))
      /\ UNCHANGED <<world, introspection, acc, errs, gateway>>
  BY DEF IntrospectPanics
<1>3. Services' = Services /\ \A j : Answer(j)' = Answer(j) /\ (Readable(j)' <=> Readable(j)) /\ (Failing(j)' <=> Failing(j))
  BY <1>2, WorldStays
<1>4. StartupTypeOK'
  BY <1>1, <1>2, <1>3 DEF StartupTypeOK
<1>5. ReadInv'
  BY <1>1, <1>2, <1>3 DEF ReadInv
<1> QED BY <1>2, <1>4, <1>5 DEF IInv

LEMMA FoldIInv ==
  ASSUME IInv, NEW i \in DOMAIN introspection, Fold(i)
  PROVE  IInv'
<1> DEFINE next == [index |-> i, schema |-> ParseSchema(Answer(i))]
<1>1. /\ StartupTypeOK /\ ReadInv /\ i \in DOMAIN Services
      /\ introspection \in [DOMAIN Services -> {"asked", "read", "failed", "folded"}]
  BY DEF IInv, StartupTypeOK
<1>2. /\ phase = "introspect" /\ introspection[i] = "read"
      /\ introspection' = [introspection EXCEPT ![i] = "folded"]
      /\ acc' = Append(acc, next)
      /\ UNCHANGED <<world, errs, gateway, phase>>
  BY DEF Fold
<1>3. Services' = Services /\ \A j : Answer(j)' = Answer(j) /\ (Readable(j)' <=> Readable(j)) /\ (Failing(j)' <=> Failing(j))
  BY <1>2, WorldStays
<1>4. /\ introspection' \in [DOMAIN Services -> {"asked", "read", "failed", "folded"}]
      /\ Cardinality(Folded') = Cardinality(Folded) + 1
  BY <1>1, <1>2, FoldedGrows
<1>5. \A j \in DOMAIN Services : introspection'[j] = IF j = i THEN "folded" ELSE introspection[j]
  BY <1>1, <1>2
<1>6. Len(acc) \in Nat /\ DOMAIN acc = 1 .. Len(acc) /\ acc \in Seq(Range(acc))
  BY <1>1 DEF StartupTypeOK
<1>7. /\ Len(acc') = Len(acc) + 1 /\ DOMAIN acc' = 1 .. Len(acc) + 1
      /\ \A k \in DOMAIN acc : acc'[k] = acc[k]
      /\ acc'[Len(acc) + 1] = next
      /\ acc' \in Seq(Range(acc) \cup {next})
  <2> HIDE DEF next
  <2>1. acc \in Seq(Range(acc) \cup {next})
    BY <1>6
  <2> QED BY <1>2, <1>6, <2>1
<1>8. next.index = i
  OBVIOUS
<1> HIDE DEF next
<1>9. Range(acc') = Range(acc) \cup {next}
  BY <1>6, <1>7 DEF Range
<1>10. StartupTypeOK'
  <2>1. Len(acc) + errs = Cardinality(Folded) /\ errs \in Nat
    BY <1>1 DEF StartupTypeOK, Folded
  <2>2. Len(acc') + errs' = Cardinality(Folded')
    BY <1>2, <1>4, <1>6, <1>7, <2>1
  <2>3. \A a \in Range(acc') : a.index \in DOMAIN Services
    BY <1>1, <1>8, <1>9 DEF StartupTypeOK
  <2>4. { a.index : a \in Range(acc) }' \subseteq DOMAIN Services
    BY <2>3
  <2>5. (world \in World /\ phase \in {"introspect", "merge", "started", "failed", "panic"}
         /\ ((phase = "started") = (gateway # NoSchema)))'
    BY <1>1, <1>2 DEF StartupTypeOK
  <2> QED BY <1>2, <1>3, <1>4, <1>7, <1>9, <2>1, <2>2, <2>4, <2>5 DEF StartupTypeOK, Folded
<1>11. ReadInv'
  <2>1. \A k \in DOMAIN acc : acc[k].index # i
    BY <1>1, <1>2 DEF ReadInv
  <2>2. \A j, k \in DOMAIN acc' : acc'[j].index = acc'[k].index => j = k
    BY <1>1, <1>6, <1>7, <1>8, <2>1 DEF ReadInv
  <2>3. \A k \in DOMAIN acc' :
          /\ acc'[k].index \in DOMAIN Services /\ introspection'[acc'[k].index] = "folded" /\ Readable(acc'[k].index)
          /\ acc'[k] = [index |-> acc'[k].index, schema |-> ParseSchema(Answer(acc'[k].index))]
    <3>1. ASSUME NEW k \in DOMAIN acc
          PROVE  /\ acc'[k].index \in DOMAIN Services /\ introspection'[acc'[k].index] = "folded" /\ Readable(acc'[k].index)
                 /\ acc'[k] = [index |-> acc'[k].index, schema |-> ParseSchema(Answer(acc'[k].index))]
      BY <1>1, <1>5, <1>7, <3>1 DEF ReadInv
    <3>2. Readable(i)
      BY <1>1, <1>2 DEF ReadInv
    <3>3. next = [index |-> next.index, schema |-> ParseSchema(Answer(next.index))]
      BY <1>8 DEF next
    <3>4. \A k \in DOMAIN acc' : k \in DOMAIN acc \/ k = Len(acc) + 1
      BY <1>6, <1>7
    <3> QED BY <1>1, <1>5, <1>7, <1>8, <3>1, <3>2, <3>3, <3>4
  <2>4. \A j \in DOMAIN Services :
          /\ introspection'[j] = "read" => Readable(j)
          /\ introspection'[j] = "failed" => Failing(j)
          /\ introspection'[j] = "folded" =>
               (\E k \in DOMAIN acc' : acc'[k].index = j) \/ (Failing(j) /\ errs > 0)
    <3>1. ASSUME NEW j \in DOMAIN Services, introspection'[j] = "folded"
          PROVE  (\E k \in DOMAIN acc' : acc'[k].index = j) \/ (Failing(j) /\ errs > 0)
      <4>1. CASE j = i
        <5>1. Len(acc) + 1 \in DOMAIN acc'
          BY <1>6, <1>7
        <5> QED BY <1>7, <1>8, <4>1, <5>1
      <4>2. CASE j # i
        <5>1. (\E k \in DOMAIN acc : acc[k].index = j) \/ (Failing(j) /\ errs > 0)
          BY <1>1, <1>5, <3>1, <4>2 DEF ReadInv
        <5>2. \A k \in DOMAIN acc : k \in DOMAIN acc' /\ acc'[k] = acc[k]
          BY <1>6, <1>7
        <5> QED BY <5>1, <5>2
      <4> QED BY <4>1, <4>2
    <3> QED BY <1>1, <1>5, <3>1 DEF ReadInv
  <2> QED BY <1>2, <1>3, <2>2, <2>3, <2>4 DEF ReadInv
<1> QED BY <1>2, <1>10, <1>11 DEF IInv

LEMMA FoldErrorIInv ==
  ASSUME IInv, NEW i \in DOMAIN introspection, FoldError(i)
  PROVE  IInv'
<1>1. /\ StartupTypeOK /\ ReadInv /\ i \in DOMAIN Services
      /\ introspection \in [DOMAIN Services -> {"asked", "read", "failed", "folded"}]
  BY DEF IInv, StartupTypeOK
<1>2. /\ phase = "introspect" /\ introspection[i] = "failed"
      /\ introspection' = [introspection EXCEPT ![i] = "folded"]
      /\ errs' = errs + 1
      /\ UNCHANGED <<world, acc, gateway, phase>>
  BY DEF FoldError
<1>3. Services' = Services /\ \A j : Answer(j)' = Answer(j) /\ (Readable(j)' <=> Readable(j)) /\ (Failing(j)' <=> Failing(j))
  BY <1>2, WorldStays
<1>4. /\ introspection' \in [DOMAIN Services -> {"asked", "read", "failed", "folded"}]
      /\ Cardinality(Folded') = Cardinality(Folded) + 1
  BY <1>1, <1>2, FoldedGrows
<1>5. \A j \in DOMAIN Services : introspection'[j] = IF j = i THEN "folded" ELSE introspection[j]
  BY <1>1, <1>2
<1>6. Len(acc) \in Nat /\ errs \in Nat
  BY <1>1 DEF StartupTypeOK
<1>7. StartupTypeOK'
  <2>1. Len(acc) + errs = Cardinality(Folded)
    BY <1>1 DEF StartupTypeOK, Folded
  <2>2. Len(acc') + errs' = Cardinality(Folded')
    BY <1>2, <1>4, <1>6, <2>1
  <2>3. (world \in World /\ phase \in {"introspect", "merge", "started", "failed", "panic"}
         /\ ((phase = "started") = (gateway # NoSchema))
         /\ acc \in Seq(Range(acc)) /\ { a.index : a \in Range(acc) } \subseteq DOMAIN Services)'
    BY <1>1, <1>2, <1>3 DEF StartupTypeOK
  <2> QED BY <1>2, <1>3, <1>4, <1>6, <2>2, <2>3 DEF StartupTypeOK, Folded
<1>8. ReadInv'
  <2>1. \A k \in DOMAIN acc :
          /\ acc[k].index \in DOMAIN Services /\ introspection'[acc[k].index] = "folded" /\ Readable(acc[k].index)
          /\ acc[k] = [index |-> acc[k].index, schema |-> ParseSchema(Answer(acc[k].index))]
    BY <1>1, <1>5 DEF ReadInv
  <2>2. Failing(i) /\ errs' > 0 /\ (errs > 0 => errs' > 0)
    BY <1>1, <1>2, <1>6 DEF ReadInv
  <2>3. \A j \in DOMAIN Services :
          /\ introspection'[j] = "read" => Readable(j)
          /\ introspection'[j] = "failed" => Failing(j)
          /\ introspection'[j] = "folded" =>
               (\E k \in DOMAIN acc : acc[k].index = j) \/ (Failing(j) /\ errs' > 0)
    BY <1>1, <1>5, <2>2 DEF ReadInv
  <2> QED BY <1>1, <1>2, <1>3, <2>1, <2>3 DEF ReadInv
<1> QED BY <1>2, <1>7, <1>8 DEF IInv

\* All have been folded: with no error all are read, and sorted they are in the
\* order of the urls.
LEMMA SortIInv ==
  ASSUME IInv, SortSchemas
  PROVE  IInv'
<1>1. /\ StartupTypeOK /\ ReadInv
      /\ introspection \in [DOMAIN Services -> {"asked", "read", "failed", "folded"}]
      /\ errs \in Nat /\ acc \in Seq(Range(acc))
  BY DEF IInv, StartupTypeOK
<1>2. /\ phase = "introspect" /\ \A i \in DOMAIN Services : introspection[i] = "folded"
      /\ phase' = IF errs > 0 THEN "failed" ELSE "merge"
      /\ acc' = IF errs > 0 THEN acc ELSE ByIndex(acc)
      /\ UNCHANGED <<world, introspection, errs, gateway>>
  BY <1>1 DEF SortSchemas
<1>3. /\ Services' = Services
      /\ \A j : Answer(j)' = Answer(j) /\ (Readable(j)' <=> Readable(j)) /\ (Failing(j)' <=> Failing(j))
      /\ InUrlOrder' = InUrlOrder
      /\ Merged(Paired(InUrlOrder))' = Merged(Paired(InUrlOrder))
  BY <1>2, WorldStays
<1>4. CASE errs > 0
  <2>1. StartupTypeOK' /\ ReadInv'
    <3>1. acc' = acc /\ phase' = "failed"
      BY <1>2, <1>4
    <3>2. StartupTypeOK'
      BY <1>1, <1>2, <1>3, <3>1 DEF StartupTypeOK
    <3>3. ReadInv'
      BY <1>1, <1>2, <1>3, <3>1 DEF ReadInv
    <3> QED BY <3>2, <3>3
  <2>2. \E i \in DOMAIN Services : Failing(i)
    <3>1. SUFFICES ASSUME \A i \in DOMAIN Services : ~Failing(i) PROVE FALSE
      OBVIOUS
    <3>2. \A i \in DOMAIN Services : \E k \in DOMAIN acc : acc[k].index = i
      BY <1>1, <1>2, <3>1 DEF ReadInv
    <3>3. Len(acc) + errs = Cardinality(Folded)
      BY <1>1 DEF StartupTypeOK, Folded
    <3>4. Folded = DOMAIN Services
      BY <1>2 DEF Folded
    <3>5. IsFiniteSet(DOMAIN Services)
      BY <1>1, WorldFacts DEF StartupTypeOK
    <3>6. IsFiniteSet(DOMAIN acc) /\ Cardinality(DOMAIN acc) = Len(acc) /\ Len(acc) \in Nat
      <4>1. Len(acc) \in Nat /\ DOMAIN acc = 1 .. Len(acc) /\ 1 \in Int /\ Len(acc) \in Int
        BY <1>1
      <4>2. IsFiniteSet(1 .. Len(acc)) /\ Cardinality(1 .. Len(acc)) = IF 1 > Len(acc) THEN 0 ELSE Len(acc) - 1 + 1
        BY <4>1, FS_Interval, Zenon
      <4> QED BY <4>1, <4>2
    <3> DEFINE index == [k \in DOMAIN acc |-> acc[k].index]
    <3>7. index \in Surjection(DOMAIN acc, DOMAIN Services)
      <4>1. index \in [DOMAIN acc -> DOMAIN Services]
        BY <1>1 DEF ReadInv
      <4>2. \A i \in DOMAIN Services : \E k \in DOMAIN acc : index[k] = i
        BY <3>2
      <4> HIDE DEF index
      <4> QED BY <4>1, <4>2 DEF Surjection
    <3>8. Cardinality(DOMAIN Services) <= Cardinality(DOMAIN acc)
      <4> HIDE DEF index
      <4> QED BY <3>6, <3>7, FS_Surjection
    <3>9. Cardinality(DOMAIN Services) \in Nat
      BY <3>5, FS_CardinalityType
    <3> QED BY <1>1, <1>4, <3>3, <3>4, <3>6, <3>8, <3>9
  <2>3. phase' = "failed"
    BY <1>2, <1>4
  <2> QED BY <1>3, <2>1, <2>2, <2>3 DEF IInv
<1>5. CASE ~(errs > 0)
  <2> DEFINE n == Len(Services)
  <2>1. /\ n \in Nat /\ DOMAIN Services = 1 .. n /\ IsFiniteSet(1 .. n)
    BY <1>1, WorldFacts DEF StartupTypeOK
  <2>2. \A i \in 1 .. n : \E k \in DOMAIN acc : acc[k].index = i
    BY <1>1, <1>2, <1>5, <2>1 DEF ReadInv
  <2>3. Len(acc) = n
    <3>1. Len(acc) + errs = Cardinality(Folded)
      BY <1>1 DEF StartupTypeOK, Folded
    <3>2. Folded = 1 .. n
      BY <1>2, <2>1 DEF Folded
    <3>3. 1 \in Int /\ n \in Int
      BY <2>1
    <3>4. Cardinality(1 .. n) = IF 1 > n THEN 0 ELSE n - 1 + 1
      BY <3>3, FS_Interval, Zenon
    <3>5. Len(acc) \in Nat
      BY <1>1
    <3> QED BY <1>1, <1>5, <2>1, <3>1, <3>2, <3>4, <3>5
  <2>4. DOMAIN acc = 1 .. n
    BY <1>1, <2>3
  <2>5. /\ \A k \in 1 .. n : acc[k].index \in 1 .. n
        /\ \A j, k \in 1 .. n : acc[j].index = acc[k].index => j = k
    BY <1>1, <2>1, <2>4 DEF ReadInv
  <2>6. /\ ByIndex(acc) = [k \in 1 .. n |-> ByIndex(acc)[k]]
        /\ \A k \in 1 .. n : \E j \in 1 .. n : ByIndex(acc)[k] = acc[j] /\ acc[j].index = k
    BY <2>1, <2>4, <2>5, ByIndexSorts
  <2>7. \A k \in 1 .. n : ByIndex(acc)[k] = [index |-> k, schema |-> ParseSchema(Answer(k))] /\ Readable(k)
    BY <1>1, <2>4, <2>6 DEF ReadInv
  <2>8. acc' = InUrlOrder
    <3>1. acc' = ByIndex(acc)
      BY <1>2, <1>5
    <3>2. ByIndex(acc) = [k \in 1 .. n |-> [index |-> k, schema |-> ParseSchema(Answer(k))]]
      BY <2>6, <2>7
    <3> QED BY <2>1, <3>1, <3>2 DEF InUrlOrder
  <2>9. /\ DOMAIN acc' = 1 .. n /\ Len(acc') = n
        /\ \A k \in 1 .. n : acc'[k] = [index |-> k, schema |-> ParseSchema(Answer(k))] /\ acc'[k].index = k
    BY <2>1, <2>8 DEF InUrlOrder
  <2>10. acc' \in Seq(Range(acc')) /\ { a.index : a \in Range(acc') } \subseteq DOMAIN Services
    <3>1. acc' = [k \in 1 .. n |-> acc'[k]]
      BY <2>1, <2>8, <2>9 DEF InUrlOrder
    <3>2. \A k \in 1 .. n : acc'[k] \in Range(acc')
      BY <2>9 DEF Range
    <3>3. acc' \in Seq(Range(acc'))
      <4>1. acc' \in [1 .. n -> Range(acc')]
        BY <3>1, <3>2
      <4> QED BY <2>1, <4>1
    <3>4. \A a \in Range(acc') : a.index \in 1 .. n
      BY <2>9 DEF Range
    <3> QED BY <2>1, <3>3, <3>4
  <2>11. phase' = "merge"
    BY <1>2, <1>5
  <2>12. StartupTypeOK'
    <3>1. Len(acc') + errs' = Cardinality(Folded')
      <4>1. Folded' = Folded
        BY <1>2, <1>3 DEF Folded
      <4>2. Len(acc) + errs = Cardinality(Folded)
        BY <1>1 DEF StartupTypeOK, Folded
      <4> QED BY <1>2, <2>3, <2>9, <4>1, <4>2
    <3>2. world \in World /\ (phase = "started" <=> gateway # NoSchema)
      BY <1>1 DEF StartupTypeOK
    <3>3. gateway' = NoSchema
      BY <1>2, <3>2
    <3> QED BY <1>1, <1>2, <1>3, <2>10, <2>11, <3>1, <3>2, <3>3 DEF StartupTypeOK, Folded
  <2>13. ReadInv'
    <3>1. \A k \in DOMAIN acc' :
            /\ acc'[k].index \in DOMAIN Services /\ introspection'[acc'[k].index] = "folded" /\ Readable(acc'[k].index)
            /\ acc'[k] = [index |-> acc'[k].index, schema |-> ParseSchema(Answer(acc'[k].index))]
      BY <1>2, <2>1, <2>7, <2>9
    <3>2. \A j, k \in DOMAIN acc' : acc'[j].index = acc'[k].index => j = k
      BY <2>9
    <3>3. \A i \in DOMAIN Services : introspection'[i] = "folded" /\ \E k \in DOMAIN acc' : acc'[k].index = i
      BY <1>2, <2>1, <2>9
    <3> QED BY <1>3, <2>11, <3>1, <3>2, <3>3 DEF ReadInv
  <2>14. \A i \in DOMAIN Services : Readable(i)
    BY <2>1, <2>7
  <2> QED BY <1>3, <2>8, <2>11, <2>12, <2>13, <2>14 DEF IInv
<1> QED BY <1>4, <1>5

LEMMA MergeIInv ==
  ASSUME IInv, Merge
  PROVE  IInv'
<1>1. StartupTypeOK /\ ReadInv /\ acc = InUrlOrder /\ \A i \in DOMAIN Services : Readable(i)
  BY DEF IInv, Merge
<1> DEFINE result == Merged(Paired(acc))
<1>2. /\ phase = "merge" /\ gateway' = result
      /\ phase' = IF result = NoSchema THEN "failed" ELSE "started"
      /\ UNCHANGED <<world, introspection, acc, errs>>
  BY DEF Merge
<1>3. /\ Services' = Services
      /\ \A j : Answer(j)' = Answer(j) /\ (Readable(j)' <=> Readable(j)) /\ (Failing(j)' <=> Failing(j))
      /\ InUrlOrder' = InUrlOrder
      /\ Merged(Paired(InUrlOrder))' = Merged(Paired(InUrlOrder))
  BY <1>2, WorldStays
<1>4. result = Merged(Paired(InUrlOrder))
  BY <1>1
<1> HIDE DEF result
<1>5. StartupTypeOK'
  BY <1>1, <1>2, <1>3 DEF StartupTypeOK
<1>6. ReadInv'
  BY <1>1, <1>2, <1>3 DEF ReadInv
<1> QED BY <1>1, <1>2, <1>3, <1>4, <1>5, <1>6 DEF IInv

LEMMA NextIInv == IInv /\ [Next]_vars => IInv'
<1> SUFFICES ASSUME IInv, [Next]_vars PROVE IInv'
  OBVIOUS
<1>1. ASSUME NEW i \in DOMAIN introspection, Introspect(i) PROVE IInv'
  <2> DEFINE outcome == IF ParseFails(Answer(i)) THEN "failed" ELSE "read"
  <2>1. /\ phase = "introspect" /\ introspection[i] = "asked"
        /\ introspection' = [introspection EXCEPT ![i] = outcome]
        /\ UNCHANGED <<world, acc, errs, gateway, phase>>
        /\ Services[i].answers /\ ~ParsePanics(Answer(i))
    BY <1>1 DEF Introspect
  <2>2. /\ outcome \in {"read", "failed"}
        /\ outcome = "read" => Readable(i)
        /\ outcome = "failed" => Failing(i)
    BY <2>1 DEF Readable, Failing
  <2> HIDE DEF outcome
  <2> QED BY <2>1, <2>2, IntrospectIInv
<1>2. ASSUME NEW i \in DOMAIN introspection, IntrospectFails(i) PROVE IInv'
  <2>1. /\ phase = "introspect" /\ introspection[i] = "asked"
        /\ introspection' = [introspection EXCEPT ![i] = "failed"]
        /\ UNCHANGED <<world, acc, errs, gateway, phase>>
        /\ Failing(i)
    BY <1>2 DEF IntrospectFails, Failing
  <2> QED BY <2>1, IntrospectIInv
<1>3. ASSUME UNCHANGED vars PROVE IInv'
  <2>1. /\ Services' = Services
        /\ \A j : Answer(j)' = Answer(j) /\ (Readable(j)' <=> Readable(j)) /\ (Failing(j)' <=> Failing(j))
        /\ InUrlOrder' = InUrlOrder
        /\ Merged(Paired(InUrlOrder))' = Merged(Paired(InUrlOrder))
    BY <1>3, WorldStays DEF vars
  <2>2. StartupTypeOK'
    BY <1>3, <2>1 DEF vars, IInv, StartupTypeOK
  <2>3. ReadInv'
    BY <1>3, <2>1 DEF vars, IInv, ReadInv
  <2> QED BY <1>3, <2>1, <2>2, <2>3 DEF vars, IInv
<1> QED BY <1>1, <1>2, <1>3, PanicIInv, FoldIInv, FoldErrorIInv, SortIInv, MergeIInv DEF Next, Service

\* Which services have been read, failed or folded, that the schemas are merged in
\* the order of the urls and with their own, and that what NewGateway comes to
\* is decided by the services alone, whichever introspection finishes first.
THEOREM Invariance == Spec => []IInv
<1>1. Init => IInv
  BY InitIInv
<1>2. IInv /\ [Next]_vars => IInv'
  BY NextIInv
<1> QED BY <1>1, <1>2, PTL DEF Spec
-----------------------------------------------------------------------------
\* Type references: what the gateway sends is read as it was, and what a query
\* cuts off has no name.

Wrap(nonNull) == IF nonNull THEN <<"NON_NULL", "LIST">> ELSE <<"LIST">>
Named(type) == IF type.nonNull THEN <<"NON_NULL", type.name>> ELSE <<type.name>>
NoName == ""
Unread == [lists |-> <<>>, nonNull |-> FALSE, name |-> NoName]

LEMMA ResolveWalks ==
  ASSUME NEW type, Len(type.lists) \in Nat
  PROVE  \E chain :
           /\ ResolveTypeRef(type) = chain[Len(type.lists)] \o Named(type)
           /\ chain[0] = <<>>
           /\ \A l \in 1 .. Len(type.lists) : chain[l] = chain[l - 1] \o Wrap(type.lists[l])
<1> DEFINE n == Len(type.lists)
           S(w, i) == IF i = 0 THEN <<>> ELSE w[i - 1] \o Wrap(type.lists[i])
           Walked(w, m) == w = [i \in 0 .. m |-> S(w, i)]
           E == { m \in 0 .. n : \E w : Walked(w, m) }
           W == CHOOSE w : w = [i \in 0 .. n |-> S(w, i)]
<1>1. ResolveTypeRef(type) = W[n] \o Named(type)
  BY DEF ResolveTypeRef, Wrap, Named
<1>2. 0 \in E
  <2> DEFINE w == [i \in 0 .. 0 |-> <<>>]
  <2>1. w = [i \in 0 .. 0 |-> S(w, i)]
    OBVIOUS
  <2> HIDE DEF w, S
  <2> QED BY <2>1
<1>3. ASSUME NEW k \in 0 .. n - 1, k \in E
      PROVE  k + 1 \in E
  <2>1. PICK f : Walked(f, k)
    BY <1>3
  <2> DEFINE g == [i \in 0 .. k + 1 |-> IF i <= k THEN f[i] ELSE S(f, k + 1)]
  <2>2. DOMAIN f = 0 .. k /\ \A i \in 0 .. k : f[i] = S(f, i)
    <3> HIDE DEF S
    <3> QED BY <2>1
  <2>3. \A i \in 0 .. k + 1 : i # 0 => g[i - 1] = f[i - 1]
    OBVIOUS
  <2>4. \A i \in 0 .. k + 1 : S(g, i) = S(f, i)
    BY <2>3
  <2>5. \A i \in 0 .. k + 1 : g[i] = S(f, i)
    <3> HIDE DEF S
    <3> QED BY <2>2
  <2>6. Walked(g, k + 1)
    <3>1. g = [i \in 0 .. k + 1 |-> g[i]]
      OBVIOUS
    <3> HIDE DEF g, S
    <3> QED BY <2>4, <2>5, <3>1
  <2>7. k + 1 \in 0 .. n
    OBVIOUS
  <2> HIDE DEF g, Walked
  <2> QED BY <2>6, <2>7
<1>4. n \in E
  <2> HIDE DEF E
  <2>1. 0 .. n \subseteq E
    BY <1>2, <1>3, BoundedInduction
  <2> QED BY <2>1
<1>5. \E w : w = [i \in 0 .. n |-> S(w, i)]
  <2> HIDE DEF S
  <2> QED BY <1>4
<1>6. W = [i \in 0 .. n |-> S(W, i)]
  <2> HIDE DEF S
  <2> QED BY <1>5
<1>7. \A i \in 0 .. n : W[i] = S(W, i)
  <2> HIDE DEF W, S
  <2> QED BY <1>6
<1>8. W[0] = <<>> /\ \A l \in 1 .. n : W[l] = W[l - 1] \o Wrap(type.lists[l])
  <2> HIDE DEF W
  <2>1. 0 \in 0 .. n /\ \A l \in 1 .. n : l \in 0 .. n /\ l # 0
    OBVIOUS
  <2> QED BY <1>7, <2>1, Zenon
<1> HIDE DEF W
<1> QED BY <1>1, <1>8

LEMMA ParseWalks ==
  ASSUME NEW ref, Len(ref) \in Nat
  PROVE  \E parsed :
           /\ ParseTypeRef(ref) = parsed[Len(ref)]
           /\ parsed[0] = Unread
           /\ \A i \in 1 .. Len(ref) : parsed[i] = ParsePart(parsed[i - 1], ref[i])
<1> DEFINE n == Len(ref)
           S(w, i) == IF i = 0 THEN Unread ELSE ParsePart(w[i - 1], ref[i])
           Walked(w, m) == w = [i \in 0 .. m |-> S(w, i)]
           E == { m \in 0 .. n : \E w : Walked(w, m) }
           W == CHOOSE w : w = [i \in 0 .. n |-> S(w, i)]
<1>1. ParseTypeRef(ref) = W[n]
  BY Zenon DEF ParseTypeRef, Unread, NoName
<1>2. 0 \in E
  <2> DEFINE w == [i \in 0 .. 0 |-> Unread]
  <2>1. w = [i \in 0 .. 0 |-> S(w, i)]
    OBVIOUS
  <2> HIDE DEF w, S
  <2> QED BY <2>1
<1>3. ASSUME NEW k \in 0 .. n - 1, k \in E
      PROVE  k + 1 \in E
  <2>1. PICK f : Walked(f, k)
    BY <1>3
  <2> DEFINE g == [i \in 0 .. k + 1 |-> IF i <= k THEN f[i] ELSE S(f, k + 1)]
  <2>2. DOMAIN f = 0 .. k /\ \A i \in 0 .. k : f[i] = S(f, i)
    <3> HIDE DEF S
    <3> QED BY <2>1
  <2>3. \A i \in 0 .. k + 1 : i # 0 => g[i - 1] = f[i - 1]
    OBVIOUS
  <2>4. \A i \in 0 .. k + 1 : S(g, i) = S(f, i)
    BY <2>3
  <2>5. \A i \in 0 .. k + 1 : g[i] = S(f, i)
    <3> HIDE DEF S
    <3> QED BY <2>2
  <2>6. Walked(g, k + 1)
    <3>1. g = [i \in 0 .. k + 1 |-> g[i]]
      OBVIOUS
    <3> HIDE DEF g, S
    <3> QED BY <2>4, <2>5, <3>1
  <2>7. k + 1 \in 0 .. n
    OBVIOUS
  <2> HIDE DEF g, Walked
  <2> QED BY <2>6, <2>7
<1>4. n \in E
  <2> HIDE DEF E
  <2>1. 0 .. n \subseteq E
    BY <1>2, <1>3, BoundedInduction
  <2> QED BY <2>1
<1>5. \E w : w = [i \in 0 .. n |-> S(w, i)]
  <2> HIDE DEF S
  <2> QED BY <1>4
<1>6. W = [i \in 0 .. n |-> S(W, i)]
  <2> HIDE DEF S
  <2> QED BY <1>5
<1>7. \A i \in 0 .. n : W[i] = S(W, i)
  <2> HIDE DEF W, S
  <2> QED BY <1>6
<1>8. W[0] = Unread /\ \A i \in 1 .. n : W[i] = ParsePart(W[i - 1], ref[i])
  <2> HIDE DEF W
  <2>1. 0 \in 0 .. n /\ \A i \in 1 .. n : i \in 0 .. n /\ i # 0
    OBVIOUS
  <2> QED BY <1>7, <2>1, Zenon
<1> HIDE DEF W
<1> QED BY <1>1, <1>8

LEMMA PartIs ==
  ASSUME NEW type, NEW part
  PROVE  /\ ParsePart(type, "NON_NULL") = [type EXCEPT !.nonNull = TRUE]
         /\ ParsePart(type, "LIST") = [type EXCEPT !.lists = Append(type.lists, type.nonNull), !.nonNull = FALSE]
         /\ part # "NON_NULL" /\ part # "LIST" => ParsePart(type, part) = [type EXCEPT !.name = part]
BY DEF ParsePart

LEMMA TypeRefFields ==
  ASSUME NEW A, NEW B, NEW C, NEW type \in [lists : A, nonNull : B, name : C]
  PROVE  /\ type.lists \in A /\ type.nonNull \in B /\ type.name \in C
         /\ type = [lists |-> type.lists, nonNull |-> type.nonNull, name |-> type.name]
OBVIOUS

LEMMA TypeRefIs ==
  ASSUME NEW type, IsTypeRef(type)
  PROVE  /\ type.lists \in Seq(BOOLEAN) /\ type.nonNull \in BOOLEAN
         /\ Len(type.lists) \in Nat
         /\ type.name # NoName /\ type.name # "NON_NULL" /\ type.name # "LIST"
         /\ type = [lists |-> type.lists, nonNull |-> type.nonNull, name |-> type.name]
<1>1. type \in [lists : Seq(BOOLEAN), nonNull : BOOLEAN, name : STRING]
  BY Zenon DEF IsTypeRef
<1>2. /\ type.lists \in Seq(BOOLEAN) /\ type.nonNull \in BOOLEAN
      /\ type = [lists |-> type.lists, nonNull |-> type.nonNull, name |-> type.name]
  BY <1>1, TypeRefFields, Zenon
<1>3. Len(type.lists) \in Nat
  BY <1>2
<1>4. type.name # NoName /\ type.name # "NON_NULL" /\ type.name # "LIST"
  BY Zenon DEF IsTypeRef, NoName
<1> QED BY <1>2, <1>3, <1>4, Zenon

\* The kinds on the way to the name, and the name.
LEMMA RefIs ==
  ASSUME NEW type, IsTypeRef(type)
  PROVE  \E chain :
           LET ref == ResolveTypeRef(type)
               n == Len(type.lists)
               c == Len(chain[n])
           IN
           /\ n \in Nat /\ type.lists \in Seq(BOOLEAN)
           /\ chain[0] = <<>> /\ \A l \in 0 .. n : chain[l] \in Seq({"NON_NULL", "LIST"})
           /\ \A l \in 0 .. n - 1 :
                /\ Len(chain[l + 1]) = Len(chain[l]) + Len(Wrap(type.lists[l + 1]))
                /\ \A i \in 1 .. Len(Wrap(type.lists[l + 1])) :
                     ref[Len(chain[l]) + i] = Wrap(type.lists[l + 1])[i]
           /\ Len(ref) = c + Len(Named(type))
           /\ ref \in Seq({"NON_NULL", "LIST"} \cup {"NON_NULL", type.name})
           /\ \A i \in 1 .. c : ref[i] \in {"NON_NULL", "LIST"}
           /\ \A i \in 1 .. Len(Named(type)) : ref[c + i] = Named(type)[i]
<1> DEFINE n == Len(type.lists)
           Kinds == {"NON_NULL", "LIST"}
           ref == ResolveTypeRef(type)
<1>1. type.lists \in Seq(BOOLEAN) /\ n \in Nat
  BY TypeRefIs, Zenon
<1>2. PICK chain :
        /\ ref = chain[n] \o Named(type)
        /\ chain[0] = <<>>
        /\ \A l \in 1 .. n : chain[l] = chain[l - 1] \o Wrap(type.lists[l])
  BY <1>1, ResolveWalks
<1>3. \A b : Wrap(b) \in Seq(Kinds) /\ Len(Wrap(b)) \in Nat
  <2> SUFFICES ASSUME NEW b PROVE Wrap(b) \in Seq(Kinds) /\ Len(Wrap(b)) \in Nat
    OBVIOUS
  <2>1. CASE b
    BY <2>1 DEF Wrap
  <2>2. CASE ~b
    BY <2>2 DEF Wrap
  <2> QED BY <2>1, <2>2
<1>4. \A l \in 0 .. n - 1 : chain[l + 1] = chain[l] \o Wrap(type.lists[l + 1])
  <2>1. \A l \in 0 .. n - 1 : l + 1 \in 1 .. n /\ (l + 1) - 1 = l
    BY <1>1
  <2> HIDE DEF n
  <2> QED BY <1>2, <2>1
<1> DEFINE T == { l \in 0 .. n : chain[l] \in Seq(Kinds) }
           Begins(m) == \A l \in 0 .. m :
                          /\ Len(chain[l]) <= Len(chain[m])
                          /\ \A i \in 1 .. Len(chain[l]) : chain[m][i] = chain[l][i]
           P == { m \in 0 .. n : Begins(m) }
<1>5. \A l \in 0 .. n : chain[l] \in Seq(Kinds)
  <2>1. 0 \in T
    <3>1. <<>> \in Seq(Kinds)
      OBVIOUS
    <3>2. 0 \in 0 .. n
      BY <1>1
    <3> HIDE DEF Kinds
    <3> QED BY <1>2, <3>1, <3>2
  <2>2. ASSUME NEW l \in 0 .. n - 1, l \in T PROVE l + 1 \in T
    <3>1. chain[l] \in Seq(Kinds)
      BY <2>2
    <3>2. chain[l] \o Wrap(type.lists[l + 1]) \in Seq(Kinds)
      BY <1>3, <3>1, ConcatProperties
    <3>3. l + 1 \in 0 .. n
      BY <1>1
    <3> QED BY <1>4, <3>2, <3>3
  <2> HIDE DEF T
  <2>3. 0 .. n \subseteq T
    BY <1>1, <2>1, <2>2, BoundedInduction
  <2> QED BY <2>3 DEF T
<1> HIDE DEF Kinds
<1>6. \A l \in 0 .. n - 1 :
        /\ Len(chain[l]) \in Nat
        /\ Len(chain[l + 1]) = Len(chain[l]) + Len(Wrap(type.lists[l + 1]))
        /\ \A i \in 1 .. Len(chain[l]) : chain[l + 1][i] = chain[l][i]
        /\ \A i \in 1 .. Len(Wrap(type.lists[l + 1])) :
             chain[l + 1][Len(chain[l]) + i] = Wrap(type.lists[l + 1])[i]
  <2> SUFFICES ASSUME NEW l \in 0 .. n - 1
               PROVE  /\ Len(chain[l]) \in Nat
                      /\ Len(chain[l + 1]) = Len(chain[l]) + Len(Wrap(type.lists[l + 1]))
                      /\ \A i \in 1 .. Len(chain[l]) : chain[l + 1][i] = chain[l][i]
                      /\ \A i \in 1 .. Len(Wrap(type.lists[l + 1])) :
                           chain[l + 1][Len(chain[l]) + i] = Wrap(type.lists[l + 1])[i]
    OBVIOUS
  <2> DEFINE a == chain[l]
             b == Wrap(type.lists[l + 1])
  <2>1. a \in Seq(Kinds) /\ b \in Seq(Kinds) /\ chain[l + 1] = a \o b
    <3>1. l \in 0 .. n
      BY <1>1
    <3> QED BY <1>3, <1>4, <1>5, <3>1
  <2> HIDE DEF a, b
  <2>2. /\ Len(a) \in Nat /\ Len(a \o b) = Len(a) + Len(b)
        /\ \A i \in 1 .. Len(a) : (a \o b)[i] = a[i]
        /\ \A i \in 1 .. Len(b) : (a \o b)[Len(a) + i] = b[i]
    BY <2>1
  <2> QED BY <2>1, <2>2 DEF a, b
<1>7. \A m \in 0 .. n : Begins(m)
  <2>1. 0 \in P
    <3>1. Begins(0)
      BY <1>2
    <3> QED BY <1>1, <3>1
  <2>2. ASSUME NEW m \in 0 .. n - 1, m \in P PROVE m + 1 \in P
    <3>1. ASSUME NEW l \in 0 .. m + 1
          PROVE  /\ Len(chain[l]) <= Len(chain[m + 1])
                 /\ \A i \in 1 .. Len(chain[l]) : chain[m + 1][i] = chain[l][i]
      <4>1. CASE l = m + 1
        <5>1. Len(chain[m + 1]) \in Nat
          <6>1. m + 1 \in 0 .. n
            BY <1>1
          <6> QED BY <1>5, <6>1
        <5> QED BY <4>1, <5>1
      <4>2. CASE l # m + 1
        <5>1. l \in 0 .. m /\ l \in 0 .. n
          BY <1>1, <4>2
        <5>2. /\ Len(chain[l]) <= Len(chain[m])
              /\ \A i \in 1 .. Len(chain[l]) : chain[m][i] = chain[l][i]
          BY <2>2, <5>1
        <5>3. Len(chain[l]) \in Nat /\ Len(chain[m]) \in Nat /\ Len(Wrap(type.lists[m + 1])) \in Nat
          BY <1>3, <1>5, <1>6, <5>1
        <5>4. Len(chain[m]) <= Len(chain[m + 1])
          <6> DEFINE x == Len(chain[m])
                     y == Len(Wrap(type.lists[m + 1]))
          <6>1. Len(chain[m + 1]) = x + y /\ x \in Nat /\ y \in Nat
            BY <1>6, <5>3
          <6> HIDE DEF x, y
          <6>2. x <= x + y
            BY <6>1
          <6> QED BY <6>1, <6>2 DEF x
        <5>5. \A i \in 1 .. Len(chain[m]) : chain[m + 1][i] = chain[m][i]
          BY <1>6
        <5>6. Len(chain[m + 1]) \in Nat
          BY <1>6, <5>3
        <5> QED BY <5>2, <5>3, <5>4, <5>5, <5>6
      <4> QED BY <4>1, <4>2
    <3>2. Begins(m + 1) /\ m + 1 \in 0 .. n
      BY <1>1, <3>1
    <3> HIDE DEF Begins
    <3> QED BY <3>2
  <2> HIDE DEF P
  <2>3. 0 .. n \subseteq P
    BY <1>1, <2>1, <2>2, BoundedInduction
  <2> HIDE DEF Begins
  <2> QED BY <2>3 DEF P
<1> DEFINE name == Named(type)
           kinds == chain[n]
           Words == Kinds \cup {"NON_NULL", type.name}
<1>8. name \in Seq(Words) /\ Len(name) \in Nat
  <2>1. CASE type.nonNull
    BY <2>1 DEF Named
  <2>2. CASE ~type.nonNull
    BY <2>2 DEF Named
  <2> QED BY <2>1, <2>2
<1>9. kinds \in Seq(Kinds) /\ kinds \in Seq(Words) /\ Len(kinds) \in Nat
  <2>1. kinds \in Seq(Kinds)
    BY <1>1, <1>5
  <2>2. Kinds \subseteq Words
    OBVIOUS
  <2> HIDE DEF kinds, Words
  <2> QED BY <2>1, <2>2
<1>10. ref = kinds \o name
  BY <1>2
<1>11. /\ Len(ref) = Len(kinds) + Len(name) /\ ref \in Seq(Words)
       /\ \A i \in 1 .. Len(kinds) : ref[i] = kinds[i] /\ kinds[i] \in Kinds
       /\ \A i \in 1 .. Len(name) : ref[Len(kinds) + i] = name[i]
  <2> HIDE DEF kinds, name, ref, Words
  <2> QED BY <1>8, <1>9, <1>10
<1> HIDE DEF ref, name
<1>12. ASSUME NEW l \in 0 .. n - 1
       PROVE  \A i \in 1 .. Len(Wrap(type.lists[l + 1])) :
                ref[Len(chain[l]) + i] = Wrap(type.lists[l + 1])[i]
  <2> SUFFICES ASSUME NEW i \in 1 .. Len(Wrap(type.lists[l + 1]))
               PROVE  ref[Len(chain[l]) + i] = Wrap(type.lists[l + 1])[i]
    OBVIOUS
  <2>1. l + 1 \in 0 .. n /\ l \in 0 .. n
    BY <1>1
  <2>2. /\ Len(chain[l]) \in Nat /\ Len(chain[l + 1]) = Len(chain[l]) + Len(Wrap(type.lists[l + 1]))
        /\ chain[l + 1][Len(chain[l]) + i] = Wrap(type.lists[l + 1])[i]
    BY <1>6
  <2>3. Len(Wrap(type.lists[l + 1])) \in Nat
    BY <1>3
  <2>4. Len(chain[l]) + i \in 1 .. Len(chain[l + 1])
    <3> DEFINE x == Len(chain[l])
               y == Len(Wrap(type.lists[l + 1]))
    <3>1. x \in Nat /\ y \in Nat /\ i \in 1 .. y /\ Len(chain[l + 1]) = x + y
      BY <2>2, <2>3
    <3> HIDE DEF x, y
    <3>2. x + i \in 1 .. x + y
      BY <3>1
    <3> QED BY <3>1, <3>2 DEF x
  <2>5. Len(chain[l + 1]) <= Len(kinds) /\ \A j \in 1 .. Len(chain[l + 1]) : kinds[j] = chain[l + 1][j]
    <3>1. Begins(n)
      <4> HIDE DEF Begins
      <4> QED BY <1>1, <1>7
    <3> QED BY <2>1, <3>1
  <2>6. Len(chain[l]) + i \in 1 .. Len(kinds)
    <3> DEFINE x == Len(chain[l])
               y == Len(chain[l + 1])
               z == Len(kinds)
    <3>1. x + i \in 1 .. y /\ y <= z /\ z \in Nat /\ y \in Nat
      <4>1. y \in Nat
        <5>1. \A p, q \in Nat : p + q \in Nat
          OBVIOUS
        <5> QED BY <2>2, <2>3, <5>1, Zenon
      <4> QED BY <1>9, <2>4, <2>5, <4>1
    <3> HIDE DEF x, y, z
    <3>2. x + i \in 1 .. z
      BY <3>1
    <3> QED BY <3>2 DEF x, z
  <2> QED BY <1>11, <2>2, <2>4, <2>5, <2>6
<1>13. \A l \in 0 .. n : chain[l] \in Seq({"NON_NULL", "LIST"})
  BY <1>5 DEF Kinds
<1>14. \A i \in 1 .. Len(kinds) : ref[i] \in {"NON_NULL", "LIST"}
  BY <1>11 DEF Kinds
<1>15. /\ n \in Nat /\ type.lists \in Seq(BOOLEAN)
       /\ chain[0] = <<>> /\ \A l \in 0 .. n : chain[l] \in Seq({"NON_NULL", "LIST"})
       /\ \A l \in 0 .. n - 1 :
            /\ Len(chain[l + 1]) = Len(chain[l]) + Len(Wrap(type.lists[l + 1]))
            /\ \A i \in 1 .. Len(Wrap(type.lists[l + 1])) :
                 ref[Len(chain[l]) + i] = Wrap(type.lists[l + 1])[i]
       /\ Len(ref) = Len(chain[n]) + Len(Named(type))
       /\ ref \in Seq({"NON_NULL", "LIST"} \cup {"NON_NULL", type.name})
       /\ \A i \in 1 .. Len(chain[n]) : ref[i] \in {"NON_NULL", "LIST"}
       /\ \A i \in 1 .. Len(Named(type)) : ref[Len(chain[n]) + i] = Named(type)[i]
  BY <1>1, <1>2, <1>6, <1>11, <1>12, <1>13, <1>14 DEF name, Kinds
<1> QED BY <1>15 DEF ref

\* What parseTypeRef makes of the kinds of a list, or of the name.
Read(lists, nonNull, name) == [lists |-> lists, nonNull |-> nonNull, name |-> name]

LEMMA NonNullParsed ==
  ASSUME NEW lists, NEW name
  PROVE  /\ ParsePart(ParsePart(Read(lists, FALSE, NoName), "NON_NULL"), "LIST")
              = Read(Append(lists, TRUE), FALSE, NoName)
         /\ name # "NON_NULL" /\ name # "LIST" =>
              ParsePart(ParsePart(Read(lists, FALSE, NoName), "NON_NULL"), name) = Read(lists, TRUE, name)
<1> DEFINE p == Read(lists, FALSE, NoName)
           q == ParsePart(p, "NON_NULL")
<1>1. q = [p EXCEPT !.nonNull = TRUE]
  BY PartIs, Zenon
<1>2. q = [lists |-> lists, nonNull |-> TRUE, name |-> NoName]
  BY <1>1 DEF Read
<1> HIDE DEF q
<1>3. /\ ParsePart(q, "LIST") = [q EXCEPT !.lists = Append(q.lists, q.nonNull), !.nonNull = FALSE]
      /\ name # "NON_NULL" /\ name # "LIST" => ParsePart(q, name) = [q EXCEPT !.name = name]
  BY PartIs, Zenon
<1>4. q.lists = lists /\ q.nonNull = TRUE
  BY <1>2
<1>5. /\ ParsePart(q, "LIST") = Read(Append(lists, TRUE), FALSE, NoName)
      /\ name # "NON_NULL" /\ name # "LIST" => ParsePart(q, name) = Read(lists, TRUE, name)
  BY <1>2, <1>3, <1>4 DEF Read
<1> QED BY <1>5, Zenon DEF q

LEMMA NullableParsed ==
  ASSUME NEW lists, NEW name
  PROVE  /\ ParsePart(Read(lists, FALSE, NoName), "LIST") = Read(Append(lists, FALSE), FALSE, NoName)
         /\ name # "NON_NULL" /\ name # "LIST" =>
              ParsePart(Read(lists, FALSE, NoName), name) = Read(lists, FALSE, name)
<1> DEFINE p == Read(lists, FALSE, NoName)
<1>1. /\ ParsePart(p, "LIST") = [p EXCEPT !.lists = Append(p.lists, p.nonNull), !.nonNull = FALSE]
      /\ name # "NON_NULL" /\ name # "LIST" => ParsePart(p, name) = [p EXCEPT !.name = name]
  BY PartIs, Zenon
<1>2. p.lists = lists /\ p.nonNull = FALSE
  BY DEF Read
<1> QED BY <1>1, <1>2 DEF Read

LEMMA WrapIs ==
  ASSUME NEW b
  PROVE  /\ b => Len(Wrap(b)) = 2 /\ Wrap(b)[1] = "NON_NULL" /\ Wrap(b)[2] = "LIST"
         /\ ~b => Len(Wrap(b)) = 1 /\ Wrap(b)[1] = "LIST"
<1>1. CASE b
  BY <1>1 DEF Wrap
<1>2. CASE ~b
  BY <1>2 DEF Wrap
<1> QED BY <1>1, <1>2

\* Introspection and what reads it are inverse on types.
LEMMA RoundTrip ==
  ASSUME NEW type, IsTypeRef(type)
  PROVE  ParseTypeRef(ResolveTypeRef(type)) = type
<1> DEFINE n == Len(type.lists)
           ref == ResolveTypeRef(type)
<1>1. PICK chain :
        /\ n \in Nat /\ type.lists \in Seq(BOOLEAN)
        /\ chain[0] = <<>> /\ \A l \in 0 .. n : chain[l] \in Seq({"NON_NULL", "LIST"})
        /\ \A l \in 0 .. n - 1 :
             /\ Len(chain[l + 1]) = Len(chain[l]) + Len(Wrap(type.lists[l + 1]))
             /\ \A i \in 1 .. Len(Wrap(type.lists[l + 1])) :
                  ref[Len(chain[l]) + i] = Wrap(type.lists[l + 1])[i]
        /\ Len(ref) = Len(chain[n]) + Len(Named(type))
        /\ ref \in Seq({"NON_NULL", "LIST"} \cup {"NON_NULL", type.name})
        /\ \A i \in 1 .. Len(chain[n]) : ref[i] \in {"NON_NULL", "LIST"}
        /\ \A i \in 1 .. Len(Named(type)) : ref[Len(chain[n]) + i] = Named(type)[i]
  BY RefIs
<1>2. \A b : Len(Wrap(b)) \in {1, 2}
  <2> SUFFICES ASSUME NEW b PROVE Len(Wrap(b)) \in {1, 2}
    OBVIOUS
  <2>1. CASE b
    BY <2>1 DEF Wrap
  <2>2. CASE ~b
    BY <2>2 DEF Wrap
  <2> QED BY <2>1, <2>2
<1>3. Len(Named(type)) \in {1, 2}
  <2>1. CASE type.nonNull
    BY <2>1 DEF Named
  <2>2. CASE ~type.nonNull
    BY <2>2 DEF Named
  <2> QED BY <2>1, <2>2
<1> HIDE DEF ref
<1>4. \A l \in 0 .. n : Len(chain[l]) \in Nat
  BY <1>1
<1>5. Len(ref) \in Nat
  <2>1. n \in 0 .. n
    BY <1>1
  <2>2. Len(chain[n]) \in Nat
    BY <1>4, <2>1
  <2> QED BY <1>1, <1>3, <2>2
<1>6. PICK parsed :
        /\ ParseTypeRef(ref) = parsed[Len(ref)]
        /\ parsed[0] = Unread
        /\ \A i \in 1 .. Len(ref) : parsed[i] = ParsePart(parsed[i - 1], ref[i])
  BY <1>5, ParseWalks
<1> DEFINE First(l) == Read(SubSeq(type.lists, 1, l), FALSE, NoName)
           E == { l \in 0 .. n : Len(chain[l]) <= Len(ref) - Len(Named(type)) => parsed[Len(chain[l])] = First(l) }
<1>7. 0 .. n \subseteq E
  <2>1. 0 \in E
    <3>1. SubSeq(type.lists, 1, 0) = <<>> /\ Len(chain[0]) = 0
      BY <1>1
    <3>2. parsed[Len(chain[0])] = First(0)
      BY <1>6, <3>1, Zenon DEF Unread, Read
    <3> HIDE DEF First
    <3> QED BY <1>1, <3>2
  <2>2. ASSUME NEW l \in 0 .. n - 1, l \in E PROVE l + 1 \in E
    <3>1. SUFFICES ASSUME Len(chain[l + 1]) <= Len(ref) - Len(Named(type)) PROVE parsed[Len(chain[l + 1])] = First(l + 1)
      <4>1. l + 1 \in 0 .. n
        <5> HIDE DEF n
        <5> QED BY <1>1
      <4> HIDE DEF First
      <4> QED BY <4>1
    <3> DEFINE b == type.lists[l + 1]
               at == Len(chain[l])
               more == Len(Wrap(b))
               size == Len(ref)
    <3>2. l \in 0 .. n /\ l + 1 \in 1 .. n
      BY <1>1
    <3>3. b \in BOOLEAN
      BY <1>1, <3>2
    <3>4. at \in Nat /\ more \in {1, 2} /\ Len(chain[l + 1]) = at + more
      BY <1>1, <1>2, <1>4, <3>2
    <3>5. \A i \in 1 .. more : ref[at + i] = Wrap(b)[i]
      BY <1>1
    <3>6. at + more <= size - Len(Named(type)) /\ size \in Nat
      BY <1>5, <3>1, <3>4
    <3> HIDE DEF b, at, more, size
    <3>7. \A i \in 1 .. more : at + i \in 1 .. size
      BY <1>3, <3>4, <3>6
    <3>8. \A i \in 1 .. more : parsed[at + i] = ParsePart(parsed[(at + i) - 1], ref[at + i])
      <4> SUFFICES ASSUME NEW i \in 1 .. more PROVE parsed[at + i] = ParsePart(parsed[(at + i) - 1], ref[at + i])
        OBVIOUS
      <4> DEFINE x == at + i
      <4>1. x \in 1 .. Len(ref)
        BY <3>7 DEF size
      <4> HIDE DEF x
      <4>2. parsed[x] = ParsePart(parsed[x - 1], ref[x])
        BY <1>6, <4>1, Zenon
      <4> QED BY <4>2 DEF x
    <3>9. parsed[at] = First(l)
      <4>1. at <= size - Len(Named(type))
        BY <1>3, <3>4, <3>6
      <4> HIDE DEF First
      <4> QED BY <2>2, <4>1 DEF at, size
    <3>10. parsed[at + more] = Read(Append(SubSeq(type.lists, 1, l), b), FALSE, NoName)
      <4>1. CASE b
        <5>1. more = 2 /\ Wrap(b)[1] = "NON_NULL" /\ Wrap(b)[2] = "LIST" /\ b = TRUE
          BY <3>3, <4>1, WrapIs, Zenon DEF more
        <5>2. 1 \in 1 .. 2 /\ 2 \in 1 .. 2
          OBVIOUS
        <5>3. ref[at + 1] = "NON_NULL" /\ ref[at + 2] = "LIST"
          BY <3>5, <5>1, <5>2, Zenon
        <5>4. parsed[at + 1] = ParsePart(parsed[at], ref[at + 1]) /\ parsed[at + 2] = ParsePart(parsed[at + 1], ref[at + 2])
          <6>1. (at + 1) - 1 = at /\ (at + 2) - 1 = at + 1
            BY <3>4
          <6> QED BY <3>8, <5>1, <5>2, <6>1, Zenon
        <5>5. parsed[at + 2] = Read(Append(SubSeq(type.lists, 1, l), TRUE), FALSE, NoName)
          BY <3>9, <5>3, <5>4, NonNullParsed, Zenon
        <5> QED BY <5>1, <5>5, Zenon
      <4>2. CASE ~b
        <5>1. more = 1 /\ Wrap(b)[1] = "LIST" /\ b = FALSE
          BY <3>3, <4>2, WrapIs, Zenon DEF more
        <5>2. 1 \in 1 .. 1 /\ (at + 1) - 1 = at
          BY <3>4
        <5>3. ref[at + 1] = "LIST" /\ parsed[at + 1] = ParsePart(parsed[at], ref[at + 1])
          BY <3>5, <3>8, <5>1, <5>2, Zenon
        <5>4. parsed[at + 1] = Read(Append(SubSeq(type.lists, 1, l), FALSE), FALSE, NoName)
          BY <3>9, <5>3, NullableParsed, Zenon
        <5> QED BY <5>1, <5>4, Zenon
      <4> QED BY <4>1, <4>2, Zenon
    <3>11. Append(SubSeq(type.lists, 1, l), b) = SubSeq(type.lists, 1, l + 1)
      BY <1>1, <3>2 DEF b
    <3> QED BY <3>4, <3>10, <3>11, Zenon
  <2> HIDE DEF E
  <2> QED BY <1>1, <2>1, <2>2, BoundedInduction
<1> DEFINE c == Len(chain[n])
<1>8. c \in Nat /\ Len(ref) = c + Len(Named(type))
  BY <1>1, <1>4
<1>9. parsed[c] = Read(type.lists, FALSE, NoName)
  <2>1. n \in E
    <3>1. n \in 0 .. n
      BY <1>1
    <3> HIDE DEF E
    <3> QED BY <1>7, <3>1
  <2>2. Len(chain[n]) <= Len(ref) - Len(Named(type))
    BY <1>3, <1>8
  <2>3. parsed[c] = First(n)
    BY <2>1, <2>2, Zenon
  <2>4. SubSeq(type.lists, 1, n) = type.lists
    BY <1>1
  <2> QED BY <2>3, <2>4, Zenon
<1>10. /\ \A i \in 1 .. Len(Named(type)) : parsed[c + i] = ParsePart(parsed[(c + i) - 1], ref[c + i])
       /\ \A i \in 1 .. Len(Named(type)) : ref[c + i] = Named(type)[i]
  <2>1. \A i \in 1 .. Len(Named(type)) : ref[c + i] = Named(type)[i]
    BY <1>1, Zenon
  <2> HIDE DEF c
  <2>2. \A i \in 1 .. Len(Named(type)) : c + i \in 1 .. Len(ref)
    BY <1>3, <1>8
  <2>3. \A i \in 1 .. Len(Named(type)) : parsed[c + i] = ParsePart(parsed[(c + i) - 1], ref[c + i])
    <3> SUFFICES ASSUME NEW i \in 1 .. Len(Named(type)) PROVE parsed[c + i] = ParsePart(parsed[(c + i) - 1], ref[c + i])
      OBVIOUS
    <3> DEFINE x == c + i
    <3>1. x \in 1 .. Len(ref)
      BY <2>2
    <3> HIDE DEF x
    <3>2. parsed[x] = ParsePart(parsed[x - 1], ref[x])
      BY <1>6, <3>1, Zenon
    <3> QED BY <3>2 DEF x
  <2> QED BY <2>1, <2>3
<1> HIDE DEF c
<1>11. /\ type.nonNull \in BOOLEAN
       /\ type.name # NoName /\ type.name # "NON_NULL" /\ type.name # "LIST"
       /\ type = Read(type.lists, type.nonNull, type.name)
  BY TypeRefIs, Zenon DEF Read
<1>13. /\ Len(Named(type)) = 1 => 1 \in 1 .. Len(Named(type))
       /\ Len(Named(type)) = 2 => 1 \in 1 .. Len(Named(type)) /\ 2 \in 1 .. Len(Named(type))
  <2>1. 1 \in 1 .. 1 /\ 1 \in 1 .. 2 /\ 2 \in 1 .. 2
    OBVIOUS
  <2> QED BY <2>1, Zenon
<1>12. parsed[Len(ref)] = Read(type.lists, type.nonNull, type.name)
  <2>1. CASE type.nonNull
    <3>1. Len(Named(type)) = 2 /\ Named(type)[1] = "NON_NULL" /\ Named(type)[2] = type.name
      BY <2>1 DEF Named
    <3>2. Len(ref) = c + 2 /\ type.nonNull = TRUE
      <4>1. Len(ref) = c + 2
        BY <1>8, <3>1
      <4> QED BY <1>11, <2>1, <4>1, Zenon
    <3>3. /\ parsed[c + 1] = ParsePart(parsed[c], ref[c + 1]) /\ parsed[c + 2] = ParsePart(parsed[c + 1], ref[c + 2])
          /\ ref[c + 1] = "NON_NULL" /\ ref[c + 2] = type.name
      <4>1. (c + 1) - 1 = c /\ (c + 2) - 1 = c + 1
        BY <1>8
      <4> QED BY <1>10, <1>13, <3>1, <4>1, Zenon
    <3>4. parsed[c + 2] = Read(type.lists, TRUE, type.name)
      <4>1. ParsePart(ParsePart(Read(type.lists, FALSE, NoName), "NON_NULL"), type.name)
              = Read(type.lists, TRUE, type.name)
        BY <1>11, NonNullParsed, Zenon
      <4> QED BY <1>9, <3>3, <4>1, Zenon
    <3> QED BY <3>2, <3>4, Zenon
  <2>2. CASE ~type.nonNull
    <3>1. Len(Named(type)) = 1 /\ Named(type)[1] = type.name
      BY <2>2 DEF Named
    <3>2. (c + 1) - 1 = c /\ 1 \in 1 .. 1
      BY <1>8
    <3>3. Len(ref) = c + 1 /\ type.nonNull = FALSE
      <4>1. Len(ref) = c + 1
        BY <1>8, <3>1
      <4> QED BY <1>11, <2>2, <4>1, Zenon
    <3>4. parsed[c + 1] = ParsePart(parsed[c], ref[c + 1]) /\ ref[c + 1] = type.name
      BY <1>10, <1>13, <3>1, <3>2, Zenon
    <3>5. parsed[c + 1] = Read(type.lists, FALSE, type.name)
      BY <1>9, <1>11, <3>4, NullableParsed, Zenon
    <3> QED BY <3>3, <3>5, Zenon
  <2> QED BY <2>1, <2>2, Zenon
<1> QED BY <1>6, <1>11, <1>12, Zenon DEF ref, Read

\* All but the last part of a reference are kinds.
LEMMA RefShape ==
  ASSUME NEW type, IsTypeRef(type)
  PROVE  /\ Len(ResolveTypeRef(type)) \in Nat \ {0}
         /\ \E S : ResolveTypeRef(type) \in Seq(S)
         /\ \A i \in 1 .. Len(ResolveTypeRef(type)) - 1 :
              ResolveTypeRef(type)[i] = "NON_NULL" \/ ResolveTypeRef(type)[i] = "LIST"
<1> DEFINE n == Len(type.lists)
           ref == ResolveTypeRef(type)
<1>1. PICK chain :
        /\ n \in Nat /\ type.lists \in Seq(BOOLEAN)
        /\ chain[0] = <<>> /\ \A l \in 0 .. n : chain[l] \in Seq({"NON_NULL", "LIST"})
        /\ \A l \in 0 .. n - 1 :
             /\ Len(chain[l + 1]) = Len(chain[l]) + Len(Wrap(type.lists[l + 1]))
             /\ \A i \in 1 .. Len(Wrap(type.lists[l + 1])) :
                  ref[Len(chain[l]) + i] = Wrap(type.lists[l + 1])[i]
        /\ Len(ref) = Len(chain[n]) + Len(Named(type))
        /\ ref \in Seq({"NON_NULL", "LIST"} \cup {"NON_NULL", type.name})
        /\ \A i \in 1 .. Len(chain[n]) : ref[i] \in {"NON_NULL", "LIST"}
        /\ \A i \in 1 .. Len(Named(type)) : ref[Len(chain[n]) + i] = Named(type)[i]
  BY RefIs
<1> HIDE DEF ref
<1> DEFINE c == Len(chain[n])
           m == Len(Named(type))
<1>2. c \in Nat
  <2>1. n \in 0 .. n
    BY <1>1
  <2>2. chain[n] \in Seq({"NON_NULL", "LIST"})
    BY <1>1, <2>1, Zenon
  <2> QED BY <2>2
<1>3. m = 1 \/ (m = 2 /\ Named(type)[1] = "NON_NULL")
  <2>1. CASE type.nonNull
    BY <2>1 DEF Named
  <2>2. CASE ~type.nonNull
    BY <2>2 DEF Named
  <2> QED BY <2>1, <2>2
<1>4. /\ Len(ref) = c + m
      /\ \A i \in 1 .. c : ref[i] \in {"NON_NULL", "LIST"}
      /\ \A i \in 1 .. m : ref[c + i] = Named(type)[i]
  BY <1>1, Zenon
<1> HIDE DEF c, m
<1>5. Len(ref) \in Nat \ {0}
  BY <1>2, <1>3, <1>4
<1>6. ASSUME NEW i \in 1 .. Len(ref) - 1 PROVE ref[i] = "NON_NULL" \/ ref[i] = "LIST"
  <2>1. CASE i <= c
    <3>1. i \in 1 .. c
      BY <1>2, <2>1
    <3> QED BY <1>4, <3>1
  <2>2. CASE i > c
    <3>1. m = 2 /\ i = c + 1 /\ 1 \in 1 .. m
      BY <1>2, <1>3, <1>4, <2>2
    <3>2. ref[c + 1] = Named(type)[1]
      BY <1>4, <3>1, Zenon
    <3>3. ref[i] = "NON_NULL"
      BY <1>3, <3>1, <3>2
    <3> QED BY <3>3
  <2> QED BY <1>2, <2>1, <2>2
<1>7. \E S : ref \in Seq(S)
  BY <1>1, Zenon
<1> QED BY <1>5, <1>6, <1>7, Zenon DEF ref

\* A chain of kinds has no name.
LEMMA KindsOnly ==
  ASSUME NEW ref, Len(ref) \in Nat,
         \A i \in 1 .. Len(ref) : ref[i] = "NON_NULL" \/ ref[i] = "LIST"
  PROVE  ParseTypeRef(ref).name = NoName
<1>1. PICK parsed :
        /\ ParseTypeRef(ref) = parsed[Len(ref)]
        /\ parsed[0] = Unread
        /\ \A i \in 1 .. Len(ref) : parsed[i] = ParsePart(parsed[i - 1], ref[i])
  BY ParseWalks
<1> DEFINE n == Len(ref)
           Fresh(type) == \E lists, nonNull : type = Read(lists, nonNull, NoName)
           E == { i \in 0 .. n : Fresh(parsed[i]) }
<1>2. 0 \in E
  <2>1. parsed[0] = Read(<<>>, FALSE, NoName)
    BY <1>1, Zenon DEF Unread, Read
  <2>2. Fresh(parsed[0])
    BY <2>1, Zenon
  <2> HIDE DEF Fresh
  <2> QED BY <2>2
<1>3. ASSUME NEW i \in 0 .. n - 1, i \in E PROVE i + 1 \in E
  <2>1. i + 1 \in 1 .. n /\ (i + 1) - 1 = i
    OBVIOUS
  <2>2. parsed[i + 1] = ParsePart(parsed[i], ref[i + 1])
    <3> HIDE DEF E
    <3> QED BY <1>1, <2>1, Zenon
  <2>3. Fresh(parsed[i])
    BY <1>3, Zenon
  <2>4. PICK lists, nonNull : parsed[i] = Read(lists, nonNull, NoName)
    BY <2>3, Zenon
  <2> DEFINE p == Read(lists, nonNull, NoName)
  <2>5. /\ ParsePart(p, "NON_NULL") = [p EXCEPT !.nonNull = TRUE]
        /\ ParsePart(p, "LIST") = [p EXCEPT !.lists = Append(p.lists, p.nonNull), !.nonNull = FALSE]
    BY PartIs, Zenon
  <2>6. /\ ParsePart(p, "NON_NULL") = Read(lists, TRUE, NoName)
        /\ ParsePart(p, "LIST") = Read(Append(p.lists, p.nonNull), FALSE, NoName)
    BY <2>5 DEF Read
  <2>7. ref[i + 1] = "NON_NULL" \/ ref[i + 1] = "LIST"
    <3> HIDE DEF E
    <3> QED BY <2>1, Zenon
  <2>8. Fresh(parsed[i + 1])
    <3> HIDE DEF p
    <3>1. CASE ref[i + 1] = "NON_NULL"
      <4>1. parsed[i + 1] = Read(lists, TRUE, NoName)
        BY <2>2, <2>4, <2>6, <3>1, Zenon DEF p
      <4> QED BY <4>1, Zenon
    <3>2. CASE ref[i + 1] = "LIST"
      <4>1. parsed[i + 1] = Read(Append(p.lists, p.nonNull), FALSE, NoName)
        BY <2>2, <2>4, <2>6, <3>2, Zenon DEF p
      <4> QED BY <4>1, Zenon
    <3> QED BY <2>7, <3>1, <3>2, Zenon
  <2>9. i + 1 \in 0 .. n
    OBVIOUS
  <2> HIDE DEF Fresh
  <2> QED BY <2>8, <2>9
<1>4. Fresh(parsed[n])
  <2> HIDE DEF E, Fresh
  <2>1. 0 .. n \subseteq E
    BY <1>2, <1>3, BoundedInduction
  <2>2. n \in 0 .. n
    OBVIOUS
  <2> QED BY <2>1, <2>2 DEF E
<1>5. PICK lists, nonNull : ParseTypeRef(ref) = Read(lists, nonNull, NoName)
  BY <1>1, <1>4, Zenon
<1>6. Read(lists, nonNull, NoName).name = NoName
  BY DEF Read
<1> QED BY <1>5, <1>6, Zenon

\* What the gateway reads of a service's answer: the type, if it is no longer than
\* what was asked for, and otherwise no name.
LEMMA TypeRead ==
  ASSUME NEW type, IsTypeRef(type)
  PROVE  /\ Len(ResolveTypeRef(type)) > TypeRefDepth + 1 =>
              ParseTypeRef(Asked(ResolveTypeRef(type))).name = NoName
         /\ ~(Len(ResolveTypeRef(type)) > TypeRefDepth + 1) =>
              /\ ParseTypeRef(Asked(ResolveTypeRef(type))) = type
              /\ ParseTypeRef(Asked(ResolveTypeRef(type))).name # NoName
<1> DEFINE ref == ResolveTypeRef(type)
           n == Len(ref)
<1>1. /\ n \in Nat \ {0}
      /\ \E S : ref \in Seq(S)
      /\ \A i \in 1 .. n - 1 : ref[i] = "NON_NULL" \/ ref[i] = "LIST"
  BY RefShape, Zenon
<1>2. ParseTypeRef(ref) = type /\ type.name # NoName
  BY RoundTrip, TypeRefIs, Zenon
<1> HIDE DEF ref
<1>3. PICK S : ref \in Seq(S)
  BY <1>1, Zenon
<1>4. CASE n > TypeRefDepth + 1
  <2>1. Asked(ref) = SubSeq(ref, 1, 8)
    BY <1>4 DEF Asked, TypeRefDepth
  <2>2. 8 <= n - 1 /\ n \in Nat
    BY <1>1, <1>4 DEF TypeRefDepth
  <2>3. Len(SubSeq(ref, 1, 8)) = 8 /\ \A i \in 1 .. 8 : SubSeq(ref, 1, 8)[i] = ref[i]
    BY <1>3, <2>2
  <2>4. ParseTypeRef(SubSeq(ref, 1, 8)).name = NoName
    <3> DEFINE cut == SubSeq(ref, 1, 8)
    <3>1. \A i \in 1 .. 8 : i \in 1 .. n - 1
      BY <2>2
    <3>2. \A i \in 1 .. Len(cut) : cut[i] = "NON_NULL" \/ cut[i] = "LIST"
      BY <1>1, <2>3, <3>1, Zenon
    <3>3. Len(cut) \in Nat
      BY <2>3
    <3> HIDE DEF cut
    <3> QED BY <3>2, <3>3, KindsOnly DEF cut
  <2> QED BY <1>4, <2>1, <2>4, Zenon DEF ref
<1>5. CASE ~(n > TypeRefDepth + 1)
  <2>1. Asked(ref) = ref
    <3>1. CASE n > TypeRefDepth
      <4>1. n = 8
        <5>1. n \in Nat
          BY <1>1
        <5> HIDE DEF n
        <5> QED BY <1>5, <3>1, <5>1 DEF TypeRefDepth
      <4>2. Asked(ref) = SubSeq(ref, 1, 8)
        BY <3>1 DEF Asked, TypeRefDepth
      <4>3. SubSeq(ref, 1, Len(ref)) = ref
        BY <1>3
      <4> QED BY <4>1, <4>2, <4>3
    <3>2. CASE ~(n > TypeRefDepth)
      BY <3>2 DEF Asked
    <3> QED BY <3>1, <3>2
  <2> QED BY <1>2, <1>5, <2>1, Zenon DEF ref
<1> QED BY <1>4, <1>5, Zenon DEF ref
-----------------------------------------------------------------------------
\* Types as they are on the wire.

LEMMA DefIs ==
  ASSUME NEW name, NEW def, IsDef(name, def)
  PROVE  /\ def = [kind |-> def.kind, interfaces |-> def.interfaces, types |-> def.types,
                   values |-> def.values, fields |-> def.fields]
         /\ def.fields = [f \in DOMAIN def.fields |-> def.fields[f]]
         /\ \A f \in DOMAIN def.fields : IsField(def.fields[f])
<1>1. def = [x \in {"kind", "interfaces", "types", "values", "fields"} |-> def[x]]
  BY DEF IsDef, IsMap
<1> QED BY <1>1 DEF IsDef, IsMap

LEMMA FieldIs ==
  ASSUME NEW field, IsField(field)
  PROVE  /\ field = [type |-> field.type, args |-> field.args]
         /\ IsTypeRef(field.type)
         /\ field.args = [a \in DOMAIN field.args |-> field.args[a]]
         /\ \A a \in DOMAIN field.args : IsTypeRef(field.args[a])
<1>1. field = [x \in {"type", "args"} |-> field[x]]
  BY DEF IsField, IsMap
<1> QED BY <1>1 DEF IsField, IsMap

LEMMA FieldRead ==
  ASSUME NEW field, IsField(field), NEW type, NEW args,
         ParseTypeRef(type) = field.type,
         DOMAIN args = DOMAIN field.args,
         \A a \in DOMAIN field.args : ParseTypeRef(args[a]) = field.args[a]
  PROVE  ParseField([type |-> type, args |-> args]) = field
<1>1. ParseField([type |-> type, args |-> args])
        = [type |-> ParseTypeRef(type), args |-> [a \in DOMAIN args |-> ParseTypeRef(args[a])]]
  BY DEF ParseField, MapValues
<1>2. [a \in DOMAIN args |-> ParseTypeRef(args[a])] = field.args
  BY FieldIs
<1> QED BY <1>1, <1>2, FieldIs

\* A definition that is sent as GraphQL has it is read as it was.
LEMMA DefRead ==
  ASSUME NEW name, NEW def, IsDef(name, def), NEW full, NEW wire,
         full.kind = def.kind, full.interfaces = def.interfaces,
         def.kind = "UNION" => full.possibleTypes = def.types,
         full.enumValues = def.values,
         full.fields = IF def.kind = "OBJECT" \/ def.kind = "INTERFACE" THEN wire ELSE <<>>,
         full.inputFields = IF def.kind = "INPUT_OBJECT" THEN wire ELSE <<>>,
         DOMAIN wire = DOMAIN def.fields,
         \A f \in DOMAIN def.fields : ParseField(wire[f]) = def.fields[f]
  PROVE  ParseType(full) = def
<1> DEFINE both == Over(full.fields, full.inputFields)
<1>1. ParseType(full) =
        [kind       |-> full.kind,
         interfaces |-> full.interfaces,
         types      |-> IF full.kind = "UNION" THEN full.possibleTypes ELSE {},
         values     |-> IF full.kind = "ENUM" THEN full.enumValues ELSE {},
         fields     |-> [f \in DOMAIN both |-> ParseField(both[f])]]
  BY DEF ParseType, MapValues
<1>2. /\ def.kind # "UNION" => def.types = {}
      /\ def.kind # "ENUM" => def.values = {}
      /\ def.kind \notin {"OBJECT", "INTERFACE", "INPUT_OBJECT"} => DOMAIN def.fields = {}
  BY DEF IsDef
<1>3. DOMAIN both = DOMAIN def.fields /\ \A f \in DOMAIN both : both[f] = wire[f]
  <2>1. DOMAIN <<>> = {}
    OBVIOUS
  <2>2. CASE def.kind = "OBJECT" \/ def.kind = "INTERFACE"
    <3>1. full.fields = wire /\ full.inputFields = <<>>
      BY <2>2
    <3> QED BY <2>1, <3>1 DEF Over
  <2>3. CASE def.kind = "INPUT_OBJECT"
    <3>1. full.fields = <<>> /\ full.inputFields = wire
      BY <2>3
    <3> QED BY <2>1, <3>1 DEF Over
  <2>4. CASE def.kind \notin {"OBJECT", "INTERFACE", "INPUT_OBJECT"}
    <3>1. full.fields = <<>> /\ full.inputFields = <<>>
      BY <2>4
    <3> QED BY <1>2, <2>1, <2>4, <3>1 DEF Over
  <2> QED BY <2>2, <2>3, <2>4
<1>4. [f \in DOMAIN both |-> ParseField(both[f])] = def.fields
  <2>1. \A f \in DOMAIN both : ParseField(both[f]) = def.fields[f]
    BY <1>3
  <2> HIDE DEF both
  <2> QED BY <1>3, <2>1, DefIs
<1> HIDE DEF both
<1>5. /\ (IF full.kind = "UNION" THEN full.possibleTypes ELSE {}) = def.types
      /\ (IF full.kind = "ENUM" THEN full.enumValues ELSE {}) = def.values
  BY <1>2
<1> QED BY <1>1, <1>4, <1>5, DefIs

\* Introspection of a service.
Long(type) == Len(ResolveTypeRef(type)) > TypeRefDepth + 1
Sent(type) == Asked(ResolveTypeRef(type))
WireField(field) ==
  [type |-> Sent(field.type), args |-> [a \in DOMAIN field.args |-> Sent(field.args[a])]]
LongField(field) == Long(field.type) \/ \E a \in DOMAIN field.args : Long(field.args[a])

LEMMA ServiceTypeIs ==
  ASSUME NEW schema, NEW def, NEW name
  PROVE  LET full == ServiceType(schema, def, name)
             wire == [f \in DOMAIN def.fields |-> WireField(def.fields[f])]
         IN /\ full.kind = def.kind /\ full.interfaces = def.interfaces /\ full.enumValues = def.values
            /\ def.kind = "UNION" => full.possibleTypes = def.types
            /\ full.fields = IF def.kind = "OBJECT" \/ def.kind = "INTERFACE" THEN wire ELSE <<>>
            /\ full.inputFields = IF def.kind = "INPUT_OBJECT" THEN wire ELSE <<>>
<1> DEFINE full == ServiceType(schema, def, name)
           wire == [f \in DOMAIN def.fields |-> WireField(def.fields[f])]
<1>1. full =
        [kind          |-> def.kind,
         fields        |-> IF def.kind \in {"OBJECT", "INTERFACE"} THEN wire ELSE <<>>,
         inputFields   |-> IF def.kind = "INPUT_OBJECT" THEN wire ELSE <<>>,
         interfaces    |-> def.interfaces,
         possibleTypes |-> IF def.kind # "INTERFACE" THEN def.types
                           ELSE { n \in DOMAIN schema.types : name \in schema.types[n].interfaces },
         enumValues    |-> def.values]
  BY DEF ServiceType, MapValues, WireField, Sent
<1> HIDE DEF full, wire
<1>2. /\ full.kind = def.kind /\ full.interfaces = def.interfaces /\ full.enumValues = def.values
      /\ def.kind = "UNION" => full.possibleTypes = def.types
      /\ full.fields = IF def.kind = "OBJECT" \/ def.kind = "INTERFACE" THEN wire ELSE <<>>
      /\ full.inputFields = IF def.kind = "INPUT_OBJECT" THEN wire ELSE <<>>
  BY <1>1
<1> QED BY <1>2 DEF full, wire

\* The references of a definition, on the wire.
LEMMA ReferencesAre ==
  ASSUME NEW schema, NEW def, NEW name, IsDef(name, def), NEW ref
  PROVE  ref \in References(ServiceType(schema, def, name)) <=>
           \E f \in DOMAIN def.fields :
             \/ ref = Sent(def.fields[f].type)
             \/ \E a \in DOMAIN def.fields[f].args : ref = Sent(def.fields[f].args[a])
<1> DEFINE full == ServiceType(schema, def, name)
           wire == [f \in DOMAIN def.fields |-> WireField(def.fields[f])]
           wires == { full.fields[n] : n \in DOMAIN full.fields }
                      \cup { full.inputFields[n] : n \in DOMAIN full.inputFields }
<1>1. /\ full.fields = IF def.kind = "OBJECT" \/ def.kind = "INTERFACE" THEN wire ELSE <<>>
      /\ full.inputFields = IF def.kind = "INPUT_OBJECT" THEN wire ELSE <<>>
  BY ServiceTypeIs
<1>2. \A w : w \in wires <=> \E f \in DOMAIN def.fields : w = WireField(def.fields[f])
  <2> HIDE DEF full
  <2>1. DOMAIN wire = DOMAIN def.fields /\ \A f \in DOMAIN def.fields : wire[f] = WireField(def.fields[f])
    OBVIOUS
  <2> HIDE DEF wire
  <2>2. DOMAIN <<>> = {}
    OBVIOUS
  <2>3. CASE def.kind = "OBJECT" \/ def.kind = "INTERFACE"
    <3>1. full.fields = wire /\ full.inputFields = <<>>
      BY <1>1, <2>3
    <3> QED BY <2>1, <2>2, <3>1
  <2>4. CASE def.kind = "INPUT_OBJECT"
    <3>1. full.fields = <<>> /\ full.inputFields = wire
      BY <1>1, <2>4
    <3> QED BY <2>1, <2>2, <3>1
  <2>5. CASE def.kind \notin {"OBJECT", "INTERFACE", "INPUT_OBJECT"}
    <3>1. full.fields = <<>> /\ full.inputFields = <<>> /\ DOMAIN def.fields = {}
      BY <1>1, <2>5 DEF IsDef
    <3> QED BY <2>2, <3>1
  <2> QED BY <2>3, <2>4, <2>5
<1>3. References(full) = UNION { {w.type} \cup { w.args[a] : a \in DOMAIN w.args } : w \in wires }
  BY DEF References
<1> HIDE DEF full, wires
<1>4. ref \in References(full) <=>
        \E f \in DOMAIN def.fields :
          LET w == WireField(def.fields[f]) IN ref = w.type \/ \E a \in DOMAIN w.args : ref = w.args[a]
  BY <1>2, <1>3
<1>5. \A f \in DOMAIN def.fields :
        LET w == WireField(def.fields[f]) IN
        /\ w.type = Sent(def.fields[f].type)
        /\ DOMAIN w.args = DOMAIN def.fields[f].args
        /\ \A a \in DOMAIN w.args : w.args[a] = Sent(def.fields[f].args[a])
  BY DEF WireField
<1> QED BY <1>4, <1>5 DEF full

\* What introspectRemoteSchema makes of the answer of a service is the service's
\* own schema, and it fails only on one that does not load; unless a reference
\* of it is longer than the query asks for, when parseTypeRef panics, and only
\* then.
THEOREM ServiceRead ==
  ASSUME NEW schema, IsMap(schema.types), \A n \in DOMAIN schema.types : IsDef(n, schema.types[n])
  PROVE  /\ ParsePanics(ServiceSchema(schema)) <=>
              \E n \in DOMAIN schema.types : \E f \in DOMAIN schema.types[n].fields :
                LongField(schema.types[n].fields[f])
         /\ ~ParsePanics(ServiceSchema(schema)) => ParseSchema(ServiceSchema(schema)).types = schema.types
         /\ DOMAIN ParseSchema(ServiceSchema(schema)).directives = DOMAIN schema.directives
         /\ ~ParsePanics(ServiceSchema(schema)) => (ParseFails(ServiceSchema(schema)) <=> ~Loads(schema.types))
<1> DEFINE answer == ServiceSchema(schema)
           long == \E n \in DOMAIN schema.types : \E f \in DOMAIN schema.types[n].fields :
                     LongField(schema.types[n].fields[f])
<1>1. /\ answer.query = ("Query" \in DOMAIN schema.types)
      /\ answer.types = [n \in DOMAIN schema.types |-> ServiceType(schema, schema.types[n], n)]
      /\ DOMAIN answer.directives = DOMAIN schema.directives
  BY DEF ServiceSchema, MapValues
<1> HIDE DEF answer
<1>2. \A type : IsTypeRef(type) => (ParseTypeRef(Sent(type)).name = NoName <=> Long(type))
  BY TypeRead, Zenon DEF Long, Sent
<1>3. ParsePanics(answer) <=>
        \E n \in DOMAIN schema.types : \E ref \in References(ServiceType(schema, schema.types[n], n)) :
          ParseTypeRef(ref).name = NoName
  BY <1>1, Zenon DEF ParsePanics, NoName
<1>4. ASSUME NEW n \in DOMAIN schema.types
      PROVE  (\E ref \in References(ServiceType(schema, schema.types[n], n)) : ParseTypeRef(ref).name = NoName) <=>
             \E f \in DOMAIN schema.types[n].fields : LongField(schema.types[n].fields[f])
  <2> DEFINE def == schema.types[n]
  <2>1. IsDef(n, def)
    OBVIOUS
  <2> HIDE DEF def
  <2>2. \A f \in DOMAIN def.fields : IsTypeRef(def.fields[f].type) /\ \A a \in DOMAIN def.fields[f].args : IsTypeRef(def.fields[f].args[a])
    BY <2>1, DefIs, FieldIs, Zenon
  <2>3. \A ref : ref \in References(ServiceType(schema, def, n)) <=>
          \E f \in DOMAIN def.fields :
             \/ ref = Sent(def.fields[f].type)
             \/ \E a \in DOMAIN def.fields[f].args : ref = Sent(def.fields[f].args[a])
    BY <2>1, ReferencesAre
  <2>4. \A f \in DOMAIN def.fields :
          LongField(def.fields[f]) <=>
            \/ ParseTypeRef(Sent(def.fields[f].type)).name = NoName
            \/ \E a \in DOMAIN def.fields[f].args : ParseTypeRef(Sent(def.fields[f].args[a])).name = NoName
    BY <1>2, <2>2, Zenon DEF LongField
  <2>5. (\E ref \in References(ServiceType(schema, def, n)) : ParseTypeRef(ref).name = NoName) <=>
             \E f \in DOMAIN def.fields : LongField(def.fields[f])
    <3>1. ASSUME NEW ref \in References(ServiceType(schema, def, n)), ParseTypeRef(ref).name = NoName
          PROVE  \E f \in DOMAIN def.fields : LongField(def.fields[f])
      BY <2>3, <2>4, <3>1
    <3>2. ASSUME NEW f \in DOMAIN def.fields, LongField(def.fields[f])
          PROVE  \E ref \in References(ServiceType(schema, def, n)) : ParseTypeRef(ref).name = NoName
      BY <2>3, <2>4, <3>2
    <3> QED BY <3>1, <3>2, Zenon
  <2> QED BY <2>5, Zenon DEF def
<1>5. ParsePanics(answer) <=> long
  BY <1>3, <1>4, Zenon
<1>6. ASSUME ~long PROVE ParseSchema(answer).types = schema.types
  <2>1. ASSUME NEW n \in DOMAIN schema.types
        PROVE  ParseType(ServiceType(schema, schema.types[n], n)) = schema.types[n]
    <3> DEFINE def == schema.types[n]
               wire == [f \in DOMAIN def.fields |-> WireField(def.fields[f])]
               full == ServiceType(schema, def, n)
    <3>1. IsDef(n, def)
      OBVIOUS
    <3>2. ASSUME NEW f \in DOMAIN def.fields PROVE ParseField(WireField(def.fields[f])) = def.fields[f]
      <4> DEFINE field == def.fields[f]
      <4>1. IsField(field) /\ ~LongField(field)
        BY <1>6, <3>1, DefIs, Zenon
      <4> HIDE DEF field
      <4>2. \A type : IsTypeRef(type) /\ ~Long(type) => ParseTypeRef(Sent(type)) = type
        BY TypeRead, Zenon DEF Long, Sent
      <4>3. IsTypeRef(field.type) /\ \A a \in DOMAIN field.args : IsTypeRef(field.args[a])
        BY <4>1, FieldIs, Zenon
      <4>4. /\ ParseTypeRef(Sent(field.type)) = field.type
            /\ \A a \in DOMAIN field.args : ParseTypeRef(Sent(field.args[a])) = field.args[a]
        BY <4>1, <4>2, <4>3, Zenon DEF LongField
      <4> DEFINE args == [a \in DOMAIN field.args |-> Sent(field.args[a])]
      <4>5. DOMAIN args = DOMAIN field.args /\ \A a \in DOMAIN field.args : ParseTypeRef(args[a]) = field.args[a]
        BY <4>4
      <4> HIDE DEF args
      <4>6. ParseField([type |-> Sent(field.type), args |-> args]) = field
        BY <4>1, <4>4, <4>5, FieldRead, Zenon
      <4> QED BY <4>6, Zenon DEF field, args, WireField
    <3>3. /\ full.kind = def.kind /\ full.interfaces = def.interfaces /\ full.enumValues = def.values
          /\ def.kind = "UNION" => full.possibleTypes = def.types
          /\ full.fields = IF def.kind = "OBJECT" \/ def.kind = "INTERFACE" THEN wire ELSE <<>>
          /\ full.inputFields = IF def.kind = "INPUT_OBJECT" THEN wire ELSE <<>>
      BY ServiceTypeIs
    <3>4. DOMAIN wire = DOMAIN def.fields /\ \A f \in DOMAIN def.fields : ParseField(wire[f]) = def.fields[f]
      BY <3>2
    <3> HIDE DEF def, wire, full
    <3>5. ParseType(full) = def
      BY <3>1, <3>3, <3>4, DefRead, Zenon
    <3> QED BY <3>5, Zenon DEF def, full
  <2>2. ParseSchema(answer).types = [n \in DOMAIN schema.types |-> ParseType(answer.types[n])]
    BY <1>1 DEF ParseSchema, MapValues
  <2>3. \A n \in DOMAIN schema.types : ParseType(answer.types[n]) = schema.types[n]
    BY <1>1, <2>1
  <2>4. schema.types = [n \in DOMAIN schema.types |-> schema.types[n]]
    BY Zenon DEF IsMap
  <2> QED BY <2>2, <2>3, <2>4
<1>7. DOMAIN ParseSchema(answer).directives = DOMAIN schema.directives
  BY <1>1 DEF ParseSchema
<1>8. ParseFails(answer) <=> ~answer.query \/ ~Loads(ParseSchema(answer).types)
  BY Zenon DEF ParseFails
<1>9. Loads(schema.types) => "Query" \in DOMAIN schema.types
  BY Zenon DEF Loads
<1> QED BY <1>1, <1>5, <1>6, <1>7, <1>8, <1>9, Zenon DEF answer

\* And so is what a client reads of the gateway.
LEMMA ClientRead ==
  ASSUME NEW name, NEW def, IsDef(name, def)
  PROVE  ClientType(ResolveType(def)) = def
<1> DEFINE wire == [f \in DOMAIN def.fields |-> ResolveField(def.fields[f])]
           full == ResolveType(def)
           asked == [full EXCEPT
                       !.fields = IF full.kind \in {"OBJECT", "INTERFACE"} THEN full.fields ELSE <<>>,
                       !.inputFields = IF full.kind = "INPUT_OBJECT" THEN full.inputFields ELSE <<>>]
<1>1. full = [kind          |-> def.kind,
              fields        |-> wire,
              inputFields   |-> wire,
              interfaces    |-> def.interfaces,
              possibleTypes |-> def.types,
              enumValues    |-> def.values]
  BY DEF ResolveType, MapValues
<1>2. ClientType(full) = ParseType(asked)
  BY DEF ClientType
<1>3. DOMAIN wire = DOMAIN def.fields /\ \A f \in DOMAIN def.fields : ParseField(wire[f]) = def.fields[f]
  <2>1. ASSUME NEW f \in DOMAIN def.fields PROVE ParseField(ResolveField(def.fields[f])) = def.fields[f]
    <3> DEFINE field == def.fields[f]
               args == [a \in DOMAIN field.args |-> ResolveTypeRef(field.args[a])]
    <3>1. IsField(field)
      BY DefIs, Zenon
    <3> HIDE DEF field
    <3>2. IsTypeRef(field.type) /\ \A a \in DOMAIN field.args : IsTypeRef(field.args[a])
      BY <3>1, FieldIs, Zenon
    <3>3. ParseTypeRef(ResolveTypeRef(field.type)) = field.type
          /\ \A a \in DOMAIN field.args : ParseTypeRef(ResolveTypeRef(field.args[a])) = field.args[a]
      BY <3>2, RoundTrip, Zenon
    <3>4. DOMAIN args = DOMAIN field.args /\ \A a \in DOMAIN field.args : ParseTypeRef(args[a]) = field.args[a]
      BY <3>3
    <3>5. ResolveField(field) = [type |-> ResolveTypeRef(field.type), args |-> args]
      BY DEF ResolveField, MapValues
    <3> HIDE DEF args
    <3>6. ParseField(ResolveField(field)) = field
      BY <3>1, <3>3, <3>4, <3>5, FieldRead, Zenon
    <3> QED BY <3>6, Zenon DEF field
  <2> QED BY <2>1
<1> HIDE DEF wire, full
<1>4. /\ asked.kind = def.kind /\ asked.interfaces = def.interfaces /\ asked.enumValues = def.values
      /\ def.kind = "UNION" => asked.possibleTypes = def.types
      /\ asked.fields = IF def.kind = "OBJECT" \/ def.kind = "INTERFACE" THEN wire ELSE <<>>
      /\ asked.inputFields = IF def.kind = "INPUT_OBJECT" THEN wire ELSE <<>>
  BY <1>1
<1> HIDE DEF asked
<1>5. ParseType(asked) = def
  BY <1>3, <1>4, DefRead, Zenon
<1> QED BY <1>2, <1>5, Zenon DEF full
-----------------------------------------------------------------------------
\* The merge of one type.

LEMMA OverIs ==
  ASSUME NEW f, NEW g
  PROVE  /\ Over(f, g) = [x \in DOMAIN f \cup DOMAIN g |-> Over(f, g)[x]]
         /\ DOMAIN Over(f, g) = DOMAIN f \cup DOMAIN g
         /\ \A x \in DOMAIN f : Over(f, g)[x] = f[x]
         /\ \A x \in DOMAIN g : x \notin DOMAIN f => Over(f, g)[x] = g[x]
BY DEF Over

LEMMA TakenIs ==
  ASSUME NEW n, NEW def, NEW f
  PROVE  f \in Taken(n, def) <=>
           /\ f \in DOMAIN def.fields
           /\ IF n \in RootObjectName THEN IsNodeField(f, def.fields[f]) ELSE IsIDField(f, def.fields[f])
BY DEF Taken, NodeFields, IDFields

\* A type of two schemas that do not conflict on it.
TypeMerged(n, def, old, new) ==
  /\ IsDef(n, new)
  /\ def.kind = old.kind /\ new.kind = def.kind
  /\ def.kind = "UNION" => def.types = old.types
  /\ ImplementsNode(def) <=> ImplementsNode(old)
  /\ new.interfaces = def.interfaces \cup old.interfaces
  /\ new.types = def.types \cup old.types
  /\ new.values = def.values \cup old.values
  /\ DOMAIN new.fields = DOMAIN def.fields \cup (DOMAIN old.fields \ Taken(n, old))
  /\ \A f \in DOMAIN def.fields : new.fields[f] = def.fields[f]
  /\ \A f \in DOMAIN new.fields : f \notin DOMAIN def.fields => new.fields[f] = old.fields[f]

LEMMA MergedType ==
  ASSUME NEW n, n # NodeInterfaceName, NEW def, NEW old, IsDef(n, def), IsDef(n, old),
         ~Conflict(n, def, old)
  PROVE  TypeMerged(n, def, old, MergeType(n, def, old))
<1> DEFINE new == MergeType(n, def, old)
           Fits(x) ==
             /\ IsDef(n, x)
             /\ x.kind = def.kind
             /\ x.interfaces = def.interfaces \cup old.interfaces
             /\ x.types = def.types \cup old.types
             /\ x.values = def.values \cup old.values
             /\ DOMAIN x.fields = DOMAIN def.fields \cup (DOMAIN old.fields \ Taken(n, old))
             /\ \A f \in DOMAIN def.fields : x.fields[f] = def.fields[f]
             /\ \A f \in DOMAIN x.fields : f \notin DOMAIN def.fields => x.fields[f] = old.fields[f]
<1> SUFFICES TypeMerged(n, def, old, new)
  OBVIOUS
<1>1. def.kind = old.kind /\ (def.kind = "UNION" => def.types = old.types)
  BY Zenon DEF Conflict
<1>2. /\ def.kind \notin {"OBJECT", "INTERFACE"} => def.interfaces = {} /\ old.interfaces = {}
      /\ def.kind # "UNION" => def.types = {} /\ old.types = {}
      /\ def.kind # "ENUM" => def.values = {} /\ old.values = {}
      /\ def.kind \notin {"OBJECT", "INTERFACE", "INPUT_OBJECT"} => DOMAIN def.fields = {} /\ DOMAIN old.fields = {}
      /\ n \in RootObjectName => def.kind = "OBJECT"
      /\ def.kind \in {"SCALAR", "OBJECT", "INTERFACE", "UNION", "ENUM", "INPUT_OBJECT"}
  BY <1>1 DEF IsDef
<1>3. ImplementsNode(def) <=> ImplementsNode(old)
  <2>1. CASE def.kind = "SCALAR" \/ def.kind = "UNION"
    <3>1. def.interfaces = {} /\ old.interfaces = {}
      BY <1>2, <2>1
    <3> QED BY <3>1 DEF ImplementsNode
  <2>2. CASE def.kind # "SCALAR" /\ def.kind # "UNION"
    <3>1. (ImplementsNode(def) # ImplementsNode(old)) => Conflict(n, def, old)
      BY <2>2 DEF Conflict
    <3>2. ImplementsNode(def) \in BOOLEAN /\ ImplementsNode(old) \in BOOLEAN
      BY DEF ImplementsNode
    <3> QED BY <3>1, <3>2, Zenon
  <2> QED BY <2>1, <2>2, Zenon
<1>4. CASE def.kind = "UNION"
  <2>1. new = old
    <3>1. n \notin RootObjectName /\ def.kind # "SCALAR"
      BY <1>2, <1>4
    <3> QED BY <1>4, <3>1 DEF MergeType
  <2>2. Fits(old)
    BY <1>1, <1>2, <1>4
  <2> HIDE DEF new
  <2> QED BY <1>1, <1>3, <2>1, <2>2 DEF TypeMerged
<1>5. CASE def.kind = "SCALAR"
  <2>1. new = def
    <3>1. n \notin RootObjectName /\ def.kind # "UNION"
      BY <1>2, <1>5
    <3> QED BY <1>5, <3>1 DEF MergeType
  <2>2. Fits(def)
    BY <1>1, <1>2, <1>5
  <2> HIDE DEF new
  <2> QED BY <1>1, <1>3, <2>1, <2>2 DEF TypeMerged
<1>6. CASE def.kind # "UNION" /\ def.kind # "SCALAR"
  <2> DEFINE rest == Restrict(old.fields, DOMAIN old.fields \ Taken(n, old))
             fields == Over(def.fields, rest)
  <2>1. new = [kind       |-> def.kind,
               interfaces |-> def.interfaces \cup old.interfaces,
               types      |-> def.types \cup old.types,
               values     |-> def.values \cup old.values,
               fields     |-> fields]
    <3>1. CASE n \in RootObjectName
      <4>1. new = MergeRootObjects(def, old)
        BY <1>6, <3>1, Zenon DEF MergeType
      <4>2. def.kind = "OBJECT" /\ def.types \cup old.types = {} /\ def.values \cup old.values = {}
        BY <1>2, <3>1
      <4>3. Taken(n, old) = NodeFields(old)
        BY <3>1, Zenon DEF Taken
      <4> QED BY <4>1, <4>2, <4>3 DEF MergeRootObjects, RootFields
    <3>2. CASE n \notin RootObjectName
      <4>1. new = MergeCustomObjects(def, old)
        BY <1>6, <3>2, Zenon DEF MergeType
      <4>2. Taken(n, old) = IDFields(old)
        BY <3>2, Zenon DEF Taken
      <4> QED BY <4>1, <4>2 DEF MergeCustomObjects
    <3> QED BY <3>1, <3>2, Zenon
  <2>2. /\ DOMAIN rest = DOMAIN old.fields \ Taken(n, old)
        /\ \A f \in DOMAIN rest : rest[f] = old.fields[f]
    BY DEF Restrict
  <2> HIDE DEF rest
  <2>3. /\ fields = [f \in DOMAIN fields |-> fields[f]]
        /\ DOMAIN fields = DOMAIN def.fields \cup (DOMAIN old.fields \ Taken(n, old))
        /\ \A f \in DOMAIN def.fields : fields[f] = def.fields[f]
        /\ \A f \in DOMAIN fields : f \notin DOMAIN def.fields => fields[f] = old.fields[f] /\ f \in DOMAIN old.fields
    <3>1. /\ fields = [f \in DOMAIN def.fields \cup DOMAIN rest |-> fields[f]]
          /\ DOMAIN fields = DOMAIN def.fields \cup DOMAIN rest
          /\ \A f \in DOMAIN def.fields : fields[f] = def.fields[f]
          /\ \A f \in DOMAIN rest : f \notin DOMAIN def.fields => fields[f] = rest[f]
      BY OverIs, Zenon
    <3> HIDE DEF fields
    <3> QED BY <2>2, <3>1
  <2> HIDE DEF fields, new
  <2>4. \A f \in DOMAIN fields : IsField(fields[f])
    BY <2>3, DefIs
  <2>5. IsMap(new) /\ DOMAIN new = {"kind", "interfaces", "types", "values", "fields"}
    BY <2>1 DEF IsMap
  <2>6. /\ new.kind = def.kind
        /\ new.interfaces = def.interfaces \cup old.interfaces
        /\ new.types = def.types \cup old.types
        /\ new.values = def.values \cup old.values
        /\ new.fields = fields
    BY <2>1
  <2>7. /\ def.kind \notin {"OBJECT", "INTERFACE"} => new.interfaces = {}
        /\ def.kind # "UNION" => new.types = {}
        /\ def.kind # "ENUM" => new.values = {}
        /\ def.kind \notin {"OBJECT", "INTERFACE", "INPUT_OBJECT"} => DOMAIN fields = {}
    BY <1>2, <2>3, <2>6
  <2>8. IsMap(fields)
    BY <2>3, Zenon DEF IsMap
  <2>9. IsDef(n, new)
    BY <1>2, <2>4, <2>5, <2>6, <2>7, <2>8, Zenon DEF IsDef
  <2> QED BY <1>1, <1>3, <2>3, <2>6, <2>9 DEF TypeMerged
<1> QED BY <1>4, <1>5, <1>6, Zenon
-----------------------------------------------------------------------------
\* The merge of the schemas, one after the other.

LEMMA MergedWalks ==
  ASSUME NEW inputs, NEW n \in Nat \ {0}, DOMAIN inputs = 1 .. n
  PROVE  LET S(w, k) == IF k = 1 THEN [types |-> inputs[1].types, directives |-> inputs[1].directives]
                        ELSE MergeSchema(w[k - 1], inputs[k])
             W == CHOOSE w : w = [k \in DOMAIN inputs |-> S(w, k)]
         IN \A k \in 1 .. n : W[k] = S(W, k)
<1> DEFINE S(w, k) == IF k = 1 THEN [types |-> inputs[1].types, directives |-> inputs[1].directives]
                      ELSE MergeSchema(w[k - 1], inputs[k])
           W == CHOOSE w : w = [k \in DOMAIN inputs |-> S(w, k)]
           Walked(w, m) == w = [i \in 1 .. m + 1 |-> S(w, i)]
           E == { m \in 0 .. n - 1 : \E w : Walked(w, m) }
<1>2. 0 \in E
  <2> DEFINE w == [i \in 1 .. 1 |-> [types |-> inputs[1].types, directives |-> inputs[1].directives]]
  <2>1. \A i \in 1 .. 1 : S(w, i) = [types |-> inputs[1].types, directives |-> inputs[1].directives]
    OBVIOUS
  <2>2. w = [i \in 1 .. 0 + 1 |-> S(w, i)]
    <3> HIDE DEF S
    <3> QED BY <2>1
  <2>3. 0 \in 0 .. n - 1
    OBVIOUS
  <2> HIDE DEF w, S
  <2> QED BY <2>2, <2>3
<1>3. ASSUME NEW k \in 0 .. (n - 1) - 1, k \in E
      PROVE  k + 1 \in E
  <2>1. PICK f : Walked(f, k)
    BY <1>3
  <2> DEFINE g == [i \in 1 .. (k + 1) + 1 |-> IF i <= k + 1 THEN f[i] ELSE S(f, k + 2)]
  <2>2. \A i \in 1 .. k + 1 : f[i] = S(f, i)
    <3> HIDE DEF S
    <3> QED BY <2>1
  <2>3. \A i \in 1 .. (k + 1) + 1 : i # 1 => g[i - 1] = f[i - 1]
    <3> HIDE DEF S
    <3> QED OBVIOUS
  <2>4. \A i \in 1 .. (k + 1) + 1 : S(g, i) = S(f, i)
    <3> HIDE DEF g
    <3> QED BY <2>3
  <2>5. \A i \in 1 .. (k + 1) + 1 : g[i] = S(f, i)
    <3> HIDE DEF S
    <3> QED BY <2>2
  <2>6. Walked(g, k + 1)
    <3>1. g = [i \in 1 .. (k + 1) + 1 |-> g[i]]
      <4> HIDE DEF S
      <4> QED OBVIOUS
    <3> HIDE DEF g, S
    <3> QED BY <2>4, <2>5, <3>1
  <2>7. k + 1 \in 0 .. n - 1
    OBVIOUS
  <2> HIDE DEF g, Walked
  <2> QED BY <2>6, <2>7
<1>4. n - 1 \in E
  <2> HIDE DEF E
  <2>1. 0 .. n - 1 \subseteq E
    BY <1>2, <1>3, BoundedInduction
  <2> QED BY <2>1
<1>5. \E w : w = [i \in DOMAIN inputs |-> S(w, i)]
  <2>1. (n - 1) + 1 = n
    OBVIOUS
  <2> HIDE DEF S
  <2> QED BY <1>4, <2>1
<1>6. W = [i \in DOMAIN inputs |-> S(W, i)]
  <2> HIDE DEF S
  <2> QED BY <1>5
<1>7. \A i \in 1 .. n : W[i] = S(W, i)
  <2> HIDE DEF W, S
  <2> QED BY <1>6
<1> QED BY <1>7

LEMMA LocatedWalks ==
  ASSUME NEW inputs, Len(inputs) \in Nat
  PROVE  LET S(w, k) == IF k = 0 THEN <<>> ELSE SetFromSchema(w[k - 1], inputs[k])
             W == CHOOSE w : w = [k \in 0 .. Len(inputs) |-> S(w, k)]
         IN \A k \in 0 .. Len(inputs) : W[k] = S(W, k)
<1> DEFINE n == Len(inputs)
           S(w, k) == IF k = 0 THEN <<>> ELSE SetFromSchema(w[k - 1], inputs[k])
           W == CHOOSE w : w = [k \in 0 .. n |-> S(w, k)]
           Walked(w, m) == w = [i \in 0 .. m |-> S(w, i)]
           E == { m \in 0 .. n : \E w : Walked(w, m) }
<1>2. 0 \in E
  <2> DEFINE w == [i \in 0 .. 0 |-> <<>>]
  <2>1. w = [i \in 0 .. 0 |-> S(w, i)]
    OBVIOUS
  <2> HIDE DEF w, S
  <2> QED BY <2>1
<1>3. ASSUME NEW k \in 0 .. n - 1, k \in E
      PROVE  k + 1 \in E
  <2>1. PICK f : Walked(f, k)
    BY <1>3
  <2> DEFINE g == [i \in 0 .. k + 1 |-> IF i <= k THEN f[i] ELSE S(f, k + 1)]
  <2>2. DOMAIN f = 0 .. k /\ \A i \in 0 .. k : f[i] = S(f, i)
    <3> HIDE DEF S
    <3> QED BY <2>1
  <2>3. \A i \in 0 .. k + 1 : i # 0 => g[i - 1] = f[i - 1]
    OBVIOUS
  <2>4. \A i \in 0 .. k + 1 : S(g, i) = S(f, i)
    BY <2>3
  <2>5. \A i \in 0 .. k + 1 : g[i] = S(f, i)
    <3> HIDE DEF S
    <3> QED BY <2>2
  <2>6. Walked(g, k + 1)
    <3>1. g = [i \in 0 .. k + 1 |-> g[i]]
      OBVIOUS
    <3> HIDE DEF g, S
    <3> QED BY <2>4, <2>5, <3>1
  <2>7. k + 1 \in 0 .. n
    OBVIOUS
  <2> HIDE DEF g, Walked
  <2> QED BY <2>6, <2>7
<1>4. n \in E
  <2> HIDE DEF E
  <2>1. 0 .. n \subseteq E
    BY <1>2, <1>3, BoundedInduction
  <2> QED BY <2>1
<1>5. \E w : w = [i \in 0 .. n |-> S(w, i)]
  <2> HIDE DEF S
  <2> QED BY <1>4
<1>6. W = [i \in 0 .. n |-> S(W, i)]
  <2> HIDE DEF S
  <2> QED BY <1>5
<1>7. \A i \in 0 .. n : W[i] = S(W, i)
  <2> HIDE DEF W, S
  <2> QED BY <1>6
<1> QED BY <1>7

Walks(inputs, n, merged, located) ==
  /\ merged[1] = [types |-> inputs[1].types, directives |-> inputs[1].directives]
  /\ \A k \in 1 .. n - 1 : merged[k + 1] = MergeSchema(merged[k], inputs[k + 1])
  /\ located[0] = <<>>
  /\ \A k \in 0 .. n - 1 : located[k + 1] = SetFromSchema(located[k], inputs[k + 1])
  /\ ExtendMerge(inputs) = IF merged[n] = NoSchema \/ ~Loads(merged[n].types) THEN NoSchema
                           ELSE [schema |-> merged[n], typeURLMap |-> located[n]]

LEMMA ExtendMergeIs ==
  ASSUME NEW inputs, NEW n \in Nat \ {0}, DOMAIN inputs = 1 .. n, Len(inputs) = n
  PROVE  \E merged, located : Walks(inputs, n, merged, located)
<1> DEFINE S(w, k) == IF k = 1 THEN [types |-> inputs[1].types, directives |-> inputs[1].directives]
                      ELSE MergeSchema(w[k - 1], inputs[k])
           merged == CHOOSE w : w = [k \in DOMAIN inputs |-> S(w, k)]
           R(w, k) == IF k = 0 THEN <<>> ELSE SetFromSchema(w[k - 1], inputs[k])
           located == CHOOSE w : w = [k \in 0 .. Len(inputs) |-> R(w, k)]
<1>1. ExtendMerge(inputs) = IF merged[n] = NoSchema \/ ~Loads(merged[n].types) THEN NoSchema
                            ELSE [schema |-> merged[n], typeURLMap |-> located[n]]
  BY DEF ExtendMerge
<1>2. \A k \in 1 .. n : merged[k] = S(merged, k)
  BY MergedWalks
<1>3. \A k \in 0 .. n : located[k] = R(located, k)
  BY LocatedWalks
<1> HIDE DEF merged, located
<1>4. /\ 1 \in 1 .. n /\ 0 \in 0 .. n
      /\ \A k \in 1 .. n - 1 : k + 1 \in 1 .. n /\ k + 1 # 1 /\ (k + 1) - 1 = k
      /\ \A k \in 0 .. n - 1 : k + 1 \in 0 .. n /\ k + 1 # 0 /\ (k + 1) - 1 = k
  OBVIOUS
<1>5. /\ merged[1] = [types |-> inputs[1].types, directives |-> inputs[1].directives]
      /\ \A k \in 1 .. n - 1 : merged[k + 1] = MergeSchema(merged[k], inputs[k + 1])
  BY <1>2, <1>4, Zenon
<1>6. /\ located[0] = <<>>
      /\ \A k \in 0 .. n - 1 : located[k + 1] = SetFromSchema(located[k], inputs[k + 1])
  BY <1>3, <1>4, Zenon
<1>7. Walks(inputs, n, merged, located)
  BY <1>1, <1>5, <1>6, Zenon DEF Walks
<1> QED BY <1>7
-----------------------------------------------------------------------------
\* What the merge of the first k schemas has of a type.

Upto(k, n) == { i \in 1 .. k : n \in DOMAIN Services[i].types }

Latest(k, n, f, j) ==
  /\ j \in Upto(k, n) /\ f \in FieldsOf(j, n)
  /\ \A i \in Upto(k, n) : i > j => f \notin FieldsOf(i, n)

\* The field stays unless a later service that has the type takes it.
Stays(k, n, f, j) == f \notin FromLast(j, n) \/ \A i \in Upto(k, n) : ~(i > j)

DefFits(k, n, def) ==
  /\ IsDef(n, def)
  /\ \A i \in Upto(k, n) : /\ DefOf(i, n).kind = def.kind
                           /\ def.kind = "UNION" => DefOf(i, n).types = def.types
                           /\ ImplementsNode(DefOf(i, n)) <=> ImplementsNode(def)
  /\ def.interfaces = UNION { DefOf(i, n).interfaces : i \in Upto(k, n) }
  /\ def.types = UNION { DefOf(i, n).types : i \in Upto(k, n) }
  /\ def.values = UNION { DefOf(i, n).values : i \in Upto(k, n) }
  /\ \A f : f \in DOMAIN def.fields <=> \E j : Latest(k, n, f, j) /\ Stays(k, n, f, j)
  /\ \A f \in DOMAIN def.fields : \A j : Latest(k, n, f, j) => def.fields[f] = DefOf(j, n).fields[f]

LEMMA UptoNext ==
  ASSUME NEW k \in Nat, NEW n
  PROVE  /\ n \in DOMAIN Services[k + 1].types => Upto(k + 1, n) = Upto(k, n) \cup {k + 1}
         /\ n \notin DOMAIN Services[k + 1].types => Upto(k + 1, n) = Upto(k, n)
         /\ \A i \in Upto(k, n) : i \in 1 .. k /\ i < k + 1 /\ i # k + 1
BY DEF Upto

LEMMA LatestExists ==
  ASSUME NEW k \in Nat, NEW n, NEW f, NEW i \in Upto(k, n), f \in FieldsOf(i, n)
  PROVE  \E j : Latest(k, n, f, j) /\ j >= i
<1> DEFINE E == { m \in 0 .. k : \A h \in Upto(m, n) : f \in FieldsOf(h, n) => \E j : Latest(m, n, f, j) /\ j >= h }
<1>1. 0 \in E
  <2>1. Upto(0, n) = {}
    BY DEF Upto
  <2> QED BY <2>1
<1>2. ASSUME NEW m \in 0 .. k - 1, m \in E PROVE m + 1 \in E
  <2>1. SUFFICES ASSUME NEW h \in Upto(m + 1, n), f \in FieldsOf(h, n)
                 PROVE  \E j : Latest(m + 1, n, f, j) /\ j >= h
    OBVIOUS
  <2>2. CASE m + 1 \in Upto(m + 1, n) /\ f \in FieldsOf(m + 1, n)
    <3>1. \A x \in Upto(m + 1, n) : ~(x > m + 1) /\ m + 1 >= x
      BY DEF Upto
    <3>2. Latest(m + 1, n, f, m + 1)
      BY <2>2, <3>1, Zenon DEF Latest
    <3> QED BY <3>1, <3>2
  <2>3. CASE ~(m + 1 \in Upto(m + 1, n) /\ f \in FieldsOf(m + 1, n))
    <3>1. h \in Upto(m, n)
      BY <2>1, <2>3 DEF Upto
    <3>2. PICK j : Latest(m, n, f, j) /\ j >= h
      BY <1>2, <2>1, <3>1, Zenon
    <3>3. \A x \in Upto(m + 1, n) : x \in Upto(m, n) \/ x = m + 1
      BY DEF Upto
    <3>4. \A x \in Upto(m, n) : x \in Upto(m + 1, n)
      BY DEF Upto
    <3>5. Latest(m + 1, n, f, j)
      BY <2>3, <3>2, <3>3, <3>4, Zenon DEF Latest
    <3> QED BY <3>2, <3>5, Zenon
  <2> QED BY <2>2, <2>3, Zenon
<1>3. k \in E
  <2> HIDE DEF E
  <2>1. 0 .. k \subseteq E
    BY <1>1, <1>2, BoundedInduction
  <2> QED BY <2>1
<1> QED BY <1>3

LEMMA LatestIsOne ==
  ASSUME NEW k \in Nat, NEW n, NEW f, NEW i, NEW j, Latest(k, n, f, i), Latest(k, n, f, j)
  PROVE  i = j
<1>1. i \in 1 .. k /\ j \in 1 .. k
  BY DEF Latest, Upto
<1>2. ~(i > j) /\ ~(j > i)
  BY DEF Latest
<1> QED BY <1>1, <1>2

LEMMA FirstFits ==
  ASSUME NEW k \in Nat, NEW n, n \in DOMAIN Services[k + 1].types, Upto(k, n) = {},
         IsDef(n, DefOf(k + 1, n))
  PROVE  DefFits(k + 1, n, DefOf(k + 1, n))
<1> DEFINE def == DefOf(k + 1, n)
<1>1. Upto(k + 1, n) = {k + 1}
  BY UptoNext
<1>2. /\ def.interfaces = UNION { DefOf(i, n).interfaces : i \in Upto(k + 1, n) }
      /\ def.types = UNION { DefOf(i, n).types : i \in Upto(k + 1, n) }
      /\ def.values = UNION { DefOf(i, n).values : i \in Upto(k + 1, n) }
  BY <1>1
<1>3. ~(k + 1 > k + 1)
  OBVIOUS
<1>4. \A f, j : Latest(k + 1, n, f, j) <=> j = k + 1 /\ f \in DOMAIN def.fields
  BY <1>1, <1>3 DEF Latest, FieldsOf
<1>5. \A f : Stays(k + 1, n, f, k + 1)
  BY <1>1, <1>3 DEF Stays
<1> HIDE DEF def
<1>6. /\ \A f : f \in DOMAIN def.fields <=> \E j : Latest(k + 1, n, f, j) /\ Stays(k + 1, n, f, j)
      /\ \A f \in DOMAIN def.fields : \A j : Latest(k + 1, n, f, j) => def.fields[f] = DefOf(j, n).fields[f]
  BY <1>4, <1>5 DEF def
<1> QED BY <1>1, <1>2, <1>6 DEF DefFits, def

LEMMA SameFits ==
  ASSUME NEW k \in Nat, NEW n, n \notin DOMAIN Services[k + 1].types, NEW def, DefFits(k, n, def)
  PROVE  DefFits(k + 1, n, def)
<1>1. Upto(k + 1, n) = Upto(k, n)
  BY UptoNext
<1>2. \A f, j : /\ Latest(k + 1, n, f, j) <=> Latest(k, n, f, j)
                /\ Stays(k + 1, n, f, j) <=> Stays(k, n, f, j)
  BY <1>1, Zenon DEF Latest, Stays
<1> QED BY <1>1, <1>2 DEF DefFits

\* The fields of the merged type are taken by their latest declarations.
LEMMA TakenOfMerged ==
  ASSUME NEW k, NEW n, NEW old, DefFits(k, n, old), NEW f, NEW j, Latest(k, n, f, j), f \in DOMAIN old.fields
  PROVE  f \in Taken(n, old) <=> f \in FromLast(j, n)
<1>1. old.fields[f] = DefOf(j, n).fields[f]
  BY DEF DefFits
<1>2. f \in DOMAIN DefOf(j, n).fields
  BY DEF Latest, FieldsOf
<1>3. f \in Taken(n, old) <=>
        IF n \in RootObjectName THEN IsNodeField(f, old.fields[f]) ELSE IsIDField(f, old.fields[f])
  BY TakenIs, Zenon
<1>4. f \in Taken(n, DefOf(j, n)) <=>
        IF n \in RootObjectName THEN IsNodeField(f, DefOf(j, n).fields[f]) ELSE IsIDField(f, DefOf(j, n).fields[f])
  BY <1>2, TakenIs, Zenon
<1> QED BY <1>1, <1>3, <1>4, Zenon DEF FromLast

LEMMA NextFits ==
  ASSUME NEW k \in Nat, NEW n, n # NodeInterfaceName, n \in DOMAIN Services[k + 1].types,
         IsDef(n, DefOf(k + 1, n)), NEW old, DefFits(k, n, old), ~Conflict(n, DefOf(k + 1, n), old)
  PROVE  DefFits(k + 1, n, MergeType(n, DefOf(k + 1, n), old))
<1> DEFINE def == DefOf(k + 1, n)
           new == MergeType(n, def, old)
<1>1. IsDef(n, old)
  BY DEF DefFits
<1>2. /\ IsDef(n, new)
      /\ def.kind = old.kind /\ new.kind = def.kind
      /\ def.kind = "UNION" => def.types = old.types
      /\ ImplementsNode(def) <=> ImplementsNode(old)
      /\ new.interfaces = def.interfaces \cup old.interfaces
      /\ new.types = def.types \cup old.types
      /\ new.values = def.values \cup old.values
      /\ DOMAIN new.fields = DOMAIN def.fields \cup (DOMAIN old.fields \ Taken(n, old))
      /\ \A f \in DOMAIN def.fields : new.fields[f] = def.fields[f]
      /\ \A f \in DOMAIN new.fields : f \notin DOMAIN def.fields => new.fields[f] = old.fields[f]
  <2>1. TypeMerged(n, def, old, new)
    BY <1>1, MergedType, Zenon
  <2> HIDE DEF def, new
  <2> QED BY <2>1 DEF TypeMerged
<1> HIDE DEF new
<1>3. Upto(k + 1, n) = Upto(k, n) \cup {k + 1} /\ \A i \in Upto(k, n) : i \in 1 .. k /\ i < k + 1 /\ i # k + 1
  BY UptoNext, Zenon
<1>4. /\ new.interfaces = UNION { DefOf(i, n).interfaces : i \in Upto(k + 1, n) }
      /\ new.types = UNION { DefOf(i, n).types : i \in Upto(k + 1, n) }
      /\ new.values = UNION { DefOf(i, n).values : i \in Upto(k + 1, n) }
  <2>1. /\ old.interfaces = UNION { DefOf(i, n).interfaces : i \in Upto(k, n) }
        /\ old.types = UNION { DefOf(i, n).types : i \in Upto(k, n) }
        /\ old.values = UNION { DefOf(i, n).values : i \in Upto(k, n) }
    BY DEF DefFits
  <2>2. /\ new.interfaces = DefOf(k + 1, n).interfaces \cup old.interfaces
        /\ new.types = DefOf(k + 1, n).types \cup old.types
        /\ new.values = DefOf(k + 1, n).values \cup old.values
    BY <1>2, Zenon
  <2> HIDE DEF def
  <2>3. new.interfaces = UNION { DefOf(i, n).interfaces : i \in Upto(k + 1, n) }
    BY <1>3, <2>1, <2>2
  <2>4. new.types = UNION { DefOf(i, n).types : i \in Upto(k + 1, n) }
    BY <1>3, <2>1, <2>2
  <2>5. new.values = UNION { DefOf(i, n).values : i \in Upto(k + 1, n) }
    BY <1>3, <2>1, <2>2
  <2> QED BY <2>3, <2>4, <2>5
<1>5. \A i \in Upto(k + 1, n) : /\ DefOf(i, n).kind = new.kind
                                /\ new.kind = "UNION" => DefOf(i, n).types = new.types
                                /\ ImplementsNode(DefOf(i, n)) <=> ImplementsNode(new)
  <2>1. \A i \in Upto(k, n) : /\ DefOf(i, n).kind = old.kind
                              /\ old.kind = "UNION" => DefOf(i, n).types = old.types
                              /\ ImplementsNode(DefOf(i, n)) <=> ImplementsNode(old)
    BY DEF DefFits
  <2>2. /\ ImplementsNode(new) <=> ImplementsNode(old)
        /\ new.kind = "UNION" => new.types = old.types /\ new.types = def.types
    BY <1>2 DEF ImplementsNode
  <2> QED BY <1>2, <1>3, <2>1, <2>2
<1>6. \A f \in DOMAIN def.fields : \A j : Latest(k + 1, n, f, j) <=> j = k + 1
  <2>1. ~(k + 1 > k + 1) /\ \A i \in Upto(k, n) : ~(i > k + 1) /\ k + 1 > i
    BY <1>3
  <2> QED BY <1>3, <2>1 DEF Latest, FieldsOf
<1>7. \A f : f \notin DOMAIN def.fields => \A j : Latest(k + 1, n, f, j) <=> Latest(k, n, f, j)
  BY <1>3, Zenon DEF Latest, FieldsOf
<1>8. \A f : Stays(k + 1, n, f, k + 1)
  <2>1. ~(k + 1 > k + 1) /\ \A i \in Upto(k, n) : ~(i > k + 1)
    BY <1>3
  <2> QED BY <1>3, <2>1 DEF Stays
<1>9. \A f, j : Latest(k, n, f, j) => (Stays(k + 1, n, f, j) <=> f \notin FromLast(j, n))
  <2>1. \A i \in Upto(k, n) : k + 1 > i
    BY <1>3
  <2> QED BY <1>3, <2>1 DEF Stays, Latest
<1>10. \A f : f \in DOMAIN old.fields <=> \E j : Latest(k, n, f, j) /\ Stays(k, n, f, j)
  BY DEF DefFits
<1>11. \A f \in DOMAIN old.fields : \A j : Latest(k, n, f, j) =>
         /\ old.fields[f] = DefOf(j, n).fields[f]
         /\ f \in Taken(n, old) <=> f \in FromLast(j, n)
  BY TakenOfMerged DEF DefFits
<1>12. ASSUME NEW f
       PROVE  f \in DOMAIN new.fields <=> \E j : Latest(k + 1, n, f, j) /\ Stays(k + 1, n, f, j)
  <2>1. CASE f \in DOMAIN def.fields
    BY <1>2, <1>6, <1>8, <2>1
  <2>2. CASE f \notin DOMAIN def.fields
    <3>1. ASSUME f \in DOMAIN new.fields PROVE \E j : Latest(k + 1, n, f, j) /\ Stays(k + 1, n, f, j)
      <4>1. f \in DOMAIN old.fields /\ f \notin Taken(n, old)
        BY <1>2, <2>2, <3>1
      <4>2. PICK j : Latest(k, n, f, j)
        BY <1>10, <4>1
      <4>3. f \notin FromLast(j, n)
        BY <1>11, <4>1, <4>2
      <4> QED BY <1>7, <1>9, <2>2, <4>2, <4>3
    <3>2. ASSUME NEW j, Latest(k + 1, n, f, j), Stays(k + 1, n, f, j) PROVE f \in DOMAIN new.fields
      <4>1. Latest(k, n, f, j)
        BY <1>7, <2>2, <3>2
      <4>2. f \notin FromLast(j, n)
        BY <1>9, <3>2, <4>1
      <4>3. f \in DOMAIN old.fields
        BY <1>10, <4>1, <4>2 DEF Stays
      <4> QED BY <1>2, <1>11, <4>1, <4>2, <4>3
    <3> QED BY <3>1, <3>2
  <2> QED BY <2>1, <2>2
<1>13. ASSUME NEW f \in DOMAIN new.fields, NEW j, Latest(k + 1, n, f, j)
       PROVE  new.fields[f] = DefOf(j, n).fields[f]
  <2>1. CASE f \in DOMAIN def.fields
    BY <1>2, <1>6, <1>13, <2>1
  <2>2. CASE f \notin DOMAIN def.fields
    <3>1. f \in DOMAIN old.fields /\ new.fields[f] = old.fields[f]
      BY <1>2, <2>2
    <3> QED BY <1>7, <1>11, <1>13, <2>2, <3>1
  <2> QED BY <2>1, <2>2
<1>14. DefFits(k + 1, n, new)
  BY <1>2, <1>4, <1>5, <1>12, <1>13, Zenon DEF DefFits
<1> QED BY <1>14 DEF new
-----------------------------------------------------------------------------
\* What the merge of the first k schemas is.

LEMMA RecordsAreSchemas ==
  ASSUME NEW a, NEW b
  PROVE  [types |-> a, directives |-> b] # NoSchema /\ [schema |-> a, typeURLMap |-> b] # NoSchema
<1>1. /\ DOMAIN [types |-> a, directives |-> b] = {"types", "directives"}
      /\ DOMAIN [schema |-> a, typeURLMap |-> b] = {"schema", "typeURLMap"}
      /\ DOMAIN [error |-> TRUE] = {"error"}
  OBVIOUS
<1>2. "types" \notin {"error"} /\ "schema" \notin {"error"}
  OBVIOUS
<1> QED BY <1>1, <1>2 DEF NoSchema

LEMMA MergeSchemaIs ==
  ASSUME NEW old, NEW input, NEW next, next = MergeSchema(old, input)
  PROVE  /\ next # NoSchema <=>
              /\ old # NoSchema
              /\ \A n \in DOMAIN old.types \cap DOMAIN input.types : ~Conflict(n, input.types[n], old.types[n])
         /\ next # NoSchema =>
              /\ DOMAIN next.types = DOMAIN old.types \cup DOMAIN input.types
              /\ \A n \in DOMAIN old.types \cap DOMAIN input.types :
                   next.types[n] = MergeType(n, input.types[n], old.types[n])
              /\ \A n \in DOMAIN old.types : n \notin DOMAIN input.types => next.types[n] = old.types[n]
              /\ \A n \in DOMAIN input.types : n \notin DOMAIN old.types => next.types[n] = input.types[n]
              /\ DOMAIN next.directives = DOMAIN old.directives \cup DOMAIN input.directives
<1> DEFINE both == DOMAIN old.types \cap DOMAIN input.types
           fine == old # NoSchema /\ \A n \in both : ~Conflict(n, input.types[n], old.types[n])
           shared == [n \in both |-> MergeType(n, input.types[n], old.types[n])]
           types == Over(shared, Over(old.types, input.types))
           directives == Over(input.directives, old.directives)
<1>1. /\ ~fine => next = NoSchema
      /\ fine => next = [types |-> types, directives |-> directives]
  BY DEF MergeSchema
<1>2. /\ DOMAIN shared = both
      /\ \A n \in both : shared[n] = MergeType(n, input.types[n], old.types[n])
  OBVIOUS
<1> HIDE DEF shared
<1>3. /\ DOMAIN Over(old.types, input.types) = DOMAIN old.types \cup DOMAIN input.types
      /\ \A n \in DOMAIN old.types : Over(old.types, input.types)[n] = old.types[n]
      /\ \A n \in DOMAIN input.types : n \notin DOMAIN old.types => Over(old.types, input.types)[n] = input.types[n]
      /\ DOMAIN types = DOMAIN shared \cup DOMAIN Over(old.types, input.types)
      /\ \A n \in DOMAIN shared : types[n] = shared[n]
      /\ \A n \in DOMAIN Over(old.types, input.types) : n \notin DOMAIN shared => types[n] = Over(old.types, input.types)[n]
      /\ DOMAIN directives = DOMAIN input.directives \cup DOMAIN old.directives
  <2> DEFINE others == Over(old.types, input.types)
  <2>1. /\ DOMAIN others = DOMAIN old.types \cup DOMAIN input.types
        /\ \A n \in DOMAIN old.types : others[n] = old.types[n]
        /\ \A n \in DOMAIN input.types : n \notin DOMAIN old.types => others[n] = input.types[n]
    BY DEF Over
  <2>2. DOMAIN directives = DOMAIN input.directives \cup DOMAIN old.directives
    BY OverIs, Zenon
  <2> HIDE DEF others, directives
  <2>3. /\ DOMAIN types = DOMAIN shared \cup DOMAIN others
        /\ \A n \in DOMAIN shared : types[n] = shared[n]
        /\ \A n \in DOMAIN others : n \notin DOMAIN shared => types[n] = others[n]
    BY OverIs, Zenon DEF others
  <2> QED BY <2>1, <2>2, <2>3, Zenon DEF others
<1> HIDE DEF types, directives, fine
<1>4. next # NoSchema <=> fine
  BY <1>1, RecordsAreSchemas, Zenon
<1>5. ASSUME fine
      PROVE  /\ DOMAIN next.types = DOMAIN old.types \cup DOMAIN input.types
             /\ \A n \in both : next.types[n] = MergeType(n, input.types[n], old.types[n])
             /\ \A n \in DOMAIN old.types : n \notin DOMAIN input.types => next.types[n] = old.types[n]
             /\ \A n \in DOMAIN input.types : n \notin DOMAIN old.types => next.types[n] = input.types[n]
             /\ DOMAIN next.directives = DOMAIN old.directives \cup DOMAIN input.directives
  <2>1. next.types = types /\ next.directives = directives
    BY <1>1, <1>5
  <2> QED BY <1>2, <1>3, <2>1
<1> QED BY <1>4, <1>5, Zenon DEF fine

Fits(k, schema) ==
  /\ \A n : n \in DOMAIN schema.types <=> Upto(k, n) # {}
  /\ \A n \in DOMAIN schema.types : n # NodeInterfaceName => DefFits(k, n, schema.types[n])
  /\ NodeInterfaceName \in DOMAIN schema.types =>
       \E i \in Upto(k, NodeInterfaceName) :
         /\ \A j \in Upto(k, NodeInterfaceName) : i <= j
         /\ schema.types[NodeInterfaceName] = DefOf(i, NodeInterfaceName)
  /\ \A d : d \in DOMAIN schema.directives <=> \E i \in 1 .. k : d \in DOMAIN Services[i].directives

Given(inputs) ==
  /\ \A i \in DOMAIN Services :
       /\ inputs[i].types = Services[i].types /\ inputs[i].url = Services[i].url
       /\ DOMAIN inputs[i].directives = DOMAIN Services[i].directives
  /\ \A i \in DOMAIN Services : \A n \in DOMAIN Services[i].types : IsDef(n, DefOf(i, n))

LEMMA FitsFirst ==
  ASSUME NEW inputs, Given(inputs), 1 \in DOMAIN Services,
         NEW schema, schema = [types |-> inputs[1].types, directives |-> inputs[1].directives]
  PROVE  Fits(1, schema)
<1>1. schema.types = Services[1].types /\ DOMAIN schema.directives = DOMAIN Services[1].directives
  BY DEF Given
<1>2. 0 \in Nat /\ 0 + 1 = 1 /\ \A n : Upto(0, n) = {}
  BY DEF Upto
<1>3. \A n : n \in DOMAIN Services[1].types => Upto(1, n) = {1}
  BY DEF Upto
<1>4. \A n : n \notin DOMAIN Services[1].types => Upto(1, n) = {}
  BY DEF Upto
<1>5. \A n \in DOMAIN schema.types : DefFits(1, n, schema.types[n])
  <2> SUFFICES ASSUME NEW n \in DOMAIN schema.types PROVE DefFits(1, n, schema.types[n])
    OBVIOUS
  <2>1. IsDef(n, DefOf(1, n)) /\ schema.types[n] = DefOf(1, n) /\ n \in DOMAIN Services[1].types
    BY <1>1 DEF Given, DefOf
  <2>2. DefFits(0 + 1, n, DefOf(0 + 1, n))
    <3>1. IsDef(n, DefOf(0 + 1, n)) /\ n \in DOMAIN Services[0 + 1].types
      BY <1>2, <2>1
    <3> QED BY <1>2, <3>1, FirstFits, Zenon
  <2> QED BY <1>2, <2>1, <2>2
<1>6. NodeInterfaceName \in DOMAIN schema.types =>
        \E i \in Upto(1, NodeInterfaceName) :
          /\ \A j \in Upto(1, NodeInterfaceName) : i <= j
          /\ schema.types[NodeInterfaceName] = DefOf(i, NodeInterfaceName)
  BY <1>1, <1>3 DEF DefOf
<1>7. \A d : d \in DOMAIN schema.directives <=> \E i \in 1 .. 1 : d \in DOMAIN Services[i].directives
  BY <1>1
<1> QED BY <1>1, <1>3, <1>4, <1>5, <1>6, <1>7 DEF Fits

LEMMA FitsNext ==
  ASSUME NEW inputs, Given(inputs), NEW k \in Nat \ {0}, k + 1 \in DOMAIN Services,
         NEW old, Fits(k, old), NEW next, next = MergeSchema(old, inputs[k + 1]), next # NoSchema
  PROVE  Fits(k + 1, next)
<1> DEFINE input == inputs[k + 1]
<1>1. /\ \A n \in DOMAIN old.types \cap DOMAIN input.types : ~Conflict(n, input.types[n], old.types[n])
      /\ DOMAIN next.types = DOMAIN old.types \cup DOMAIN input.types
      /\ \A n \in DOMAIN old.types \cap DOMAIN input.types :
           next.types[n] = MergeType(n, input.types[n], old.types[n])
      /\ \A n \in DOMAIN old.types : n \notin DOMAIN input.types => next.types[n] = old.types[n]
      /\ \A n \in DOMAIN input.types : n \notin DOMAIN old.types => next.types[n] = input.types[n]
      /\ DOMAIN next.directives = DOMAIN old.directives \cup DOMAIN input.directives
  <2>1. next = MergeSchema(old, input) /\ next # NoSchema
    OBVIOUS
  <2> HIDE DEF input
  <2> QED BY <2>1, MergeSchemaIs
<1>2. /\ input.types = Services[k + 1].types /\ DOMAIN input.directives = DOMAIN Services[k + 1].directives
      /\ \A n \in DOMAIN input.types : IsDef(n, DefOf(k + 1, n)) /\ input.types[n] = DefOf(k + 1, n)
  BY DEF Given, DefOf
<1> HIDE DEF input
<1>3. /\ \A n : n \in DOMAIN old.types <=> Upto(k, n) # {}
      /\ \A n \in DOMAIN old.types : n # NodeInterfaceName => DefFits(k, n, old.types[n])
      /\ NodeInterfaceName \in DOMAIN old.types =>
           \E i \in Upto(k, NodeInterfaceName) :
             /\ \A j \in Upto(k, NodeInterfaceName) : i <= j
             /\ old.types[NodeInterfaceName] = DefOf(i, NodeInterfaceName)
      /\ \A d : d \in DOMAIN old.directives <=> \E i \in 1 .. k : d \in DOMAIN Services[i].directives
  BY DEF Fits
<1>4. \A n : /\ n \in DOMAIN input.types => Upto(k + 1, n) = Upto(k, n) \cup {k + 1}
             /\ n \notin DOMAIN input.types => Upto(k + 1, n) = Upto(k, n)
             /\ \A i \in Upto(k, n) : i <= k + 1
  <2>1. \A n : \A i \in Upto(k, n) : i <= k + 1
    BY DEF Upto
  <2> QED BY <1>2, <2>1, UptoNext
<1>5. \A n : n \in DOMAIN next.types <=> Upto(k + 1, n) # {}
  BY <1>1, <1>3, <1>4
<1>6. ASSUME NEW n \in DOMAIN next.types, n # NodeInterfaceName
      PROVE  DefFits(k + 1, n, next.types[n])
  <2>1. CASE n \in DOMAIN old.types /\ n \in DOMAIN input.types
    <3>1. ~Conflict(n, DefOf(k + 1, n), old.types[n]) /\ next.types[n] = MergeType(n, DefOf(k + 1, n), old.types[n])
      BY <1>1, <1>2, <2>1
    <3>2. DefFits(k, n, old.types[n]) /\ IsDef(n, DefOf(k + 1, n)) /\ n \in DOMAIN Services[k + 1].types
      BY <1>2, <1>3, <1>6, <2>1
    <3> QED BY <1>6, <3>1, <3>2, NextFits
  <2>2. CASE n \in DOMAIN old.types /\ n \notin DOMAIN input.types
    <3>1. next.types[n] = old.types[n] /\ DefFits(k, n, old.types[n]) /\ n \notin DOMAIN Services[k + 1].types
      BY <1>1, <1>2, <1>3, <1>6, <2>2
    <3> QED BY <3>1, SameFits
  <2>3. CASE n \notin DOMAIN old.types
    <3>1. n \in DOMAIN input.types /\ Upto(k, n) = {}
      BY <1>1, <1>3, <1>6, <2>3
    <3>2. /\ next.types[n] = DefOf(k + 1, n) /\ IsDef(n, DefOf(k + 1, n)) /\ n \in DOMAIN Services[k + 1].types
      BY <1>1, <1>2, <2>3, <3>1
    <3> QED BY <3>1, <3>2, FirstFits
  <2> QED BY <2>1, <2>2, <2>3
<1>7. ASSUME NodeInterfaceName \in DOMAIN next.types
      PROVE  \E i \in Upto(k + 1, NodeInterfaceName) :
               /\ \A j \in Upto(k + 1, NodeInterfaceName) : i <= j
               /\ next.types[NodeInterfaceName] = DefOf(i, NodeInterfaceName)
  <2> DEFINE n == NodeInterfaceName
  <2>1. CASE n \in DOMAIN old.types
    <3>1. PICK i \in Upto(k, n) : (\A j \in Upto(k, n) : i <= j) /\ old.types[n] = DefOf(i, n)
      BY <1>3, <2>1
    <3>2. next.types[n] = old.types[n]
      <4>1. CASE n \in DOMAIN input.types
        <5>1. next.types[n] = MergeType(n, input.types[n], old.types[n])
          BY <1>1, <2>1, <4>1
        <5>2. /\ n \notin RootObjectName
              /\ MergeType(n, input.types[n], old.types[n]) = old.types[n]
          BY DEF MergeType, RootObjectName, NodeInterfaceName
        <5> QED BY <5>1, <5>2
      <4>2. CASE n \notin DOMAIN input.types
        BY <1>1, <2>1, <4>2
      <4> QED BY <4>1, <4>2
    <3>3. i \in Upto(k + 1, n) /\ \A j \in Upto(k + 1, n) : i <= j
      BY <1>4, <3>1
    <3> QED BY <3>1, <3>2, <3>3
  <2>2. CASE n \notin DOMAIN old.types
    <3>1. n \in DOMAIN input.types /\ Upto(k, n) = {}
      BY <1>1, <1>3, <1>7, <2>2
    <3>2. next.types[n] = DefOf(k + 1, n) /\ Upto(k + 1, n) = {k + 1}
      BY <1>1, <1>2, <1>4, <2>2, <3>1
    <3> QED BY <3>2
  <2> QED BY <2>1, <2>2
<1>8. \A d : d \in DOMAIN next.directives <=> \E i \in 1 .. k + 1 : d \in DOMAIN Services[i].directives
  <2>1. \A i : i \in 1 .. k + 1 <=> i \in 1 .. k \/ i = k + 1
    OBVIOUS
  <2> QED BY <1>1, <1>2, <1>3, <2>1
<1> QED BY <1>5, <1>6, <1>7, <1>8 DEF Fits

Walk(inputs, merged) ==
  /\ merged[1] = [types |-> inputs[1].types, directives |-> inputs[1].directives]
  /\ \A k \in 1 .. Len(Services) - 1 : merged[k + 1] = MergeSchema(merged[k], inputs[k + 1])

NoConflict(k, schema) ==
  \A n \in DOMAIN schema.types \cap DOMAIN Services[k + 1].types : ~Conflict(n, DefOf(k + 1, n), schema.types[n])

LEMMA AllFit ==
  ASSUME world \in World, NEW inputs, Given(inputs), NEW merged, Walk(inputs, merged)
  PROVE  \A k \in 1 .. Len(Services) : merged[k] # NoSchema => Fits(k, merged[k])
<1> DEFINE N == Len(Services)
           E == { m \in 0 .. N - 1 : merged[m + 1] # NoSchema => Fits(m + 1, merged[m + 1]) }
<1>1. N \in Nat \ {0} /\ DOMAIN Services = 1 .. N
  BY WorldFacts
<1>2. 0 \in E
  <2>1. 1 \in DOMAIN Services
    BY <1>1
  <2>2. merged[1] = [types |-> inputs[1].types, directives |-> inputs[1].directives]
    BY DEF Walk
  <2>3. Fits(1, merged[1])
    BY <2>1, <2>2, FitsFirst, Zenon
  <2>4. 0 + 1 = 1 /\ 0 \in 0 .. N - 1
    BY <1>1
  <2> HIDE DEF N
  <2> QED BY <2>3, <2>4
<1>3. ASSUME NEW m \in 0 .. (N - 1) - 1, m \in E PROVE m + 1 \in E
  <2> DEFINE k == m + 1
  <2>1. k \in Nat \ {0} /\ k \in 1 .. N - 1 /\ k + 1 \in DOMAIN Services /\ k \in 0 .. N - 1
    BY <1>1
  <2>2. merged[k + 1] = MergeSchema(merged[k], inputs[k + 1])
    BY <2>1 DEF Walk
  <2>3. merged[k] # NoSchema => Fits(k, merged[k])
    BY <1>3
  <2> HIDE DEF k
  <2>4. ASSUME merged[k + 1] # NoSchema PROVE Fits(k + 1, merged[k + 1])
    <3>1. merged[k] # NoSchema
      BY <2>2, <2>4, MergeSchemaIs
    <3> QED BY <2>1, <2>2, <2>3, <2>4, <3>1, FitsNext
  <2> HIDE DEF N
  <2>5. k \in E
    BY <2>1, <2>4
  <2> QED BY <2>5 DEF k
<1>4. 0 .. N - 1 \subseteq E
  <2>1. N - 1 \in Nat
    BY <1>1
  <2> HIDE DEF E, N
  <2> QED BY <1>2, <1>3, <2>1, BoundedInduction
<1>5. ASSUME NEW k \in 1 .. N, merged[k] # NoSchema PROVE Fits(k, merged[k])
  <2>1. k - 1 \in 0 .. N - 1 /\ (k - 1) + 1 = k
    BY <1>1
  <2> HIDE DEF N
  <2> QED BY <1>4, <1>5, <2>1
<1> QED BY <1>5

LEMMA NoneConflicts ==
  ASSUME world \in World, NEW inputs, Given(inputs), NEW merged, Walk(inputs, merged),
         merged[Len(Services)] # NoSchema
  PROVE  /\ \A k \in 1 .. Len(Services) : Fits(k, merged[k])
         /\ \A k \in 1 .. Len(Services) - 1 : NoConflict(k, merged[k])
<1> DEFINE N == Len(Services)
           E == { m \in 0 .. N - 1 : merged[N - m] # NoSchema }
<1>1. N \in Nat \ {0} /\ DOMAIN Services = 1 .. N
  BY WorldFacts
<1>2. \A k \in 1 .. N - 1 : merged[k + 1] # NoSchema => merged[k] # NoSchema /\ NoConflict(k, merged[k])
  <2> SUFFICES ASSUME NEW k \in 1 .. N - 1, merged[k + 1] # NoSchema
               PROVE  merged[k] # NoSchema /\ NoConflict(k, merged[k])
    OBVIOUS
  <2> DEFINE input == inputs[k + 1]
  <2>1. merged[k + 1] = MergeSchema(merged[k], input)
    BY DEF Walk
  <2>2. k + 1 \in DOMAIN Services
    BY <1>1
  <2>3. input.types = Services[k + 1].types
    BY <2>2 DEF Given
  <2> HIDE DEF input
  <2>4. /\ merged[k] # NoSchema
        /\ \A n \in DOMAIN merged[k].types \cap DOMAIN input.types : ~Conflict(n, input.types[n], merged[k].types[n])
    BY <2>1, MergeSchemaIs
  <2> QED BY <2>3, <2>4 DEF NoConflict, DefOf
<1>3. 0 .. N - 1 \subseteq E
  <2>1. 0 \in E
    <3>1. 0 \in 0 .. N - 1 /\ N - 0 = N
      BY <1>1
    <3> HIDE DEF N
    <3> QED BY <3>1 DEF N
  <2>2. ASSUME NEW m \in 0 .. (N - 1) - 1, m \in E PROVE m + 1 \in E
    <3>1. N - (m + 1) \in 1 .. N - 1 /\ (N - (m + 1)) + 1 = N - m /\ m + 1 \in 0 .. N - 1
      BY <1>1
    <3>2. merged[N - m] # NoSchema
      BY <2>2
    <3> HIDE DEF N
    <3> QED BY <1>2, <3>1, <3>2
  <2>3. N - 1 \in Nat
    BY <1>1
  <2> HIDE DEF E, N
  <2> QED BY <2>1, <2>2, <2>3, BoundedInduction
<1>4. \A k \in 1 .. N : merged[k] # NoSchema
  <2> SUFFICES ASSUME NEW k \in 1 .. N PROVE merged[k] # NoSchema
    OBVIOUS
  <2>1. N - k \in 0 .. N - 1 /\ N - (N - k) = k
    BY <1>1
  <2> HIDE DEF N
  <2> QED BY <1>3, <2>1
<1>5. \A k \in 1 .. N : Fits(k, merged[k])
  BY <1>4, AllFit
<1>6. \A k \in 1 .. N - 1 : k + 1 \in 1 .. N
  BY <1>1
<1> HIDE DEF N
<1>7. \A k \in 1 .. N - 1 : NoConflict(k, merged[k])
  BY <1>2, <1>4, <1>6
<1> QED BY <1>5, <1>7 DEF N

\* Two schemas that have a field of a root type, or of a node type, and whose merge
\* did not conflict.
LEMMA Apart ==
  ASSUME world \in World, NEW inputs, Given(inputs), NEW merged, Walk(inputs, merged),
         merged[Len(Services)] # NoSchema,
         NEW n, n # NodeInterfaceName,
         n \in RootObjectName \/ \E i \in Declaring(n) : ImplementsNode(DefOf(i, n)),
         NEW f, NEW i \in DOMAIN Services, NEW j \in DOMAIN Services, i < j, Has(i, n, f), Has(j, n, f)
  PROVE  f \in FromLast(i, n)
<1> DEFINE N == Len(Services)
           Bad(h) == h > i /\ h \in 1 .. N /\ Has(h, n, f)
           E == { m \in 0 .. N : \A h \in 1 .. m : ~Bad(h) }
<1>0. N \in Nat \ {0} /\ DOMAIN Services = 1 .. N
  BY WorldFacts
<1>1. SUFFICES ASSUME f \notin FromLast(i, n) PROVE FALSE
  OBVIOUS
<1>2. /\ \A k \in 1 .. N : Fits(k, merged[k])
      /\ \A k \in 1 .. N - 1 : NoConflict(k, merged[k])
  BY NoneConflicts
<1>3. ASSUME NEW k \in 1 .. N - 1, \A h \in 1 .. k : ~Bad(h) PROVE ~Bad(k + 1)
  <2>1. SUFFICES ASSUME k + 1 > i, Has(k + 1, n, f) PROVE FALSE
    OBVIOUS
  <2> DEFINE old == merged[k].types[n]
             def == DefOf(k + 1, n)
  <2>2. i \in Upto(k, n) /\ f \in FieldsOf(i, n)
    BY <1>0, <2>1 DEF Upto, Has
  <2>3. k \in 1 .. N /\ k \in Nat /\ k + 1 \in DOMAIN Services /\ N \in 1 .. N
    BY <1>0
  <2>4. Latest(k, n, f, i)
    <3>1. \A h \in Upto(k, n) : h > i => f \notin FieldsOf(h, n)
      BY <1>3, <2>3 DEF Upto, Has
    <3> QED BY <2>2, <3>1 DEF Latest
  <2>5. n \in DOMAIN merged[k].types /\ DefFits(k, n, old)
    <3>1. Fits(k, merged[k])
      BY <1>2, <2>3
    <3> QED BY <2>2, <3>1 DEF Fits
  <2>6. f \in DOMAIN old.fields
    BY <1>1, <2>4, <2>5 DEF DefFits, Stays
  <2>7. f \notin Taken(n, old)
    BY <1>1, <2>4, <2>5, <2>6, TakenOfMerged
  <2>8. f \in DOMAIN def.fields /\ n \in DOMAIN Services[k + 1].types /\ IsDef(n, def)
    BY <2>1, <2>3 DEF Has, FieldsOf, Given
  <2>9. ~Conflict(n, def, old)
    BY <1>2, <2>5, <2>8 DEF NoConflict
  <2>10. def.kind \notin {"SCALAR", "UNION"}
    BY <2>8 DEF IsDef
  <2>11. CASE n \in RootObjectName
    <3>1. f \in RootFields(def, old)
      BY <2>6, <2>7, <2>11 DEF RootFields, Taken
    <3>2. RootConflict(def, old)
      BY <2>8, <3>1 DEF RootConflict
    <3> QED BY <2>9, <2>10, <2>11, <3>2 DEF Conflict
  <2>12. CASE n \notin RootObjectName
    <3>1. PICK h \in Declaring(n) : ImplementsNode(DefOf(h, n))
      BY <2>12
    <3>2. ImplementsNode(def)
      <4>1. Fits(N, merged[N])
        BY <1>2, <2>3
      <4>2. h \in Upto(N, n) /\ k + 1 \in Upto(N, n)
        BY <1>0, <2>3, <2>8 DEF Upto, Declaring
      <4>3. DefFits(N, n, merged[N].types[n])
        BY <4>1, <4>2 DEF Fits
      <4>4. \A x \in Upto(N, n) : ImplementsNode(DefOf(x, n)) <=> ImplementsNode(merged[N].types[n])
        BY <4>3 DEF DefFits
      <4> QED BY <3>1, <4>2, <4>4
    <3>3. f \in (DOMAIN old.fields \ IDFields(old)) \cap DOMAIN def.fields
      BY <2>6, <2>7, <2>8, <2>12 DEF Taken
    <3>4. FieldsConflict(def, old)
      BY <3>2, <3>3 DEF FieldsConflict
    <3> QED BY <1>1, <2>9, <2>10, <2>12, <3>4 DEF Conflict, CustomConflict
  <2> QED BY <2>11, <2>12
<1>4. 0 .. N \subseteq E
  <2>1. 0 \in E
    BY <1>0
  <2>2. ASSUME NEW m \in 0 .. N - 1, m \in E PROVE m + 1 \in E
    <3>1. \A h \in 1 .. m : ~Bad(h)
      BY <2>2
    <3>2. ~Bad(m + 1)
      <4>1. CASE m = 0
        <5>1. i >= 1
          BY <1>0
        <5> QED BY <4>1, <5>1
      <4>2. CASE m # 0
        <5>1. m \in 1 .. N - 1
          BY <4>2
        <5> HIDE DEF Bad
        <5> QED BY <1>3, <3>1, <5>1
      <4> QED BY <4>1, <4>2
    <3>3. \A h \in 1 .. m + 1 : h \in 1 .. m \/ h = m + 1
      BY <1>0
    <3>4. m + 1 \in 0 .. N
      BY <1>0
    <3> HIDE DEF Bad, N
    <3> QED BY <3>1, <3>2, <3>3, <3>4
  <2> HIDE DEF E, N
  <2> QED BY <1>0, <2>1, <2>2, BoundedInduction
<1>5. N \in E /\ j \in 1 .. N
  BY <1>0, <1>4
<1>6. Bad(j)
  BY <1>5
<1> HIDE DEF Bad
<1> QED BY <1>5, <1>6

\* What clashes nevertheless is a split type.
LEMMA ClashesSplit ==
  ASSUME world \in World, NEW inputs, Given(inputs), NEW merged, Walk(inputs, merged),
         merged[Len(Services)] # NoSchema,
         NEW n, NEW i \in Declaring(n), NEW j \in Declaring(n), i # j, Clash(i, j, n)
  PROVE  Split(n)
<1> DEFINE N == Len(Services)
           new == merged[N].types[n]
<1>0. N \in Nat \ {0} /\ DOMAIN Services = 1 .. N
  BY WorldFacts
<1>1. i \in DOMAIN Services /\ j \in DOMAIN Services /\ i \in Upto(N, n) /\ j \in Upto(N, n)
      /\ n \in DOMAIN Services[i].types /\ n \in DOMAIN Services[j].types
  BY <1>0 DEF Declaring, Upto
<1>2. n # NodeInterfaceName
  BY DEF Clash
<1>3. DefFits(N, n, new)
  <2>1. Fits(N, merged[N])
    BY <1>0, NoneConflicts
  <2> QED BY <1>1, <1>2, <2>1 DEF Fits
<1>4. /\ DefOf(i, n).kind = DefOf(j, n).kind
      /\ DefOf(i, n).kind = "UNION" => DefOf(i, n).types = DefOf(j, n).types
      /\ ImplementsNode(DefOf(i, n)) <=> ImplementsNode(DefOf(j, n))
  BY <1>1, <1>3 DEF DefFits
<1>5. ImplementsNode(DefOf(i, n)) = ImplementsNode(DefOf(j, n))
  BY <1>4 DEF ImplementsNode
<1> DEFINE shared == FieldsOf(i, n) \cap FieldsOf(j, n)
           own == shared \ (FromLast(i, n) \cup FromLast(j, n))
<1>6. own # {} /\ (n \in RootObjectName \/ ImplementsNode(DefOf(i, n)) \/ Split(n))
  BY <1>4, <1>5 DEF Clash
<1>7. PICK f \in own : TRUE
  BY <1>6
<1>8. Has(i, n, f) /\ Has(j, n, f) /\ f \notin FromLast(i, n) /\ f \notin FromLast(j, n)
  BY <1>1, <1>7 DEF Has
<1>9. ASSUME n \in RootObjectName \/ ImplementsNode(DefOf(i, n)) PROVE FALSE
  <2>1. n \in RootObjectName \/ \E h \in Declaring(n) : ImplementsNode(DefOf(h, n))
    BY <1>9
  <2>2. CASE i < j
    BY <1>1, <1>2, <1>8, <2>1, <2>2, Apart
  <2>3. CASE j < i
    BY <1>1, <1>2, <1>8, <2>1, <2>3, Apart
  <2>4. i < j \/ j < i
    BY <1>0, <1>1
  <2> QED BY <2>2, <2>3, <2>4
<1> QED BY <1>6, <1>9
-----------------------------------------------------------------------------
\* The services, read.

LEMMA ReadService ==
  ASSUME world \in World, NEW i \in DOMAIN Services
  PROVE  /\ \A n \in DOMAIN Services[i].types : IsDef(n, DefOf(i, n))
         /\ ParsePanics(Answer(i)) <=> CutOff(i)
         /\ DOMAIN ParseSchema(Answer(i)).directives = DOMAIN Services[i].directives
         /\ ~ParsePanics(Answer(i)) =>
              /\ ParseSchema(Answer(i)).types = Services[i].types
              /\ ParseFails(Answer(i)) <=> ~Loads(Services[i].types)
<1> DEFINE schema == Services[i]
<1>1. IsMap(schema.types) /\ \A n \in DOMAIN schema.types : IsDef(n, schema.types[n])
  BY WorldAssumption DEF Services
<1>2. Answer(i) = ServiceSchema(schema)
  BY DEF Answer
<1>3. CutOff(i) <=> \E n \in DOMAIN schema.types : \E f \in DOMAIN schema.types[n].fields :
                      LongField(schema.types[n].fields[f])
  <2>1. \A field : LongField(field) <=>
          \E type \in {field.type} \cup Range(field.args) : Len(ResolveTypeRef(type)) > TypeRefDepth + 1
    BY DEF LongField, Long, Range
  <2> HIDE DEF schema
  <2>2. CutOff(i) <=> \E n \in DOMAIN schema.types : \E f \in DOMAIN schema.types[n].fields :
          \E type \in {schema.types[n].fields[f].type} \cup Range(schema.types[n].fields[f].args) :
            Len(ResolveTypeRef(type)) > TypeRefDepth + 1
    BY Zenon DEF CutOff, FieldsOf, DefOf, schema
  <2> QED BY <2>1, <2>2, Zenon
<1> HIDE DEF schema
<1>4. /\ ParsePanics(ServiceSchema(schema)) <=>
           \E n \in DOMAIN schema.types : \E f \in DOMAIN schema.types[n].fields :
             LongField(schema.types[n].fields[f])
      /\ ~ParsePanics(ServiceSchema(schema)) => ParseSchema(ServiceSchema(schema)).types = schema.types
      /\ DOMAIN ParseSchema(ServiceSchema(schema)).directives = DOMAIN schema.directives
      /\ ~ParsePanics(ServiceSchema(schema)) => (ParseFails(ServiceSchema(schema)) <=> ~Loads(schema.types))
  BY <1>1, ServiceRead, Zenon
<1>5. \A n \in DOMAIN schema.types : IsDef(n, DefOf(i, n))
  BY <1>1, Zenon DEF schema, DefOf
<1> QED BY <1>2, <1>3, <1>4, <1>5, Zenon DEF schema

LEMMA AllRead ==
  ASSUME world \in World, \A i \in DOMAIN Services : Readable(i),
         NEW inputs, inputs = Paired(InUrlOrder)
  PROVE  /\ Given(inputs)
         /\ DOMAIN inputs = 1 .. Len(Services) /\ Len(inputs) = Len(Services)
         /\ \A i \in DOMAIN Services : Loads(Services[i].types) /\ ~CutOff(i)
<1>1. /\ inputs = [k \in DOMAIN Services |->
            [url |-> Services[k].url, types |-> ParseSchema(Answer(k)).types,
             directives |-> ParseSchema(Answer(k)).directives]]
  BY DEF Paired, InUrlOrder
<1>2. Len(Services) \in Nat /\ DOMAIN Services = 1 .. Len(Services)
  BY WorldFacts
<1>3. DOMAIN inputs = 1 .. Len(Services) /\ Len(inputs) = Len(Services)
  <2> DEFINE N == Len(Services)
  <2>1. inputs \in [1 .. N -> { inputs[k] : k \in 1 .. N }] /\ N \in Nat
    BY <1>1, <1>2
  <2> HIDE DEF N
  <2>2. DOMAIN inputs = 1 .. N /\ Len(inputs) = N
    BY <2>1
  <2> QED BY <2>2 DEF N
<1>4. ASSUME NEW i \in DOMAIN Services
      PROVE  /\ inputs[i].types = Services[i].types /\ inputs[i].url = Services[i].url
             /\ DOMAIN inputs[i].directives = DOMAIN Services[i].directives
             /\ \A n \in DOMAIN Services[i].types : IsDef(n, DefOf(i, n))
             /\ Loads(Services[i].types) /\ ~CutOff(i)
  <2>1. ~ParsePanics(Answer(i)) /\ ~ParseFails(Answer(i))
    BY DEF Readable
  <2>2. /\ inputs[i].types = ParseSchema(Answer(i)).types /\ inputs[i].url = Services[i].url
        /\ inputs[i].directives = ParseSchema(Answer(i)).directives
    BY <1>1
  <2> QED BY <2>1, <2>2, ReadService, Zenon
<1> QED BY <1>3, <1>4, Zenon DEF Given
-----------------------------------------------------------------------------
\* Schemas that do not clash are merged.

NoTrouble(n) == \A i, j \in Declaring(n) : (i # j => ~Clash(i, j, n)) /\ ~Mixed(i, j, n)

LEMMA StepMerges ==
  ASSUME world \in World, NEW k \in Nat \ {0}, k + 1 \in DOMAIN Services,
         NEW n, n # NodeInterfaceName, n \in DOMAIN Services[k + 1].types, Upto(k, n) # {},
         NEW old, DefFits(k, n, old), NoTrouble(n)
  PROVE  ~Conflict(n, DefOf(k + 1, n), old)
<1> DEFINE l == k + 1
           def == DefOf(l, n)
<1>1. SUFFICES ASSUME Conflict(n, def, old) PROVE FALSE
  OBVIOUS
<1>2. l \in Declaring(n) /\ \A i \in Upto(k, n) : i \in Declaring(n) /\ i # l
  <2>1. DOMAIN Services = 1 .. Len(Services) /\ Len(Services) \in Nat
    BY WorldFacts
  <2> QED BY <2>1 DEF Declaring, Upto
<1> HIDE DEF l
<1>3. \A i \in Upto(k, n) : ~Clash(i, l, n) /\ ~Mixed(i, l, n) /\ ~Mixed(l, i, n)
  BY <1>2 DEF NoTrouble
<1>4. \A i \in Upto(k, n) :
        /\ DefOf(i, n).kind = old.kind
        /\ old.kind = "UNION" => DefOf(i, n).types = old.types
        /\ ImplementsNode(DefOf(i, n)) <=> ImplementsNode(old)
  BY DEF DefFits
<1>5. /\ def.kind = old.kind
      /\ def.kind = "UNION" => def.types = old.types
      /\ ImplementsNode(def) <=> ImplementsNode(old)
  <2>1. PICK i \in Upto(k, n) : TRUE
    OBVIOUS
  <2>2. /\ DefOf(i, n).kind = def.kind
        /\ DefOf(i, n).kind = "UNION" => DefOf(i, n).types = def.types
        /\ ImplementsNode(DefOf(i, n)) = ImplementsNode(def)
    BY <1>3 DEF Clash
  <2> QED BY <1>4, <2>2
<1>6. \A f \in DOMAIN old.fields : \E j \in Upto(k, n) :
        /\ f \in FieldsOf(j, n)
        /\ f \in Taken(n, old) <=> f \in FromLast(j, n)
  <2>1. \A f \in DOMAIN old.fields : \E j : Latest(k, n, f, j)
    BY DEF DefFits
  <2>2. \A f \in DOMAIN old.fields : \A j : Latest(k, n, f, j) => (f \in Taken(n, old) <=> f \in FromLast(j, n))
    BY TakenOfMerged
  <2> QED BY <2>1, <2>2, Zenon DEF Latest
\* A field that both have is their own only in types with nothing but such fields.
<1>7. ASSUME NEW j \in Upto(k, n), NEW f, f \in FieldsOf(j, n), f \in FieldsOf(l, n),
             f \notin FromLast(j, n) \/ f \notin FromLast(l, n)
      PROVE  n \notin RootObjectName /\ ~ImplementsNode(def) /\ ~Split(n)
  <2>1. f \notin FromLast(j, n) /\ f \notin FromLast(l, n)
    BY <1>3, <1>7 DEF Mixed
  <2>2. (FieldsOf(j, n) \cap FieldsOf(l, n)) \ (FromLast(j, n) \cup FromLast(l, n)) # {}
    BY <1>7, <2>1
  <2>3. ~(n \in RootObjectName) /\ ~(ImplementsNode(DefOf(j, n)) \/ Split(n))
    BY <1>3, <2>2, Zenon DEF Clash
  <2>4. ~ImplementsNode(def)
    BY <1>4, <1>5, <2>3, Zenon
  <2> QED BY <2>3, <2>4
<1>8. /\ n \in RootObjectName => RootConflict(def, old)
      /\ n \notin RootObjectName => CustomConflict(def, old)
  <2>1. ImplementsNode(def) = ImplementsNode(old)
    BY <1>5 DEF ImplementsNode
  <2>2. Conflict(n, def, old)
    BY <1>1 DEF l
  <2> HIDE DEF def
  <2> QED BY <1>5, <2>1, <2>2, Zenon DEF Conflict
<1>9. n \notin RootObjectName
  <2>1. SUFFICES ASSUME n \in RootObjectName PROVE FALSE
    OBVIOUS
  <2>2. PICK f \in DOMAIN old.fields : f \notin NodeFields(old) /\ f \in DOMAIN def.fields
    BY <1>8, <2>1 DEF RootConflict, RootFields
  <2>3. f \notin Taken(n, old) /\ f \in FieldsOf(l, n)
    BY <2>1, <2>2 DEF Taken, FieldsOf
  <2> QED BY <1>6, <1>7, <2>1, <2>2, <2>3
<1>10. Taken(n, old) = IDFields(old) /\ FromLast(l, n) = IDFields(def)
  BY <1>9 DEF Taken, FromLast
<1>11. CASE FieldsConflict(def, old)
  <2>1. PICK f \in DOMAIN old.fields : f \notin IDFields(old) /\ f \in DOMAIN def.fields
    BY <1>11 DEF FieldsConflict
  <2>2. ~ImplementsNode(def) /\ ~Split(n)
    BY <1>6, <1>7, <1>10, <2>1 DEF FieldsOf
  <2>3. PICK g \in DOMAIN old.fields : g \notin IDFields(old) /\ g \notin DOMAIN def.fields
    BY <1>11, <2>2 DEF FieldsConflict
  <2>4. PICK p \in Upto(k, n) : g \in FieldsOf(p, n) /\ g \notin FromLast(p, n)
    BY <1>6, <1>10, <2>3
  <2>5. /\ FieldsOf(p, n) \ FromLast(p, n) # FieldsOf(l, n) \ FromLast(l, n)
        /\ ~ImplementsNode(DefOf(p, n))
    BY <1>4, <1>5, <2>2, <2>3, <2>4 DEF FieldsOf
  <2> QED BY <1>2, <1>9, <2>2, <2>5 DEF Split
<1>12. CASE FieldsConflict(old, def)
  <2>1. PICK f \in DOMAIN def.fields : f \notin IDFields(def) /\ f \in DOMAIN old.fields
    BY <1>12 DEF FieldsConflict
  <2>2. PICK j \in Upto(k, n) : f \in FieldsOf(j, n)
    BY <1>6, <2>1
  <2>3. ~ImplementsNode(def) /\ ~Split(n)
    BY <1>7, <1>10, <2>1, <2>2 DEF FieldsOf
  <2>4. PICK g \in DOMAIN def.fields : g \notin IDFields(def) /\ g \notin DOMAIN old.fields
    BY <1>5, <1>12, <2>3 DEF FieldsConflict
  <2>5. g \in FieldsOf(l, n) /\ g \notin FromLast(l, n)
    BY <1>10, <2>4 DEF FieldsOf
  <2>6. CASE g \notin FieldsOf(j, n)
    <3>1. FieldsOf(l, n) \ FromLast(l, n) # FieldsOf(j, n) \ FromLast(j, n)
      BY <2>5, <2>6
    <3> QED BY <1>2, <1>9, <2>3, <3>1 DEF Split
  <2>7. CASE g \in FieldsOf(j, n)
    <3>1. PICK p : Latest(k, n, g, p)
      BY <2>7, LatestExists
    <3>2. p \in Upto(k, n) /\ g \in FieldsOf(p, n)
      BY <3>1 DEF Latest
    <3>3. g \in FromLast(p, n)
      BY <2>4, <3>1 DEF DefFits, Stays
    <3> QED BY <1>3, <2>5, <3>2, <3>3 DEF Mixed
  <2> QED BY <2>6, <2>7
<1> QED BY <1>8, <1>9, <1>11, <1>12 DEF CustomConflict

LEMMA Merges ==
  ASSUME world \in World, NEW inputs, Given(inputs), NEW merged, Walk(inputs, merged),
         \A n : NoTrouble(n)
  PROVE  merged[Len(Services)] # NoSchema
<1> DEFINE N == Len(Services)
           E == { m \in 0 .. N - 1 : merged[m + 1] # NoSchema }
<1>1. N \in Nat \ {0} /\ DOMAIN Services = 1 .. N
  BY WorldFacts
<1>2. 0 \in E
  <2>1. merged[0 + 1] # NoSchema
    BY RecordsAreSchemas DEF Walk
  <2>2. 0 \in 0 .. N - 1
    BY <1>1
  <2> HIDE DEF N
  <2> QED BY <2>1, <2>2
<1>3. ASSUME NEW m \in 0 .. (N - 1) - 1, m \in E PROVE m + 1 \in E
  <2> DEFINE k == m + 1
             input == inputs[k + 1]
             old == merged[k]
  <2>1. k \in Nat \ {0} /\ k \in 1 .. N - 1 /\ k + 1 \in DOMAIN Services /\ k \in 0 .. N - 1 /\ k \in 1 .. N
    BY <1>1
  <2>2. merged[k + 1] = MergeSchema(old, input)
    BY <2>1 DEF Walk
  <2>3. old # NoSchema
    BY <1>3
  <2> HIDE DEF k
  <2>4. Fits(k, old)
    BY <2>1, <2>3, AllFit
  <2>5. input.types = Services[k + 1].types
    BY <2>1 DEF Given
  <2>6. \A n \in DOMAIN old.types \cap DOMAIN input.types : ~Conflict(n, input.types[n], old.types[n])
    <3> SUFFICES ASSUME NEW n \in DOMAIN old.types \cap DOMAIN input.types, n # NodeInterfaceName
                 PROVE  ~Conflict(n, input.types[n], old.types[n])
      BY DEF Conflict
    <3>1. input.types[n] = DefOf(k + 1, n) /\ n \in DOMAIN Services[k + 1].types
      BY <2>5 DEF DefOf
    <3>2. Upto(k, n) # {} /\ DefFits(k, n, old.types[n])
      BY <2>4 DEF Fits
    <3> HIDE DEF old, input
    <3> QED BY <2>1, <3>1, <3>2, StepMerges
  <2> HIDE DEF old, input
  <2>7. merged[k + 1] # NoSchema
    BY <2>2, <2>3, <2>6, MergeSchemaIs
  <2> HIDE DEF N
  <2>8. k \in E
    BY <2>1, <2>7
  <2> QED BY <2>8 DEF k
<1>4. N - 1 \in E
  <2>1. N - 1 \in Nat
    BY <1>1
  <2>2. 0 .. N - 1 \subseteq E
    <3> HIDE DEF E, N
    <3> QED BY <1>2, <1>3, <2>1, BoundedInduction
  <2>3. N - 1 \in 0 .. N - 1
    BY <2>1
  <2> HIDE DEF E, N
  <2> QED BY <2>2, <2>3
<1>5. (N - 1) + 1 = N
  BY <1>1
<1> QED BY <1>4, <1>5
-----------------------------------------------------------------------------
\* What is merged loads.

LEMMA DeclaringIs ==
  ASSUME world \in World, NEW n
  PROVE  Declaring(n) = Upto(Len(Services), n)
<1>1. DOMAIN Services = 1 .. Len(Services)
  BY WorldFacts
<1> QED BY <1>1 DEF Declaring, Upto

LEMMA LastExists ==
  ASSUME NEW k \in Nat, NEW n, Upto(k, n) # {}
  PROVE  \E j \in Upto(k, n) : \A i \in Upto(k, n) : i <= j /\ j >= i /\ ~(i > j)
<1> DEFINE Has1(m) == Upto(m, n) # {} => \E j \in Upto(m, n) : \A i \in Upto(m, n) : i <= j
           E == { m \in 0 .. k : Has1(m) }
<1>1. 0 \in E
  <2>1. Upto(0, n) = {}
    BY DEF Upto
  <2> QED BY <2>1
<1>2. ASSUME NEW m \in 0 .. k - 1, m \in E PROVE m + 1 \in E
  <2>1. m + 1 \in 0 .. k /\ Has1(m)
    BY <1>2
  <2>2. /\ n \in DOMAIN Services[m + 1].types => Upto(m + 1, n) = Upto(m, n) \cup {m + 1}
        /\ n \notin DOMAIN Services[m + 1].types => Upto(m + 1, n) = Upto(m, n)
    <3>1. m \in Nat
      OBVIOUS
    <3> QED BY <3>1, UptoNext, Zenon
  <2>3. m + 1 <= m + 1 /\ \A i \in Upto(m, n) : i <= m + 1
    BY DEF Upto
  <2>4. Has1(m + 1)
    BY <2>1, <2>2, <2>3
  <2> QED BY <2>1, <2>4
<1>3. k \in E
  <2> HIDE DEF E
  <2>1. 0 .. k \subseteq E
    BY <1>1, <1>2, BoundedInduction
  <2> QED BY <2>1
<1>4. PICK j \in Upto(k, n) : \A i \in Upto(k, n) : i <= j
  BY <1>3
<1>5. \A i \in Upto(k, n) : i \in Nat
  BY DEF Upto
<1> QED BY <1>4, <1>5

LEMMA NoFields ==
  ASSUME NEW f, IsMap(f)
  PROVE  f = <<>> <=> DOMAIN f = {}
<1>1. DOMAIN <<>> = {}
  OBVIOUS
<1>2. ASSUME DOMAIN f = {} PROVE f = <<>>
  BY <1>2 DEF IsMap
<1> QED BY <1>1, <1>2

\* What a service may refer to.
LEMMA LoadedType ==
  ASSUME NEW types, Loads(types), NEW n \in DOMAIN types
  PROVE  /\ "Query" \in DOMAIN types
         /\ types[n].interfaces \cup types[n].types \subseteq DOMAIN types
         /\ types[n].kind \in {"OBJECT", "INTERFACE", "INPUT_OBJECT"} => types[n].fields # <<>>
         /\ \A f \in DOMAIN types[n].fields :
              /\ types[n].fields[f].type.name \in DOMAIN types \cup BuiltinType
              /\ \A a \in DOMAIN types[n].fields[f].args :
                   types[n].fields[f].args[a].name \in DOMAIN types \cup BuiltinType
         /\ \A i \in types[n].interfaces :
              types[i].kind = "INTERFACE" /\ DOMAIN types[i].fields \subseteq DOMAIN types[n].fields
BY Zenon DEF Loads

LEMMA InterfaceFits ==
  ASSUME world \in World, NEW schema, Fits(Len(Services), schema),
         \A i \in DOMAIN Services : Loads(Services[i].types), \A n : ~Uneven(n),
         NEW n, NEW p \in Upto(Len(Services), n), NEW x \in DefOf(p, n).interfaces
  PROVE  /\ x \in DOMAIN schema.types
         /\ schema.types[x].kind = "INTERFACE"
         /\ DOMAIN schema.types[x].fields \subseteq FieldsOf(p, n)
<1> DEFINE N == Len(Services)
           U(m) == Upto(N, m)
           iface == schema.types[x]
<1>1. N \in Nat /\ DOMAIN Services = 1 .. N /\ \A m : Declaring(m) = U(m)
  BY WorldFacts, DeclaringIs
<1>2. p \in DOMAIN Services /\ n \in DOMAIN Services[p].types
  BY <1>1 DEF Upto
<1>3. /\ x \in DOMAIN Services[p].types
      /\ DefOf(p, x).kind = "INTERFACE" /\ FieldsOf(p, x) \subseteq FieldsOf(p, n)
  BY <1>2, LoadedType DEF DefOf, FieldsOf
<1>4. p \in U(x)
  BY <1>1, <1>2, <1>3 DEF Upto
<1> HIDE DEF N
<1>5. /\ x \in DOMAIN schema.types
      /\ x # NodeInterfaceName => DefFits(N, x, iface)
      /\ x = NodeInterfaceName => \E i \in U(x) : iface = DefOf(i, x)
  BY <1>4 DEF Fits, N
<1>6. CASE x = NodeInterfaceName
  <2>1. PICK i \in U(x) : iface = DefOf(i, x)
    BY <1>5, <1>6
  <2>2. DefOf(i, x) = DefOf(p, x)
    BY <1>1, <1>4, <1>6 DEF Uneven
  <2> QED BY <1>3, <1>5, <2>1, <2>2 DEF FieldsOf
<1>7. CASE x # NodeInterfaceName
  <2>1. iface.kind = "INTERFACE"
    BY <1>3, <1>4, <1>5, <1>7 DEF DefFits
  <2>2. \A g \in DOMAIN iface.fields : \E j \in U(x) : g \in FieldsOf(j, x)
    BY <1>5, <1>7 DEF DefFits, Latest
  <2>3. \A j \in U(x) : FieldsOf(p, x) = FieldsOf(j, x)
    BY <1>1, <1>3, <1>4, Zenon DEF Uneven
  <2> HIDE DEF iface
  <2>4. DOMAIN iface.fields \subseteq FieldsOf(p, n)
    BY <1>3, <2>2, <2>3
  <2> QED BY <1>5, <2>1, <2>4 DEF iface
<1> QED BY <1>6, <1>7

LEMMA MergeLoads ==
  ASSUME world \in World, NEW schema, Fits(Len(Services), schema),
         \A i \in DOMAIN Services : Loads(Services[i].types), \A n : ~Uneven(n),
         \A i \in DOMAIN Services : \A n \in DOMAIN Services[i].types : IsDef(n, DefOf(i, n))
  PROVE  Loads(schema.types)
<1> DEFINE N == Len(Services)
           U(m) == Upto(N, m)
           T == schema.types
<1>1. N \in Nat \ {0} /\ DOMAIN Services = 1 .. N /\ \A m : Declaring(m) = U(m)
  BY WorldFacts, DeclaringIs
<1>2. \A n : \A i \in U(n) : i \in DOMAIN Services /\ n \in DOMAIN Services[i].types
  BY <1>1 DEF Upto
<1>3. \A i \in DOMAIN Services : \A n \in DOMAIN Services[i].types : i \in U(n)
  BY <1>1 DEF Upto
<1>4. 1 \in DOMAIN Services
  BY <1>1
<1>5. N \in Nat
  BY <1>1
<1> HIDE DEF N
<1>6. /\ \A n : n \in DOMAIN T <=> U(n) # {}
      /\ \A n \in DOMAIN T : n # NodeInterfaceName => DefFits(N, n, T[n])
      /\ NodeInterfaceName \in DOMAIN T => \E i \in U(NodeInterfaceName) : T[NodeInterfaceName] = DefOf(i, NodeInterfaceName)
  BY Zenon DEF Fits, N
<1>7. \A i \in DOMAIN Services : DOMAIN Services[i].types \subseteq DOMAIN T
  BY <1>3, <1>6
<1>8. \A n : \A i \in U(n) :
        /\ DefOf(i, n).interfaces \cup DefOf(i, n).types \subseteq DOMAIN T
        /\ DefOf(i, n).kind \in {"OBJECT", "INTERFACE", "INPUT_OBJECT"} => DefOf(i, n).fields # <<>>
        /\ \A f \in DOMAIN DefOf(i, n).fields :
             /\ DefOf(i, n).fields[f].type.name \in DOMAIN T \cup BuiltinType
             /\ \A a \in DOMAIN DefOf(i, n).fields[f].args :
                  DefOf(i, n).fields[f].args[a].name \in DOMAIN T \cup BuiltinType
  <2> SUFFICES ASSUME NEW n, NEW i \in U(n)
               PROVE  /\ DefOf(i, n).interfaces \cup DefOf(i, n).types \subseteq DOMAIN T
                      /\ DefOf(i, n).kind \in {"OBJECT", "INTERFACE", "INPUT_OBJECT"} => DefOf(i, n).fields # <<>>
                      /\ \A f \in DOMAIN DefOf(i, n).fields :
                           /\ DefOf(i, n).fields[f].type.name \in DOMAIN T \cup BuiltinType
                           /\ \A a \in DOMAIN DefOf(i, n).fields[f].args :
                                DefOf(i, n).fields[f].args[a].name \in DOMAIN T \cup BuiltinType
    OBVIOUS
  <2> DEFINE types == Services[i].types
  <2>1. Loads(types) /\ n \in DOMAIN types /\ DOMAIN types \subseteq DOMAIN T /\ DefOf(i, n) = types[n]
    BY <1>2, <1>7 DEF DefOf
  <2> HIDE DEF types, T
  <2>2. /\ types[n].interfaces \cup types[n].types \subseteq DOMAIN types
        /\ types[n].kind \in {"OBJECT", "INTERFACE", "INPUT_OBJECT"} => types[n].fields # <<>>
        /\ \A f \in DOMAIN types[n].fields :
              /\ types[n].fields[f].type.name \in DOMAIN types \cup BuiltinType
              /\ \A a \in DOMAIN types[n].fields[f].args :
                   types[n].fields[f].args[a].name \in DOMAIN types \cup BuiltinType
    BY <2>1, LoadedType, Zenon
  <2> QED BY <2>1, <2>2
<1>9. \A n : \A p \in U(n) : \A x \in DefOf(p, n).interfaces :
        T[x].kind = "INTERFACE" /\ DOMAIN T[x].fields \subseteq FieldsOf(p, n)
  BY InterfaceFits DEF N
<1>10. "Query" \in DOMAIN T
  <2>1. "Query" \in DOMAIN Services[1].types
    BY <1>4 DEF Loads
  <2> QED BY <1>4, <1>7, <2>1
<1>11. ASSUME NEW n \in DOMAIN T, n = NodeInterfaceName
       PROVE  /\ T[n].interfaces \cup T[n].types \subseteq DOMAIN T
              /\ T[n].kind \in {"OBJECT", "INTERFACE", "INPUT_OBJECT"} => T[n].fields # <<>>
              /\ \A f \in DOMAIN T[n].fields :
                   /\ T[n].fields[f].type.name \in DOMAIN T \cup BuiltinType
                   /\ \A a \in DOMAIN T[n].fields[f].args : T[n].fields[f].args[a].name \in DOMAIN T \cup BuiltinType
              /\ \A x \in T[n].interfaces : T[x].kind = "INTERFACE" /\ DOMAIN T[x].fields \subseteq DOMAIN T[n].fields
  <2>1. PICK i \in U(n) : T[n] = DefOf(i, n)
    BY <1>6, <1>11
  <2> HIDE DEF T, U
  <2> QED BY <1>8, <1>9, <2>1 DEF FieldsOf
<1>12. ASSUME NEW n \in DOMAIN T, n # NodeInterfaceName
       PROVE  /\ T[n].interfaces \cup T[n].types \subseteq DOMAIN T
              /\ T[n].kind \in {"OBJECT", "INTERFACE", "INPUT_OBJECT"} => T[n].fields # <<>>
              /\ \A f \in DOMAIN T[n].fields :
                   /\ T[n].fields[f].type.name \in DOMAIN T \cup BuiltinType
                   /\ \A a \in DOMAIN T[n].fields[f].args : T[n].fields[f].args[a].name \in DOMAIN T \cup BuiltinType
              /\ \A x \in T[n].interfaces : T[x].kind = "INTERFACE" /\ DOMAIN T[x].fields \subseteq DOMAIN T[n].fields
  <2> DEFINE def == T[n]
  <2>1. DefFits(N, n, def) /\ U(n) # {}
    BY <1>6, <1>12
  <2> HIDE DEF def, T
  <2>2. \A i \in U(n) : DefOf(i, n).kind = def.kind
    BY <2>1 DEF DefFits
  <2>3. def.interfaces \cup def.types \subseteq DOMAIN T
    <3>1. /\ def.interfaces = UNION { DefOf(i, n).interfaces : i \in U(n) }
          /\ def.types = UNION { DefOf(i, n).types : i \in U(n) }
      BY <2>1 DEF DefFits
    <3> HIDE DEF U
    <3> QED BY <1>8, <3>1
  <2>4. ASSUME def.kind \in {"OBJECT", "INTERFACE", "INPUT_OBJECT"} PROVE def.fields # <<>>
    <3>1. PICK p \in U(n) : \A i \in U(n) : ~(i > p)
      BY <1>5, <2>1, LastExists
    <3>2. IsDef(n, DefOf(p, n))
      BY <1>2
    <3>3. PICK f : f \in FieldsOf(p, n)
      <4>1. DefOf(p, n).fields # <<>>
        BY <1>8, <2>2, <2>4
      <4>2. IsMap(DefOf(p, n).fields)
        BY <3>2 DEF IsDef
      <4>3. DOMAIN DefOf(p, n).fields # {}
        BY <4>1, <4>2, NoFields
      <4> QED BY <4>3 DEF FieldsOf
    <3>4. Latest(N, n, f, p) /\ Stays(N, n, f, p)
      BY <3>1, <3>3 DEF Latest, Stays
    <3>5. f \in DOMAIN def.fields
      BY <2>1, <3>4 DEF DefFits
    <3>6. DOMAIN <<>> = {}
      OBVIOUS
    <3> QED BY <3>5, <3>6
  <2>5. ASSUME NEW f \in DOMAIN def.fields
        PROVE  /\ def.fields[f].type.name \in DOMAIN T \cup BuiltinType
               /\ \A a \in DOMAIN def.fields[f].args : def.fields[f].args[a].name \in DOMAIN T \cup BuiltinType
    <3>1. PICK j : Latest(N, n, f, j)
      BY <2>1 DEF DefFits
    <3>2. def.fields[f] = DefOf(j, n).fields[f]
      BY <2>1, <3>1 DEF DefFits
    <3>3. j \in U(n) /\ f \in DOMAIN DefOf(j, n).fields
      BY <3>1 DEF Latest, FieldsOf
    <3> HIDE DEF U
    <3> QED BY <1>8, <3>2, <3>3
  <2>6. ASSUME NEW x \in def.interfaces
        PROVE  T[x].kind = "INTERFACE" /\ DOMAIN T[x].fields \subseteq DOMAIN def.fields
    <3>1. PICK p \in U(n) : x \in DefOf(p, n).interfaces
      BY <2>1 DEF DefFits
    <3>2. T[x].kind = "INTERFACE" /\ DOMAIN T[x].fields \subseteq FieldsOf(p, n)
      BY <1>9, <3>1
    <3>3. ASSUME NEW g \in FieldsOf(p, n) PROVE g \in DOMAIN def.fields
      <4>1. PICK q : Latest(N, n, g, q)
        BY <1>5, LatestExists
      <4>2. Stays(N, n, g, q)
        <5>1. SUFFICES ASSUME g \in FromLast(q, n), NEW r \in U(n), r > q PROVE FALSE
          BY DEF Stays
        <5>2. g \notin FieldsOf(r, n)
          BY <4>1, <5>1 DEF Latest
        <5>3. n \in RootObjectName \/ g = IDFieldName
          BY <5>1 DEF FromLast, Taken, IDFields, IsIDField
        <5>4. Uneven(n)
          <6>1. p \in Declaring(n) /\ r \in Declaring(n) /\ DefOf(p, n).interfaces # {}
            BY <1>1, <3>1, <5>1
          <6> QED BY <3>3, <5>2, <5>3, <6>1, Zenon DEF Uneven
        <5> QED BY <5>4
      <4> QED BY <2>1, <4>1, <4>2 DEF DefFits
    <3> QED BY <3>2, <3>3
  <2> QED BY <2>3, <2>4, <2>5, <2>6 DEF def
<1> HIDE DEF T
<1>13. Loads(T)
  BY <1>10, <1>11, <1>12, Zenon DEF Loads
<1> QED BY <1>13 DEF T
-----------------------------------------------------------------------------
\* What NewGateway makes of the merge.

Shown(n, def) ==
  IF world.sanitize /\ n = "Query"
  THEN [def EXCEPT !.fields = Restrict(def.fields, DOMAIN def.fields \ {NodeFieldName})]
  ELSE def

GatewayIs(result, schema, map) ==
  /\ result.typeURLMap = map
  /\ DOMAIN result.schema.directives = DOMAIN schema.directives
  /\ DOMAIN result.schema.types = DOMAIN schema.types
  /\ \A n \in DOMAIN schema.types : result.schema.types[n] = Shown(n, schema.types[n])

LocatedWalk(inputs, located) ==
  /\ located[0] = <<>>
  /\ \A k \in 0 .. Len(Services) - 1 : located[k + 1] = SetFromSchema(located[k], inputs[k + 1])

LEMMA SanitizeIs ==
  ASSUME NEW types, NEW directives, "Query" \in DOMAIN types, "fields" \in DOMAIN types["Query"],
         NEW map, NEW inputs,
         ExtendMerge(inputs) = [schema |-> [types |-> types, directives |-> directives], typeURLMap |-> map]
  PROVE  LET new == [types EXCEPT !["Query"] =
                       [types["Query"] EXCEPT !.fields =
                          Restrict(types["Query"].fields, DOMAIN types["Query"].fields \ {NodeFieldName})]]
         IN SanitizeNodeMerge(inputs)
              = [schema |-> [types |-> new, directives |-> directives], typeURLMap |-> map]
<1> DEFINE result == [schema |-> [types |-> types, directives |-> directives], typeURLMap |-> map]
           rest == Restrict(types["Query"].fields, DOMAIN types["Query"].fields \ {NodeFieldName})
           new == [types EXCEPT !["Query"] = [types["Query"] EXCEPT !.fields = rest]]
<1>1. result # NoSchema
  BY RecordsAreSchemas
<1>2. SanitizeNodeMerge(inputs) = [result EXCEPT !.schema.types["Query"].fields = rest]
  <2>1. /\ ExtendMerge(inputs) = result
        /\ Restrict(result.schema.types["Query"].fields, DOMAIN result.schema.types["Query"].fields \ {NodeFieldName}) = rest
    OBVIOUS
  <2> HIDE DEF rest, result
  <2> QED BY <1>1, <2>1 DEF SanitizeNodeMerge
<1> HIDE DEF rest
<1>3. [result EXCEPT !.schema.types["Query"].fields = rest]
        = [schema |-> [types |-> new, directives |-> directives], typeURLMap |-> map]
  OBVIOUS
<1> QED BY <1>2, <1>3 DEF rest

LEMMA MergedIs ==
  ASSUME world \in World, NEW inputs, Given(inputs),
         DOMAIN inputs = 1 .. Len(Services), Len(inputs) = Len(Services)
  PROVE  \E merged, located :
           LET all == merged[Len(Services)] IN
           /\ Walk(inputs, merged) /\ LocatedWalk(inputs, located)
           /\ Merged(inputs) = NoSchema <=> all = NoSchema \/ ~Loads(all.types)
           /\ Merged(inputs) # NoSchema => GatewayIs(Merged(inputs), all, located[Len(Services)])
<1> DEFINE N == Len(Services)
<1>1. N \in Nat \ {0} /\ DOMAIN inputs = 1 .. N /\ Len(inputs) = N
  BY WorldFacts
<1> HIDE DEF N
<1>0. PICK merged, located : Walks(inputs, N, merged, located)
  BY <1>1, ExtendMergeIs
<1>2. /\ merged[1] = [types |-> inputs[1].types, directives |-> inputs[1].directives]
      /\ \A k \in 1 .. N - 1 : merged[k + 1] = MergeSchema(merged[k], inputs[k + 1])
      /\ located[0] = <<>>
      /\ \A k \in 0 .. N - 1 : located[k + 1] = SetFromSchema(located[k], inputs[k + 1])
      /\ ExtendMerge(inputs) = IF merged[N] = NoSchema \/ ~Loads(merged[N].types) THEN NoSchema
                                    ELSE [schema |-> merged[N], typeURLMap |-> located[N]]
  BY <1>0, Zenon DEF Walks
<1> DEFINE all == merged[N]
           map == located[N]
<1>3. Walk(inputs, merged) /\ LocatedWalk(inputs, located)
  BY <1>2, Zenon DEF Walk, LocatedWalk, N
<1>4. all # NoSchema => all = [types |-> all.types, directives |-> all.directives]
  <2>1. CASE N = 1
    BY <1>2, <2>1
  <2>2. CASE N # 1
    <3>1. N - 1 \in 1 .. N - 1 /\ (N - 1) + 1 = N
      BY <1>1, <2>2
    <3>2. all = MergeSchema(merged[N - 1], inputs[N])
      BY <1>2, <3>1
    <3> QED BY <3>2 DEF MergeSchema
  <2> QED BY <2>1, <2>2
<1>5. ExtendMerge(inputs) = NoSchema <=> all = NoSchema \/ ~Loads(all.types)
  BY <1>2, RecordsAreSchemas, Zenon
<1>6. CASE ExtendMerge(inputs) = NoSchema
  <2>1. Merged(inputs) = NoSchema
    BY <1>6 DEF Merged, SanitizeNodeMerge
  <2> QED BY <1>3, <1>5, <1>6, <2>1, Zenon DEF N
<1>7. CASE ExtendMerge(inputs) # NoSchema
  <2>1. /\ all # NoSchema /\ Loads(all.types)
        /\ ExtendMerge(inputs) = [schema |-> all, typeURLMap |-> map]
    BY <1>2, <1>5, <1>7
  <2>2. all = [types |-> all.types, directives |-> all.directives]
    BY <1>4, <2>1
  <2>3. "Query" \in DOMAIN all.types
    BY <2>1 DEF Loads
  <2>4. IsDef("Query", all.types["Query"])
    <3>1. Fits(N, all)
      BY <1>3, <2>1, NoneConflicts, <1>1 DEF N
    <3>2. "Query" # NodeInterfaceName
      BY DEF NodeInterfaceName
    <3> QED BY <2>3, <3>1, <3>2 DEF Fits, DefFits
  <2> DEFINE types == all.types
             directives == all.directives
             new == [types EXCEPT !["Query"] =
                       [types["Query"] EXCEPT !.fields =
                          Restrict(types["Query"].fields, DOMAIN types["Query"].fields \ {NodeFieldName})]]
  <2> HIDE DEF types, directives
  <2>5. Merged(inputs) # NoSchema /\ GatewayIs(Merged(inputs), all, map)
    <3>1. CASE ~world.sanitize
      <4>1. Merged(inputs) = [schema |-> all, typeURLMap |-> map]
        BY <2>1, <3>1 DEF Merged
      <4>2. \A n, def : Shown(n, def) = def
        BY <3>1 DEF Shown
      <4> HIDE DEF all, map
      <4>3. GatewayIs(Merged(inputs), all, map)
        BY <4>1, <4>2 DEF GatewayIs
      <4> QED BY <4>1, <4>3, RecordsAreSchemas, Zenon
    <3>2. CASE world.sanitize
      <4>1. "Query" \in DOMAIN types /\ "fields" \in DOMAIN types["Query"]
        BY <2>3, <2>4 DEF IsDef, types
      <4>2. ExtendMerge(inputs) = [schema |-> [types |-> types, directives |-> directives], typeURLMap |-> map]
        BY <2>1, <2>2 DEF types, directives
      <4> HIDE DEF map, all
      <4>3. SanitizeNodeMerge(inputs) = [schema |-> [types |-> new, directives |-> directives], typeURLMap |-> map]
        BY <4>1, <4>2, SanitizeIs
      <4>4. Merged(inputs) = [schema |-> [types |-> new, directives |-> directives], typeURLMap |-> map]
        BY <3>2, <4>3 DEF Merged
      <4>5. /\ DOMAIN new = DOMAIN types
            /\ \A n \in DOMAIN types : new[n] = Shown(n, types[n])
        BY <3>2, <4>1 DEF Shown
      <4> HIDE DEF new
      <4>6. GatewayIs(Merged(inputs), all, map)
        BY <4>4, <4>5 DEF GatewayIs, types, directives
      <4> QED BY <4>4, <4>6, RecordsAreSchemas, Zenon
    <3> QED BY <3>1, <3>2
  <2> QED BY <1>3, <1>5, <1>7, <2>5, Zenon DEF N
<1> QED BY <1>6, <1>7
-----------------------------------------------------------------------------
\* What the gateway refuses.

LEMMA FailingIsUnread ==
  ASSUME world \in World, NEW i \in DOMAIN Services, Failing(i)
  PROVE  ~Services[i].answers \/ ~Loads(Services[i].types)
BY ReadService, Zenon DEF Failing

LEMMA Started ==
  ASSUME IInv, phase = "started"
  PROVE  LET inputs == Paired(InUrlOrder) IN
         \E merged, located :
           LET all == merged[Len(Services)] IN
           /\ world \in World /\ Given(inputs)
           /\ \A i \in DOMAIN Services : Services[i].answers /\ Loads(Services[i].types) /\ ~CutOff(i)
           /\ Walk(inputs, merged) /\ LocatedWalk(inputs, located)
           /\ all # NoSchema
           /\ GatewayIs(gateway, all, located[Len(Services)])
<1> DEFINE inputs == Paired(InUrlOrder)
<1>1. world \in World /\ gateway # NoSchema /\ gateway = Merged(inputs) /\ \A i \in DOMAIN Services : Readable(i)
  BY DEF IInv, StartupTypeOK
<1> HIDE DEF inputs
<1>2. /\ Given(inputs)
      /\ DOMAIN inputs = 1 .. Len(Services) /\ Len(inputs) = Len(Services)
      /\ \A i \in DOMAIN Services : Loads(Services[i].types) /\ ~CutOff(i)
  BY <1>1, AllRead DEF inputs
<1>3. \E merged, located :
           LET all == merged[Len(Services)] IN
           /\ Walk(inputs, merged) /\ LocatedWalk(inputs, located)
           /\ Merged(inputs) = NoSchema <=> all = NoSchema \/ ~Loads(all.types)
           /\ Merged(inputs) # NoSchema => GatewayIs(Merged(inputs), all, located[Len(Services)])
  BY <1>1, <1>2, MergedIs, Zenon
<1>4. PICK merged, located :
           /\ Walk(inputs, merged) /\ LocatedWalk(inputs, located)
           /\ merged[Len(Services)] # NoSchema
           /\ GatewayIs(gateway, merged[Len(Services)], located[Len(Services)])
  BY <1>1, <1>3, Zenon
<1>5. \A i \in DOMAIN Services : Services[i].answers
  BY <1>1 DEF Readable
<1> QED BY <1>1, <1>2, <1>4, <1>5, Zenon DEF inputs

\* If nothing is wrong with the services, their schemas are merged.
LEMMA NothingWrong ==
  ASSUME world \in World, \A i \in DOMAIN Services : Readable(i),
         \A n : NoTrouble(n) /\ ~Uneven(n)
  PROVE  Merged(Paired(InUrlOrder)) # NoSchema
<1> DEFINE inputs == Paired(InUrlOrder)
           N == Len(Services)
<1>1. /\ Given(inputs)
      /\ DOMAIN inputs = 1 .. N /\ Len(inputs) = N
      /\ \A i \in DOMAIN Services : Loads(Services[i].types)
  BY AllRead
<1>2. N \in 1 .. N
  BY WorldFacts
<1> HIDE DEF inputs, N
<1>3. \E merged, located :
           LET all == merged[N] IN
           /\ Walk(inputs, merged) /\ LocatedWalk(inputs, located)
           /\ Merged(inputs) = NoSchema <=> all = NoSchema \/ ~Loads(all.types)
           /\ Merged(inputs) # NoSchema => GatewayIs(Merged(inputs), all, located[N])
  BY <1>1, MergedIs DEF N
<1>4. PICK merged : /\ Walk(inputs, merged)
                    /\ Merged(inputs) = NoSchema => merged[N] = NoSchema \/ ~Loads(merged[N].types)
  BY <1>3
<1>5. merged[N] # NoSchema
  BY <1>1, <1>4, Merges DEF N
<1>6. Fits(N, merged[N])
  BY <1>1, <1>2, <1>4, <1>5, AllFit DEF N
<1>7. Loads(merged[N].types)
  BY <1>1, <1>6, MergeLoads DEF Given, N
<1> QED BY <1>4, <1>5, <1>7 DEF inputs

LEMMA RefusedIfWrong ==
  ASSUME IInv
  PROVE  ConflictsRefused
<1> DEFINE names == UNION { DOMAIN Services[i].types : i \in DOMAIN Services }
           clashes == { n \in names : \E i, j \in Declaring(n) : i # j /\ Clash(i, j, n) }
           mixed == { n \in names : \E i, j \in Declaring(n) : Mixed(i, j, n) }
           unread == { i \in DOMAIN Services : ~Services[i].answers \/ ~Loads(Services[i].types) }
           cut == { i \in DOMAIN Services : CutOff(i) }
<1>1. world \in World
  BY DEF IInv, StartupTypeOK
<1>2. ASSUME phase = "started" PROVE unread = {} /\ cut = {} /\ \A n \in clashes : Split(n)
  <2> DEFINE inputs == Paired(InUrlOrder)
  <2>1. PICK merged :
          /\ Given(inputs) /\ Walk(inputs, merged) /\ merged[Len(Services)] # NoSchema
          /\ \A i \in DOMAIN Services : Services[i].answers /\ Loads(Services[i].types) /\ ~CutOff(i)
    <3> HIDE DEF inputs
    <3> QED BY <1>2, Started DEF inputs
  <2> HIDE DEF inputs
  <2>2. ASSUME NEW n \in clashes PROVE Split(n)
    <3>1. PICK i \in Declaring(n), j \in Declaring(n) : i # j /\ Clash(i, j, n)
      OBVIOUS
    <3> QED BY <1>1, <2>1, <3>1, ClashesSplit
  <2>3. unread = {} /\ cut = {}
    BY <2>1
  <2> QED BY <2>2, <2>3
<1>3. ASSUME phase = "failed" PROVE unread # {} \/ clashes # {} \/ mixed # {} \/ \E n \in names : Uneven(n)
  <2>1. SUFFICES ASSUME unread = {}, clashes = {}, mixed = {}, \A n \in names : ~Uneven(n) PROVE FALSE
    OBVIOUS
  <2>2. \A n : Declaring(n) # {} => n \in names
    BY DEF Declaring
  <2>3. ~\E i \in DOMAIN Services : Failing(i)
    BY <1>1, <2>1, FailingIsUnread
  <2>4. (\A i \in DOMAIN Services : Readable(i)) /\ Merged(Paired(InUrlOrder)) = NoSchema
    BY <1>3, <2>3 DEF IInv
  <2>5. \A n : NoTrouble(n)
    BY <2>1, <2>2 DEF NoTrouble
  <2>6. \A n : ~Uneven(n)
    <3>1. \A n : Uneven(n) => Declaring(n) # {}
      BY DEF Uneven
    <3> HIDE DEF names
    <3> QED BY <2>1, <2>2, <3>1
  <2> QED BY <1>1, <2>4, <2>5, <2>6, NothingWrong
<1>4. ASSUME phase = "panic" PROVE cut # {}
  <2>1. PICK i \in DOMAIN Services : ParsePanics(Answer(i))
    BY <1>4 DEF IInv, ReadInv
  <2>2. CutOff(i)
    BY <1>1, <2>1, ReadService
  <2> QED BY <2>2
<1> HIDE DEF names, clashes, mixed, unread, cut
<1> QED BY <1>2, <1>3, <1>4, Zenon DEF ConflictsRefused, names, clashes, mixed, unread, cut
-----------------------------------------------------------------------------
\* Where the fields are.

Own(j, n, f) ==
  /\ DefOf(j, n).kind = "OBJECT"
  /\ f \in FieldsOf(j, n) /\ f \notin NodeFields(DefOf(j, n)) /\ f # IDFieldName

LatestOwn(k, n, f, j) ==
  /\ j \in Upto(k, n) /\ Own(j, n, f)
  /\ \A i \in Upto(k, n) : i > j => ~Own(i, n, f)

Located(k, map) ==
  /\ \A n : n \in DOMAIN map <=> \E i \in Upto(k, n) : IsLocated(DefOf(i, n))
  /\ \A n \in DOMAIN map :
       /\ map[n].isImplementsNode <=>
            \E i \in Upto(k, n) : DefOf(i, n).kind = "OBJECT" /\ ImplementsNode(DefOf(i, n))
       /\ \A f, j : LatestOwn(k, n, f, j) =>
            f \in DOMAIN map[n].fields /\ map[n].fields[f] = Services[j].url

LEMMA SetFromSchemaIs ==
  ASSUME NEW map, NEW input, NEW next, next = SetFromSchema(map, input), NEW n
  PROVE  LET def == input.types[n]
             object == n \in DOMAIN input.types /\ IsLocated(def)
             own == LocatedFields(def)
         IN /\ n \in DOMAIN next <=> n \in DOMAIN map \/ object
            /\ n \in DOMAIN map /\ ~object => next[n] = map[n]
            /\ object =>
                 /\ next[n].isImplementsNode <=> (n \in DOMAIN map /\ map[n].isImplementsNode) \/ ImplementsNode(def)
                 /\ \A f \in own : f \in DOMAIN next[n].fields /\ next[n].fields[f] = input.url
                 /\ n \in DOMAIN map => \A f \in DOMAIN map[n].fields :
                      f \notin own => f \in DOMAIN next[n].fields /\ next[n].fields[f] = map[n].fields[f]
<1> DEFINE objects == { m \in DOMAIN input.types : IsLocated(input.types[m]) }
           props(m) == IF m \in DOMAIN map THEN map[m] ELSE NoProps
           located(m) == LocatedFields(input.types[m])
           entry(m) == [isImplementsNode |-> props(m).isImplementsNode \/ ImplementsNode(input.types[m]),
                        fields |-> Over([f \in located(m) |-> input.url], props(m).fields)]
           new == [m \in objects |-> entry(m)]
           def == input.types[n]
           object == n \in DOMAIN input.types /\ IsLocated(def)
<1>1. next = Over(new, map)
  BY DEF SetFromSchema
<1>2. DOMAIN new = objects /\ \A m \in objects : new[m] = entry(m)
  <2> HIDE DEF entry
  <2> QED OBVIOUS
<1>3. n \in objects <=> object
  OBVIOUS
<1> HIDE DEF new, entry, objects
<1>4. /\ DOMAIN next = DOMAIN map \cup objects
      /\ \A m \in objects : next[m] = entry(m)
      /\ \A m \in DOMAIN map : m \notin objects => next[m] = map[m]
  <2>1. /\ DOMAIN Over(new, map) = DOMAIN new \cup DOMAIN map
        /\ \A m \in DOMAIN new : Over(new, map)[m] = new[m]
        /\ \A m \in DOMAIN map : m \notin DOMAIN new => Over(new, map)[m] = map[m]
    BY OverIs, Zenon
  <2> QED BY <1>1, <1>2, <2>1
<1>5. entry(n).isImplementsNode <=> (n \in DOMAIN map /\ map[n].isImplementsNode) \/ ImplementsNode(def)
  <2>1. NoProps.isImplementsNode = FALSE
    BY DEF NoProps
  <2>2. entry(n).isImplementsNode <=> props(n).isImplementsNode \/ ImplementsNode(def)
    BY DEF entry, ImplementsNode
  <2> QED BY <2>1, <2>2
<1>6. LET o == [f \in located(n) |-> input.url] IN
      /\ \A f \in located(n) : f \in DOMAIN entry(n).fields /\ entry(n).fields[f] = input.url
      /\ \A f \in DOMAIN props(n).fields :
           f \notin located(n) => f \in DOMAIN entry(n).fields /\ entry(n).fields[f] = props(n).fields[f]
  <2> DEFINE o == [f \in located(n) |-> input.url]
  <2>1. DOMAIN o = located(n) /\ \A f \in located(n) : o[f] = input.url
    OBVIOUS
  <2>2. entry(n).fields = Over(o, props(n).fields)
    BY DEF entry
  <2> DEFINE rest == props(n).fields
  <2> HIDE DEF o, rest
  <2>3. /\ DOMAIN Over(o, rest) = DOMAIN o \cup DOMAIN rest
        /\ \A f \in DOMAIN o : Over(o, rest)[f] = o[f]
        /\ \A f \in DOMAIN rest : f \notin DOMAIN o => Over(o, rest)[f] = rest[f]
    BY OverIs, Zenon
  <2>4. entry(n).fields = Over(o, rest)
    BY <2>2 DEF rest
  <2> HIDE DEF located
  <2> QED BY <2>1, <2>3, <2>4 DEF rest
<1>7. n \in DOMAIN map => props(n) = map[n]
  OBVIOUS
<1> HIDE DEF props
<1> QED BY <1>3, <1>4, <1>5, <1>6, <1>7

LEMMA LocatedNext ==
  ASSUME NEW inputs, Given(inputs), NEW k \in Nat, k + 1 \in DOMAIN Services,
         NEW map, Located(k, map), NEW next, next = SetFromSchema(map, inputs[k + 1])
  PROVE  Located(k + 1, next)
<1> SUFFICES ASSUME NEW n
             PROVE  /\ n \in DOMAIN next <=> \E i \in Upto(k + 1, n) : IsLocated(DefOf(i, n))
                    /\ n \in DOMAIN next =>
                         /\ next[n].isImplementsNode <=>
                              \E i \in Upto(k + 1, n) : DefOf(i, n).kind = "OBJECT" /\ ImplementsNode(DefOf(i, n))
                         /\ \A f, j : LatestOwn(k + 1, n, f, j) =>
                              f \in DOMAIN next[n].fields /\ next[n].fields[f] = Services[j].url
  BY DEF Located
<1> DEFINE input == inputs[k + 1]
           l == k + 1
           def == DefOf(l, n)
           object == n \in DOMAIN Services[l].types /\ IsLocated(def)
           own == LocatedFields(def)
<1>1. input.types = Services[l].types /\ input.types[n] = def /\ input.url = Services[l].url
  BY DEF Given, DefOf
<1>2. next = SetFromSchema(map, input)
  OBVIOUS
<1> HIDE DEF input, l
<1>3. /\ n \in DOMAIN next <=> n \in DOMAIN map \/ object
      /\ n \in DOMAIN map /\ ~object => next[n] = map[n]
      /\ object =>
           /\ next[n].isImplementsNode <=> (n \in DOMAIN map /\ map[n].isImplementsNode) \/ ImplementsNode(def)
           /\ \A f \in own : f \in DOMAIN next[n].fields /\ next[n].fields[f] = Services[l].url
           /\ n \in DOMAIN map => \A f \in DOMAIN map[n].fields :
                f \notin own => f \in DOMAIN next[n].fields /\ next[n].fields[f] = map[n].fields[f]
  <2> HIDE DEF def
  <2> QED BY <1>1, <1>2, SetFromSchemaIs
<1>4. /\ n \in DOMAIN Services[l].types => Upto(l, n) = Upto(k, n) \cup {l}
      /\ n \notin DOMAIN Services[l].types => Upto(l, n) = Upto(k, n)
      /\ \A i \in Upto(k, n) : l > i /\ ~(i > l)
  <2>1. \A i \in Upto(k, n) : k + 1 > i /\ ~(i > k + 1)
    BY DEF Upto
  <2> QED BY <2>1, UptoNext DEF l
<1>5. /\ n \in DOMAIN map <=> \E i \in Upto(k, n) : IsLocated(DefOf(i, n))
      /\ n \in DOMAIN map =>
           /\ map[n].isImplementsNode <=>
                \E i \in Upto(k, n) : DefOf(i, n).kind = "OBJECT" /\ ImplementsNode(DefOf(i, n))
           /\ \A f, j : LatestOwn(k, n, f, j) =>
                f \in DOMAIN map[n].fields /\ map[n].fields[f] = Services[j].url
  BY DEF Located
<1>6. n \in DOMAIN next <=> \E i \in Upto(l, n) : IsLocated(DefOf(i, n))
  BY <1>3, <1>4, <1>5
\* Nodes are located.
<1>9. \A i : DefOf(i, n).kind = "OBJECT" /\ ImplementsNode(DefOf(i, n)) => IsLocated(DefOf(i, n))
  BY DEF IsLocated
<1>7. ASSUME n \in DOMAIN next
      PROVE  next[n].isImplementsNode <=>
               \E i \in Upto(l, n) : DefOf(i, n).kind = "OBJECT" /\ ImplementsNode(DefOf(i, n))
  <2>1. CASE object
    <3>1. \A i : i \in Upto(l, n) <=> i \in Upto(k, n) \/ i = l
      BY <1>4, <2>1
    <3>2. (n \in DOMAIN map /\ map[n].isImplementsNode) <=>
            \E i \in Upto(k, n) : DefOf(i, n).kind = "OBJECT" /\ ImplementsNode(DefOf(i, n))
      BY <1>5, <1>9, Zenon
    <3>3. next[n].isImplementsNode <=> (n \in DOMAIN map /\ map[n].isImplementsNode) \/ ImplementsNode(DefOf(l, n))
      BY <1>3, <2>1
    <3>4. DefOf(l, n).kind = "OBJECT"
      BY <2>1 DEF IsLocated
    <3> QED BY <3>1, <3>2, <3>3, <3>4, Zenon
  <2>2. CASE ~object
    <3>1. (\E i \in Upto(l, n) : DefOf(i, n).kind = "OBJECT" /\ ImplementsNode(DefOf(i, n))) <=>
          (\E i \in Upto(k, n) : DefOf(i, n).kind = "OBJECT" /\ ImplementsNode(DefOf(i, n)))
      <4>1. ASSUME n \in DOMAIN Services[l].types, DefOf(l, n).kind = "OBJECT" PROVE ~ImplementsNode(DefOf(l, n))
        BY <1>9, <2>2, <4>1
      <4> QED BY <1>4, <4>1
    <3>2. n \in DOMAIN map /\ next[n] = map[n]
      BY <1>3, <1>7, <2>2
    <3> QED BY <1>5, <3>1, <3>2, Zenon
  <2> QED BY <2>1, <2>2
<1>8. ASSUME n \in DOMAIN next, NEW f, NEW j, LatestOwn(l, n, f, j)
      PROVE  f \in DOMAIN next[n].fields /\ next[n].fields[f] = Services[j].url
  <2>1. f \in own /\ object <=> n \in DOMAIN Services[l].types /\ Own(l, n, f)
    BY DEF Own, FieldsOf, LocatedFields, IsLocated
  <2>2. j \in Upto(l, n) /\ Own(j, n, f) /\ \A i \in Upto(l, n) : i > j => ~Own(i, n, f)
    BY <1>8 DEF LatestOwn
  <2>3. CASE n \in DOMAIN Services[l].types /\ Own(l, n, f)
    <3>1. j = l
      BY <1>4, <2>2, <2>3
    <3> QED BY <1>3, <2>1, <2>3, <3>1
  <2>4. CASE ~(n \in DOMAIN Services[l].types /\ Own(l, n, f))
    <3>1. j \in Upto(k, n)
      BY <1>4, <2>2, <2>4
    <3>2. LatestOwn(k, n, f, j)
      BY <1>4, <2>2, <3>1 DEF LatestOwn
    <3>3. n \in DOMAIN map
      BY <1>5, <2>2, <3>1 DEF Own, FieldsOf, IsLocated, LocatedFields
    <3>4. f \in DOMAIN map[n].fields /\ map[n].fields[f] = Services[j].url
      BY <1>5, <3>2, <3>3
    <3> HIDE DEF own, object
    <3>5. CASE object
      BY <1>3, <2>1, <2>4, <3>3, <3>4, <3>5 DEF object
    <3>6. CASE ~object
      BY <1>3, <3>3, <3>4, <3>6
    <3> QED BY <3>5, <3>6
  <2> QED BY <2>3, <2>4
<1> QED BY <1>6, <1>7, <1>8, Zenon DEF l

LEMMA AllLocated ==
  ASSUME world \in World, NEW inputs, Given(inputs), NEW located, LocatedWalk(inputs, located)
  PROVE  Located(Len(Services), located[Len(Services)])
<1> DEFINE N == Len(Services)
           E == { m \in 0 .. N : Located(m, located[m]) }
<1>1. N \in Nat /\ DOMAIN Services = 1 .. N
  BY WorldFacts
<1>2. 0 \in E
  <2>1. \A n : Upto(0, n) = {}
    BY DEF Upto
  <2>2. located[0] = <<>> /\ DOMAIN <<>> = {}
    BY DEF LocatedWalk
  <2>3. Located(0, located[0])
    BY <2>1, <2>2 DEF Located
  <2> QED BY <1>1, <2>3
<1>3. ASSUME NEW m \in 0 .. N - 1, m \in E PROVE m + 1 \in E
  <2>1. m + 1 \in DOMAIN Services /\ m \in Nat /\ m + 1 \in 0 .. N
    BY <1>1
  <2>2. Located(m, located[m]) /\ located[m + 1] = SetFromSchema(located[m], inputs[m + 1])
    BY <1>3 DEF LocatedWalk
  <2>3. Located(m + 1, located[m + 1])
    BY <2>1, <2>2, LocatedNext
  <2> QED BY <2>1, <2>3
<1>4. N \in E
  <2>1. 0 .. N \subseteq E
    <3> HIDE DEF E, N
    <3> QED BY <1>1, <1>2, <1>3, BoundedInduction
  <2> HIDE DEF E
  <2> QED BY <1>1, <2>1
<1> QED BY <1>4
-----------------------------------------------------------------------------
\* What clients read of the gateway.

LEMMA MaxIs ==
  ASSUME NEW S, S \subseteq Nat, NEW x \in S, \A y \in S : ~(y > x)
  PROVE  Max(S) = x
<1>1. \A y \in S : x >= y
  OBVIOUS
<1>2. \A z \in S : (\A y \in S : z >= y) => z = x
  BY <1>1
<1> QED BY <1>1, <1>2, Zenon DEF Max

LEMMA MinIs ==
  ASSUME NEW S, S \subseteq Nat, NEW x \in S, \A y \in S : x <= y
  PROVE  Min(S) = x
<1>1. \A z \in S : (\A y \in S : z <= y) => z = x
  OBVIOUS
<1> QED BY <1>1, Zenon DEF Min

LEMMA LastWithIs ==
  ASSUME world \in World, NEW n, NEW f, NEW j, Latest(Len(Services), n, f, j)
  PROVE  /\ LastWith(n, f) = j
         /\ Stays(Len(Services), n, f, j) <=> j = Max(Declaring(n)) \/ f \notin FromLast(j, n)
<1> DEFINE N == Len(Services)
           U == Upto(N, n)
           S == { i \in U : f \in FieldsOf(i, n) }
<1>1. N \in Nat /\ Declaring(n) = U
  BY WorldFacts, DeclaringIs
<1>2. U \subseteq Nat
  BY <1>1 DEF Upto
<1>3. j \in S /\ \A i \in S : ~(i > j)
  BY DEF Latest
<1>4. Max(S) = j
  BY <1>2, <1>3, MaxIs
<1>5. LastWith(n, f) = j
  BY <1>1, <1>4 DEF LastWith
<1>6. (\A i \in U : ~(i > j)) <=> j = Max(U)
  <2>1. ASSUME \A i \in U : ~(i > j) PROVE j = Max(U)
    BY <1>2, <1>3, <2>1, MaxIs
  <2>2. ASSUME j = Max(U) PROVE \A i \in U : ~(i > j)
    <3>1. PICK m \in U : \A i \in U : ~(i > m)
      BY <1>1, <1>3, LastExists
    <3>2. Max(U) = m
      BY <1>2, <3>1, MaxIs
    <3> QED BY <2>2, <3>1, <3>2
  <2> QED BY <2>1, <2>2
<1> QED BY <1>1, <1>5, <1>6, Zenon DEF Stays

LEMMA ShownIs ==
  ASSUME NEW n, NEW def, IsDef(n, def)
  PROVE  LET shown == Shown(n, def)
         IN /\ IsDef(n, shown)
            /\ shown.kind = def.kind /\ shown.interfaces = def.interfaces
            /\ shown.types = def.types /\ shown.values = def.values
            /\ DOMAIN shown.fields = DOMAIN def.fields \ (IF world.sanitize /\ n = "Query" THEN {NodeFieldName} ELSE {})
            /\ \A f \in DOMAIN shown.fields : shown.fields[f] = def.fields[f]
<1> DEFINE shown == Shown(n, def)
<1>1. CASE ~(world.sanitize /\ n = "Query")
  <2>1. shown = def
    BY <1>1 DEF Shown
  <2> HIDE DEF shown
  <2>2. DOMAIN def.fields \ (IF world.sanitize /\ n = "Query" THEN {NodeFieldName} ELSE {}) = DOMAIN def.fields
    BY <1>1
  <2>3. \A f \in DOMAIN def.fields : def.fields[f] = def.fields[f]
    OBVIOUS
  <2> QED BY <2>1, <2>2, <2>3, Zenon DEF shown
<1>2. CASE world.sanitize /\ n = "Query"
  <2> DEFINE D == DOMAIN def.fields \ {NodeFieldName}
             fields == [f \in D |-> def.fields[f]]
             rest == (IF world.sanitize /\ n = "Query" THEN {NodeFieldName} ELSE {})
  <2>0. D = DOMAIN def.fields \ rest
    BY <1>2
  <2>1. shown = [def EXCEPT !.fields = fields]
    BY <1>2 DEF Shown, Restrict
  <2>2. DOMAIN fields = D /\ (\A f \in D : fields[f] = def.fields[f]) /\ fields = [f \in DOMAIN fields |-> fields[f]]
    OBVIOUS
  <2>3. /\ def = [x \in {"kind", "interfaces", "types", "values", "fields"} |-> def[x]]
        /\ DOMAIN def = {"kind", "interfaces", "types", "values", "fields"}
        /\ n \in RootObjectName
        /\ \A f \in DOMAIN def.fields : IsField(def.fields[f])
    BY <1>2 DEF IsDef, IsMap, RootObjectName
  <2> HIDE DEF fields, D, shown, rest
  <2>4. /\ DOMAIN shown = {"kind", "interfaces", "types", "values", "fields"}
        /\ shown = [x \in DOMAIN shown |-> shown[x]]
        /\ shown.kind = def.kind /\ shown.interfaces = def.interfaces
        /\ shown.types = def.types /\ shown.values = def.values
        /\ shown.fields = fields
    BY <2>1, <2>3
  <2>5. def.kind = "OBJECT"
    BY <2>3 DEF IsDef
  <2>6. \A f \in DOMAIN fields : IsField(fields[f])
    BY <2>2, <2>3 DEF D
  <2>7. IsDef(n, shown)
    BY <2>2, <2>4, <2>5, <2>6 DEF IsDef, IsMap
  <2> QED BY <2>0, <2>2, <2>4, <2>7, Zenon DEF shown, rest
<1> QED BY <1>1, <1>2

\* The merged schema, as it is shown, is what clients read.
LEMMA ClientReads ==
  ASSUME NEW schema, NEW map, GatewayIs(gateway, schema, map),
         \A n \in DOMAIN schema.types : IsDef(n, schema.types[n])
  PROVE  /\ DOMAIN ClientTypes = DOMAIN schema.types
         /\ \A n \in DOMAIN schema.types : ClientTypes[n] = Shown(n, schema.types[n])
         /\ DOMAIN ResolveSchema(gateway.schema).directives = DOMAIN schema.directives
<1> DEFINE types == gateway.schema.types
           resolved == ResolveSchema(gateway.schema)
<1>1. /\ DOMAIN resolved.types = DOMAIN types
      /\ \A n \in DOMAIN types : resolved.types[n] = ResolveType(types[n])
      /\ DOMAIN resolved.directives = DOMAIN gateway.schema.directives
  BY DEF ResolveSchema, MapValues
<1> HIDE DEF resolved
<1>2. /\ DOMAIN ClientTypes = DOMAIN resolved.types
      /\ \A n \in DOMAIN resolved.types : ClientTypes[n] = ClientType(resolved.types[n])
  <2>1. ClientTypes = [n \in DOMAIN resolved.types |-> ClientType(resolved.types[n])]
    BY Zenon DEF ClientTypes, MapValues, resolved
  <2> QED BY <2>1
<1>3. /\ DOMAIN gateway.schema.directives = DOMAIN schema.directives
      /\ DOMAIN types = DOMAIN schema.types
      /\ \A n \in DOMAIN schema.types : types[n] = Shown(n, schema.types[n])
  BY DEF GatewayIs
<1> HIDE DEF types
<1>4. ASSUME NEW n \in DOMAIN schema.types PROVE ClientTypes[n] = Shown(n, schema.types[n])
  <2> DEFINE shown == Shown(n, schema.types[n])
  <2>1. IsDef(n, shown)
    BY ShownIs
  <2>2. ClientTypes[n] = ClientType(ResolveType(types[n])) /\ types[n] = shown
    BY <1>1, <1>2, <1>3
  <2> HIDE DEF shown
  <2>3. ClientTypes[n] = shown
    BY <2>1, <2>2, ClientRead, Zenon
  <2> QED BY <2>3 DEF shown
<1> QED BY <1>1, <1>2, <1>3, <1>4, Zenon DEF resolved

\* What is merged when the gateway has started.
LEMMA StartedFits ==
  ASSUME IInv, phase = "started"
  PROVE  \E schema, map :
           /\ world \in World
           /\ Fits(Len(Services), schema) /\ Located(Len(Services), map)
           /\ \A n \in DOMAIN schema.types : IsDef(n, schema.types[n])
           /\ gateway.typeURLMap = map
           /\ DOMAIN ClientTypes = DOMAIN schema.types
           /\ \A n \in DOMAIN schema.types : ClientTypes[n] = Shown(n, schema.types[n])
           /\ DOMAIN ResolveSchema(gateway.schema).directives = DOMAIN schema.directives
<1> DEFINE N == Len(Services)
<1>1. \E inputs, merged, located :
           /\ world \in World /\ Given(inputs)
           /\ Walk(inputs, merged) /\ LocatedWalk(inputs, located)
           /\ merged[N] # NoSchema
           /\ GatewayIs(gateway, merged[N], located[N])
  BY Started
<1>2. PICK inputs, merged, located :
           /\ world \in World /\ Given(inputs)
           /\ Walk(inputs, merged) /\ LocatedWalk(inputs, located)
           /\ merged[N] # NoSchema
           /\ GatewayIs(gateway, merged[N], located[N])
  BY <1>1
<1> DEFINE schema == merged[N]
           map == located[N]
<1>3. N \in Nat \ {0} /\ N \in 1 .. N /\ DOMAIN Services = 1 .. N
  BY <1>2, WorldFacts
<1>4. Fits(N, schema)
  BY <1>2, <1>3, NoneConflicts
<1>5. Located(N, map)
  BY <1>2, AllLocated
<1> HIDE DEF N, schema, map
<1>6. ASSUME NEW n \in DOMAIN schema.types PROVE IsDef(n, schema.types[n])
  <2>1. CASE n = NodeInterfaceName
    <3>1. PICK i \in Upto(N, n) : schema.types[n] = DefOf(i, n)
      BY <1>4, <2>1 DEF Fits
    <3>2. i \in DOMAIN Services /\ n \in DOMAIN Services[i].types
      BY <1>3 DEF Upto
    <3> QED BY <1>2, <3>1, <3>2 DEF Given
  <2>2. CASE n # NodeInterfaceName
    BY <1>4, <2>2 DEF Fits, DefFits
  <2> QED BY <2>1, <2>2
<1>7. GatewayIs(gateway, schema, map)
  BY <1>2 DEF schema, map
<1>8. gateway.typeURLMap = map
  BY <1>7 DEF GatewayIs
<1>9. /\ DOMAIN ClientTypes = DOMAIN schema.types
      /\ \A n \in DOMAIN schema.types : ClientTypes[n] = Shown(n, schema.types[n])
      /\ DOMAIN ResolveSchema(gateway.schema).directives = DOMAIN schema.directives
  BY <1>6, <1>7, ClientReads, Zenon
<1> QED BY <1>2, <1>4, <1>5, <1>6, <1>8, <1>9, Zenon DEF N

LEMMA LostNothing ==
  ASSUME IInv
  PROVE  NothingLost
<1> DEFINE N == Len(Services)
           U(n) == Upto(N, n)
<1>1. SUFFICES ASSUME phase = "started"
               PROVE  /\ DOMAIN ClientTypes = UNION { DOMAIN Services[i].types : i \in DOMAIN Services }
                      /\ DOMAIN ResolveSchema(gateway.schema).directives
                           = UNION { DOMAIN Services[i].directives : i \in DOMAIN Services }
                      /\ \A n \in DOMAIN ClientTypes : LET def == ClientTypes[n] IN
                           IF n = NodeInterfaceName THEN def = DefOf(Min(Declaring(n)), n)
                           ELSE /\ DOMAIN def.fields = VisibleFields(n)
                                /\ \A f \in DOMAIN def.fields : def.fields[f] = DefOf(LastWith(n, f), n).fields[f]
                                /\ \A i \in Declaring(n) : def.kind = DefOf(i, n).kind
                                /\ def.interfaces = UNION { DefOf(i, n).interfaces : i \in Declaring(n) }
                                /\ def.types = UNION { DefOf(i, n).types : i \in Declaring(n) }
                                /\ def.values = UNION { DefOf(i, n).values : i \in Declaring(n) }
  BY Zenon DEF NothingLost
<1>2. PICK schema, map :
           /\ world \in World
           /\ Fits(N, schema) /\ Located(N, map)
           /\ \A n \in DOMAIN schema.types : IsDef(n, schema.types[n])
           /\ gateway.typeURLMap = map
           /\ DOMAIN ClientTypes = DOMAIN schema.types
           /\ \A n \in DOMAIN schema.types : ClientTypes[n] = Shown(n, schema.types[n])
           /\ DOMAIN ResolveSchema(gateway.schema).directives = DOMAIN schema.directives
  BY <1>1, StartedFits
<1> DEFINE T == schema.types
<1>3. N \in Nat /\ DOMAIN Services = 1 .. N
  BY <1>2, WorldFacts
<1>4. \A n : Declaring(n) = U(n)
  BY <1>2, DeclaringIs
<1> HIDE DEF N
<1>5. /\ \A n : n \in DOMAIN T <=> U(n) # {}
      /\ \A n \in DOMAIN T : n # NodeInterfaceName => DefFits(N, n, T[n])
      /\ NodeInterfaceName \in DOMAIN T =>
           \E i \in U(NodeInterfaceName) :
             /\ \A j \in U(NodeInterfaceName) : i <= j
             /\ T[NodeInterfaceName] = DefOf(i, NodeInterfaceName)
      /\ \A d : d \in DOMAIN schema.directives <=> \E i \in 1 .. N : d \in DOMAIN Services[i].directives
  BY <1>2 DEF Fits
<1> HIDE DEF T
<1>6. DOMAIN ClientTypes = UNION { DOMAIN Services[i].types : i \in DOMAIN Services }
  <2>1. \A n : n \in DOMAIN T <=> \E i \in DOMAIN Services : n \in DOMAIN Services[i].types
    BY <1>3, <1>5 DEF Upto
  <2>2. DOMAIN ClientTypes = DOMAIN T
    BY <1>2 DEF T
  <2> QED BY <2>1, <2>2
<1>7. DOMAIN ResolveSchema(gateway.schema).directives = UNION { DOMAIN Services[i].directives : i \in DOMAIN Services }
  <2>1. DOMAIN ResolveSchema(gateway.schema).directives = DOMAIN schema.directives
    BY <1>2
  <2>2. \A d : d \in DOMAIN schema.directives <=> \E i \in DOMAIN Services : d \in DOMAIN Services[i].directives
    BY <1>3, <1>5
  <2> QED BY <2>1, <2>2
<1>8. ASSUME NEW n \in DOMAIN ClientTypes, n = NodeInterfaceName
      PROVE  ClientTypes[n] = DefOf(Min(Declaring(n)), n)
  <2>1. n \in DOMAIN T /\ ClientTypes[n] = Shown(n, T[n])
    BY <1>2 DEF T
  <2>2. Shown(n, T[n]) = T[n]
    BY <1>8 DEF Shown, NodeInterfaceName
  <2>3. PICK i \in U(n) : (\A j \in U(n) : i <= j) /\ T[n] = DefOf(i, n)
    BY <1>5, <1>8, <2>1
  <2>4. U(n) \subseteq Nat
    BY <1>3 DEF Upto
  <2>5. Min(U(n)) = i
    BY <2>3, <2>4, MinIs
  <2> QED BY <1>4, <2>1, <2>2, <2>3, <2>5
<1>9. ASSUME NEW n \in DOMAIN ClientTypes, n # NodeInterfaceName, NEW def, def = ClientTypes[n]
      PROVE  /\ DOMAIN def.fields = VisibleFields(n)
             /\ \A f \in DOMAIN def.fields : def.fields[f] = DefOf(LastWith(n, f), n).fields[f]
             /\ \A i \in Declaring(n) : def.kind = DefOf(i, n).kind
             /\ def.interfaces = UNION { DefOf(i, n).interfaces : i \in Declaring(n) }
             /\ def.types = UNION { DefOf(i, n).types : i \in Declaring(n) }
             /\ def.values = UNION { DefOf(i, n).values : i \in Declaring(n) }
  <2> DEFINE old == T[n]
             hidden == IF world.sanitize /\ n = "Query" THEN {NodeFieldName} ELSE {}
  <2>1. n \in DOMAIN T /\ def = Shown(n, old) /\ IsDef(n, old)
    BY <1>2, <1>9 DEF T
  <2>2. DefFits(N, n, old)
    BY <1>5, <1>9, <2>1
  <2> HIDE DEF old
  <2>3. /\ def.kind = old.kind /\ def.interfaces = old.interfaces
        /\ def.types = old.types /\ def.values = old.values
        /\ DOMAIN def.fields = DOMAIN old.fields \ hidden
        /\ \A f \in DOMAIN def.fields : def.fields[f] = old.fields[f]
    BY <2>1, ShownIs
  <2> HIDE DEF hidden
  <2>4. /\ \A f : f \in DOMAIN old.fields <=> \E j : Latest(N, n, f, j) /\ Stays(N, n, f, j)
        /\ \A f \in DOMAIN old.fields : \A j : Latest(N, n, f, j) => old.fields[f] = DefOf(j, n).fields[f]
    BY <2>2 DEF DefFits
  <2>5. \A f, j : Latest(N, n, f, j) =>
          /\ LastWith(n, f) = j
          /\ Stays(N, n, f, j) <=> LastWith(n, f) = Max(Declaring(n)) \/ f \notin FromLast(LastWith(n, f), n)
    BY <1>2, LastWithIs, Zenon DEF N
  <2>6. \A f : (\E j : Latest(N, n, f, j)) <=> \E i \in Declaring(n) : f \in FieldsOf(i, n)
    <3>1. ASSUME NEW f, NEW i \in Declaring(n), f \in FieldsOf(i, n) PROVE \E j : Latest(N, n, f, j)
      BY <1>3, <1>4, <3>1, LatestExists
    <3> QED BY <1>4, <3>1 DEF Latest
  <2>7. \A f : f \in DOMAIN old.fields <=>
          /\ \E i \in Declaring(n) : f \in FieldsOf(i, n)
          /\ LastWith(n, f) = Max(Declaring(n)) \/ f \notin FromLast(LastWith(n, f), n)
    BY <2>4, <2>5, <2>6, Zenon
  <2>8. DOMAIN def.fields = VisibleFields(n)
    <3>1. VisibleFields(n) =
            { f \in UNION { FieldsOf(i, n) : i \in Declaring(n) } :
                LastWith(n, f) = Max(Declaring(n)) \/ f \notin FromLast(LastWith(n, f), n) } \ hidden
      BY Zenon DEF VisibleFields, hidden
    <3> QED BY <2>3, <2>7, <3>1
  <2>9. \A f \in DOMAIN def.fields : def.fields[f] = DefOf(LastWith(n, f), n).fields[f]
    BY <2>3, <2>4, <2>5
  <2>10. /\ \A i \in Declaring(n) : def.kind = DefOf(i, n).kind
         /\ def.interfaces = UNION { DefOf(i, n).interfaces : i \in Declaring(n) }
         /\ def.types = UNION { DefOf(i, n).types : i \in Declaring(n) }
         /\ def.values = UNION { DefOf(i, n).values : i \in Declaring(n) }
    BY <1>4, <2>2, <2>3 DEF DefFits
  <2> QED BY <2>8, <2>9, <2>10, Zenon
<1> QED BY <1>6, <1>7, <1>8, <1>9, Zenon

LEMMA DeclaredWhereAsked ==
  ASSUME IInv
  PROVE  AskedWhereDeclared
<1> DEFINE N == Len(Services)
           U(n) == Upto(N, n)
<1>1. SUFFICES ASSUME phase = "started",
                      NEW n \in DOMAIN ClientTypes, n # NodeInterfaceName,
                      NEW def, def = ClientTypes[n],
                      NEW f \in DOMAIN def.fields, f \notin NodeFields(def), f # IDFieldName,
                      def.kind = "OBJECT"
               PROVE  IF n \in RootObjectName \/ gateway.typeURLMap[n].isImplementsNode
                      THEN \E i \in Declaring(n) :
                             /\ Services[i].url = gateway.typeURLMap[n].fields[f]
                             /\ Has(i, n, f) /\ DefOf(i, n).fields[f] = def.fields[f]
                      ELSE \/ \A i \in Declaring(n) : Has(i, n, f)
                           \/ Split(n)
  <2>1. ASSUME phase = "started",
               NEW n \in DOMAIN ClientTypes \ {NodeInterfaceName},
               NEW f \in DOMAIN ClientTypes[n].fields \ (NodeFields(ClientTypes[n]) \cup {IDFieldName}),
               ClientTypes[n].kind = "OBJECT"
        PROVE  IF n \in RootObjectName \/ gateway.typeURLMap[n].isImplementsNode
               THEN \E i \in Declaring(n) :
                      /\ Services[i].url = gateway.typeURLMap[n].fields[f]
                      /\ Has(i, n, f) /\ DefOf(i, n).fields[f] = ClientTypes[n].fields[f]
               ELSE \/ \A i \in Declaring(n) : Has(i, n, f)
                    \/ Split(n)
    <3> DEFINE def == ClientTypes[n]
    <3>1. /\ n \in DOMAIN ClientTypes /\ n # NodeInterfaceName
          /\ f \in DOMAIN def.fields /\ f \notin NodeFields(def) /\ f # IDFieldName
          /\ def.kind = "OBJECT"
      BY <2>1
    <3> HIDE DEF def
    <3> QED BY <1>1, <2>1, <3>1, Zenon DEF def
  <2> QED BY <2>1, Zenon DEF AskedWhereDeclared
<1>2. PICK schema, map :
           /\ world \in World
           /\ Fits(N, schema) /\ Located(N, map)
           /\ \A m \in DOMAIN schema.types : IsDef(m, schema.types[m])
           /\ gateway.typeURLMap = map
           /\ DOMAIN ClientTypes = DOMAIN schema.types
           /\ \A m \in DOMAIN schema.types : ClientTypes[m] = Shown(m, schema.types[m])
  BY <1>1, StartedFits
<1> DEFINE old == schema.types[n]
<1>3. N \in Nat /\ DOMAIN Services = 1 .. N /\ Declaring(n) = U(n)
  BY <1>2, WorldFacts, DeclaringIs
<1> HIDE DEF N
<1>4. DefFits(N, n, old) /\ IsDef(n, old) /\ def = Shown(n, old)
  BY <1>1, <1>2 DEF Fits
<1> HIDE DEF old
<1>5. /\ old.kind = "OBJECT" /\ f \in DOMAIN old.fields /\ def.fields[f] = old.fields[f]
  <2>1. /\ def.kind = old.kind
        /\ DOMAIN def.fields = DOMAIN old.fields \ (IF world.sanitize /\ n = "Query" THEN {NodeFieldName} ELSE {})
        /\ \A g \in DOMAIN def.fields : def.fields[g] = old.fields[g]
    BY <1>4, ShownIs
  <2> QED BY <1>1, <2>1
<1>6. \A i \in U(n) : DefOf(i, n).kind = "OBJECT" /\ n \in DOMAIN Services[i].types
  BY <1>3, <1>4, <1>5 DEF DefFits, Upto
<1>7. PICK j : Latest(N, n, f, j) /\ def.fields[f] = DefOf(j, n).fields[f]
  BY <1>4, <1>5 DEF DefFits
<1>8. j \in U(n) /\ f \in FieldsOf(j, n) /\ f \in DOMAIN DefOf(j, n).fields
  BY <1>7 DEF Latest, FieldsOf
<1>12. Own(j, n, f)
  <2>1. f \notin NodeFields(DefOf(j, n))
    BY <1>1, <1>7 DEF NodeFields
  <2> QED BY <1>1, <1>6, <1>8, <2>1 DEF Own
<1>9. n \in DOMAIN map
  <2>1. IsLocated(DefOf(j, n))
    BY <1>12 DEF Own, FieldsOf, IsLocated, LocatedFields
  <2> QED BY <1>2, <1>8, <2>1 DEF Located
<1>10. CASE n \in RootObjectName \/ map[n].isImplementsNode
  <2>3. LatestOwn(N, n, f, j)
    BY <1>7, <1>8, <1>12 DEF Latest, LatestOwn, Own
  <2>4. map[n].fields[f] = Services[j].url
    BY <1>2, <1>9, <2>3 DEF Located
  <2>5. Has(j, n, f)
    BY <1>6, <1>8 DEF Has
  <2> QED BY <1>2, <1>3, <1>7, <1>8, <1>10, <2>4, <2>5
<1>11. CASE n \notin RootObjectName /\ ~map[n].isImplementsNode
  <2>1. ASSUME NEW i \in Declaring(n), ~Has(i, n, f) PROVE Split(n)
    <3>1. f \notin FieldsOf(i, n)
      BY <1>3, <1>6, <2>1 DEF Has
    <3>2. f \notin FromLast(j, n)
      BY <1>1, <1>11 DEF FromLast, Taken, IDFields, IsIDField
    <3>3. FieldsOf(j, n) \ FromLast(j, n) # FieldsOf(i, n) \ FromLast(i, n)
      BY <1>8, <3>1, <3>2
    <3>4. ~ImplementsNode(DefOf(j, n))
      <4>1. map[n].isImplementsNode <=> \E h \in U(n) : DefOf(h, n).kind = "OBJECT" /\ ImplementsNode(DefOf(h, n))
        BY <1>2, <1>9 DEF Located
      <4> QED BY <1>6, <1>8, <1>11, <4>1, Zenon
    <3> QED BY <1>3, <1>8, <1>11, <3>3, <3>4 DEF Split
  <2> QED BY <1>2, <1>11, <2>1
<1> QED BY <1>2, <1>10, <1>11
-----------------------------------------------------------------------------
\* Whatever the services declare, as long as each is a schema, and whichever
\* introspection finishes first: once the gateway has started, a field of a
\* root type or of a node is asked of a service that declares it as clients see
\* it, and a field of another object is in every service that has the type, or
\* the services have different fields of it (TypeURLMap.SetFromSchema and
\* ExtendMergerFunc.Merge).
THEOREM FieldsAskedWhereDeclared == Spec => []AskedWhereDeclared
<1>1. IInv => AskedWhereDeclared
  BY DeclaredWhereAsked
<1> QED BY <1>1, Invariance, PTL

\* What clients read of the gateway's schema is what the services declare, with
\* the fields that VisibleFields leaves: nothing else is lost on the way through
\* introspectRemoteSchema, the merge and IntrospectionResolver, nothing is made
\* up, and no field changes its type.
THEOREM SchemaKept == Spec => []NothingLost
<1>1. IInv => NothingLost
  BY LostNothing
<1> QED BY <1>1, Invariance, PTL

\* NewGateway starts only on services that can be read and whose types do not
\* clash unless they are split, refuses to start only for one of the reasons
\* ConflictsRefused names, and panics only on a reference that is cut off.
THEOREM Refusals == Spec => []ConflictsRefused
<1>1. IInv => ConflictsRefused
  BY RefusedIfWrong
<1> QED BY <1>1, Invariance, PTL
=============================================================================
