------------------------ MODULE DepthExecutorProofs ------------------------
(***************************************************************************)
(* Theorems about DepthExecutor, for every plan, world and number of       *)
(* services.                                                               *)
(***************************************************************************)
EXTENDS DepthExecutor, EnumerationProofs

\* The equation of StepsAt, which recursion on a bounded domain satisfies.
LEMMA StepsAtUnfolds ==
  ASSUME NEW w
  PROVE  /\ Cardinality(Step) \in Nat
         /\ StepsAt(w) = [d \in 0 .. Cardinality(Step) + 1 |->
                           IF d = 0 THEN { r.step : r \in w.start }
                           ELSE UNION { Range(Then[s]) : s \in StepsAt(w)[d - 1] }]
<1> DEFINE n == Cardinality(Step) + 1
           A == { r.step : r \in w.start }
           After(S) == UNION { Range(Then[s]) : s \in S }
           Value(f, d) == IF d = 0 THEN A ELSE After(f[d - 1])
           Table(f, m) == f = [d \in 0 .. m |-> Value(f, d)]
           E == { m \in 0 .. n : \E f : Table(f, m) }
<1>1. Cardinality(Step) \in Nat /\ n \in Nat
  BY PlanAssumption, FS_CardinalityType
<1>2. 0 \in E
  <2> DEFINE f == [d \in 0 .. 0 |-> A]
  <2>1. \A d \in 0 .. 0 : Value(f, d) = A
    <3> HIDE DEF A, f, After
    <3> QED OBVIOUS
  <2>2. Table(f, 0)
    <3> HIDE DEF A, Value
    <3> QED BY <2>1
  <2>3. 0 \in 0 .. n
    BY <1>1
  <2> HIDE DEF Table, f
  <2> QED BY <2>2, <2>3
<1>3. ASSUME NEW k \in 0 .. n - 1, k \in E
      PROVE  k + 1 \in E
  <2>1. PICK f : Table(f, k)
    BY <1>3
  <2> DEFINE g == [d \in 0 .. k + 1 |-> IF d <= k THEN f[d] ELSE After(f[k])]
  <2>2. \A d \in 0 .. k : g[d] = f[d] /\ f[d] = Value(f, d)
    <3>1. \A d \in 0 .. k : f[d] = Value(f, d)
      <4> HIDE DEF Value
      <4> QED BY <2>1
    <3> HIDE DEF Value, After
    <3> QED BY <3>1
  <2>3. g[k + 1] = After(f[k])
    <3> HIDE DEF After
    <3> QED OBVIOUS
  <2>4. \A d \in 0 .. k + 1 : d # 0 => g[d - 1] = f[d - 1]
    <3>1. \A d \in 0 .. k + 1 : d # 0 => d - 1 \in 0 .. k
      OBVIOUS
    <3> HIDE DEF g
    <3> QED BY <2>2, <3>1
  <2>5. \A d \in 0 .. k : g[d] = Value(g, d)
    <3>1. ASSUME NEW d \in 0 .. k
          PROVE  Value(g, d) = Value(f, d)
      <4>1. d \in 0 .. k + 1
        OBVIOUS
      <4>2. d # 0 => g[d - 1] = f[d - 1]
        BY <2>4, <4>1
      <4> HIDE DEF g, After
      <4> QED BY <4>2
    <3> HIDE DEF g, Value
    <3> QED BY <2>2, <3>1
  <2>6. g[k + 1] = Value(g, k + 1)
    <3>1. k + 1 # 0 /\ (k + 1) - 1 = k /\ k \in 0 .. k
      OBVIOUS
    <3> HIDE DEF g, After
    <3> QED BY <2>2, <2>3, <3>1
  <2>7. \A d \in 0 .. k + 1 : g[d] = Value(g, d)
    <3> HIDE DEF g, Value
    <3> QED BY <2>5, <2>6
  <2>8. Table(g, k + 1)
    <3>1. g = [d \in 0 .. k + 1 |-> g[d]]
      <4> HIDE DEF After
      <4> QED OBVIOUS
    <3> HIDE DEF g, Value
    <3> QED BY <2>7, <3>1
  <2>9. k + 1 \in 0 .. n
    BY <1>1
  <2> HIDE DEF Table, g
  <2> QED BY <2>8, <2>9
<1>4. n \in E
  <2>1. n \in 0 .. n
    BY <1>1
  <2> HIDE DEF E, n
  <2>2. 0 .. n \subseteq E
    BY <1>1, <1>2, <1>3, BoundedInduction
  <2> QED BY <2>1, <2>2
<1>5. PICK f : Table(f, n)
  BY <1>4
<1> DEFINE at == CHOOSE at : at = [d \in 0 .. n |-> Value(at, d)]
<1>7. at = [d \in 0 .. n |-> Value(at, d)]
  <2> HIDE DEF Value, n
  <2> QED BY <1>5
<1>8. StepsAt(w) = at
  BY DEF StepsAt
<1> QED BY <1>1, <1>7, <1>8

LEMMA StepsAtNext ==
  ASSUME NEW w, NEW d \in 0 .. Cardinality(Step)
  PROVE  /\ StepsAt(w)[0] = { r.step : r \in w.start }
         /\ StepsAt(w)[d + 1] = UNION { Range(Then[s]) : s \in StepsAt(w)[d] }
<1>1. 0 \in 0 .. Cardinality(Step) + 1 /\ d + 1 \in 0 .. Cardinality(Step) + 1
      /\ d + 1 # 0 /\ (d + 1) - 1 = d
  BY StepsAtUnfolds
<1>2. \A e \in 0 .. Cardinality(Step) + 1 :
        StepsAt(w)[e] = IF e = 0 THEN { r.step : r \in w.start }
                        ELSE UNION { Range(Then[s]) : s \in StepsAt(w)[e - 1] }
  BY StepsAtUnfolds
<1> QED BY <1>1, <1>2

\* Below the last depth there is nothing.
LEMMA LastDepth ==
  ASSUME NEW w \in World
  PROVE  /\ MaxDepth(w) \in 0 .. Cardinality(Step)
         /\ StepsAt(w)[MaxDepth(w) + 1] = {}
<1>1. \E d \in 0 .. Cardinality(Step) : Deepest(w, d)
  BY WorldAssumption
<1>2. MaxDepth(w) \in 0 .. Cardinality(Step) /\ Deepest(w, MaxDepth(w))
  BY <1>1 DEF MaxDepth
<1> QED BY <1>2 DEF Deepest

LEMMA IdOfType ==
  ASSUME NEW r \in Request
  PROVE  IdOf(r) \in Id
<1>1. r.point \in Seq(Slot)
  BY DEF Request
<1>2. r.point # <<>> => Last(r.point) \in Slot
  BY <1>1 DEF Last
<1> QED BY <1>2, PlanAssumption DEF IdOf, Slot

LEMMA InputType ==
  ASSUME NEW r \in Request
  PROVE  Input(r) \in Inputs
BY IdOfType DEF Input, Inputs, Request

LEMMA AnswerType ==
  ASSUME NEW w, NEW input \in Inputs
  PROVE  Answer(w, input) \in SUBSET Inputs
BY DEF Answer

\* The requests for one dependent step are well-formed.
LEMMA RequestsForType ==
  ASSUME NEW w \in World, NEW r \in Request, NEW t \in Range(Then[r.step])
  PROVE  /\ RequestsFor(w, r, t) \in Seq(Request)
         /\ t \in Step \ RootParent
         /\ \A q \in Range(RequestsFor(w, r, t)) :
              q \in Request /\ q.step = t /\ q.point # <<>>
<1>1. r.step \in Step /\ r.point \in Seq(Slot)
  BY DEF Request
<1>2. t \in Step \ RootParent
  BY <1>1, PlanAssumption DEF Range
<1> DEFINE slots == w.slots[t][IdOf(r)]
<1>3. slots \in Seq(Slot)
  BY <1>2, IdOfType, WorldAssumption
<1> HIDE DEF slots
<1>4. ASSUME NEW k \in DOMAIN slots
      PROVE  [step |-> t, point |-> Append(r.point, slots[k])] \in Request
             /\ Append(r.point, slots[k]) # <<>>
  <2>1. slots[k] \in Slot
    BY <1>3
  <2>2. Append(r.point, slots[k]) \in Seq(Slot) /\ Append(r.point, slots[k]) # <<>>
    BY <1>1, <2>1
  <2> QED BY <1>2, <2>2 DEF Request
<1>5. RequestsFor(w, r, t) = [k \in DOMAIN slots |-> [step |-> t, point |-> Append(r.point, slots[k])]]
  BY DEF RequestsFor, slots
<1>6. DOMAIN slots = 1 .. Len(slots) /\ Len(slots) \in Nat
  BY <1>3
<1>7. RequestsFor(w, r, t) \in [1 .. Len(slots) -> Request]
  BY <1>4, <1>5, <1>6
<1>8. RequestsFor(w, r, t) \in Seq(Request)
  BY <1>6, <1>7
<1>9. \A q \in Range(RequestsFor(w, r, t)) :
        q \in Request /\ q.step = t /\ q.point # <<>>
  BY <1>4, <1>5 DEF Range
<1> QED BY <1>2, <1>8, <1>9

\* A dependent request is for a step after its parent's, below the root.
LEMMA DependentsType ==
  ASSUME NEW w \in World, NEW r \in Request, NEW data, NEW q \in Dependents(w, r, data)
  PROVE  /\ q \in Request
         /\ q.step \in Range(Then[r.step])
         /\ q.step \notin RootParent
         /\ q.point # <<>>
<1>1. PICK t \in Range(Then[r.step]) : q \in Range(RequestsFor(w, r, t))
  BY DEF Dependents
<1> QED BY <1>1, RequestsForType

\* In whatever order they are found, the dependent requests are these.
LEMMA OrdersHaveDependents ==
  ASSUME NEW w \in World, NEW r \in Request, NEW data, NEW o \in DependentOrders(w, r, data)
  PROVE  /\ o \in Seq(Request)
         /\ Range(o) = Dependents(w, r, data)
<1>1. CASE data = {}
  <2>1. o = <<>> /\ Dependents(w, r, data) = {}
    BY <1>1 DEF DependentOrders, Dependents
  <2>2. << >> \in Seq(Request) /\ DOMAIN << >> = {}
    OBVIOUS
  <2>3. Range(<< >>) = {}
    BY <2>2, Zenon DEF Range
  <2> QED BY <2>1, <2>2, <2>3
<1>2. CASE data # {}
  <2> DEFINE then == Then[r.step]
  <2>1. then \in Seq(Step \ RootParent) /\ r.step \in Step
    BY PlanAssumption DEF Request
  <2> HIDE DEF then
  <2>2. PICK ts \in (IF r.point = <<>> THEN {then} ELSE SetToSeqs(Range(then))) :
          o = FlattenSeq([k \in DOMAIN ts |-> RequestsFor(w, r, ts[k])])
    BY <1>2 DEF DependentOrders, then
  <2>3. IsFiniteSet(Range(then))
    BY <2>1, RangeFinite
  <2>4. Range(ts) = Range(then) /\ \E n \in Nat : DOMAIN ts = 1 .. n
    <3>1. CASE r.point = <<>>
      BY <3>1, <2>1, <2>2
    <3>2. CASE r.point # <<>>
      BY <3>2, <2>2, <2>3, SetToSeqsRange, FS_CardinalityType
    <3> QED BY <3>1, <3>2
  <2>5. PICK n \in Nat : DOMAIN ts = 1 .. n
    BY <2>4
  <2> DEFINE all == [k \in 1 .. n |-> RequestsFor(w, r, ts[k])]
  <2>6. ASSUME NEW k \in 1 .. n
        PROVE  ts[k] \in Range(Then[r.step])
    BY <2>4, <2>5 DEF Range, then
  <2>7. all \in [1 .. n -> Seq(Request)]
    BY <2>6, RequestsForType
  <2>8. o = FlattenSeq(all)
    BY <2>2, <2>5
  <2>9. o \in Seq(Request) /\ Range(o) = UNION { Range(all[k]) : k \in 1 .. n }
    BY <2>7, <2>8, FlattenSeqRange
  <2>10. Dependents(w, r, data) = UNION { Range(RequestsFor(w, r, t)) : t \in Range(then) }
    BY <1>2 DEF Dependents, then
  <2>11. Range(then) = { ts[k] : k \in 1 .. n }
    BY <2>4, <2>5 DEF Range
  <2>12. UNION { Range(RequestsFor(w, r, t)) : t \in { ts[k] : k \in 1 .. n } }
           = UNION { Range(all[k]) : k \in 1 .. n }
    OBVIOUS
  <2> QED BY <2>9, <2>10, <2>11, <2>12
<1> QED BY <1>1, <1>2

\* While any goroutine is at work, the manager waits for AsyncMapReduce.
LEMMA BusyInFanout ==
  ASSUME IInv, NEW u \in Url, group[u] \notin {"none", "folded"}
  PROVE  stage = "fanout" /\ u \notin errs /\ u \notin Folded
<1>1. stage = "fanout"
  BY DEF IInv, TypeOK, Idle
<1> QED BY <1>1 DEF IInv, FoldInv, Folded

LEMMA InitIInv ==
  ASSUME Init
  PROVE  IInv
<1>1. world \in World /\ world.start \subseteq Request /\ IsFiniteSet(world.start)
  BY WorldAssumption DEF Init
<1>2. reqs \in Seq(world.start) /\ Range(reqs) = world.start
  BY <1>1, SetToSeqsRange DEF Init
<1>3. reqs \in Seq(Request)
  BY <1>1, <1>2, SeqMonotonic
<1>4. NoResp \in Response /\ NoWork \in Work
  BY DEF NoResp, NoWork, Response, Work
<1>5. TypeOK
  <2>1. MaxDepth(world) \in Nat
    BY <1>1, LastDepth, StepsAtUnfolds
  <2> QED BY <1>1, <1>3, <1>4, <2>1 DEF TypeOK, Init
<1>6. NoneForgotten
  <2>1. Due = world.start
    BY DEF Due, Init
  <2>2. StepsAt(world)[0] = { r.step : r \in world.start }
    <3>1. 0 \in 0 .. Cardinality(Step)
      BY StepsAtUnfolds
    <3> QED BY <3>1, StepsAtNext
  <2>3. \A r \in world.start : r.step \in RootParent <=> r.point = <<>>
    BY <1>1, WorldAssumption
  <2> QED BY <1>2, <2>1, <2>2, <2>3 DEF NoneForgotten, Init
<1>7. NoWastedQuery
  BY DEF NoWastedQuery, NoWasteIn, Init, NoWork
<1>8. stage = "loop" /\ Idle
  BY DEF Init, Idle
<1> QED BY <1>5, <1>6, <1>7, <1>8 DEF IInv

-----------------------------------------------------------------------------
\* A goroutine that goes on disturbs nobody else: it is enough that it keeps its
\* own part of the invariant.
LEMMA GroupStep ==
  ASSUME IInv, NEW u \in Url, group[u] \notin {"none", "folded"},
         NEW g \in {"query", "parse", "ok", "err"}, NEW x \in Work,
         group' = [group EXCEPT ![u] = g],
         work' = [work EXCEPT ![u] = x],
         UNCHANGED <<world, stage, depth, reqs, exResp, errs, result>>,
         x.ers = work[u].ers,
         NoWasteIn(x),
         g = "query" => BatchCovers(x),
         g \in {"parse", "ok"} => x.resp.results = Answered(OfUrl(u)),
         g = "ok" => Range(x.resp.next) =
           UNION { Dependents(world, p.req, p.data) : p \in x.resp.results }
  PROVE  IInv'
<1>1. stage = "fanout" /\ u \notin errs /\ u \notin Folded
  BY BusyInFanout
<1>2. group \in [Url -> {"none", "build", "query", "parse", "ok", "err", "folded"}] /\ work \in [Url -> Work]
  BY DEF IInv, TypeOK
<1>3. /\ group'[u] = g /\ work'[u] = x
      /\ \A v \in Url \ {u} : group'[v] = group[v] /\ work'[v] = work[v]
  BY <1>2
<1>4. Folded' = Folded
  BY <1>1, <1>3 DEF Folded
<1>5. TypeOK'
  <2>1. group' \in [Url -> {"none", "build", "query", "parse", "ok", "err", "folded"}]
    BY <1>2
  <2>2. work' \in [Url -> Work]
    BY <1>2
  <2> QED BY <2>1, <2>2 DEF IInv, TypeOK
<1>6. NoneForgotten'
  BY DEF IInv, NoneForgotten, Due
<1>7. NoWastedQuery'
  <2>1. \A v \in Url : NoWasteIn(work[v])
    BY DEF IInv, NoWastedQuery
  <2>2. \A v \in Url : NoWasteIn(work'[v])
    BY <1>3, <2>1
  <2> QED BY <2>2 DEF NoWastedQuery, NoWasteIn
<1>8. FoldInv'
  <2>1. FoldInv
    BY <1>1 DEF IInv
  <2>2. \A v \in Folded : work'[v] = work[v]
    BY <1>1, <1>3 DEF Folded
  <2>3. \A v \in errs : v # u /\ v \in Url
    BY <1>1 DEF IInv, TypeOK
  <2>4. UNION { work'[v].resp.results : v \in Folded } = UNION { work[v].resp.results : v \in Folded }
    BY <2>2
  <2>5. UNION { Range(work'[v].resp.next) : v \in Folded } = UNION { Range(work[v].resp.next) : v \in Folded }
    BY <2>2
  <2> QED BY <1>3, <1>4, <2>1, <2>3, <2>4, <2>5 DEF FoldInv
<1>9. ASSUME NEW v \in Url
      PROVE  GroupInv(v)'
  <2>1. GroupInv(v)
    BY <1>1 DEF IInv
  <2>2. OfUrl(v)' = OfUrl(v) /\ (\A R : Answered(R)' = Answered(R))
    BY DEF OfUrl, Answered
  <2>3. CASE v # u
    <3>1. group'[v] = group[v] /\ work'[v] = work[v]
      BY <1>3, <2>3
    <3> QED BY <1>4, <2>1, <2>2, <3>1 DEF GroupInv, BatchCovers, Answered, OfUrl
  <2>4. CASE v = u
    <3>1. g # "none" /\ u \notin Folded'
      BY <1>1, <1>4
    <3>2. Range(x.ers) = OfUrl(u)
      BY <2>1, <2>4 DEF GroupInv
    <3> QED BY <1>3, <2>2, <2>4, <3>1, <3>2 DEF GroupInv, BatchCovers, Answered, OfUrl
  <2> QED BY <2>3, <2>4
<1> QED BY <1>1, <1>5, <1>6, <1>7, <1>8, <1>9 DEF IInv

\* A group that fails keeps what it has.
LEMMA FailGroupIInv ==
  ASSUME IInv, NEW u \in Url, group[u] \notin {"none", "folded"}, FailGroup(u)
  PROVE  IInv'
<1>1. group' = [group EXCEPT ![u] = "err"] /\ work[u] \in Work /\ NoWasteIn(work[u])
  BY DEF FailGroup, IInv, TypeOK, NoWastedQuery
<1>2. work' = [work EXCEPT ![u] = work[u]]
  BY DEF FailGroup, IInv, TypeOK
<1> QED BY <1>1, <1>2, GroupStep DEF FailGroup

\* A request that has got its variables has an id below the root, and none at
\* the root.
LEMMA IdsAreKnown ==
  ASSUME IInv, NEW u \in Url, stage = "fanout", ~VariablesFail(u), NEW i \in DOMAIN work[u].ers
  PROVE  /\ work[u].ers[i] \in Request
         /\ work[u].ers[i].step \in RootParent <=> IdOf(work[u].ers[i]) = NoId
<1> DEFINE r == work[u].ers[i]
<1>1. work[u].ers \in Seq(Request)
  BY DEF IInv, TypeOK, Work
<1>2. r \in Request
  BY <1>1
<1>3. r \in Range(work[u].ers)
  BY DEF Range
<1>4. r \in Range(reqs)
  BY <1>3 DEF IInv, GroupInv, OfUrl
<1>5. r.step \in RootParent <=> r.point = <<>>
  BY <1>4 DEF IInv, NoneForgotten
<1>6. r.point # <<>> => IdOf(r) # NoId
  BY <1>3 DEF VariablesFail
<1> HIDE DEF r
<1>7. r.point = <<>> => IdOf(r) = NoId
  BY DEF IdOf
<1>8. r.step \in RootParent <=> IdOf(r) = NoId
  BY <1>5, <1>6, <1>7
<1> QED BY <1>2, <1>8 DEF r

\* An id that shows another type has nothing to answer.
LEMMA SkippedHasNothing ==
  ASSUME world \in World, NEW r \in Request, r.step \in RootParent <=> IdOf(r) = NoId,
         ~NeedsQuery(r)
  PROVE  Answer(world, Input(r)) = {}
<1>1. r.step \in Step \ RootParent /\ IdOf(r) \in Id \ {NoId}
  BY IdOfType DEF NeedsQuery, Request
<1>2. TypeOf[IdOf(r)] \notin {NoId, ParentType[r.step]}
  BY DEF NeedsQuery
<1>3. [query |-> Query[r.step], id |-> IdOf(r)] \notin world.knows
  BY <1>1, <1>2, WorldAssumption
<1> QED BY <1>3 DEF Answer, Input

\* Requests share a key only if they ask the same.
LEMMA SameKeySameInput ==
  ASSUME NEW i \in Nat \ {0}, NEW j \in Nat \ {0}, NEW q, NEW r, Key(i, q) = Key(j, r)
  PROVE  i = j \/ Input(q) = Input(r)
BY DEF Key

\* The first request of each key is asked, for all that share the key.
LEMMA BuildBatchIInv ==
  ASSUME IInv, NEW u \in Url, BuildBatch(u)
  PROVE  IInv'
<1> DEFINE ers == work[u].ers
           asked == { i \in DOMAIN ers : NeedsQuery(ers[i]) }
           key(i) == Key(i, ers[i])
           first == { i \in asked : \A j \in asked : key(j) = key(i) => i <= j }
           targets == InOrder(first)
           batch == [k \in DOMAIN targets |-> Input(ers[targets[k]])]
           rows == [k \in DOMAIN targets |-> { i \in asked : key(i) = key(targets[k]) }]
           skipped == DOMAIN ers \ asked
           x == [work[u] EXCEPT !.batch = batch, !.rows = rows, !.skipped = skipped]
<1>1. group[u] = "build" /\ ~VariablesFail(u) /\ stage = "fanout"
  BY BusyInFanout DEF BuildBatch
<1>2. work[u] \in Work /\ work \in [Url -> Work] /\ ers \in Seq(Request)
      /\ DOMAIN ers \in SUBSET (Nat \ {0}) /\ IsFiniteSet(DOMAIN ers)
  <2>1. work[u] \in Work /\ work \in [Url -> Work] /\ ers \in Seq(Request)
    BY DEF IInv, TypeOK, Work
  <2> HIDE DEF ers
  <2>2. DOMAIN ers = 1 .. Len(ers) /\ Len(ers) \in Nat
    BY <2>1
  <2>3. IsFiniteSet(1 .. Len(ers))
    BY <2>2, FS_Interval
  <2>4. 1 .. Len(ers) \subseteq Nat \ {0}
    OBVIOUS
  <2> QED BY <2>1, <2>2, <2>3, <2>4
<1>3. \A i \in DOMAIN ers :
        ers[i] \in Request /\ (ers[i].step \in RootParent <=> IdOf(ers[i]) = NoId)
  BY <1>1, IdsAreKnown
<1>4. /\ work' = [work EXCEPT ![u].batch = batch, ![u].rows = rows, ![u].skipped = skipped]
      /\ group' = [group EXCEPT ![u] = "query"]
      /\ UNCHANGED <<world, stage, depth, reqs, exResp, errs, result>>
  BY DEF BuildBatch
<1> HIDE DEF ers
<1>5. asked \subseteq DOMAIN ers /\ first \subseteq asked /\ skipped \subseteq DOMAIN ers
  OBVIOUS
<1>6. /\ Cardinality(first) \in Nat
      /\ targets \in [1 .. Cardinality(first) -> first]
      /\ \A i \in first : \E k \in 1 .. Cardinality(first) : targets[k] = i
      /\ \A k, l \in 1 .. Cardinality(first) : targets[k] = targets[l] => k = l
  <2>1. first \in SUBSET Nat /\ IsFiniteSet(first)
    BY <1>2, <1>5, FS_Subset
  <2> HIDE DEF first
  <2> QED BY <2>1, InOrderLists
<1>7. DOMAIN targets = 1 .. Cardinality(first) /\ \A k \in DOMAIN targets : targets[k] \in first
  BY <1>6
<1> HIDE DEF targets
<1>8. \A i \in asked : NeedsQuery(ers[i])
  OBVIOUS
<1>9. ASSUME NEW i \in asked
      PROVE  \E k \in DOMAIN targets : i \in rows[k]
  <2> DEFINE same == { j \in asked : key(j) = key(i) }
  <2>1. same \in SUBSET Nat /\ same # {}
    BY <1>2, <1>5
  <2>2. PICK m \in same : \A j \in same : ~(j < m)
    BY <2>1, NatSetMin
  <2>3. m \in first
    <3>1. m \in asked /\ key(m) = key(i)
      BY <2>2
    <3>2. ASSUME NEW j \in asked, key(j) = key(m)
          PROVE  m <= j
      <4>1. j \in same
        BY <3>1, <3>2
      <4>2. j \in Nat /\ m \in Nat /\ ~(j < m)
        BY <2>1, <2>2, <4>1
      <4> QED BY <4>2
    <3> HIDE DEF key, asked
    <3> QED BY <3>1, <3>2
  <2>4. PICK k \in DOMAIN targets : targets[k] = m
    BY <1>6, <1>7, <2>3
  <2>5. key(i) = key(targets[k])
    BY <2>2, <2>4
  <2> HIDE DEF key, asked
  <2> QED BY <2>4, <2>5
<1> HIDE DEF asked, first, skipped
<1>10. x \in Work
  <2>1. Cardinality(first) \in Nat
    BY <1>6
  <2>2. batch \in Seq(Inputs)
    <3>1. \A k \in DOMAIN targets : Input(ers[targets[k]]) \in Inputs
      BY <1>3, <1>5, <1>7, InputType
    <3>2. batch \in [1 .. Cardinality(first) -> Inputs]
      BY <1>7, <3>1
    <3> QED BY <2>1, <3>2
  <2>3. rows \in Seq(SUBSET Nat)
    <3>1. \A k \in DOMAIN targets : { i \in asked : key(i) = key(targets[k]) } \in SUBSET Nat
      BY <1>2, <1>5
    <3>2. rows \in [1 .. Cardinality(first) -> SUBSET Nat]
      BY <1>7, <3>1
    <3> QED BY <2>1, <3>2
  <2>4. skipped \in SUBSET Nat
    BY <1>2, <1>5
  <2> HIDE DEF batch, rows
  <2> QED BY <1>2, <2>2, <2>3, <2>4 DEF Work
<1>11. work' = [work EXCEPT ![u] = x]
  <2> HIDE DEF batch, rows
  <2> QED BY <1>2, <1>4
<1>12. x.ers = ers /\ x.batch = batch /\ x.rows = rows /\ x.skipped = skipped
  <2> HIDE DEF batch, rows
  <2> QED BY <1>2 DEF Work, ers
<1>13. DOMAIN batch = DOMAIN targets /\ DOMAIN rows = DOMAIN targets
  OBVIOUS
<1>14. ASSUME NEW k \in DOMAIN targets, NEW i \in rows[k]
       PROVE  i \in DOMAIN ers /\ i \in asked /\ Input(ers[i]) = batch[k]
  <2>1. i \in asked /\ targets[k] \in asked /\ key(i) = key(targets[k])
    BY <1>5, <1>7
  <2>2. i \in Nat \ {0} /\ targets[k] \in Nat \ {0}
    BY <1>2, <1>5, <2>1
  <2>3. i = targets[k] \/ Input(ers[i]) = Input(ers[targets[k]])
    BY <2>1, <2>2, SameKeySameInput
  <2> QED BY <1>5, <2>1, <2>3
<1>15. BatchCovers(x)
  <2>1. \A i \in skipped : Answer(world, Input(ers[i])) = {}
    <3>1. world \in World
      BY DEF IInv, TypeOK
    <3> QED BY <1>3, <1>5, <3>1, SkippedHasNothing DEF skipped, asked
  <2>2. \A i \in DOMAIN ers : i \in skipped \/ \E k \in DOMAIN batch : i \in rows[k]
    BY <1>9, <1>13 DEF skipped
  <2> HIDE DEF batch, rows, x
  <2> QED BY <1>5, <1>12, <1>13, <1>14, <2>1, <2>2 DEF BatchCovers
<1>16. NoWasteIn(x)
  <2>1. ASSUME NEW k \in DOMAIN targets, NEW l \in DOMAIN targets, k # l, batch[k] = batch[l]
        PROVE  \E i \in rows[k] : ers[i].step \in RootParent \cup WithVariables
    <3>1. targets[k] \in asked /\ targets[l] \in first /\ targets[k] \in first
          /\ targets[l] \in asked /\ targets[k] # targets[l]
      BY <1>5, <1>6, <1>7, <2>1
    <3>2. targets[k] \in rows[k]
      BY <3>1
    <3>3. key(targets[k]) # key(targets[l])
      <4>1. targets[k] \in Nat /\ targets[l] \in Nat
        BY <1>2, <1>5, <3>1
      <4>2. key(targets[k]) = key(targets[l]) => targets[k] <= targets[l] /\ targets[l] <= targets[k]
        <5> HIDE DEF key
        <5> QED BY <3>1 DEF first
      <4> QED BY <3>1, <4>1, <4>2
    <3> DEFINE q == ers[targets[k]]
               r == ers[targets[l]]
    <3>4. Input(q) = Input(r)
      BY <2>1
    <3>5. q \in Request /\ r \in Request /\ (q.step \in RootParent <=> IdOf(q) = NoId)
          /\ (r.step \in RootParent <=> IdOf(r) = NoId)
      BY <1>3, <1>5, <3>1
    <3> HIDE DEF q, r
    <3>6. Query[q.step] = Query[r.step] /\ IdOf(q) = IdOf(r)
      BY <3>4 DEF Input
    <3>7. q.step \in WithVariables <=> r.step \in WithVariables
      BY <3>5, <3>6, PlanAssumption DEF Request
    <3>8. q.step \notin RootParent \cup WithVariables => Key(targets[k], q) = Key(targets[l], r)
      BY <3>4, <3>5, <3>6, <3>7 DEF Key
    <3>9. q.step \in RootParent \cup WithVariables
      BY <3>3, <3>8 DEF q, r
    <3> QED BY <3>2, <3>9 DEF q
  <2>2. ASSUME NEW k \in DOMAIN targets, NEW i \in rows[k]
        PROVE  TypeOf[batch[k].id] \in {NoId, ParentType[ers[i].step]}
    <3>1. i \in asked /\ i \in DOMAIN ers /\ Input(ers[i]) = batch[k]
      BY <1>14
    <3>2. batch[k].id = IdOf(ers[i])
      BY <3>1 DEF Input
    <3>3. NeedsQuery(ers[i]) /\ (ers[i].step \in RootParent <=> IdOf(ers[i]) = NoId)
      BY <1>3, <1>8, <3>1
    <3>4. TypeOf[IdOf(ers[i])] \in {NoId, ParentType[ers[i].step]}
      BY <3>3, PlanAssumption DEF NeedsQuery
    <3> QED BY <3>2, <3>4
  <2> HIDE DEF batch, rows, x
  <2> QED BY <1>12, <1>13, <2>1, <2>2 DEF NoWasteIn
<1> HIDE DEF x
<1> QED BY <1>1, <1>4, <1>10, <1>11, <1>12, <1>15, <1>16, GroupStep DEF ers

\* Every request of the group gets the answer to its own input.
LEMMA QueryAnswersIInv ==
  ASSUME IInv, NEW u \in Url, QueryAnswers(u)
  PROVE  IInv'
<1> DEFINE w == work[u]
           answered == UNION { { [req |-> w.ers[i], data |-> Answer(world, w.batch[k])] :
                                   i \in w.rows[k] } : k \in DOMAIN w.batch }
           nil == { [req |-> w.ers[i], data |-> {}] : i \in w.skipped }
           x == [w EXCEPT !.resp.results = answered \cup nil]
<1>1. group[u] = "query" /\ stage = "fanout"
  BY BusyInFanout DEF QueryAnswers
<1>2. /\ work' = [work EXCEPT ![u].resp.results = answered \cup nil]
      /\ group' = [group EXCEPT ![u] = "parse"]
      /\ UNCHANGED <<world, stage, depth, reqs, exResp, errs, result>>
  BY DEF QueryAnswers
<1>3. w \in Work /\ work \in [Url -> Work] /\ NoWasteIn(w)
  BY DEF IInv, TypeOK, NoWastedQuery
<1>4. BatchCovers(w) /\ Range(w.ers) = OfUrl(u)
  BY <1>1 DEF IInv, GroupInv
<1>5. w.ers \in Seq(Request) /\ w.resp \in Response
  BY <1>3 DEF Work
<1> HIDE DEF w
<1>6. answered \cup nil = Answered(Range(w.ers))
  <2> DEFINE piece(i) == [req |-> w.ers[i], data |-> Answer(world, Input(w.ers[i]))]
  <2>1. Answered(Range(w.ers)) = { piece(i) : i \in DOMAIN w.ers }
    BY DEF Answered, Range
  <2>2. ASSUME NEW k \in DOMAIN w.batch, NEW i \in w.rows[k]
        PROVE  i \in DOMAIN w.ers
               /\ [req |-> w.ers[i], data |-> Answer(world, w.batch[k])] = piece(i)
    BY <1>4 DEF BatchCovers
  <2>3. ASSUME NEW i \in w.skipped
        PROVE  i \in DOMAIN w.ers /\ [req |-> w.ers[i], data |-> {}] = piece(i)
    BY <1>4 DEF BatchCovers
  <2>4. answered \subseteq { piece(i) : i \in DOMAIN w.ers }
    <3> HIDE DEF piece
    <3> QED BY <2>2
  <2>5. nil \subseteq { piece(i) : i \in DOMAIN w.ers }
    <3> HIDE DEF piece
    <3> QED BY <2>3
  <2>6. ASSUME NEW i \in DOMAIN w.ers
        PROVE  piece(i) \in answered \cup nil
    <3>1. CASE i \in w.skipped
      <4>1. [req |-> w.ers[i], data |-> {}] \in nil
        BY <3>1
      <4> HIDE DEF piece, nil, answered
      <4> QED BY <2>3, <3>1, <4>1
    <3>2. CASE \E k \in DOMAIN w.batch : i \in w.rows[k]
      <4>1. PICK k \in DOMAIN w.batch : i \in w.rows[k]
        BY <3>2
      <4>2. [req |-> w.ers[i], data |-> Answer(world, w.batch[k])] \in answered
        BY <4>1
      <4> HIDE DEF piece, nil, answered
      <4> QED BY <2>2, <4>1, <4>2
    <3> QED BY <1>4, <3>1, <3>2 DEF BatchCovers
  <2> HIDE DEF piece, nil, answered
  <2> QED BY <2>1, <2>4, <2>5, <2>6
<1>7. Answered(Range(w.ers)) \in SUBSET [req : Request, data : SUBSET Inputs]
  <2>1. ASSUME NEW r \in Range(w.ers)
        PROVE  [req |-> r, data |-> Answer(world, Input(r))] \in [req : Request, data : SUBSET Inputs]
    <3>1. r \in Request
      BY <1>5 DEF Range
    <3> QED BY <3>1, InputType, AnswerType
  <2> QED BY <2>1 DEF Answered
<1> HIDE DEF answered, nil
<1>8. x \in Work /\ x.ers = w.ers /\ x.batch = w.batch /\ x.rows = w.rows
      /\ x.resp.results = answered \cup nil
  BY <1>3, <1>5, <1>6, <1>7 DEF Work, Response
<1>9. work' = [work EXCEPT ![u] = x]
  BY <1>2, <1>3 DEF w
<1>10. NoWasteIn(x)
  BY <1>3, <1>8 DEF NoWasteIn
<1> HIDE DEF x
<1> QED BY <1>1, <1>2, <1>4, <1>6, <1>8, <1>9, <1>10, GroupStep DEF w

\* The answers are finitely many, so that any order of them is an order of all.
LEMMA AnsweredFinite ==
  ASSUME NEW seq \in Seq(Request)
  PROVE  IsFiniteSet(Answered(Range(seq)))
<1> DEFINE f == [i \in 1 .. Len(seq) |-> [req |-> seq[i], data |-> Answer(world, Input(seq[i]))]]
<1>1. Len(seq) \in Nat /\ DOMAIN seq = 1 .. Len(seq)
  OBVIOUS
<1>2. Answered(Range(seq)) = { f[i] : i \in 1 .. Len(seq) }
  BY <1>1 DEF Answered, Range
<1>3. DOMAIN f = 1 .. Len(seq)
  OBVIOUS
<1> HIDE DEF f
<1>4. f \in Surjection(1 .. Len(seq), Answered(Range(seq)))
  <2>1. f = [i \in 1 .. Len(seq) |-> f[i]]
    BY DEF f
  <2> QED BY <1>2, <2>1 DEF Surjection
<1> QED BY <1>1, <1>4, FS_Surjection, FS_Interval

\* Whatever the order, all requests below the group's answers are found.
LEMMA ParseResponesIInv ==
  ASSUME IInv, NEW u \in Url, ParseRespones(u)
  PROVE  IInv'
<1> DEFINE w == work[u]
           results == w.resp.results
           parents == { p \in results : Dependents(world, p.req, p.data) # {} }
           orders(p) == DependentOrders(world, p.req, p.data)
<1>1. group[u] = "parse" /\ stage = "fanout"
  BY BusyInFanout DEF ParseRespones
<1>2. PICK order \in SetToSeqs(parents) :
        \E nexts \in [DOMAIN order -> UNION { orders(p) : p \in parents }] :
          /\ \A k \in DOMAIN order : nexts[k] \in orders(order[k])
          /\ work' = [work EXCEPT ![u].resp.next = FlattenSeq(nexts)]
  BY Zenon DEF ParseRespones
<1>3. PICK nexts \in [DOMAIN order -> UNION { orders(p) : p \in parents }] :
        /\ \A k \in DOMAIN order : nexts[k] \in orders(order[k])
        /\ work' = [work EXCEPT ![u].resp.next = FlattenSeq(nexts)]
  BY <1>2
<1>4. /\ group' = [group EXCEPT ![u] = "ok"]
      /\ UNCHANGED <<world, stage, depth, reqs, exResp, errs, result>>
  BY DEF ParseRespones
<1>5. w \in Work /\ work \in [Url -> Work] /\ NoWasteIn(w) /\ world \in World
  BY DEF IInv, TypeOK, NoWastedQuery
<1>6. w.ers \in Seq(Request) /\ w.resp \in Response
  BY <1>5 DEF Work
<1>7. results \subseteq [req : Request, data : SUBSET Inputs]
  BY <1>6 DEF Response
<1>8. Range(w.ers) = OfUrl(u) /\ results = Answered(OfUrl(u))
  BY <1>1 DEF IInv, GroupInv
<1>9. IsFiniteSet(parents)
  <2>1. IsFiniteSet(results)
    BY <1>6, <1>8, AnsweredFinite
  <2>2. parents \in SUBSET results
    OBVIOUS
  <2> HIDE DEF parents, results
  <2> QED BY <2>1, <2>2, FS_Subset
<1> HIDE DEF parents
<1>10. Range(order) = parents /\ \E n \in Nat : DOMAIN order = 1 .. n
  BY <1>2, <1>9, SetToSeqsRange, FS_CardinalityType
<1>11. PICK n \in Nat : DOMAIN order = 1 .. n
  BY <1>10
<1>12. ASSUME NEW k \in 1 .. n
       PROVE  /\ nexts[k] \in Seq(Request)
              /\ Range(nexts[k]) = Dependents(world, order[k].req, order[k].data)
  <2>1. order[k] \in results
    BY <1>10, <1>11 DEF Range, parents
  <2>2. order[k].req \in Request
    BY <1>7, <2>1
  <2>3. nexts[k] \in DependentOrders(world, order[k].req, order[k].data)
    BY <1>3, <1>11
  <2> QED BY <1>5, <2>2, <2>3, OrdersHaveDependents
<1>13. nexts \in [1 .. n -> Seq(Request)]
  BY <1>3, <1>11, <1>12
<1>14. /\ FlattenSeq(nexts) \in Seq(Request)
       /\ Range(FlattenSeq(nexts)) = UNION { Range(nexts[k]) : k \in 1 .. n }
  BY <1>13, FlattenSeqRange
<1>15. Range(FlattenSeq(nexts)) = UNION { Dependents(world, p.req, p.data) : p \in results }
  <2>1. UNION { Range(nexts[k]) : k \in 1 .. n }
          = UNION { Dependents(world, order[k].req, order[k].data) : k \in 1 .. n }
    BY <1>12
  <2>2. { Dependents(world, order[k].req, order[k].data) : k \in 1 .. n }
          = { Dependents(world, p.req, p.data) : p \in parents }
    BY <1>10, <1>11 DEF Range
  <2>3. UNION { Dependents(world, p.req, p.data) : p \in parents }
          = UNION { Dependents(world, p.req, p.data) : p \in results }
    BY DEF parents
  <2> QED BY <1>14, <2>1, <2>2, <2>3
<1> DEFINE x == [w EXCEPT !.resp.next = FlattenSeq(nexts)]
<1> HIDE DEF w, results
<1>16. x \in Work /\ x.ers = w.ers /\ x.batch = w.batch /\ x.rows = w.rows
       /\ x.resp.results = w.resp.results /\ x.resp.next = FlattenSeq(nexts)
  BY <1>5, <1>6, <1>14 DEF Work, Response
<1>17. work' = [work EXCEPT ![u] = x]
  BY <1>3, <1>5 DEF w
<1>18. NoWasteIn(x)
  BY <1>5, <1>16 DEF NoWasteIn
<1> HIDE DEF x
<1> QED BY <1>1, <1>4, <1>8, <1>15, <1>16, <1>17, <1>18, GroupStep DEF w, results

\* A fold moves one group into exResp, or its error into errs.
LEMMA FoldIInv ==
  ASSUME IInv, NEW u \in Url, FoldResponse(u) \/ FoldError(u)
  PROVE  IInv'
<1>1. group[u] \in {"ok", "err"}
  BY DEF FoldResponse, FoldError
<1>2. stage = "fanout" /\ u \notin errs /\ u \notin Folded
  BY <1>1, BusyInFanout
<1>3. group' = [group EXCEPT ![u] = "folded"] /\ UNCHANGED <<world, stage, depth, reqs, work, result>>
  BY DEF FoldResponse, FoldError
<1>4. /\ group \in [Url -> {"none", "build", "query", "parse", "ok", "err", "folded"}]
      /\ work \in [Url -> Work] /\ exResp \in Response /\ errs \subseteq Url
  BY DEF IInv, TypeOK
<1>5. group'[u] = "folded" /\ \A v \in Url \ {u} : group'[v] = group[v]
  BY <1>3, <1>4
<1>6. FoldInv /\ \A v \in Url : GroupInv(v)
  BY <1>2 DEF IInv
<1>7. OfUrl(u)' = OfUrl(u) /\ \A v \in Url : OfUrl(v)' = OfUrl(v)
  BY <1>3 DEF OfUrl
<1>8. NoneForgotten' /\ NoWastedQuery'
  BY <1>3 DEF IInv, NoneForgotten, Due, NoWastedQuery, NoWasteIn
<1>9. CASE FoldResponse(u)
  <2>1. /\ group[u] = "ok" /\ errs' = errs
        /\ exResp' = [results |-> exResp.results \cup work[u].resp.results,
                      next    |-> exResp.next \o work[u].resp.next]
    BY <1>9 DEF FoldResponse
  <2>2. Folded' = Folded \cup {u}
    BY <1>2, <1>5, <2>1 DEF Folded
  <2>3. /\ exResp.next \in Seq(Request) /\ work[u].resp.next \in Seq(Request)
        /\ exResp.results \in SUBSET [req : Request, data : SUBSET Inputs]
        /\ work[u].resp.results \in SUBSET [req : Request, data : SUBSET Inputs]
    BY <1>4 DEF Work, Response
  <2>4. /\ exResp'.results = exResp.results \cup work[u].resp.results
        /\ exResp'.next = exResp.next \o work[u].resp.next
    BY <2>1
  <2>5. /\ exResp'.next \in Seq(Request)
        /\ Range(exResp'.next) = Range(exResp.next) \cup Range(work[u].resp.next)
    BY <2>3, <2>4, ConcatProperties, RangeConcatenation
  <2>6. exResp' \in Response
    BY <2>1, <2>3, <2>4, <2>5 DEF Response
  <2>7. TypeOK'
    BY <1>3, <1>4, <2>1, <2>6 DEF IInv, TypeOK
  <2>8. FoldInv'
    <3>1. UNION { work[v].resp.results : v \in Folded \cup {u} }
            = (UNION { work[v].resp.results : v \in Folded }) \cup work[u].resp.results
      OBVIOUS
    <3>2. UNION { Range(work[v].resp.next) : v \in Folded \cup {u} }
            = (UNION { Range(work[v].resp.next) : v \in Folded }) \cup Range(work[u].resp.next)
      OBVIOUS
    <3>3. exResp'.results = UNION { work'[v].resp.results : v \in Folded' }
      BY <1>3, <1>6, <2>2, <2>4, <3>1 DEF FoldInv
    <3>4. Range(exResp'.next) = UNION { Range(work'[v].resp.next) : v \in Folded' }
      BY <1>3, <1>6, <2>2, <2>5, <3>2 DEF FoldInv
    <3>5. \A v \in errs' : group'[v] = "folded"
      BY <1>4, <1>5, <1>6, <2>1 DEF FoldInv
    <3> QED BY <3>3, <3>4, <3>5 DEF FoldInv
  <2>9. ASSUME NEW v \in Url
        PROVE  GroupInv(v)'
    <3>1. GroupInv(v)
      BY <1>6
    <3>2. CASE v # u
      BY <1>3, <1>5, <1>7, <2>2, <3>1, <3>2 DEF GroupInv, BatchCovers, Answered
    <3>3. CASE v = u
      BY <1>3, <1>5, <1>7, <2>1, <3>1, <3>3 DEF GroupInv, BatchCovers, Answered
    <3> QED BY <3>2, <3>3
  <2> QED BY <1>2, <1>3, <1>8, <2>7, <2>8, <2>9 DEF IInv
<1>10. CASE FoldError(u)
  <2>1. group[u] = "err" /\ errs' = errs \cup {u} /\ exResp' = exResp
    BY <1>10 DEF FoldError
  <2>2. Folded' = Folded
    BY <1>2, <1>5, <2>1 DEF Folded
  <2>3. TypeOK'
    BY <1>3, <1>4, <2>1 DEF IInv, TypeOK
  <2>4. FoldInv'
    BY <1>3, <1>4, <1>5, <1>6, <2>1, <2>2 DEF FoldInv
  <2>5. ASSUME NEW v \in Url
        PROVE  GroupInv(v)'
    <3>1. GroupInv(v)
      BY <1>6
    <3>2. CASE v # u
      BY <1>3, <1>5, <1>7, <2>2, <3>1, <3>2 DEF GroupInv, BatchCovers, Answered
    <3>3. CASE v = u
      BY <1>2, <1>3, <1>5, <1>7, <2>1, <2>2, <3>1, <3>3 DEF GroupInv, BatchCovers, Answered
    <3> QED BY <3>2, <3>3
  <2> QED BY <1>2, <1>3, <1>8, <2>3, <2>4, <2>5 DEF IInv
<1> QED BY <1>9, <1>10

-----------------------------------------------------------------------------
\* The requests of the depth are shared out: each group has those of its url.
LEMMA StartDepthIInv ==
  ASSUME IInv, StartDepth
  PROVE  IInv'
<1> DEFINE mine(u) == { i \in DOMAIN reqs : UrlOf[reqs[i].step] = u }
           of(u) == Only(reqs, mine(u))
<1>1. /\ stage = "loop" /\ stage' = "fanout" /\ depth <= MaxDepth(world)
      /\ work' = [u \in Url |-> [NoWork EXCEPT !.ers = of(u)]]
      /\ group' = [u \in Url |-> IF of(u) = <<>> THEN "none" ELSE "build"]
      /\ UNCHANGED <<world, depth, reqs, exResp, errs, result>>
  BY DEF StartDepth
<1>2. Idle /\ reqs \in Seq(Request)
  BY <1>1 DEF IInv, TypeOK
<1>3. ASSUME NEW u \in Url
      PROVE  of(u) \in Seq(Request) /\ Range(of(u)) = OfUrl(u)
  <2>1. mine(u) \in SUBSET DOMAIN reqs
    OBVIOUS
  <2>2. OfUrl(u) = { reqs[i] : i \in mine(u) }
    BY DEF OfUrl, Range
  <2> HIDE DEF mine
  <2> QED BY <1>2, <2>1, <2>2, OnlyKeeps
<1> HIDE DEF of
<1>4. \A u \in Url :
        /\ work'[u] = [NoWork EXCEPT !.ers = of(u)]
        /\ group'[u] = IF of(u) = <<>> THEN "none" ELSE "build"
  BY <1>1
<1>5. ASSUME NEW u \in Url
      PROVE  work'[u] \in Work /\ work'[u].ers = of(u) /\ work'[u].batch = <<>>
  <2>1. work'[u] = [ers |-> of(u), batch |-> <<>>, rows |-> <<>>, skipped |-> {}, resp |-> NoResp]
    BY <1>4 DEF NoWork
  <2>2. NoResp \in Response
    BY DEF NoResp, Response
  <2> QED BY <1>3, <2>1, <2>2 DEF Work
<1>6. TypeOK'
  <2>1. work' \in [Url -> Work]
    BY <1>1, <1>4, <1>5
  <2>2. group' \in [Url -> {"none", "build", "query", "parse", "ok", "err", "folded"}]
    BY <1>1
  <2> QED BY <1>1, <2>1, <2>2 DEF IInv, TypeOK
<1>7. NoneForgotten'
  BY <1>1 DEF IInv, NoneForgotten, Due
<1>8. NoWastedQuery'
  BY <1>5 DEF NoWastedQuery, NoWasteIn
<1>9. Folded' = {}
  BY <1>4 DEF Folded
<1>10. FoldInv'
  <2>1. exResp' = NoResp /\ errs' = {}
    BY <1>1, <1>2 DEF Idle
  <2>2. NoResp.results = {} /\ NoResp.next = <<>>
    BY DEF NoResp
  <2>3. Range(<< >>) = {}
    <3>1. DOMAIN << >> = {}
      OBVIOUS
    <3> QED BY <3>1, Zenon DEF Range
  <2> QED BY <1>9, <2>1, <2>2, <2>3 DEF FoldInv
<1>11. ASSUME NEW u \in Url
       PROVE  GroupInv(u)'
  <2>1. Range(work'[u].ers) = OfUrl(u)'
    BY <1>1, <1>3, <1>5 DEF OfUrl
  <2>2. group'[u] \in {"none", "build"} /\ (group'[u] = "none" => of(u) = <<>>)
    BY <1>4
  <2>3. of(u) = <<>> => OfUrl(u)' = {}
    <3>1. DOMAIN << >> = {}
      OBVIOUS
    <3>2. Range(<< >>) = {}
      BY <3>1, Zenon DEF Range
    <3> QED BY <1>5, <2>1, <3>2
  <2> QED BY <1>9, <2>1, <2>2, <2>3 DEF GroupInv
<1> QED BY <1>1, <1>6, <1>7, <1>8, <1>10, <1>11 DEF IInv

\* When all groups are in without an error, exResp holds the answer to every
\* request of the depth, and the requests for everything below them.
LEMMA DepthIsAnswered ==
  ASSUME IInv, MergeDepth
  PROVE  /\ exResp.results = Answered(Range(reqs))
         /\ Range(exResp.next) =
              UNION { Dependents(world, p.req, p.data) : p \in exResp.results }
<1>1. stage = "fanout" /\ errs = {} /\ \A u \in Url : group[u] \in {"none", "folded"}
  BY DEF MergeDepth
<1>2. FoldInv /\ \A u \in Url : GroupInv(u)
  BY <1>1 DEF IInv
<1>3. ASSUME NEW r \in Range(reqs)
      PROVE  UrlOf[r.step] \in Folded /\ r \in OfUrl(UrlOf[r.step])
  <2>1. r \in Request
    BY DEF IInv, TypeOK, Range
  <2>2. UrlOf[r.step] \in Url
    BY <2>1, PlanAssumption DEF Request
  <2>3. r \in OfUrl(UrlOf[r.step])
    BY DEF OfUrl
  <2> QED BY <1>1, <1>2, <2>2, <2>3 DEF GroupInv, Folded
<1>4. \A u \in Folded : work[u].resp.results = Answered(OfUrl(u))
        /\ Range(work[u].resp.next) =
              UNION { Dependents(world, p.req, p.data) : p \in work[u].resp.results }
  BY <1>2 DEF GroupInv, Folded
<1>5. exResp.results = Answered(Range(reqs))
  <2>1. exResp.results = UNION { Answered(OfUrl(u)) : u \in Folded }
    BY <1>2, <1>4 DEF FoldInv
  <2>2. \A u \in Folded : Answered(OfUrl(u)) \subseteq Answered(Range(reqs))
    BY DEF Answered, OfUrl
  <2>3. ASSUME NEW p \in Answered(Range(reqs))
        PROVE  \E u \in Folded : p \in Answered(OfUrl(u))
    <3>1. PICK r \in Range(reqs) : p = [req |-> r, data |-> Answer(world, Input(r))]
      BY DEF Answered
    <3>2. p \in Answered(OfUrl(UrlOf[r.step]))
      BY <1>3, <3>1 DEF Answered
    <3> QED BY <1>3, <3>2
  <2> QED BY <2>1, <2>2, <2>3
<1>6. Range(exResp.next) = UNION { Dependents(world, p.req, p.data) : p \in exResp.results }
  <2>1. Range(exResp.next) = UNION { Range(work[u].resp.next) : u \in Folded }
        /\ exResp.results = UNION { work[u].resp.results : u \in Folded }
    BY <1>2 DEF FoldInv
  <2> DEFINE D(p) == Dependents(world, p.req, p.data)
  <2>2. \A u \in Folded : Range(work[u].resp.next) = UNION { D(p) : p \in work[u].resp.results }
    BY <1>4
  <2> HIDE DEF D
  <2>3. UNION { Range(work[u].resp.next) : u \in Folded }
          = UNION { D(p) : p \in UNION { work[u].resp.results : u \in Folded } }
    BY <2>2
  <2> QED BY <2>1, <2>3 DEF D
<1> QED BY <1>5, <1>6

\* After the merge the requests to come are those of which the object has just
\* been merged.
LEMMA MergeDepthIInv ==
  ASSUME IInv, MergeDepth
  PROVE  IInv'
<1>1. /\ stage = "fanout" /\ stage' = "loop" /\ errs = {}
      /\ result' = result \cup exResp.results /\ reqs' = exResp.next /\ depth' = depth + 1
      /\ group' = [u \in Url |-> "none"] /\ work' = [u \in Url |-> NoWork]
      /\ exResp' = NoResp /\ UNCHANGED <<world, errs>>
  BY DEF MergeDepth
<1>2. world \in World /\ exResp \in Response /\ reqs \in Seq(Request)
      /\ depth \in 0 .. MaxDepth(world)
  <2>1. world \in World /\ exResp \in Response /\ reqs \in Seq(Request)
        /\ depth \in 0 .. MaxDepth(world) + 1 /\ depth <= MaxDepth(world)
    BY <1>1 DEF IInv, TypeOK
  <2>2. MaxDepth(world) \in Nat
    BY <2>1, LastDepth, StepsAtUnfolds
  <2> QED BY <2>1, <2>2
<1>3. /\ exResp.results = Answered(Range(reqs))
      /\ Range(exResp.next) = UNION { Dependents(world, p.req, p.data) : p \in exResp.results }
  BY DepthIsAnswered
<1>4. MaxDepth(world) \in 0 .. Cardinality(Step) /\ Cardinality(Step) \in Nat
  BY <1>2, LastDepth, StepsAtUnfolds
<1>5. NoResp \in Response /\ NoWork \in Work
  BY DEF NoResp, NoWork, Response, Work
<1>6. TypeOK'
  <2>1. exResp.next \in Seq(Request) /\ exResp.results \in SUBSET [req : Request, data : SUBSET Inputs]
    BY <1>2 DEF Response
  <2>2. depth' \in 0 .. MaxDepth(world) + 1
    BY <1>1, <1>2, <1>4
  <2> QED BY <1>1, <1>5, <2>1, <2>2 DEF IInv, TypeOK
<1>7. Due' = Due \cup Range(reqs')
  BY <1>1, <1>3 DEF Due
<1>8. ASSUME NEW r \in Range(reqs)
      PROVE  \E p \in result' : p.req = r
  <2> DEFINE p == [req |-> r, data |-> Answer(world, Input(r))]
  <2>1. p \in Answered(Range(reqs)) /\ p.req = r
    BY DEF Answered
  <2> HIDE DEF p
  <2> QED BY <1>1, <1>3, <2>1
<1>9. ASSUME NEW q \in Range(reqs')
      PROVE  /\ q.step \in StepsAt(world)[depth + 1]
             /\ q.step \in RootParent <=> q.point = <<>>
  <2>1. PICK p \in exResp.results : q \in Dependents(world, p.req, p.data)
    BY <1>1, <1>3
  <2>2. p.req \in Range(reqs)
    BY <1>3, <2>1 DEF Answered
  <2>3. p.req \in Request /\ p.req.step \in StepsAt(world)[depth]
    BY <1>2, <2>2 DEF IInv, NoneForgotten, Range
  <2>4. q.step \in Range(Then[p.req.step]) /\ q.step \notin RootParent /\ q.point # <<>>
    BY <1>2, <2>1, <2>3, DependentsType
  <2>5. depth \in 0 .. Cardinality(Step)
    BY <1>2, <1>4
  <2>6. StepsAt(world)[depth + 1] = UNION { Range(Then[s]) : s \in StepsAt(world)[depth] }
    BY <2>5, StepsAtNext
  <2> QED BY <2>3, <2>4, <2>6
<1>10. NoneForgotten'
  <2>1. \A r \in Due : r \in Range(reqs) \/ \E p \in result : p.req = r
    BY DEF IInv, NoneForgotten
  <2>2. \A r \in Due' : r \in Range(reqs') \/ \E p \in result' : p.req = r
    BY <1>1, <1>7, <1>8, <2>1
  <2>3. Range(reqs') \subseteq Due'
    BY <1>7
  <2> QED BY <1>1, <1>9, <2>2, <2>3 DEF NoneForgotten
<1>11. NoWastedQuery'
  BY <1>1 DEF NoWastedQuery, NoWasteIn, NoWork
<1>12. Idle'
  BY <1>1 DEF Idle
<1> QED BY <1>1, <1>6, <1>10, <1>11, <1>12 DEF IInv

\* Behind the last depth there is nothing left to ask.
LEMMA ReturnIInv ==
  ASSUME IInv, ReturnErrors \/ ReturnResult
  PROVE  IInv'
<1>1. UNCHANGED <<world, depth, reqs, group, work, exResp, errs, result>>
  BY DEF ReturnErrors, ReturnResult
<1>2. NoneForgotten' /\ NoWastedQuery'
  BY <1>1 DEF IInv, NoneForgotten, Due, NoWastedQuery, NoWasteIn
<1>3. CASE ReturnErrors
  <2>1. stage' = "failed" /\ errs # {} /\ \A u \in Url : group[u] \in {"none", "folded"}
    BY <1>3 DEF ReturnErrors
  <2>2. TypeOK'
    BY <1>1, <2>1 DEF IInv, TypeOK
  <2> QED BY <1>1, <1>2, <2>1, <2>2 DEF IInv
<1>4. CASE ReturnResult
  <2>1. stage = "loop" /\ stage' = "done" /\ (depth > MaxDepth(world) \/ reqs = <<>>)
    BY <1>4 DEF ReturnResult
  <2>2. TypeOK' /\ Idle'
    BY <1>1, <2>1 DEF IInv, TypeOK, Idle
  <2>3. reqs = <<>>
    <3>1. CASE depth > MaxDepth(world)
      <4>1. world \in World /\ depth \in 0 .. MaxDepth(world) + 1 /\ reqs \in Seq(Request)
        BY DEF IInv, TypeOK
      <4>2. MaxDepth(world) \in 0 .. Cardinality(Step) /\ StepsAt(world)[MaxDepth(world) + 1] = {}
            /\ Cardinality(Step) \in Nat
        BY <4>1, LastDepth, StepsAtUnfolds
      <4>3. depth = MaxDepth(world) + 1
        BY <3>1, <4>1, <4>2
      <4>4. Range(reqs) = {}
        BY <4>2, <4>3 DEF IInv, NoneForgotten
      <4>5. \A i \in DOMAIN reqs : reqs[i] \in Range(reqs)
        BY DEF Range
      <4>6. DOMAIN reqs = {}
        BY <4>4, <4>5
      <4>7. DOMAIN reqs = 1 .. Len(reqs) /\ Len(reqs) \in Nat
        BY <4>1
      <4>8. Len(reqs) = 0
        BY <4>6, <4>7
      <4> QED BY <4>1, <4>8, EmptySeq
    <3> QED BY <2>1, <3>1
  <2> QED BY <1>1, <1>2, <2>1, <2>2, <2>3 DEF IInv
<1> QED BY <1>3, <1>4

-----------------------------------------------------------------------------
LEMMA NextIInv ==
  ASSUME IInv, [Next]_vars
  PROVE  IInv'
<1>1. CASE StartDepth
  BY <1>1, StartDepthIInv
<1>2. CASE MergeDepth
  BY <1>2, MergeDepthIInv
<1>3. CASE ReturnErrors \/ ReturnResult
  BY <1>3, ReturnIInv
<1>4. ASSUME NEW u \in Url, Group(u) \/ FoldResponse(u) \/ FoldError(u)
      PROVE  IInv'
  <2>1. CASE GetVariablesFails(u) \/ QueryFails(u) \/ ParseFails(u)
    <3>1. FailGroup(u) /\ group[u] \in {"build", "query", "parse"}
      BY <2>1 DEF GetVariablesFails, QueryFails, ParseFails
    <3> QED BY <3>1, FailGroupIInv
  <2>2. CASE BuildBatch(u)
    BY <2>2, BuildBatchIInv
  <2>3. CASE QueryAnswers(u)
    BY <2>3, QueryAnswersIInv
  <2>4. CASE ParseRespones(u)
    BY <2>4, ParseResponesIInv
  <2>5. CASE FoldResponse(u) \/ FoldError(u)
    BY <2>5, FoldIInv
  <2> QED BY <1>4, <2>1, <2>2, <2>3, <2>4, <2>5 DEF Group
<1>5. CASE UNCHANGED vars
  <2>1. UNCHANGED <<world, stage, depth, reqs, group, work, exResp, errs, result>>
    BY <1>5 DEF vars
  <2>2. TypeOK' /\ NoneForgotten' /\ NoWastedQuery'
    BY <2>1 DEF IInv, TypeOK, NoneForgotten, Due, NoWastedQuery, NoWasteIn
  <2>3. Idle' = Idle /\ Folded' = Folded
    BY <2>1 DEF Idle, Folded
  <2>4. FoldInv' = FoldInv
    BY <2>1, <2>3 DEF FoldInv
  <2>5. ASSUME NEW u \in Url, GroupInv(u)
        PROVE  GroupInv(u)'
    BY <2>1, <2>3, <2>5 DEF GroupInv, OfUrl, Answered, BatchCovers
  <2> QED BY <2>1, <2>2, <2>3, <2>4, <2>5 DEF IInv
<1> QED BY <1>1, <1>2, <1>3, <1>4, <1>5 DEF Next, Manager, Returned

\* The invariant that follows an execution through its depths and, within a
\* depth, each goroutine from its requests to its answers.
THEOREM Invariance == Spec => []IInv
<1>1. Init => IInv
  BY InitIInv
<1>2. IInv /\ [Next]_vars => IInv'
  BY NextIInv
<1> QED BY <1>1, <1>2, PTL DEF Spec

\* No batch asks a service twice for one object and query, or for an object that
\* the id shows to be of another type.
THEOREM AsksOnce == Spec => []NoWastedQuery
<1>1. IInv => NoWastedQuery
  BY DEF IInv
<1> QED BY <1>1, Invariance, PTL

\* One error fails the whole execution, and it returns with nothing left running.
THEOREM OneFailsAll == Spec => []FailsAsOne
<1>1. IInv => FailsAsOne
  BY DEF IInv, Idle, FailsAsOne, TypeOK
<1> QED BY <1>1, Invariance, PTL

-----------------------------------------------------------------------------
\* The manager implements the abstract execution of a plan.

\* The abstract specification speaks of the same plan and the same services.
LEMMA SamePlan ==
  /\ \A w, r, data : PE!Dependents(w, r, data) = Dependents(w, r, data)
  /\ \A r : PE!Input(r) = Input(r)
  /\ \A w, input : PE!Answer(w, input) = Answer(w, input)
BY DEF PE!Dependents, Dependents, PE!RequestsFor, RequestsFor, PE!Input, Input, PE!IdOf, IdOf,
       PE!Answer, Answer, PE!Last, Last, PE!Range, Range

LEMMA InitRefines ==
  ASSUME Init
  PROVE  PE!Init
BY DEF Init, PE!Init

\* A merge is one of answers to requests whose objects are in the result.
LEMMA MergeRefines ==
  ASSUME IInv, MergeDepth
  PROVE  PE!MergeSome
<1>1. /\ stage = "fanout" /\ stage' = "loop"
      /\ result' = result \cup exResp.results /\ UNCHANGED world
  BY DEF MergeDepth
<1>2. exResp.results = Answered(Range(reqs))
  BY DepthIsAnswered
<1>3. ASSUME NEW piece \in result' \ result
      PROVE  PE!Merge(piece)
  <2>1. piece \in Answered(Range(reqs))
    BY <1>1, <1>2
  <2>2. PICK r \in Range(reqs) : piece = [req |-> r, data |-> Answer(world, Input(r))]
    BY <2>1 DEF Answered
  <2>3. piece.req = r /\ piece.data = Answer(world, Input(piece.req))
    BY <2>2
  <2>4. r \in Due
    BY DEF IInv, NoneForgotten
  <2>5. PE!Ready(piece.req)
    BY <2>3, <2>4, SamePlan DEF Due, PE!Ready
  <2> QED BY <2>3, <2>5, SamePlan DEF PE!Merge
<1> QED BY <1>1, <1>3 DEF PE!MergeSome

\* The result that is returned is whole.
LEMMA ReturnRefines ==
  ASSUME IInv, ReturnResult
  PROVE  PE!Succeed
<1>1. stage = "loop" /\ stage' = "done" /\ UNCHANGED <<world, result>>
  BY DEF ReturnResult
<1>2. IInv'
  BY ReturnIInv
<1>3. reqs' = <<>> /\ reqs' = reqs
  BY <1>1, <1>2 DEF IInv, ReturnResult
<1>4. Range(reqs) = {}
  <2>1. DOMAIN << >> = {}
    OBVIOUS
  <2>2. Range(<< >>) = {}
    BY <2>1, Zenon DEF Range
  <2> QED BY <1>3, <2>2
<1>5. \A r \in Due : \E p \in result : p.req = r
  BY <1>4 DEF IInv, NoneForgotten
<1> QED BY <1>1, <1>5, SamePlan DEF PE!Succeed, Due

LEMMA StepRefines ==
  ASSUME IInv, [Next]_vars
  PROVE  [PE!Next]_PE!vars
<1>1. CASE MergeDepth
  BY <1>1, MergeRefines DEF PE!Next
<1>2. CASE ReturnResult
  BY <1>2, ReturnRefines DEF PE!Next
<1>3. CASE ReturnErrors
  BY <1>3 DEF ReturnErrors, PE!Next, PE!Fail
<1>4. CASE StartDepth
  BY <1>4 DEF StartDepth, PE!vars
<1>5. ASSUME NEW u \in Url, Group(u) \/ FoldResponse(u) \/ FoldError(u)
      PROVE  UNCHANGED <<world, stage, result>>
  BY <1>5 DEF Group, GetVariablesFails, BuildBatch, QueryFails, QueryAnswers, ParseFails,
              ParseRespones, FailGroup, FoldResponse, FoldError
<1>6. CASE \E u \in Url : Group(u) \/ FoldResponse(u) \/ FoldError(u)
  BY <1>5, <1>6 DEF PE!vars
<1>7. CASE UNCHANGED vars
  BY <1>7 DEF vars, PE!vars
<1> QED BY <1>1, <1>2, <1>3, <1>4, <1>6, <1>7 DEF Next, Manager, Returned

\* Depth by depth, in batches and in parallel, the manager does what executing a
\* plan promises: answers are merged under objects that are there, each the answer
\* to its own request, and the result that is returned is whole.
THEOREM RefinesPlanExecution == Spec => ImplementsPlanExecution
<1>1. Init => PE!Init
  BY InitRefines
<1>2. IInv /\ [Next]_vars => [PE!Next]_PE!vars
  BY StepRefines
<1> QED BY <1>1, <1>2, Invariance, PTL DEF Spec, ImplementsPlanExecution, PE!Spec
=============================================================================
