------------------------ MODULE AsyncMapReduceProofs ------------------------
(***************************************************************************)
(* Proofs about AsyncMapReduce for a payload of any length N: IInv is      *)
(* inductive, the safety properties follow from it, and every step of the  *)
(* goroutines is a step of the abstract MapReduce or leaves it unchanged.  *)
(***************************************************************************)
EXTENDS AsyncMapReduce, FiniteSetTheorems, TLAPS

\* append(acc, x) holds what acc held and x.
LEMMA RangeOfAppend ==
  ASSUME NEW S, NEW s \in Seq(S), NEW e \in S
  PROVE  Range(Append(s, e)) = Range(s) \cup {e}
<1>1. DOMAIN Append(s, e) = 1 .. Len(s) + 1
  OBVIOUS
<1>2. \A k \in 1 .. Len(s) : Append(s, e)[k] = s[k]
  OBVIOUS
<1>3. Append(s, e)[Len(s) + 1] = e
  OBVIOUS
<1>4. DOMAIN s = 1 .. Len(s) /\ Len(s) \in Nat
  OBVIOUS
<1>5. Range(Append(s, e)) \subseteq Range(s) \cup {e}
  BY <1>1, <1>2, <1>3, <1>4 DEF Range
<1>6. ASSUME NEW x \in Range(s)
      PROVE  x \in Range(Append(s, e))
  <2>1. PICK k \in 1 .. Len(s) : x = s[k]
    BY <1>4 DEF Range
  <2>2. k \in 1 .. Len(s) + 1 /\ x = Append(s, e)[k]
    BY <1>2, <1>4, <2>1
  <2>3. QED
    BY <1>1, <2>2 DEF Range
<1>7. e \in Range(Append(s, e))
  <2>1. Len(s) + 1 \in 1 .. Len(s) + 1
    BY <1>4
  <2>2. QED
    BY <1>1, <1>3, <2>1 DEF Range
<1>8. QED
  BY <1>5, <1>6, <1>7

\* Appending an element acc does not hold keeps the elements of acc distinct.
LEMMA InjectiveAppend ==
  ASSUME NEW S, NEW s \in Seq(S), NEW e \in S,
         IsInjective(s), e \notin Range(s)
  PROVE  IsInjective(Append(s, e))
<1> SUFFICES ASSUME NEW a \in 1 .. Len(s) + 1, NEW b \in 1 .. Len(s) + 1,
                    Append(s, e)[a] = Append(s, e)[b]
             PROVE  a = b
  BY DEF IsInjective
<1>1. DOMAIN s = 1 .. Len(s) /\ Len(s) \in Nat
  OBVIOUS
<1>2. \A k \in 1 .. Len(s) : Append(s, e)[k] = s[k] /\ s[k] # e
  BY <1>1 DEF Range
<1>3. Append(s, e)[Len(s) + 1] = e
  OBVIOUS
<1>4. CASE a \in 1 .. Len(s) /\ b \in 1 .. Len(s)
  BY <1>1, <1>2, <1>4 DEF IsInjective
<1>5. CASE a = Len(s) + 1 \/ b = Len(s) + 1
  <2>1. \A k \in 1 .. Len(s) + 1 : k # Len(s) + 1 => k \in 1 .. Len(s)
    BY <1>1
  <2>2. QED
    BY <1>2, <1>3, <1>5, <2>1
<1>6. QED
  BY <1>1, <1>4, <1>5

LEMMA ItemsFinite ==
  ASSUME NEW T \in SUBSET Item
  PROVE  IsFiniteSet(T) /\ Cardinality(T) \in Nat /\ Cardinality(T) <= N
<1>1. IsFiniteSet(Item) /\ Cardinality(Item) = N
  BY NAssumption, FS_Interval DEF Item
<1>2. IsFiniteSet(T) /\ Cardinality(T) <= Cardinality(Item)
  BY <1>1, FS_Subset
<1>3. QED
  BY <1>1, <1>2, FS_CardinalityType
-----------------------------------------------------------------------------
LEMMA InitIInv == Init => IInv
<1> SUFFICES ASSUME Init PROVE IInv
  OBVIOUS
<1> USE NAssumption DEF Init
<1>1. TypeOK
  BY DEF TypeOK, Item
<1>2. Stages
  BY DEF Stages, Item
<1>3. FoldsSoFar
  BY DEF FoldsSoFar, Folded, Range, IsInjective
<1>4. wg = Cardinality(Pending)
  <2>1. Pending = Item
    BY DEF Pending, Held
  <2>2. QED
    BY <2>1, FS_Interval DEF Item
<1>5. QED
  BY <1>1, <1>2, <1>3, <1>4 DEF IInv

LEMMA NextIInv == IInv /\ [Next]_vars => IInv'
<1> SUFFICES ASSUME IInv, [Next]_vars PROVE IInv'
  OBVIOUS
<1> USE NAssumption DEF Item
<1>a. TypeOK /\ Stages /\ FoldsSoFar /\ wg = Cardinality(Pending)
  BY DEF IInv
<1>b. Pending \in SUBSET Item
  BY DEF Pending
<1>c. cur \notin Item => cur = 0
  BY <1>a DEF TypeOK
<1>1. CASE SpawnWorker
  <2> USE <1>1 DEF SpawnWorker
  <2>1. TypeOK'
    BY <1>a DEF TypeOK
  <2>2. Stages'
    BY <1>a DEF TypeOK, Stages
  <2>3. FoldsSoFar'
    BY <1>a DEF TypeOK, Stages, FoldsSoFar, Folded
  <2>4. (wg = Cardinality(Pending))'
    <3>1. worker[spawned + 1] = "unborn"
      BY <1>a DEF TypeOK, Stages
    <3>2. Pending' = Pending
      BY <1>a, <3>1 DEF TypeOK, Pending, Held
    <3>3. QED
      BY <1>a, <3>2
  <2>5. QED
    BY <2>1, <2>2, <2>3, <2>4 DEF IInv
<1>2. CASE StartReducer
  <2> USE <1>2 DEF StartReducer
  <2>1. TypeOK'
    BY <1>a DEF TypeOK
  <2>2. Stages'
    BY <1>a DEF TypeOK, Stages
  <2>3. FoldsSoFar'
    BY <1>a DEF Stages, FoldsSoFar, Folded
  <2>4. Pending' = Pending
    BY <1>a DEF Stages, Pending, Held
  <2>5. QED
    BY <1>a, <2>1, <2>2, <2>3, <2>4 DEF IInv
<1>3. CASE WaitReturns
  <2> USE <1>3 DEF WaitReturns
  <2>1. TypeOK' /\ Stages'
    BY <1>a DEF TypeOK, Stages
  <2>2. FoldsSoFar' /\ Pending' = Pending
    BY <1>a DEF FoldsSoFar, Folded, Pending, Held
  <2>3. QED
    BY <1>a, <2>1, <2>2 DEF IInv
<1>4. CASE StopReducer
  <2> USE <1>4 DEF StopReducer
  <2>1. TypeOK' /\ Stages'
    BY <1>a DEF TypeOK, Stages
  <2>2. FoldsSoFar' /\ Pending' = Pending
    BY <1>a DEF FoldsSoFar, Folded, Pending, Held
  <2>3. QED
    BY <1>a, <2>1, <2>2 DEF IInv
<1>5. CASE Return
  <2> USE <1>5 DEF Return
  <2>1. TypeOK' /\ Stages'
    BY <1>a DEF TypeOK, Stages
  <2>2. FoldsSoFar' /\ Pending' = Pending
    BY <1>a DEF FoldsSoFar, Folded, Pending, Held
  <2>3. QED
    BY <1>a, <2>1, <2>2 DEF IInv
<1>6. ASSUME NEW i \in Item, MapFunc(i)
      PROVE  IInv'
  <2> USE <1>6 DEF MapFunc
  <2>1. TypeOK'
    BY <1>a DEF TypeOK
  <2>2. Stages'
    BY <1>a DEF TypeOK, Stages
  <2>3. FoldsSoFar'
    BY <1>a DEF TypeOK, Stages, FoldsSoFar, Folded
  <2>4. Pending' = Pending
    BY <1>a DEF TypeOK, Pending, Held
  <2>5. QED
    BY <1>a, <2>1, <2>2, <2>3, <2>4 DEF IInv
<1>7. ASSUME NEW i \in Item, Receive(i)
      PROVE  IInv'
  <2> USE <1>7 DEF Receive
  <2>1. TypeOK'
    BY <1>a DEF TypeOK
  <2>2. Stages'
    BY <1>a DEF TypeOK, Stages
  <2>3. FoldsSoFar'
    BY <1>a DEF TypeOK, FoldsSoFar, Folded
  <2>4. Pending' = Pending
    BY <1>a DEF TypeOK, Pending, Held
  <2>5. QED
    BY <1>a, <2>1, <2>2, <2>3, <2>4 DEF IInv
<1>8. CASE FoldResult
  <2> USE <1>8 DEF FoldResult
  <2>1. cur \in Item /\ worker[cur] = "exited"
    BY <1>a DEF Stages
  <2>2. Range(acc') = Range(acc) \cup {cur}
    <3>1. acc \in Seq(Item) /\ acc' = Append(acc, cur)
      BY <1>a DEF TypeOK
    <3>2. Range(Append(acc, cur)) = Range(acc) \cup {cur}
      BY <2>1, <3>1, RangeOfAppend
    <3>3. QED
      BY <3>1, <3>2, Zenon
  <2>3. cur \notin Range(acc)
    BY <1>a, <2>1 DEF FoldsSoFar, Folded
  <2>4. IsInjective(acc')
    <3>1. acc \in Seq(Item) /\ acc' = Append(acc, cur) /\ IsInjective(acc)
      BY <1>a DEF TypeOK, FoldsSoFar
    <3>2. QED
      BY <2>1, <2>3, <3>1, InjectiveAppend, Zenon
  <2>5. TypeOK'
    BY <1>a, <2>1 DEF TypeOK
  <2>6. Stages'
    BY <1>a DEF Stages
  <2>7. FoldsSoFar'
    BY <1>a, <2>1, <2>2, <2>4 DEF FoldsSoFar, Folded
  <2>8. Pending' = Pending
    BY DEF Pending, Held
  <2>9. QED
    BY <1>a, <2>5, <2>6, <2>7, <2>8 DEF IInv
<1>9. CASE FoldError
  <2> USE <1>9 DEF FoldError
  <2>1. cur \in Item /\ worker[cur] = "exited"
    BY <1>a DEF Stages
  <2>2. Range(errs') = Range(errs) \cup {cur}
    <3>1. errs \in Seq(Item) /\ errs' = Append(errs, cur)
      BY <1>a DEF TypeOK
    <3>2. Range(Append(errs, cur)) = Range(errs) \cup {cur}
      BY <2>1, <3>1, RangeOfAppend
    <3>3. QED
      BY <3>1, <3>2, Zenon
  <2>3. cur \notin Range(errs)
    BY <1>a, <2>1 DEF FoldsSoFar, Folded
  <2>4. IsInjective(errs')
    <3>1. errs \in Seq(Item) /\ errs' = Append(errs, cur) /\ IsInjective(errs)
      BY <1>a DEF TypeOK, FoldsSoFar
    <3>2. QED
      BY <2>1, <2>3, <3>1, InjectiveAppend, Zenon
  <2>5. TypeOK'
    BY <1>a, <2>1 DEF TypeOK
  <2>6. Stages'
    BY <1>a DEF Stages
  <2>7. FoldsSoFar'
    BY <1>a, <2>1, <2>2, <2>4 DEF FoldsSoFar, Folded
  <2>8. Pending' = Pending
    BY DEF Pending, Held
  <2>9. QED
    BY <1>a, <2>5, <2>6, <2>7, <2>8 DEF IInv
<1>10. CASE WgDone
  <2> USE <1>10 DEF WgDone
  <2>1. cur \in Item /\ worker[cur] = "exited"
    BY <1>a DEF Stages
  <2>2. Pending' = Pending \ {cur} /\ cur \in Pending
    BY <1>a, <2>1 DEF Pending, Held
  <2>3. Cardinality(Pending') = Cardinality(Pending) - 1
    BY <1>b, <2>2, ItemsFinite, FS_RemoveElement
  <2>4. wg - 1 \in 0 .. N
    <3>1. Cardinality(Pending') \in Nat
      BY <1>b, <2>2, ItemsFinite
    <3>2. QED
      BY <1>a, <2>3, <3>1 DEF TypeOK
  <2>5. TypeOK'
    BY <1>a, <2>4 DEF TypeOK
  <2>6. Stages'
    <3>1. main \notin {"signal", "return", "returned"}
      BY <1>a, <2>4 DEF Stages, TypeOK
    <3>2. QED
      BY <1>a, <3>1 DEF Stages
  <2>7. FoldsSoFar'
    BY <1>a DEF FoldsSoFar, Folded
  <2>8. QED
    BY <1>a, <2>3, <2>5, <2>6, <2>7 DEF IInv
<1>11. CASE UNCHANGED vars
  BY <1>a, <1>11 DEF IInv, TypeOK, Stages, FoldsSoFar, Folded, Pending, Held, vars
<1>12. QED
  BY <1>1, <1>2, <1>3, <1>4, <1>5, <1>6, <1>7, <1>8, <1>9, <1>10, <1>11
     DEF Next, Caller, Reducer, Returned
-----------------------------------------------------------------------------
LEMMA NothingPendingAtTheEnd ==
  ASSUME IInv, main \in {"return", "returned"}
  PROVE  \A i \in Item : Folded(i)
<1>1. Cardinality(Pending) = 0
  BY DEF IInv, Stages
<1>2. Pending \in SUBSET Item
  BY DEF Pending
<1>3. Pending = {}
  BY <1>1, <1>2, ItemsFinite, FS_EmptySet
<1>4. QED
  BY <1>3 DEF Pending, Folded, Held

\* The inductive invariant holds in every state of every execution.
THEOREM Invariance == Spec => []IInv
<1>1. Init /\ [][Next]_vars => []IInv
  BY InitIInv, NextIInv, PTL
<1>2. QED
  BY <1>1, PTL DEF Spec, Safe

\* Type correctness: above all, wg never goes below 0 (Go panics there) and
\* never counts more than the payload.
THEOREM TypeCorrect == Spec => []TypeOK
<1>1. IInv => TypeOK
  BY DEF IInv
<1>2. QED
  BY <1>1, Invariance, PTL

\* A call of AsyncMapReduce returns every result and every error exactly once.
THEOREM FoldsEverythingOnce == Spec => []EverythingFoldedOnce
<1>1. IInv => EverythingFoldedOnce
  <2> SUFFICES ASSUME IInv, main \in {"return", "returned"}
               PROVE  /\ Range(acc) = {i \in Item : outcome[i] = "ok"}
                      /\ Range(errs) = {i \in Item : outcome[i] = "err"}
                      /\ Range(acc) \cup Range(errs) = Item
                      /\ IsInjective(acc) /\ IsInjective(errs)
    BY DEF EverythingFoldedOnce
  <2>1. \A i \in Item : Folded(i) /\ outcome[i] \in {"ok", "err"}
    <3>1. \A i \in Item : Folded(i)
      BY NothingPendingAtTheEnd
    <3>2. QED
      BY <3>1 DEF Folded, IInv, Stages, TypeOK
  <2>2. Range(acc) \subseteq Item /\ Range(errs) \subseteq Item
    <3>1. acc \in Seq(Item) /\ errs \in Seq(Item)
      BY DEF IInv, TypeOK
    <3>2. QED
      BY <3>1 DEF Range
  <2>3. QED
    BY <2>1, <2>2 DEF IInv, FoldsSoFar
<1>2. QED
  BY <1>1, Invariance, PTL

\* No goroutine of the call can still touch a channel when the deferred closes
\* run.
THEOREM ClosesSafely == Spec => []NoGoroutineOutlivesCall
<1>1. IInv => NoGoroutineOutlivesCall
  <2> SUFFICES ASSUME IInv, ~open
               PROVE  /\ reducer = "exited"
                      /\ \A i \in Item : worker[i] = "exited"
    BY DEF NoGoroutineOutlivesCall
  <2>1. main = "returned" /\ reducer = "exited"
    BY DEF IInv, Stages
  <2>2. QED
    BY <2>1, NothingPendingAtTheEnd DEF Folded
<1>2. QED
  BY <1>1, Invariance, PTL
-----------------------------------------------------------------------------
LEMMA StepRefines ==
  ASSUME IInv, [Next]_vars
  PROVE  [MR!Next]_(MR!vars)
<1> USE DEF MR!vars
<1>a. \A i \in Item : MR!Folded(i) <=> Folded(i)
  <2>1. \A i \in Item : Folded(i) => outcome[i] \in {"ok", "err"}
    BY DEF IInv, TypeOK, Stages, Folded
  <2>2. \A i \in Item : MR!Folded(i) <=> i \in Range(acc) \/ i \in Range(errs)
    BY DEF MR!Folded, MR!Range, Range
  <2>3. QED
    BY <2>1, <2>2 DEF IInv, FoldsSoFar
<1>1. CASE \/ SpawnWorker \/ StartReducer \/ WaitReturns \/ StopReducer
           \/ WgDone \/ UNCHANGED vars
  BY <1>1 DEF SpawnWorker, StartReducer, WaitReturns, StopReducer, WgDone, vars
<1>2. CASE Return
  <2>1. \A i \in Item : MR!Folded(i)
    BY <1>2, <1>a, NothingPendingAtTheEnd DEF Return
  <2>2. MR!Return
    BY <1>2, <2>1 DEF Return, MR!Return
  <2>3. QED
    BY <2>2 DEF MR!Next
<1>3. ASSUME NEW i \in Item, MapFunc(i)
      PROVE  [MR!Next]_(MR!vars)
  <2>1. outcome[i] = "none"
    BY <1>3 DEF MapFunc, IInv, Stages
  <2>2. MR!Map(i)
    BY <1>3, <2>1 DEF MapFunc, MR!Map
  <2>3. QED
    BY <2>2 DEF MR!Next
<1>4. ASSUME NEW i \in Item, Receive(i)
      PROVE  [MR!Next]_(MR!vars)
  BY <1>4 DEF Receive
<1>5. CASE FoldResult \/ FoldError
  <2>1. cur \in Item /\ worker[cur] = "exited"
    BY <1>5 DEF FoldResult, FoldError, IInv, Stages
  <2>2. ~Folded(cur) /\ reducer = "fold"
    BY <1>5 DEF FoldResult, FoldError, Folded
  <2>3. main \notin {"returned"} /\ main' = main
    BY <1>5 DEF FoldResult, FoldError, IInv, Stages
  <2>4. MR!Fold(cur)
    BY <1>5, <1>a, <2>1, <2>2, <2>3 DEF FoldResult, FoldError, MR!Fold
  <2>5. QED
    BY <2>1, <2>4 DEF MR!Next
<1>6. QED
  BY <1>1, <1>2, <1>3, <1>4, <1>5 DEF Next, Caller, Reducer, Returned

\* Goroutines, channels and WaitGroup implement the abstract map-reduce: what
\* callers see is each element mapped once and folded once, then the return.
\* (That the call does return needs fairness: TLC checks ImplementsMapReduce.)
THEOREM RefinesMapReduce == Spec => MR!Safe
<1>1. Init => MR!Init
  BY DEF Init, MR!Init
<1>2. IInv /\ [Next]_vars => [MR!Next]_(MR!vars)
  BY StepRefines
<1>3. QED
  BY <1>1, <1>2, Invariance, PTL DEF Spec, Safe, MR!Safe
=============================================================================
