------------------------ MODULE CachedPlannerProofs -------------------------
(***************************************************************************)
(* Proofs about CachedPlanner for any number of callers, operations and    *)
(* hashes, any TTL and any clock: the sections of clean and Plan, however  *)
(* they interleave, keep the two maps in step, file every plan under its   *)
(* own hash and never hand out one that had expired when it was asked for; *)
(* and only a subscription with the same hash takes the steps out of a     *)
(* plan that somebody else is using.                                       *)
(***************************************************************************)
EXTENDS CachedPlanner, TLAPS

LEMMA KeyType == \A c \in Caller : Key(c) \in HashKey
  BY DEF Key, HashKey

LEMMA InitIInv == Init => IInv
<1> SUFFICES ASSUME Init PROVE IInv
  OBVIOUS
<1> USE TimeAssumption, NoPlanAssumption DEF Init
<1>1. TypeOK
  BY DEF TypeOK
<1>2. EveryPlanHasATimer
  BY DEF EveryPlanHasATimer
<1>3. NoStalePlan
  BY DEF NoStalePlan
<1>4. CachedUnderItsHash
  BY DEF CachedUnderItsHash
<1>5. Standing
  BY DEF Standing
<1>6. PlanLife /\ Missed
  BY DEF PlanLife, Missed
<1>7. QED
  BY <1>1, <1>2, <1>3, <1>4, <1>5, <1>6 DEF IInv, CacheInv

\* One section of Plan, of any caller.
LEMMA PlanCacheInv ==
  ASSUME CacheInv, NEW c \in Caller, Plan(c)
  PROVE  CacheInv'
<1> USE TimeAssumption, NoPlanAssumption, KeyType
<1>a. TypeOK /\ EveryPlanHasATimer /\ NoStalePlan /\ CachedUnderItsHash /\ Standing
  BY DEF CacheInv
<1>1. CASE StartPlan(c)
  <2> USE <1>1 DEF StartPlan, Goto, cacheVars, planVars
  <2>1. TypeOK'
    BY <1>a DEF TypeOK
  <2>2. EveryPlanHasATimer'
    BY <1>a DEF EveryPlanHasATimer
  <2>3. NoStalePlan'
    BY <1>a DEF TypeOK, NoStalePlan
  <2>4. CachedUnderItsHash'
    BY <1>a DEF CachedUnderItsHash
  <2>5. Standing'
    BY <1>a DEF TypeOK, Standing
  <2>6. QED
    BY <2>1, <2>2, <2>3, <2>4, <2>5 DEF CacheInv
<1>2. CASE Collect(c)
  <2> USE <1>2 DEF Collect, Goto, cacheVars, planVars
  <2>1. TypeOK'
    <3>1. { k \in DOMAIN cacheTimers : cacheTimers[k] < ttlnow[c] } \subseteq HashKey
      BY <1>a DEF TypeOK
    <3>2. QED
      BY <1>a, <3>1 DEF TypeOK
  <2>2. EveryPlanHasATimer'
    BY <1>a DEF EveryPlanHasATimer
  <2>3. \A d \in Caller : d # c => pc'[d] = pc[d] /\ toDelete'[d] = toDelete[d]
    BY <1>a DEF TypeOK
  <2>4. toDelete'[c] = { k \in DOMAIN cacheTimers : cacheTimers[k] < ttlnow[c] }
    BY <1>a DEF TypeOK
  <2>5. \A k \in DOMAIN cacheTimers : k \notin toDelete'[c] => cacheTimers[k] >= ttlnow[c]
    BY <1>a, <2>4 DEF TypeOK
  <2>6. pc'[c] = "lookup" => toDelete'[c] = {}
    BY <1>a DEF TypeOK
  <2>7. NoStalePlan'
    BY <1>a, <2>3, <2>5, <2>6 DEF NoStalePlan, EveryPlanHasATimer
  <2>8. CachedUnderItsHash'
    BY <1>a DEF CachedUnderItsHash
  <2>9. Standing'
    BY <1>a, <2>3, <2>5 DEF TypeOK, Standing
  <2>10. QED
    BY <2>1, <2>2, <2>7, <2>8, <2>9 DEF CacheInv
<1>3. CASE Delete(c)
  <2> USE <1>3 DEF Delete, Goto, planVars
  <2>1. /\ DOMAIN cache' = DOMAIN cache \ toDelete[c]
        /\ \A k \in DOMAIN cache' : cache'[k] = cache[k]
    BY DEF Without
  <2>2. /\ DOMAIN cacheTimers' = DOMAIN cacheTimers \ toDelete[c]
        /\ \A k \in DOMAIN cacheTimers' : cacheTimers'[k] = cacheTimers[k]
    BY DEF Without
  <2>3. TypeOK'
    BY <1>a DEF TypeOK, Without
  <2>4. EveryPlanHasATimer'
    BY <1>a, <2>1, <2>2 DEF EveryPlanHasATimer
  <2>5. NoStalePlan'
    BY <1>a, <2>1, <2>2 DEF TypeOK, NoStalePlan, EveryPlanHasATimer, Standing
  <2>6. CachedUnderItsHash'
    BY <1>a, <2>1 DEF CachedUnderItsHash
  <2>7. Standing'
    BY <1>a, <2>2 DEF TypeOK, Standing
  <2>8. QED
    BY <2>3, <2>4, <2>5, <2>6, <2>7 DEF CacheInv
<1>4. CASE Lookup(c)
  <2> USE <1>4 DEF Lookup, Goto, cacheVars, planVars
  <2>1. TypeOK'
    BY <1>a DEF TypeOK
  <2>2. EveryPlanHasATimer'
    BY <1>a DEF EveryPlanHasATimer
  <2>3. NoStalePlan'
    BY <1>a DEF TypeOK, NoStalePlan
  <2>4. CachedUnderItsHash'
    BY <1>a DEF TypeOK, CachedUnderItsHash
  <2>5. Standing'
    BY <1>a DEF TypeOK, Standing
  <2>6. QED
    BY <2>1, <2>2, <2>3, <2>4, <2>5 DEF CacheInv
<1>5. CASE ExecutorPlan(c)
  <2> USE <1>5 DEF ExecutorPlan, Goto, cacheVars
  <2>1. TypeOK'
    BY <1>a DEF TypeOK
  <2>2. EveryPlanHasATimer'
    BY <1>a DEF EveryPlanHasATimer
  <2>3. NoStalePlan'
    BY <1>a DEF TypeOK, NoStalePlan
  <2>4. CachedUnderItsHash'
    BY <1>a DEF TypeOK, CachedUnderItsHash
  <2>5. Standing'
    BY <1>a DEF TypeOK, Standing
  <2>6. QED
    BY <2>1, <2>2, <2>3, <2>4, <2>5 DEF CacheInv
<1>6. CASE ExecutorFails(c)
  <2> USE <1>6 DEF ExecutorFails, Goto, cacheVars, planVars
  <2>1. TypeOK'
    BY <1>a DEF TypeOK
  <2>2. EveryPlanHasATimer'
    BY <1>a DEF EveryPlanHasATimer
  <2>3. NoStalePlan'
    BY <1>a DEF TypeOK, NoStalePlan
  <2>4. CachedUnderItsHash'
    BY <1>a DEF CachedUnderItsHash
  <2>5. Standing'
    BY <1>a DEF TypeOK, Standing
  <2>6. QED
    BY <2>1, <2>2, <2>3, <2>4, <2>5 DEF CacheInv
<1>7. CASE Store(c)
  <2> USE <1>7 DEF Store, Goto, planVars
  <2>1. /\ DOMAIN cache' = DOMAIN cache \cup {Key(c)}
        /\ \A k \in DOMAIN cache' : cache'[k] = IF k = Key(c) THEN plan[c] ELSE cache[k]
    BY DEF With
  <2>2. /\ DOMAIN cacheTimers' = DOMAIN cacheTimers \cup {Key(c)}
        /\ \A k \in DOMAIN cacheTimers' :
             cacheTimers'[k] = IF k = Key(c) THEN now + TTL ELSE cacheTimers[k]
    BY DEF With
  <2>3. plan[c] = c
    BY <1>a DEF Standing
  <2>4. now + TTL \in 0 .. now + TTL /\ \A d \in Caller : now + TTL >= ttlnow[d]
    BY <1>a DEF TypeOK
  <2>5. TypeOK'
    BY <1>a, <2>3, <2>4 DEF TypeOK, With
  <2>6. EveryPlanHasATimer'
    BY <1>a, <2>1, <2>2 DEF EveryPlanHasATimer
  <2>7. NoStalePlan'
    <3>1. SUFFICES ASSUME NEW d \in Caller, pc'[d] = "lookup", Key(d) \in DOMAIN cacheTimers'
                   PROVE  cacheTimers'[Key(d)] >= ttlnow[d]
      BY <2>6 DEF NoStalePlan, EveryPlanHasATimer
    <3>2. pc[d] = "lookup"
      BY <1>a, <3>1 DEF TypeOK
    <3>3. CASE Key(d) = Key(c)
      BY <2>2, <2>4, <3>1, <3>3
    <3>4. CASE Key(d) # Key(c)
      BY <1>a, <2>2, <3>1, <3>2, <3>4 DEF NoStalePlan, EveryPlanHasATimer
    <3>5. QED
      BY <3>3, <3>4
  <2>8. CachedUnderItsHash'
    BY <1>a, <2>1, <2>3 DEF CachedUnderItsHash, Key
  <2>9. Standing'
    BY <1>a, <2>2, <2>3, <2>4 DEF TypeOK, Standing
  <2>10. QED
    BY <2>5, <2>6, <2>7, <2>8, <2>9 DEF CacheInv
<1>8. QED
  BY <1>1, <1>2, <1>3, <1>4, <1>5, <1>6, <1>7 DEF Plan

\* Whatever a caller does with its plan leaves the cache alone.
LEMMA UseCacheInv ==
  ASSUME CacheInv, NEW c \in Caller, Use(c)
  PROVE  CacheInv'
<1>a. TypeOK /\ EveryPlanHasATimer /\ NoStalePlan /\ CachedUnderItsHash /\ Standing
  BY DEF CacheInv
<1>1. UNCHANGED <<ttlnow, toDelete, plan, cache, cacheTimers, now>>
  BY DEF Use, Walk, Execute, TakeThen, ClearThen, cacheVars
<1>2. whole' \subseteq whole /\ seen' \subseteq seen
  BY DEF Use, Walk, Execute, TakeThen, ClearThen, Look
<1>3. \E place \in {"execute", "clear", "done"} :
        /\ pc' = [pc EXCEPT ![c] = place]
        /\ pc[c] \in {"use", "execute", "clear"}
        /\ place = "clear" => c \in Subscription
  BY DEF Use, Walk, Execute, TakeThen, ClearThen, Goto
<1>4. TypeOK'
  BY <1>a, <1>1, <1>2, <1>3 DEF TypeOK
<1>5. EveryPlanHasATimer' /\ CachedUnderItsHash'
  BY <1>a, <1>1 DEF EveryPlanHasATimer, CachedUnderItsHash
<1>6. NoStalePlan'
  BY <1>a, <1>1, <1>3 DEF TypeOK, NoStalePlan
<1>7. Standing'
  BY <1>a, <1>1, <1>3 DEF TypeOK, Standing
<1>8. QED
  BY <1>4, <1>5, <1>6, <1>7 DEF CacheInv

LEMMA TickCacheInv ==
  ASSUME CacheInv, Tick
  PROVE  CacheInv'
<1> USE TimeAssumption DEF Tick, callerVars, cacheVars, planVars
<1>a. TypeOK /\ EveryPlanHasATimer /\ NoStalePlan /\ CachedUnderItsHash /\ Standing
  BY DEF CacheInv
<1>1. TypeOK'
  <2>1. now \in Nat /\ now' \in 0 .. MaxTime /\ 0 .. now \subseteq 0 .. now'
        /\ 0 .. now + TTL \subseteq 0 .. now' + TTL
    BY <1>a DEF TypeOK
  <2>2. QED
    BY <1>a, <2>1 DEF TypeOK
<1>2. EveryPlanHasATimer' /\ NoStalePlan' /\ CachedUnderItsHash' /\ Standing'
  BY <1>a DEF EveryPlanHasATimer, NoStalePlan, CachedUnderItsHash, Standing
<1>3. QED
  BY <1>1, <1>2 DEF CacheInv

\* What becomes of a plan: a section of Plan passes plans on as they are, and
\* only planning makes a new one, which has its steps.
LEMMA PlanKeepsLife ==
  ASSUME IInv, NEW c \in Caller, Plan(c)
  PROVE  PlanLife' /\ Missed'
<1> USE NoPlanAssumption
<1>a. TypeOK /\ Standing /\ PlanLife /\ Missed
  BY DEF IInv, CacheInv
<1>1. /\ pc[c] \in {"idle", "collect", "delete", "lookup", "plan", "store"}
      /\ \A d \in Caller \ {c} : pc'[d] = pc[d] /\ plan'[d] = plan[d]
  BY <1>a DEF Plan, StartPlan, Collect, Delete, Lookup, ExecutorPlan, ExecutorFails, Store,
              Goto, TypeOK
<1>2. whole \subseteq whole' /\ seen' = seen
  BY DEF Plan, StartPlan, Collect, Delete, Lookup, ExecutorPlan, ExecutorFails, Store, planVars
<1>3. \A p : TakenOut(p) => TakenOut(p)'
  BY <1>1, OperationAssumption DEF TakenOut
<1>4. \A p : p \in whole \/ TakenOut(p) => p \in whole' \/ TakenOut(p)'
  BY <1>2, <1>3
<1>5. plan'[c] # NoPlan =>
        \/ plan'[c] \in whole'
        \/ plan'[c] = plan[c]
        \/ \E k \in DOMAIN cache : plan'[c] = cache[k]
  BY <1>a DEF Plan, StartPlan, Collect, Delete, Lookup, ExecutorPlan, ExecutorFails, Store, TypeOK
<1>6. \A k \in DOMAIN cache' :
        \/ k \in DOMAIN cache /\ cache'[k] = cache[k]
        \/ cache'[k] = plan[c] /\ plan[c] # NoPlan
  BY <1>a DEF Plan, StartPlan, Collect, Delete, Lookup, ExecutorPlan, ExecutorFails, Store,
              cacheVars, Without, With, Standing
<1>7. PlanLife'
  <2>1. \A k \in DOMAIN cache' : (cache[k] \in whole \/ TakenOut(cache[k]))'
    BY <1>a, <1>4, <1>6 DEF PlanLife
  <2>2. \A d \in Caller : plan'[d] # NoPlan => (plan[d] \in whole \/ TakenOut(plan[d]))'
    BY <1>a, <1>1, <1>4, <1>5 DEF PlanLife
  <2>3. QED
    BY <2>1, <2>2 DEF PlanLife, TakenOut
<1>8. Missed'
  BY <1>a, <1>1, <1>2, OperationAssumption DEF Missed
<1>9. QED
  BY <1>7, <1>8

\* A use of a plan looks at it, or takes the steps out of it: then it is a
\* subscription that did.
LEMMA UseKeepsLife ==
  ASSUME IInv, NEW c \in Caller, Use(c)
  PROVE  PlanLife' /\ Missed'
<1>a. TypeOK /\ Standing /\ PlanLife /\ Missed
  BY DEF IInv, CacheInv
<1>1. /\ UNCHANGED <<plan, cache>>
      /\ pc[c] \in {"use", "execute", "clear"}
      /\ pc'[c] \in {"execute", "clear", "done"}
      /\ \A d \in Caller \ {c} : pc'[d] = pc[d]
  BY <1>a DEF Use, Walk, Execute, TakeThen, ClearThen, Goto, cacheVars, TypeOK
<1>2. \A p : TakenOut(p) => TakenOut(p)'
  BY <1>1, OperationAssumption DEF TakenOut
<1>3. \A p \in whole \ whole' : TakenOut(p)'
  <2>1. SUFFICES ASSUME NEW p \in whole \ whole' PROVE TakenOut(p)'
    OBVIOUS
  <2>2. p = plan[c] /\ pc[c] = "clear" /\ pc'[c] = "done"
    BY <1>a, <2>1 DEF Use, Walk, Execute, TakeThen, ClearThen, Goto, TypeOK
  <2>3. QED
    BY <1>a, <1>1, <2>2 DEF Standing, TakenOut
<1>4. \A p : p \in whole \/ TakenOut(p) => p \in whole' \/ TakenOut(p)'
  BY <1>2, <1>3
<1>5. PlanLife'
  <2>1. \A k \in DOMAIN cache' : (cache[k] \in whole \/ TakenOut(cache[k]))'
    BY <1>a, <1>1, <1>4 DEF PlanLife
  <2>2. \A d \in Caller : plan'[d] # NoPlan => (plan[d] \in whole \/ TakenOut(plan[d]))'
    BY <1>a, <1>1, <1>4 DEF PlanLife
  <2>3. QED
    BY <2>1, <2>2 DEF PlanLife, TakenOut
<1>6. Missed'
  <2>1. SUFFICES ASSUME NEW d \in Caller \ seen'
                 PROVE  /\ pc'[d] \in {"execute", "clear", "done"}
                        /\ \E s \in Subscription \ {d} : pc'[s] = "done" /\ plan'[s] = plan'[d]
    BY DEF Missed
  <2>2. CASE d \notin seen
    BY <1>a, <1>1, <2>2, OperationAssumption DEF Missed
  <2>3. CASE d \in seen
    <3>1. d = c /\ plan[c] \notin whole
      BY <1>a, <2>1, <2>3 DEF Use, Walk, Execute, TakeThen, ClearThen, Look, IsWhole
    <3>2. PICK s \in Subscription : pc[s] = "done" /\ plan[s] = plan[c]
      BY <1>a, <1>1, <3>1 DEF Standing, PlanLife, TakenOut
    <3>3. QED
      BY <1>1, <3>1, <3>2, OperationAssumption
  <2>4. QED
    BY <2>2, <2>3
<1>7. QED
  BY <1>5, <1>6

LEMMA NextIInv == IInv /\ [Next]_vars => IInv'
<1> SUFFICES ASSUME IInv, [Next]_vars PROVE IInv'
  OBVIOUS
<1>1. CASE UNCHANGED vars
  BY <1>1 DEF vars, callerVars, cacheVars, planVars, IInv, CacheInv, TypeOK, EveryPlanHasATimer,
              NoStalePlan, CachedUnderItsHash, Standing, PlanLife, TakenOut, Missed
<1>2. CASE \E c \in Caller : Plan(c) \/ Use(c)
  BY <1>2, PlanCacheInv, UseCacheInv, PlanKeepsLife, UseKeepsLife DEF IInv
<1>3. CASE Tick
  <2>1. PlanLife' /\ Missed'
    BY <1>3 DEF IInv, Tick, callerVars, cacheVars, planVars, PlanLife, TakenOut, Missed
  <2>2. QED
    BY <1>3, <2>1, TickCacheInv DEF IInv
<1>4. QED
  BY <1>1, <1>2, <1>3 DEF Next, Finished
-----------------------------------------------------------------------------
\* Every behaviour of the callers keeps the inductive invariant.
THEOREM Invariance == Spec => []IInv
  BY InitIInv, NextIInv, PTL DEF Spec

\* clean and Plan keep the plans and their timers in step (cached_planner.go).
THEOREM TimersFollowPlans == Spec => []EveryPlanHasATimer
<1>1. IInv => EveryPlanHasATimer
  BY DEF IInv, CacheInv
<1>2. QED
  BY <1>1, Invariance, PTL

\* Plan never returns a cached plan that had expired when it was called.
THEOREM NeverStale == Spec => []NoStalePlan
<1>1. IInv => NoStalePlan
  BY DEF IInv, CacheInv
<1>2. QED
  BY <1>1, Invariance, PTL

\* Plan returns a plan made for an operation with the caller's hash.
THEOREM SameHash == Spec => []CachedUnderItsHash
<1>1. IInv => CachedUnderItsHash
  BY DEF IInv, CacheInv
<1>2. QED
  BY <1>1, Invariance, PTL

\* Whoever finds the steps of a plan missing shares it with a subscription of the
\* same hash, which took them out (subscription_entry.go); the executors find all
\* the steps otherwise.
THEOREM TakenOutBySubscription == Spec => []WholePlan
<1>1. IInv => WholePlan
  <2>1. SUFFICES ASSUME IInv, NEW c \in Caller \ seen
                 PROVE  \E s \in Subscription \ {c} :
                          plan[s] = plan[c] /\ HashOf[Operation[s]] = HashOf[Operation[c]]
    BY DEF WholePlan
  <2>2. PICK s \in Subscription \ {c} : plan[s] = plan[c]
    BY <2>1 DEF IInv, Missed
  <2>3. plan[c] # NoPlan
    BY <2>1 DEF IInv, CacheInv, Standing, Missed
  <2>4. Key(plan[c]) = Key(c) /\ Key(plan[s]) = Key(s)
    BY <2>1, <2>2, <2>3, OperationAssumption DEF IInv, CacheInv, CachedUnderItsHash
  <2>5. QED
    BY <2>2, <2>4 DEF Key
<1>2. QED
  BY <1>1, Invariance, PTL
=============================================================================
