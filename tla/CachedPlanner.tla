--------------------------- MODULE CachedPlanner ---------------------------
(***************************************************************************)
(* planner.CachedPlanner (planner/cached_planner.go) under the requests of *)
(* a gateway that share it: queries execute the plan they get              *)
(* (gateway.go), subscriptions take the steps below the root out of it     *)
(* (subscription_entry.go).                                                *)
(*                                                                         *)
(* A section under the RWMutex is one step: writers exclude everybody, and *)
(* readers change nothing.  Between two sections anything may happen.      *)
(***************************************************************************)
EXTENDS Naturals, FiniteSets

CONSTANTS
  Caller,           \* the requests
  Operation,        \* [Caller -> the operation it carries]
  HashOf,           \* [operation -> hashKey]: of its selection set only
  Subscription,     \* the callers that are subscriptions
  NoPlan,           \* nil
  TTL,              \* how long a plan is kept
  MaxTime           \* bound on the clock

ASSUME TimeAssumption == TTL \in Nat /\ MaxTime \in Nat
ASSUME NoPlanAssumption == NoPlan \notin Caller
ASSUME OperationAssumption == Subscription \subseteq Caller

HashKey == { HashOf[Operation[c]] : c \in Caller }

VARIABLES
  pc,               \* where each caller stands
  ttlnow,           \* clean's time, per caller
  toDelete,         \* clean's keys, per caller
  plan,             \* the plan Plan returned, per caller, named by the caller
                    \* it was made for
  cache,            \* [set of HashKey -> plan]
  cacheTimers,      \* [set of HashKey -> time]
  whole,            \* the callers whose plan still has its steps in Then
  seen,             \* the callers that saw those steps whenever they looked
  now               \* the clock

callerVars == <<pc, ttlnow, toDelete, plan>>
cacheVars == <<cache, cacheTimers>>
planVars == <<whole, seen>>
vars == <<callerVars, cacheVars, planVars, now>>

Init ==
  /\ pc = [c \in Caller |-> "idle"]
  /\ ttlnow = [c \in Caller |-> 0]
  /\ toDelete = [c \in Caller |-> {}]
  /\ plan = [c \in Caller |-> NoPlan]
  /\ cache = [k \in {} |-> NoPlan]
  /\ cacheTimers = [k \in {} |-> 0]
  /\ whole = {}
  /\ seen = Caller
  /\ now = 0

Goto(c, place) == pc' = [pc EXCEPT ![c] = place]
\* Mutant: whatever was planned first, one hash for all.
KeyBlind(c) == CHOOSE h \in HashKey : TRUE
Key(c) == HashOf[Operation[c]]
Without(f, S) == [k \in DOMAIN f \ S |-> f[k]]
With(f, k, v) == [x \in DOMAIN f \cup {k} |-> IF x = k THEN v ELSE f[x]]
-----------------------------------------------------------------------------
\* clean(), from Plan: ttlnow is taken before the lock.
StartPlan(c) ==
  /\ pc[c] = "idle"
  /\ ttlnow' = [ttlnow EXCEPT ![c] = now]
  /\ Goto(c, "collect")
  /\ UNCHANGED <<toDelete, plan, cacheVars, planVars, now>>

\* Mutant: the comparison the wrong way round.
CollectWrongWay(c) ==
  /\ pc[c] = "collect"
  /\ toDelete' = [toDelete EXCEPT ![c] = { k \in DOMAIN cacheTimers : ttlnow[c] < cacheTimers[k] }]
  /\ Goto(c, IF toDelete'[c] = {} THEN "lookup" ELSE "delete")
  /\ UNCHANGED <<ttlnow, plan, cacheVars, planVars, now>>

Collect(c) ==
  /\ pc[c] = "collect"
  /\ toDelete' = [toDelete EXCEPT ![c] = { k \in DOMAIN cacheTimers : cacheTimers[k] < ttlnow[c] }]
  /\ Goto(c, IF toDelete'[c] = {} THEN "lookup" ELSE "delete")
  /\ UNCHANGED <<ttlnow, plan, cacheVars, planVars, now>>

Delete(c) ==
  /\ pc[c] = "delete"
  /\ cache' = Without(cache, toDelete[c])
  /\ cacheTimers' = Without(cacheTimers, toDelete[c])
  /\ Goto(c, "lookup")
  /\ UNCHANGED <<ttlnow, toDelete, plan, planVars, now>>

\* Mutant: any plan will do.
LookupAny(c) ==
  /\ pc[c] = "lookup"
  /\ IF DOMAIN cache # {}
     THEN /\ \E k \in DOMAIN cache : plan' = [plan EXCEPT ![c] = cache[k]]
          /\ Goto(c, "use")
     ELSE /\ Goto(c, "plan")
          /\ UNCHANGED plan
  /\ UNCHANGED <<ttlnow, toDelete, cacheVars, planVars, now>>

Lookup(c) ==
  /\ pc[c] = "lookup"
  /\ IF Key(c) \in DOMAIN cache
     THEN /\ plan' = [plan EXCEPT ![c] = cache[Key(c)]]
          /\ Goto(c, "use")
     ELSE /\ Goto(c, "plan")
          /\ UNCHANGED plan
  /\ UNCHANGED <<ttlnow, toDelete, cacheVars, planVars, now>>

\* cp.executor.Plan(ctx), with no lock held: two callers may plan the same.
ExecutorPlan(c) ==
  /\ pc[c] = "plan"
  /\ plan' = [plan EXCEPT ![c] = c]
  /\ whole' = whole \cup {c}
  /\ Goto(c, "store")
  /\ UNCHANGED <<ttlnow, toDelete, cacheVars, seen, now>>

ExecutorFails(c) ==
  /\ pc[c] = "plan"
  /\ Goto(c, "failed")
  /\ UNCHANGED <<ttlnow, toDelete, plan, cacheVars, planVars, now>>

\* Mutant: the life of the plan already there is prolonged instead.
StoreProlongs(c) ==
  /\ pc[c] = "store"
  /\ cache' = With(cache, Key(c), plan[c])
  /\ cacheTimers' = With(cacheTimers, Key(c),
                         TTL + IF Key(c) \in DOMAIN cacheTimers THEN cacheTimers[Key(c)] ELSE now)
  /\ Goto(c, "use")
  /\ UNCHANGED <<ttlnow, toDelete, plan, planVars, now>>

Store(c) ==
  /\ pc[c] = "store"
  /\ cache' = With(cache, Key(c), plan[c])
  /\ cacheTimers' = With(cacheTimers, Key(c), now + TTL)
  /\ Goto(c, "use")
  /\ UNCHANGED <<ttlnow, toDelete, plan, planVars, now>>

Plan(c) ==
  \/ StartPlan(c) \/ Collect(c) \/ Delete(c) \/ Lookup(c)
  \/ ExecutorPlan(c) \/ ExecutorFails(c) \/ Store(c)
-----------------------------------------------------------------------------
IsWhole(c) == plan[c] \in whole
Look(c) == seen' = IF IsWhole(c) THEN seen ELSE seen \ {c}

\* A query: walkPlanStep goes through the plan for its depths ...
Walk(c) ==
  /\ pc[c] = "use"
  /\ c \notin Subscription
  /\ Look(c)
  /\ Goto(c, "execute")
  /\ UNCHANGED <<ttlnow, toDelete, plan, cacheVars, whole, now>>

\* ... and findNextExecutionRequests reads Then again, with the first answers.
Execute(c) ==
  /\ pc[c] = "execute"
  /\ Look(c)
  /\ Goto(c, "done")
  /\ UNCHANGED <<ttlnow, toDelete, plan, cacheVars, whole, now>>

\* A subscription: newSubscriptionEntry keeps rs.Then for itself ...
TakeThen(c) ==
  /\ pc[c] = "use"
  /\ c \in Subscription
  /\ Look(c)
  /\ Goto(c, "clear")
  /\ UNCHANGED <<ttlnow, toDelete, plan, cacheVars, whole, now>>

\* ... and sets rs.Then to nil, in the plan the cache holds.
ClearThen(c) ==
  /\ pc[c] = "clear"
  /\ whole' = whole \ {plan[c]}
  /\ Goto(c, "done")
  /\ UNCHANGED <<ttlnow, toDelete, plan, cacheVars, seen, now>>

Use(c) == Walk(c) \/ Execute(c) \/ TakeThen(c) \/ ClearThen(c)

Tick ==
  /\ now < MaxTime
  /\ now' = now + 1
  /\ UNCHANGED <<callerVars, cacheVars, planVars>>

Finished ==
  /\ \A c \in Caller : pc[c] \in {"done", "failed"}
  /\ UNCHANGED vars

Next == (\E c \in Caller : Plan(c) \/ Use(c)) \/ Tick \/ Finished

Spec == Init /\ [][Next]_vars
-----------------------------------------------------------------------------
\* The types of the variables; no timer is further ahead than one TTL
\* (Plan, clean).
TypeOK ==
  /\ pc \in [Caller -> {"idle", "collect", "delete", "lookup", "plan", "store", "use",
                        "execute", "clear", "done", "failed"}]
  /\ now \in 0 .. MaxTime
  /\ ttlnow \in [Caller -> 0 .. now]
  /\ toDelete \in [Caller -> SUBSET HashKey]
  /\ plan \in [Caller -> Caller \cup {NoPlan}]
  /\ DOMAIN cacheTimers \subseteq HashKey
  /\ cache \in [DOMAIN cache -> Caller]
  /\ cacheTimers \in [DOMAIN cacheTimers -> 0 .. now + TTL]
  /\ whole \subseteq Caller /\ seen \subseteq Caller

\* Cache and timers speak of the same plans (Plan and clean write both maps
\* under one lock): one without a timer would stay for ever, a timer without
\* one be deleted over and over.
EveryPlanHasATimer == DOMAIN cache = DOMAIN cacheTimers

\* No caller of Plan is given a plan that had expired before it asked,
\* although clean's two sections, the lookup and the other callers' stores
\* interleave.
NoStalePlan ==
  \A c \in Caller :
    pc[c] = "lookup" /\ Key(c) \in DOMAIN cache => cacheTimers[Key(c)] >= ttlnow[c]

\* A plan is cached under the hash it was made for, and whoever gets it from
\* Plan has the same hash.
CachedUnderItsHash ==
  /\ \A k \in DOMAIN cache : Key(cache[k]) = k
  /\ \A c \in Caller : plan[c] # NoPlan => Key(plan[c]) = Key(c)

\* "get the plan for specific query" (gateway.go:253, subscription_entry.go:39):
\* whoever uses a plan finds all its steps in it, unless a subscription with the
\* same selection set has been given the same plan, and takes its steps out.
WholePlan ==
  \A c \in Caller \ seen : \E s \in Subscription \ {c} :
    plan[s] = plan[c] /\ HashOf[Operation[s]] = HashOf[Operation[c]]
-----------------------------------------------------------------------------
\* Where each caller stands: one that is about to store holds its own plan,
\* one that has used its plan holds one still, only subscriptions take steps
\* out, and one that will look up after its deletion has its own expired hash on
\* its list.
Standing ==
  /\ \A c \in Caller : pc[c] = "store" => plan[c] = c
  /\ \A c \in Caller : pc[c] \in {"use", "execute", "clear", "done"} => plan[c] # NoPlan
  /\ \A c \in Caller : pc[c] \in {"idle", "collect", "delete", "lookup", "plan"} => plan[c] = NoPlan
  /\ \A c \in Caller : pc[c] = "clear" => c \in Subscription
  /\ \A c \in Caller :
       pc[c] = "delete" /\ Key(c) \in DOMAIN cacheTimers /\ Key(c) \notin toDelete[c] =>
         cacheTimers[Key(c)] >= ttlnow[c]

\* A plan in the cache or in a caller's hands has its steps, or a subscription
\* that holds the same plan has taken them out.
TakenOut(p) == \E s \in Subscription : pc[s] = "done" /\ plan[s] = p

PlanLife ==
  /\ \A k \in DOMAIN cache : cache[k] \in whole \/ TakenOut(cache[k])
  /\ \A c \in Caller : plan[c] # NoPlan => plan[c] \in whole \/ TakenOut(plan[c])

\* Who found a plan without its steps was using it, and it was another caller, a
\* subscription, that had taken them out.
Missed ==
  \A c \in Caller \ seen :
    /\ pc[c] \in {"execute", "clear", "done"}
    /\ \E s \in Subscription \ {c} : pc[s] = "done" /\ plan[s] = plan[c]

\* The inductive invariant: what the two maps and the sections of Plan keep, and
\* what becomes of a plan.
CacheInv ==
  /\ TypeOK
  /\ EveryPlanHasATimer
  /\ NoStalePlan
  /\ CachedUnderItsHash
  /\ Standing

IInv == CacheInv /\ PlanLife /\ Missed
=============================================================================
