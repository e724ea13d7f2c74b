------------------------------ MODULE PlanData ------------------------------
(***************************************************************************)
(* What the executor works on: the query plan, and what the services hold. *)
(*                                                                         *)
(* A plan is a tree of steps (planner.QueryPlanStep).  A request is a step *)
(* at an insertion point (executor.ExecutionRequest).  An insertion point  *)
(* such as ["users:0#x", "friends:2#y"] is the sequence of its elements    *)
(* that carry an id, each an index and an id.                              *)
(***************************************************************************)
EXTENDS Naturals, Sequences, FiniteSets, SequencesExt, Enumeration

CONSTANTS
  Step,             \* the steps of the plan
  Then,             \* [Step -> Seq(Step)]: the steps that depend on a step
  Url,              \* the services
  UrlOf,            \* [Step -> Url]
  Query,            \* [Step -> query]: QueryString, by its QueryStringHash
  RootParent,       \* the steps on Query, Mutation or Subscription
  ParentType,       \* [Step -> type] of the others
  WithVariables,    \* the steps that pass on variables of the user's request
  Id,               \* the ids that services give their objects
  NoId,             \* the empty id, and the id of a point without one
  TypeOf,           \* [id -> type], NoId if GetParentTypeFromIDFunc cannot tell
  World             \* what the services may hold and the start points there

\* A world w: the requests the execution starts with, one for each of
\* QueryPlan.RootSteps (w.start), the inputs a
\* service has an object for (w.knows), the list elements or objects that the
\* answer to a step's parent holds for it (w.slots), the answers that cannot be
\* parsed (w.broken) and the ids with a '#' in them (w.unreadable).

Slot == [at : Nat, id : Id]
Request == [step : Step, point : Seq(Slot)]

IdOf(req) == IF req.point = <<>> THEN NoId ELSE Last(req.point).id

\* requests.Request: the query and, for a node query, the id variable.
Input(req) == [query |-> Query[req.step], id |-> IdOf(req)]

\* A service answers with its object's fields, or with none (node: null).
Answer(w, input) == {input} \cap w.knows

\* A request for each insertion point FindInsertionPoints finds for step t in
\* the answer to req.
RequestsFor(w, req, t) ==
  LET slots == w.slots[t][IdOf(req)]
  IN [k \in DOMAIN slots |-> [step |-> t, point |-> Append(req.point, slots[k])]]

\* findNextExecutionRequests: the steps that depend on a root step are gone
\* through in the order of the plan, those below an object all at once.
DependentOrders(w, req, data) ==
  IF data = {} THEN { <<>> }
  ELSE LET then == Then[req.step]
           orders == IF req.point = <<>> THEN {then} ELSE SetToSeqs(Range(then))
       IN { FlattenSeq([k \in DOMAIN ts |-> RequestsFor(w, req, ts[k])]) : ts \in orders }

Dependents(w, req, data) ==
  IF data = {} THEN {}
  ELSE UNION { Range(RequestsFor(w, req, t)) : t \in Range(Then[req.step]) }

\* walkPlanStep: the steps of depth d, and the last depth that has any.
StepsAt(w) ==
  LET at[d \in 0 .. Cardinality(Step) + 1] ==
        IF d = 0 THEN { r.step : r \in w.start }
        ELSE UNION { Range(Then[s]) : s \in at[d - 1] }
  IN at

Deepest(w, d) == StepsAt(w)[d] # {} /\ StepsAt(w)[d + 1] = {}

MaxDepth(w) == CHOOSE d \in 0 .. Cardinality(Step) : Deepest(w, d)
-----------------------------------------------------------------------------
\* A plan is a finite tree with the steps on Query, Mutation or Subscription at
\* its root.  Equal queries use the same variables, as they declare them.
ASSUME PlanAssumption ==
  /\ IsFiniteSet(Step)
  /\ RootParent \subseteq Step
  /\ Then \in [Step -> Seq(Step \ RootParent)]
  /\ UrlOf \in [Step -> Url]
  /\ NoId \in Id
  /\ TypeOf[NoId] = NoId
  /\ \A s, t \in Step : Query[s] = Query[t] => (s \in WithVariables <=> t \in WithVariables)

\* Root steps start at no point, a subscription's further steps at points of its
\* payload.  If an id shows the type of its object, a service has no object of
\* another type under it.
ASSUME WorldAssumption ==
  \A w \in World :
    /\ w.start \subseteq Request /\ IsFiniteSet(w.start)
    /\ \A r \in w.start : r.step \in RootParent <=> r.point = <<>>
    /\ w.slots \in [Step -> [Id -> Seq(Slot)]]
    /\ \A s \in Step \ RootParent, id \in Id \ {NoId} :
         [query |-> Query[s], id |-> id] \in w.knows =>
           TypeOf[id] \in {NoId, ParentType[s]}
    /\ \E d \in 0 .. Cardinality(Step) : Deepest(w, d)
=============================================================================
