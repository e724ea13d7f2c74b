----------------------------- MODULE Federation -----------------------------
(***************************************************************************)
(* One operation through the gateway (queryHandler): it is planned, the    *)
(* steps of the plan are asked of their services depth by depth, the       *)
(* answers of a depth are merged into the result in the order in which     *)
(* they happen to come, and what the planner added is taken out again.     *)
(*                                                                         *)
(* What a client may expect is that the services look like one: it gets    *)
(* what a single server with everybody's data would have answered.         *)
(* DepthExecutor has the concurrency inside a depth and the errors of the  *)
(* services; here the data is followed.                                    *)
(***************************************************************************)
EXTENDS SequentialPlanner, Stitching

CONSTANT Case       \* the operations, and the data they meet

\* A case c: the operation's kind (c.root), selection set (c.sel) and fragments
\* (c.definitions); the id a node field of it asks for (c.id); the type (c.type)
\* and the fields (c.fields) of every object; and the services that have lost an
\* object that others still refer to (c.lost, pairs of a service and an id).

VARIABLES
  case,             \* the operation and the data
  stage,            \* where queryHandler stands
  plan,             \* the QueryPlan
  asked,            \* the execution requests of this depth
  answers,          \* their answers, not merged yet
  result,           \* dem.result
  scrub             \* what of plan.ScrubFields is still to clean

vars == <<case, stage, plan, asked, answers, result, scrub>>
-----------------------------------------------------------------------------
\* The services: they execute a query as GraphQL says.

Applies(cond, type) == type \in ObjectTypesOf(cond)

RECURSIVE CollectFields(_, _)
CollectFields(sel, type) ==
  FlattenSeq(SeqMap(LAMBDA s : IF IsField(s) THEN <<s>>
                               ELSE IF Applies(s.on, type) THEN CollectFields(s.sel, type)
                               ELSE <<>>, sel))

Owner(type, field, at) ==
  IF type \in NodeType \cup RootObjectName /\ field # NodeFieldName /\ field # IDFieldName
     /\ ~IsBuiltinName(field)
  THEN Location(type, field) ELSE at

\* The object key as seen at a service: its own fields, and others' unless
\* these have lost the object.
RECURSIVE Eval(_, _, _, _, _)
Eval(c, at, key, sel, id) ==
  LET type == c.type[key]
      fields == CollectFields(sel, type)
      owner(f) == Owner(type, f.name, at)
      has(f) == owner(f) = at \/ <<owner(f), key>> \notin c.lost
      here == SelectSeq(fields, has)
      RECURSIVE complete(_, _, _)
      complete(v, sub, u) ==
        CASE "ref" \in DOMAIN v -> Eval(c, u, v.ref, sub, id)
          [] IsList(v) -> [list |-> SeqMap(LAMBDA x : complete(x, sub, u), v.list)]
          [] OTHER -> v
      node(sub) == IF <<at, id>> \in c.lost THEN Null ELSE Eval(c, at, id, sub, id)
      value(k) ==
        LET same == SelectSeq(here, LAMBDA f : DisplayName(f) = k)
            name == Head(same).name
            sub  == FlattenSeq(SeqMap(LAMBDA f : f.sel, same))
        IN CASE name = TypenameFieldName -> Leaf(type)
             [] name = IDFieldName       -> Leaf(key)
             [] name = NodeFieldName     -> node(sub)
             [] OTHER -> complete(c.fields[key][name], sub, owner(Head(same)))
  IN MapOf([k \in { DisplayName(f) : f \in ToSet(here) } |-> value(k)])

\* Does a query hold only fields that the service has?  Fields of an interface
\* must be fields of every type that implements it, a fragment must be on a
\* type that may be meant, and node is a field of Query.
RECURSIVE Valid(_, _, _)
Valid(url, type, sel) ==
  LET has(t, f) == \/ IsBuiltinName(f.name)
                   \/ f.name = NodeFieldName /\ t = "Query"
                   \/ f.name = IDFieldName /\ t \in NodeType
                   \/ t \in DOMAIN Declares[url] /\ f.name \in Declares[url][t]
      validField(f) == /\ \A t \in ObjectTypesOf(type) : has(t, f)
                       /\ f.sel # <<>> => Valid(url, TypeName(f), f.sel)
  IN \A s \in ToSet(sel) :
       IF IsField(s) THEN validField(s)
       ELSE ObjectTypesOf(s.on) \cap ObjectTypesOf(type) # {} /\ Valid(url, s.on, s.sel)

\* What a client may expect: the answer of all services as one.  As the
\* gateway does, an object of which nothing is left is left out.
RECURSIVE Pruned(_)
Pruned(v) ==
  LET empty(x) == \/ x = EmptyMap
                  \/ IsList(x) /\ x.list # <<>> /\ (\A e \in ToSet(x.list) : e = EmptyMap)
  IN CASE IsMap(v) -> LET p == [k \in DOMAIN v.map |-> Pruned(v.map[k])]
                      IN MapOf([k \in { x \in DOMAIN p : ~empty(p[x]) } |-> p[k]])
       [] IsList(v) -> [list |-> SeqMap(Pruned, v.list)]
       [] OTHER -> v

Expected(c) == Pruned(Eval(c, NoUrl, c.root, Resolve(c.sel, c.definitions), c.id))
-----------------------------------------------------------------------------
Request(step, point) == [step |-> step, point |-> point]

NoPlan == [refused |-> FALSE, steps |-> <<>>, scrub |-> {}]

Init ==
  /\ case \in Case
  /\ stage = "received"
  /\ plan = NoPlan
  /\ asked = {}
  /\ answers = {}
  /\ result = EmptyMap
  /\ scrub = {}

\* g.planner.Plan, and the requests for the root steps.
PlanOperation ==
  /\ stage = "received"
  /\ plan' = Plan(case.root, case.sel, case.definitions)
  /\ scrub' = plan'.scrub
  /\ asked' = { Request(st, <<>>) : st \in ToSet(plan'.steps) }
  /\ stage' = IF plan'.refused THEN "refused" ELSE "fetch"
  /\ UNCHANGED <<case, answers, result>>

\* Execute: a plan without steps has no first depth, and a nil is dereferenced.
ExecutePanics ==
  /\ stage = "fetch"
  /\ plan.steps = <<>>
  /\ stage' = "crashed"
  /\ UNCHANGED <<case, plan, asked, answers, result, scrub>>

\* The id of the object a request is about: the variable of a node query.
IdOf(req) == IF req.point = <<>> THEN case.id ELSE Last(req.point).id

\* Below the root, the object under node is the answer; none if it is null.
Answer(req) ==
  LET root == IF req.point = <<>> THEN case.root ELSE "Query"
      data == Eval(case, req.step.url, root, req.step.sel, IdOf(req))
  IN IF req.step.parent \in RootObjectName THEN data
     ELSE IF data.map[NodeFieldName] = Null THEN EmptyMap
     ELSE data.map[NodeFieldName]

\* Mutant: one search does for all dependents.
NextPointsOnce(req, data) ==
  { [step |-> st, found |-> FindInsertionPoints(Head(req.step.then).point, req.step.sel,
                                                data, req.point)] :
      st \in ToSet(req.step.then) }

\* findNextExecutionRequests: where the steps that depend on this one go on.
NextPoints(req, data) ==
  { [step |-> st, found |-> FindInsertionPoints(st.point, req.step.sel, data, req.point)] :
      st \in ToSet(req.step.then) }

NextRequests(req, data) ==
  UNION { { Request(n.step, p) : p \in ToSet(n.found.points) } : n \in NextPoints(req, data) }

CanParse(req) == \A n \in NextPoints(req, Answer(req)) : n.found.ok

FetchDepth ==
  /\ stage = "fetch"
  /\ asked # {}
  /\ \A req \in asked : CanParse(req)
  /\ answers' = { [req |-> req, data |-> Answer(req)] : req \in asked }
  /\ stage' = "merge"
  /\ UNCHANGED <<case, plan, asked, result, scrub>>

FetchFails ==
  /\ stage = "fetch"
  /\ \E req \in asked : ~CanParse(req)
  /\ stage' = "failed"
  /\ UNCHANGED <<case, plan, asked, answers, result, scrub>>

\* The answers of a depth are merged in the order in which they were folded.
Merge ==
  /\ stage = "merge"
  /\ \E a \in answers :
       /\ result' = MergeAt(result, a.req.point, a.data)
       /\ answers' = answers \ {a}
  /\ UNCHANGED <<case, stage, plan, asked, scrub>>

NextDepth ==
  /\ stage = "merge"
  /\ answers = {}
  /\ asked' = UNION { NextRequests(req, Answer(req)) : req \in asked }
  /\ stage' = "fetch"
  /\ UNCHANGED <<case, plan, answers, result, scrub>>

StartClean ==
  /\ stage = "fetch"
  /\ plan.steps # <<>>
  /\ asked = {}
  /\ stage' = "clean"
  /\ UNCHANGED <<case, plan, asked, answers, result, scrub>>

\* plan.ScrubFields.Clean goes over its paths in any order.
CleanPath ==
  /\ stage = "clean"
  /\ \E path \in { s.path : s \in scrub } :
       LET these == { s \in scrub : s.path = path }
       IN /\ \E cleaned \in Clean(result, path, these) : result' = cleaned.obj
          /\ scrub' = scrub \ these
  /\ UNCHANGED <<case, stage, plan, asked, answers>>

Respond ==
  /\ stage = "clean"
  /\ scrub = {}
  /\ stage' = "done"
  /\ UNCHANGED <<case, plan, asked, answers, result, scrub>>

Responded == stage \in {"done", "failed", "refused", "crashed"} /\ UNCHANGED vars

Next ==
  \/ PlanOperation \/ ExecutePanics \/ FetchDepth \/ FetchFails \/ Merge \/ NextDepth
  \/ StartClean \/ CleanPath \/ Respond \/ Responded

Spec == Init /\ [][Next]_vars
-----------------------------------------------------------------------------
\* Requests are of steps of the plan, and below the root they have the id of
\* the object they are about.
RECURSIVE StepsOf(_)
StepsOf(steps) == ToSet(steps) \cup UNION { StepsOf(st.then) : st \in ToSet(steps) }

TypeOK ==
  /\ case \in Case
  /\ stage \in {"received", "fetch", "merge", "clean", "done", "failed", "refused", "crashed"}
  /\ \A req \in asked :
       /\ req.step \in StepsOf(plan.steps)
       /\ req.point # <<>> => Last(req.point).id # NoId
  /\ \A a \in answers : a.req \in asked /\ IsMap(a.data)
  /\ IsMap(result)
  /\ scrub \subseteq plan.scrub

\* Every query the plan makes is one its service can answer: no field, at any
\* depth, of a type that the service does not have.
PlanFits ==
  \A st \in StepsOf(plan.steps) :
    Valid(st.url, IF st.parent \in RootObjectName THEN st.parent ELSE "Query", st.sel)

\* Where a point leads to in the result; Null if nowhere.
RECURSIVE Follow(_, _)
Follow(v, point) ==
  IF point = <<>> THEN v
  ELSE LET p == Head(point)
       IN IF ~HasKey(v, p.field) THEN Null
          ELSE IF p.index = NoIndex THEN Follow(v.map[p.field], Tail(point))
          ELSE LET l == v.map[p.field]
               IN IF IsList(l) /\ p.index < Len(l.list)
                  THEN Follow(l.list[p.index + 1], Tail(point)) ELSE Null

\* Every insertion point that was found in an answer leads, in the result as
\* merged so far, to the very object whose id is asked about: no answer is
\* stitched onto another object, and no object is made up for it.
PointsLeadBack ==
  stage = "fetch" => \A req \in asked : req.point # <<>> =>
    LET obj == Follow(result, req.point)
    IN HasKey(obj, IDFieldName) /\ ID(obj) = Last(req.point).id

\* Two values that can be merged without loss.
RECURSIVE Agree(_, _)
Agree(l, r) ==
  IF IsMap(l) /\ IsMap(r)
  THEN \A k \in DOMAIN l.map \cap DOMAIN r.map : Agree(l.map[k], r.map[k])
  ELSE ~IsMap(l) /\ ~IsMap(r) /\ l = r

\* What an answer says of an object never contradicts what is known of it
\* already: merging overwrites nothing, whatever the order.
AnswersAgree ==
  \A a \in answers : LET obj == Follow(result, a.req.point) IN IsMap(obj) => Agree(obj, a.data)

\* The objects with an id that a path leads to from v.
RECURSIVE ObjectsAt(_, _, _)
ObjectsAt(v, path, point) ==
  IF path = <<>> THEN {point}
  ELSE LET at(e, k) ==
             LET id == IF Len(path) = 1 THEN ID(e) ELSE NoId
             IN IF IsMap(e) /\ (Len(path) = 1 => HasKey(e, IDFieldName))
                THEN ObjectsAt(e, Tail(path), Append(point, Point(Head(path), k, id)))
                ELSE {}
           x == v.map[Head(path)]
       IN IF ~HasKey(v, Head(path)) THEN {}
          ELSE IF IsList(x) THEN UNION { at(x.list[k], k - 1) : k \in DOMAIN x.list }
          ELSE at(x, NoIndex)

\* No object is missed: every object in an answer that the path of a dependent
\* step leads to is an insertion point of it, once, and nothing else is.
PointsComplete ==
  \A a \in answers : \A n \in NextPoints(a.req, a.data) :
    LET path == SubSeq(n.step.point, Len(a.req.point) + 1, Len(n.step.point))
    IN /\ ToSet(n.found.points) = ObjectsAt(a.data, path, a.req.point)
       /\ IsInjective(n.found.points)

RootFields == ToSet(SelectionSetToFields(Resolve(case.sel, case.definitions)))

\* The client gets what one server with everybody's data would have answered:
\* every field it asked for, of the right object, and none that it did not
\* ask for, in whatever order answers were merged and paths cleaned.  An
\* operation fails only because of a null among the objects of a list.  It is
\* refused only because of a field of the root called id, or of a fragment of a
\* node field that is on an interface; and it ends the process only if it asks
\* for nothing but the ids of nodes.
AnswersOperation ==
  /\ stage = "done" => result = Expected(case)
  /\ stage = "failed" =>
       \E key \in DOMAIN case.fields : \E v \in Range(case.fields[key]) :
         IsList(v) /\ Null \in ToSet(v.list)
  /\ stage = "refused" =>
       \E f \in RootFields :
         \/ IsID(f)
         \/ IsNode(f) /\ \E frag \in ToSet(FragmentsOf(f)) : frag.on \in InterfaceType
  /\ stage = "crashed" =>
       \A f \in RootFields :
         IsNode(f) /\ \A g \in ToSet(SelectionSetToFields(f.sel)) : IsID(g)
=============================================================================
