--------------------------- MODULE DepthExecutor ---------------------------
(***************************************************************************)
(* executor.DepthExecutorManager.Execute: the requests of one depth are    *)
(* grouped by service, one goroutine per group (common.AsyncMapReduce)     *)
(* sends its batch and parses the answers, one reducer folds the groups,   *)
(* and only when all are in does the manager merge them into the result    *)
(* and go on with the requests found for the next depth.                   *)
(*                                                                         *)
(* Within a group, requests for the same object and the same query are     *)
(* sent once and the answer is copied to each of them.                     *)
(***************************************************************************)
EXTENDS PlanData

VARIABLES
  world,            \* what the services hold during this execution
  stage,            \* where Execute stands
  depth,            \* its loop variable
  reqs,             \* executionRequests, the requests of this depth
  group,            \* where the goroutine of each service stands
  work,             \* what that goroutine holds
  exResp,           \* the DepthExecutorResponse the reducer folds
  errs,             \* the groups whose error was collected
  result            \* dem.result: the pieces merged into it

vars == <<world, stage, depth, reqs, group, work, exResp, errs, result>>

NoResp == [results |-> {}, next |-> <<>>]

\* A group's requests in the order they came, the batch made of them, its
\* indexMap (batch index -> the indexes in ers it answers), nillResps (indexes
\* in ers not worth a query), and what parseRespones makes of the answers.
NoWork == [ers |-> <<>>, batch |-> <<>>, rows |-> <<>>, skipped |-> {}, resp |-> NoResp]

Init ==
  /\ world \in World
  /\ stage = "loop"
  /\ depth = 0
  /\ reqs \in SetToSeqs(world.start)
  /\ group = [u \in Url |-> "none"]
  /\ work = [u \in Url |-> NoWork]
  /\ exResp = NoResp
  /\ errs = {}
  /\ result = {}
-----------------------------------------------------------------------------
\* DepthExecutorManager.Execute, its loop.

\* lo.PartitionBy URL, then AsyncMapReduce starts a goroutine per group.
StartDepth ==
  LET of(u) == Only(reqs, { i \in DOMAIN reqs : UrlOf[reqs[i].step] = u })
  IN
  /\ stage = "loop"
  /\ depth <= MaxDepth(world)
  /\ reqs # <<>>
  /\ work' = [u \in Url |-> [NoWork EXCEPT !.ers = of(u)]]
  /\ group' = [u \in Url |-> IF of(u) = <<>> THEN "none" ELSE "build"]
  /\ stage' = "fanout"
  /\ UNCHANGED <<world, depth, reqs, exResp, errs, result>>

\* Mutant: merge as soon as one group is in; the others are left running.
MergeDepthEarly ==
  /\ stage = "fanout"
  /\ \E u \in Url : group[u] = "folded"
  /\ errs = {}
  /\ result' = result \cup exResp.results
  /\ reqs' = exResp.next
  /\ depth' = depth + 1
  /\ stage' = "loop"
  /\ UNCHANGED <<world, group, work, exResp, errs>>

\* AsyncMapReduce has returned without errors: merge, then next depth.
MergeDepth ==
  /\ stage = "fanout"
  /\ \A u \in Url : group[u] \in {"none", "folded"}
  /\ errs = {}
  /\ result' = result \cup exResp.results
  /\ reqs' = exResp.next
  /\ depth' = depth + 1
  /\ stage' = "loop"
  /\ group' = [u \in Url |-> "none"]
  /\ work' = [u \in Url |-> NoWork]
  /\ exResp' = NoResp
  /\ UNCHANGED <<world, errs>>

\* Mutant: give up as soon as the first group has failed.
ReturnErrorsEarly ==
  /\ stage = "fanout"
  /\ errs # {}
  /\ stage' = "failed"
  /\ UNCHANGED <<world, depth, reqs, group, work, exResp, errs, result>>

ReturnErrors ==
  /\ stage = "fanout"
  /\ \A u \in Url : group[u] \in {"none", "folded"}
  /\ errs # {}
  /\ stage' = "failed"
  /\ UNCHANGED <<world, depth, reqs, group, work, exResp, errs, result>>

ReturnResult ==
  /\ stage = "loop"
  /\ depth > MaxDepth(world) \/ reqs = <<>>
  /\ stage' = "done"
  /\ UNCHANGED <<world, depth, reqs, group, work, exResp, errs, result>>
-----------------------------------------------------------------------------
\* The goroutine of service u.

\* Mutant: the id's type is not looked at.
NeedsQueryAlways(req) == TRUE

\* isNeedToQuery: no query for an id known to be of another type.
NeedsQuery(req) ==
  \/ req.step \in RootParent
  \/ IdOf(req) = NoId
  \/ TypeOf[IdOf(req)] \in {NoId, ParentType[req.step]}

\* Mutant: the key leaves out the query.
KeyWithoutQuery(i, req) ==
  IF req.step \in RootParent \/ req.step \in WithVariables \/ IdOf(req) = NoId
  THEN [index |-> i, input |-> [query |-> NoId, id |-> NoId]]
  ELSE [index |-> 0, input |-> [query |-> NoId, id |-> IdOf(req)]]

\* setIMap: a node query whose only variable is the id is the same for every
\* request of that object; any other request keeps its own index as its key.
Key(i, req) ==
  IF req.step \in RootParent \/ req.step \in WithVariables \/ IdOf(req) = NoId
  THEN [index |-> i, input |-> [query |-> NoId, id |-> NoId]]
  ELSE [index |-> 0, input |-> Input(req)]

\* Extract finds no id in a point whose id holds a '#', or is empty.
VariablesFail(u) ==
  \E r \in Range(work[u].ers) :
    r.point # <<>> /\ IdOf(r) \in world.unreadable \cup {NoId}

FailGroup(u) ==
  /\ group' = [group EXCEPT ![u] = "err"]
  /\ UNCHANGED <<world, stage, depth, reqs, work, exResp, errs, result>>

GetVariablesFails(u) ==
  /\ group[u] = "build"
  /\ VariablesFail(u)
  /\ FailGroup(u)

BuildBatch(u) ==
  LET ers     == work[u].ers
      asked   == { i \in DOMAIN ers : NeedsQuery(ers[i]) }
      key(i)  == Key(i, ers[i])
      targets == InOrder({ i \in asked : \A j \in asked : key(j) = key(i) => i <= j })
  IN
  /\ group[u] = "build"
  /\ ~VariablesFail(u)
  /\ work' = [work EXCEPT
       ![u].batch = [k \in DOMAIN targets |-> Input(ers[targets[k]])],
       ![u].rows = [k \in DOMAIN targets |-> { i \in asked : key(i) = key(targets[k]) }],
       ![u].skipped = DOMAIN ers \ asked]
  /\ group' = [group EXCEPT ![u] = "query"]
  /\ UNCHANGED <<world, stage, depth, reqs, exResp, errs, result>>

\* No queryer for the URL, an error from Query, or the wrong number of answers.
QueryFails(u) ==
  /\ group[u] = "query"
  /\ FailGroup(u)

\* Query returns an answer per input, and each is copied to the requests that
\* share it.
QueryAnswers(u) ==
  LET w == work[u]
      answered == UNION { { [req |-> w.ers[i], data |-> Answer(world, w.batch[k])] :
                              i \in w.rows[k] } : k \in DOMAIN w.batch }
      nil == { [req |-> w.ers[i], data |-> {}] : i \in w.skipped }
  IN
  /\ group[u] = "query"
  /\ work' = [work EXCEPT ![u].resp.results = answered \cup nil]
  /\ group' = [group EXCEPT ![u] = "parse"]
  /\ UNCHANGED <<world, stage, depth, reqs, exResp, errs, result>>

\* A node that is not an object, a null in a list, an object without an id.
CannotParse(u) ==
  \E p \in work[u].resp.results : p.data \cap world.broken # {}

ParseFails(u) ==
  /\ group[u] = "parse"
  /\ CannotParse(u)
  /\ FailGroup(u)

\* parseRespones: the requests of the next depth, in the order in which the
\* responses that have any are folded.
ParseRespones(u) ==
  LET parents == { p \in work[u].resp.results : Dependents(world, p.req, p.data) # {} }
      orders(p) == DependentOrders(world, p.req, p.data)
  IN
  /\ group[u] = "parse"
  /\ ~CannotParse(u)
  /\ \E order \in SetToSeqs(parents) :
       \E nexts \in [DOMAIN order -> UNION { orders(p) : p \in parents }] :
         /\ \A k \in DOMAIN order : nexts[k] \in orders(order[k])
         /\ work' = [work EXCEPT ![u].resp.next = FlattenSeq(nexts)]
  /\ group' = [group EXCEPT ![u] = "ok"]
  /\ UNCHANGED <<world, stage, depth, reqs, exResp, errs, result>>
-----------------------------------------------------------------------------
\* The reducer of AsyncMapReduce.

FoldResponse(u) ==
  /\ group[u] = "ok"
  /\ exResp' = [results |-> exResp.results \cup work[u].resp.results,
                next    |-> exResp.next \o work[u].resp.next]
  /\ group' = [group EXCEPT ![u] = "folded"]
  /\ UNCHANGED <<world, stage, depth, reqs, work, errs, result>>

\* Mutant: the group's error is lost.
FoldErrorLost(u) ==
  /\ group[u] = "err"
  /\ group' = [group EXCEPT ![u] = "folded"]
  /\ UNCHANGED <<world, stage, depth, reqs, work, exResp, errs, result>>

\* Mutant: the error is collected, but the group never counts as done.
FoldErrorNotDone(u) ==
  /\ group[u] = "err"
  /\ errs' = errs \cup {u}
  /\ UNCHANGED <<world, stage, depth, reqs, group, work, exResp, result>>

FoldError(u) ==
  /\ group[u] = "err"
  /\ errs' = errs \cup {u}
  /\ group' = [group EXCEPT ![u] = "folded"]
  /\ UNCHANGED <<world, stage, depth, reqs, work, exResp, result>>
-----------------------------------------------------------------------------
Manager == StartDepth \/ MergeDepth \/ ReturnErrors \/ ReturnResult

Group(u) ==
  \/ GetVariablesFails(u) \/ BuildBatch(u)
  \/ QueryFails(u) \/ QueryAnswers(u)
  \/ ParseFails(u) \/ ParseRespones(u)

Returned == stage \in {"done", "failed"} /\ UNCHANGED vars

Next ==
  \/ Manager
  \/ \E u \in Url : Group(u) \/ FoldResponse(u) \/ FoldError(u)
  \/ Returned

\* Goroutines that can run do, and Query returns: the HTTP client of the
\* gateway waits for a service without a timeout, so this one is assumed of
\* the services.
Fairness ==
  /\ WF_vars(Manager)
  /\ \A u \in Url : WF_vars(Group(u) \/ FoldResponse(u) \/ FoldError(u))

Spec == Init /\ [][Next]_vars /\ Fairness
-----------------------------------------------------------------------------
Inputs == [query : { Query[s] : s \in Step }, id : Id]
Response == [results : SUBSET [req : Request, data : SUBSET Inputs], next : Seq(Request)]
Work == [ers : Seq(Request), batch : Seq(Inputs), rows : Seq(SUBSET Nat),
         skipped : SUBSET Nat, resp : Response]

TypeOK ==
  /\ world \in World
  /\ stage \in {"loop", "fanout", "done", "failed"}
  /\ depth \in 0 .. MaxDepth(world) + 1
  /\ reqs \in Seq(Request)
  /\ group \in [Url -> {"none", "build", "query", "parse", "ok", "err", "folded"}]
  /\ work \in [Url -> Work]
  /\ exResp \in Response
  /\ errs \subseteq Url
  /\ result \subseteq [req : Request, data : SUBSET Inputs]

\* One batch never asks a service twice for the same object and query (unless
\* the step has variables of its own), nor for an object that the id shows to
\* be of another type than the step is about.
NoWasteIn(w) ==
  /\ \A k, l \in DOMAIN w.batch :
       k # l /\ w.batch[k] = w.batch[l] =>
         \E i \in w.rows[k] : w.ers[i].step \in RootParent \cup WithVariables
  /\ \A k \in DOMAIN w.batch : \A i \in w.rows[k] :
       TypeOf[w.batch[k].id] \in {NoId, ParentType[w.ers[i].step]}

NoWastedQuery == \A u \in Url : NoWasteIn(work[u])

\* Any error of any group at any depth makes the whole execution fail, and the
\* execution returns, with a result or with the errors, only when no goroutine
\* of it is still querying or parsing.
FailsAsOne ==
  /\ stage = "done" => errs = {} /\ \A u \in Url : group[u] # "err"
  /\ stage = "failed" => errs # {}
  /\ stage # "fanout" => \A u \in Url : group[u] \in {"none", "folded"}

\* What lets the manager forget a depth once it is merged: every request whose
\* object is in the result is either to be asked at this depth or answered.
Due == world.start \cup UNION { Dependents(world, p.req, p.data) : p \in result }

NoneForgotten ==
  /\ Range(reqs) \subseteq Due
  /\ \A r \in Due : r \in Range(reqs) \/ \E p \in result : p.req = r
  /\ \A r \in Range(reqs) :
       /\ r.step \in StepsAt(world)[depth]
       /\ r.step \in RootParent <=> r.point = <<>>

\* The requests of a service, and their answers.
OfUrl(u) == { r \in Range(reqs) : UrlOf[r.step] = u }
Answered(R) == { [req |-> r, data |-> Answer(world, Input(r))] : r \in R }

\* Every request of the group is skipped, as there is nothing to ask, or in the
\* row of the input that asks for it.
BatchCovers(w) ==
  /\ DOMAIN w.rows = DOMAIN w.batch
  /\ \A i \in w.skipped : i \in DOMAIN w.ers /\ Answer(world, Input(w.ers[i])) = {}
  /\ \A k \in DOMAIN w.batch : \A i \in w.rows[k] :
       i \in DOMAIN w.ers /\ Input(w.ers[i]) = w.batch[k]
  /\ \A i \in DOMAIN w.ers : i \in w.skipped \/ \E k \in DOMAIN w.batch : i \in w.rows[k]

\* The groups that have been folded into exResp.
Folded == { u \in Url : group[u] = "folded" } \ errs

\* How far each goroutine has come with the requests of its service.
GroupInv(u) ==
  /\ Range(work[u].ers) = OfUrl(u)
  /\ group[u] = "none" => OfUrl(u) = {}
  /\ group[u] = "query" => BatchCovers(work[u])
  /\ group[u] \in {"parse", "ok"} \/ u \in Folded =>
       work[u].resp.results = Answered(OfUrl(u))
  /\ group[u] = "ok" \/ u \in Folded =>
       Range(work[u].resp.next) =
         UNION { Dependents(world, p.req, p.data) : p \in work[u].resp.results }

FoldInv ==
  /\ exResp.results = UNION { work[u].resp.results : u \in Folded }
  /\ Range(exResp.next) = UNION { Range(work[u].resp.next) : u \in Folded }
  /\ \A u \in errs : group[u] = "folded"

\* Between two depths nothing is under way.
Idle ==
  /\ group = [u \in Url |-> "none"]
  /\ exResp = NoResp
  /\ errs = {}

IInv ==
  /\ TypeOK
  /\ NoneForgotten
  /\ NoWastedQuery
  /\ stage = "fanout" =>
       depth <= MaxDepth(world) /\ FoldInv /\ \A u \in Url : GroupInv(u)
  /\ stage \in {"loop", "done"} => Idle
  /\ stage = "done" => reqs = <<>>
  /\ stage = "failed" => errs # {} /\ \A u \in Url : group[u] \in {"none", "folded"}

\* Every execution ends, however the services answer.
Terminates == <>(stage \in {"done", "failed"})

PE == INSTANCE PlanExecution WITH
        outcome <- IF stage \in {"done", "failed"} THEN stage ELSE "running"

\* Depth by depth, in batches and in parallel, the manager does what executing
\* a plan promises: no answer is merged before the object it belongs to.
ImplementsPlanExecution == PE!Spec
=============================================================================
