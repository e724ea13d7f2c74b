# A TLA+ model of pebbles

pebbles is a GraphQL gateway in Go: it merges the schemas of several services,
plans each operation as a tree of steps (one service each), executes the tree
depth by depth, and stitches the answers together; subscriptions relay a
service's messages to a client's websocket and run further steps on each.

This directory holds TLA+ modules of its concurrent and stateful parts, the TLC
configurations that check them, and proofs for TLAPS. `PROJECT.json` lists the
runs, which source lines each definition stands for, the hazards, the findings
and the theorems. To check a run: `tlc -config <run>.cfg <module>.tla`; to check
the proofs: `tlapm <module>.tla` for each module whose name ends in `Proofs`.

## Inventory

| Component | State | Operations | Hard because |
|---|---|---|---|
| `common.AsyncMapReduce` | WaitGroup, three unbuffered channels, accumulators | one goroutine per element, one reducer, the waiting caller | order of Done, folds and closes; everything else runs on it |
| depth executor (`executor/`) | the result so far, the depth, its requests; per service a batch, its index map, its answers | Execute, merge, executeRequests, parseRespones, findNextExecutionRequests | services answer in any order; equal requests share one query; any of them may fail |
| insertion points, merging (`executor/result.go`, `utils.go`, `point_data.go`, `selection_set.go`) | the result, changed in place | FindInsertionPoints, ExtractValueModifyingSource, mergeMaps | recursion over nested lists and fragments at once; one object in several places |
| subscription entry (`subscription_entry.go`, `queryer/subscribe.go`) | mutex, isClosed, three unbuffered channels, the service's connection | newSubscriptionEntry, Listen, Close; Subscribe's reader and closer | four goroutines hand over to each other while they end |
| subscription handler (`subscription.go`) | subDict, heartbeats | init, start, stop, terminate, deferred cleanup | the client may do anything in any order and leave at any time |
| cached planner (`planner/cached_planner.go`) | cache, cacheTimers | Plan, clean | check and fill under separate locks; plans are shared and mutable |
| MultiOpQueryer (`queryer/`) | the spliced list | Query, queryBatch, fetch, fetchFile | chunks in any order; the service decides how many answers come |
| sequential planner, scrub fields (`planner/`) | none | Plan, Clean | interfaces, unions and nodes spread over services; what is added must be taken out again |
| gateway (`gateway.go`) | schema, url map; per POST the requests and their results | NewGateway, queryHandler, getQueryers | schemas are paired with urls and results with requests by position, from goroutines that finish in any order |
| requests (`requests/`) | the variables, changed in place | Parse, injectFile | the client's map leads through maps and lists that earlier files have changed, in any order |
| variables and uploads (`executor/depth_executor_query.go`, `queryer/files.go`, `planner/plan.go`, `format/`) | maps and files that all inputs of a request share | getVariablesList, getVariables, extractFiles, prepareMultipart, walkArgumentList | goroutines of several services take files out of the same maps and read the same files; three recursions over one text must agree on its variables |
| merger (`merger/`) | the schema so far, the url map | ExtendMergerFunc, SanitizeNodeMergerFunc, getTypeURLMap | types of several services under one name, merged in the order of the urls |
| introspection (`introspection/`) | none | IntrospectRemoteSchemas, introspectRemoteSchema, IntrospectionResolver | concurrent; a schema goes through two conversions to the client |
| errors, playground | none | formatting, a static page | not modelled |

How they interact: `NewGateway` introspects all services at once in
AsyncMapReduce and merges what they answer; the planner goes by the map from
fields to services that comes out. `queryHandler` parses a POST and every request of it in
AsyncMapReduce; each asks the (possibly cached) planner for a plan and executes
it. `Execute` runs one AsyncMapReduce per depth (a goroutine per service) and
one over the answers; MultiOpQueryer another over its chunks.
`subscriptionHandler` starts entries; each entry keeps Listen and Subscribe's
goroutines, and calls the executor on each message. The cached planner gives one
plan to all of them.

What makes each correct:

- AsyncMapReduce folds every outcome once, returns, and leaves nothing running.
- An execution returns every object its plan reaches, each where it belongs, or
  an error; one depth at a time; it ends.
- A subscription delivers in order, ends with everything released, and cannot
  hurt the process or other subscriptions (this it can: see the failures below).
- A handler that returns leaves nothing behind.
- The cache gives each caller a plan for its operation, not expired and whole.
- A client gets what one server with everybody's data would have answered, and
  each service is asked only for what it has.
- Query gives input k the answer to input k, sends each once, and fails if any
  answer is an error.
- Every request of a batch gets its own result; a file comes to where the client
  wants it, and every variable that a step's text uses is sent and declared with it.
- The gateway asks a field where it is declared, shows clients what the services
  declare, and does not start on services that do not go together.

## Modules

| Module | Models | Its state in the code |
|---|---|---|
| `MapReduce` | abstract: outcomes are folded once each, then the call returns | |
| `AsyncMapReduce` | `common/helpers.go:24-79` | `wg`, `acc`, `errs` are the variables of that name; `main`, `worker`, `reducer` say where each goroutine stands; `open` the deferred closes |
| `AsyncMapReduceProofs` | its theorems | |
| `Enumeration` | loops that keep some elements of a slice, by their indexes | operators on sequences |
| `EnumerationProofs` | what they give, and induction over numbers | |
| `PlanData` | plans, requests, insertion points, what services hold | `QueryPlanStep`, `ExecutionRequest` |
| `PlanExecution` | abstract: answers are merged under what is there; all or an error | |
| `DepthExecutor` | `depth_executor*.go` | `reqs` is `executionRequests`; `work[u]` the locals of the goroutine of service u (`ers`, `batchRequest`, `iMap` as `rows`, `nillResps` as `skipped`); `exResp` the reducer's accumulator |
| `DepthExecutorProofs` | its theorems | |
| `SubscriptionEntry` | `subscription_entry.go`, `queryer/subscribe.go` | `sub[e]` holds the entry's fields and where its four goroutines stand |
| `SubscriptionHandler` | `subscription.go`, over `SubscriptionEntry` | `dict` is `subDict`, `cancelled` the state of `ctx`, `heartbeats[h]` where each goroutine of sendHeartbeat stands |
| `SubscriptionProofs` | the theorems of both, those of the handler over those of the entries | |
| `CachedPlanner` | `planner/cached_planner.go` and what users do with the plan | `cache`, `cacheTimers`, `toDelete`, `ttlnow` by name |
| `CachedPlannerProofs` | its theorems | |
| `MultiOpQueryer` | `queryer/multiop_queryer.go`, `fetch.go` | `chunk[i]` the goroutine of chunk i, `acc` the reducer's list |
| `MultiOpQueryerProofs` | its theorems | |
| `Selections` | selection sets, the merged schema, `merger/type_url_map.go`, `planner/context.go` | constants |
| `SequentialPlanner` | `planner/sequential_planner.go`, `sanitize_selection_set.go` | operators from a selection set to a plan |
| `Stitching` | `executor/result.go`, `utils.go`, `selection_set.go`, `planner/scrub_fields.go` | operators on JSON values |
| `Introspection` | `introspection/`: reading a service's schema, and answering clients | operators on schemas and type references |
| `Merger` | `merger/`: both mergers, `TypeURLMap` | operators on schemas |
| `Startup` | `NewGateway` with `IntrospectRemoteSchemas` | `introspection[i]` the goroutine of service i, `acc`, `errs` by name, `gateway` the merged schema and `typeURLMap` |
| `StartupProofs` | its theorems, with those about `Introspection` and `Merger` | |
| `Requests` | `requests/request.go`: Parse, injectFile | operators on variables |
| `StepText` | the variables in a step's text: `planner/plan.go` (getVariablesList), `format/format.go` (what is printed, walkArgumentList), the node query of `sequential_planner.go` | recursive functions on trees |
| `Gateway` | one POST in `queryHandler`, down to what is sent: getVariables, `queryer/files.go`, fetchFile | `vars[r]` the map of variables of request r, `request[r]` its goroutine, `work[r, s]` the goroutine of its depth for service s, `file` how far uploads are read, `results` the reducer's list |
| `GatewayProofs` | its theorems, and what injectFile does | |
| `Federation` | `queryHandler` with both, one operation from plan to response | `result` is `dem.result`, `asked` the `executionRequests`, `answers` the `ExecutionResults` still to merge, `scrub` what is left of `plan.ScrubFields` |

`Federation` EXTENDS `SequentialPlanner` and `Stitching`, both over
`Selections`. `Startup` EXTENDS `Merger`, which EXTENDS `Introspection`, and
`Gateway` EXTENDS `Requests` and `StepText`. `SubscriptionHandler` EXTENDS `SubscriptionEntry` and moves its entries; the
`MC*` modules give constants their values.

### Abstractions

- A send on an unbuffered channel and its receive are one joint step.
- A section under a mutex that only its holder can observe is one step
  (cached planner). The mutex of an entry is not: Close ignores TryLock, so
  every statement there is a step.
- A panic that nothing recovers, or a fatal error of the runtime, is an
  absorbing state (`crashed`, outcome "panic").
- DepthExecutor uses AsyncMapReduce as its own module shows it to behave: a
  goroutine per group, folds one at a time, a return when all are folded.
- A service's data is what a *world* says: the answer to a request is its object
  or nothing, and the objects of the answer are the insertion points of the next
  depth. A result is the set of answers at their points: how two answers are
  merged into one JSON object is in `Stitching`.
- Federation follows the data where DepthExecutor follows the goroutines: a
  depth is asked in one step, and its answers are merged one by one in any
  order. Services execute queries as GraphQL says (`Eval`), including the
  planner's own node queries; a service may have lost an object that others
  refer to. The errors of merging ("did not encounter a list", "... a map") are
  left out: `PointsLeadBack` shows that every point leads to an object of the
  result. So are directives and arguments, and interfaces declare `id`. (What
  variables in them come to is in `StepText`.)
- merge's own error return (`depth_executor_manager.go:88-90`) is not in
  DepthExecutor either, for the same reason.
- The definition of a named fragment is shared by its spreads and changed in
  place: `definitions` holds its selection set, and those of the fields and
  fragments within it under keys of their own.
- What a client may expect (`Expected`) is the answer of all services as one,
  without the objects of which nothing is left, which Clean removes.
- parseRespones folds responses in any order: those with further requests in
  every order, the others (which only add to the set of results) in none.
- HTTP is a choice among its outcomes: failure, or a number of answers with or
  without errors.
- A websocket write is one step; bytes are not modelled. A write of the gateway's
  returns, with an error or without.
- sendHeartbeat is one step per case of its select and per write. Its ticker may
  tick at any time, and its select may prefer a tick although the context is done.
- A schema is its types with kinds, interfaces, members, values, fields and
  arguments, and the arguments of its directives. Descriptions, deprecation,
  default values, directives on definitions and GraphQL's own types are left
  out. Loading a schema (gqlparser, external) fails if there is no type Query or
  an object lacks a field of its interface. Root types have the usual names.
- Decoding JSON and multipart bodies is abstracted to the post: entries, each with
  a query and variables, and the client's map. Variables are a function from
  paths to maps, lists, null, files and everything else. A path of the map names an
  entry, "variables" or something else as its root, or is an index alone.
- Gateway has the part of an execution that concerns variables; the plan of an
  entry is, by depth and service, its inputs with their texts. The rest is
  in DepthExecutor, MultiOpQueryer (whose chunks Gateway leaves out) and
  Federation. A service answers with errors or without.
- The text of a step is a tree of selections, directives and values; types are
  left out but for whether a place allows null, and for custom scalars, whose parts
  the schema does not know. Fields, fragments and selection sets are nodes of one
  kind, as the recursions treat them alike. Which values go where is gqlparser's
  validation: a list or an object for a custom scalar is the kind `custom`, and what
  it makes of a list in the place of a custom scalar itself is left to it. Default values of variables are not
  modelled (`getVariables` does not look at them).
- extractFiles is followed place by place: one step per place it comes by, and
  another to set to null what was an upload there. It may come by the places of an
  input in any order; the code goes through maps in any order and through lists in
  theirs, so that the model has a few interleavings more. An upload at the top
  level is set to null in the input's own variables, which nobody shares.
- Two goroutines in one Go map, one of them writing, may be noticed by the runtime,
  which is fatal, or not. Where one writes nil while the other comes by, in a list
  as well, the other may read the type of the upload with the pointer of nil, and
  panics when it copies it. What a file gives that two goroutines read at once is
  any part of it for each.

## What is checked

| Run | Shows |
|---|---|
| async_map_reduce | four elements: enough for workers before, at and behind the reducer while others wait. Every outcome folded once; the channels closed last; the WaitGroup exact (the inductive invariant); it returns; it implements `MapReduce`. |
| depth_executor | seven steps, three services, three depths, in seven worlds: a plain one, a list with objects of several types, an empty list, an empty id, an id with `#`, a null that cannot be parsed, and a start from a subscription's payload. Nothing is forgotten between depths (the inductive invariant); no query is wasted; one error fails all; it ends; it implements `PlanExecution`: complete, and one depth after the other. |
| subscription_entry | up to three messages of every kind on one subscription, with stop and loss of the client at any moment. How far four goroutines, a mutex and three channels may be from each other (the inductive invariant); everything is delivered in order and before the end; release; and each way in which the process can end takes what `CrashesOnlyBy` says. |
| subscription_stop | finding: a stop can (below). |
| subscription_handler | two ids and two subscriptions, or one and two connection_inits (`Bounded`). What is in the dictionary runs, and what runs is in it (the inductive invariant); nothing is closed twice; what outlives the handler is exactly what three gaps let out. However the handler returns, its cleanup cut short as well, all heartbeats end, though no write need fail: it is `defer cancel()` that ends them, which is deferred before everything else and so runs in any case. |
| cached_planner | three callers, two hashes, a clock of three ticks with a TTL of one, so that plans expire between every two sections. Cache and timers agree; nothing expired or foreign is given out; steps are lost only to a subscription of the same hash. |
| multiop_queryer | eight calls (no input; below, at and above the limit; divisible or not; files nowhere, in one chunk, in all). The reducer's list never shifts (the inductive invariant); answers in place, and no answer with an error passed over; each input sent once. |
| federation | twenty-five operations over two services: fields of one object at both; a chain a, b, a with aliases; several dependents of one step; a union, an interface whose fields are elsewhere, fragments on it; named fragments spread twice, in one another and on a union; `node`; two root services; a mutation; objects without data, lists that are empty, hold an object twice or a null; fields and types that no service has, for which the plan is refused, and plans without steps, on which the process ends. Plans fit their services; points lead back to their objects and none is missed; answers never contradict; the client gets what it should. |
| federation_nested | finding: a field of the same name in a sibling. |
| startup | every pair of twenty-four services and ten triples, in every order, with both mergers, and with introspections that finish in any order: the services of the readme, every kind of type, clashes of every kind, split types, services that fail, types at the limit of the introspection query and beyond. The schemas are merged in the order of the urls, each with its own, and the outcome is decided by the services alone (the inductive invariant); fields are asked where they are declared; nothing is lost or made up between services and client; what does not go together is refused. |
| gateway | forty-four posts: a batch with every outcome, uploads at the top, in maps and in lists, shared by inputs, depths, services and requests, maps that are wrong or nearly, and a plan without steps. Readers of a file are counted, nothing but nested files leaves the client's variables, and every upload is where it should be until it is sent (the inductive invariant); results in their places; files placed where the map says, and sent where they are used, with the exceptions below. Fifty-two more posts ask for 1404 texts, at the root and below it: a field with up to two values (variables, literals spelled like one, lists, objects and custom scalars that hold them), a directive, and fields in it with more; what is sent and declared with each, again with the exceptions below. |
| gateway_arguments | finding: a variable called `id`, and a variable in a directive. |

Every passing property has a mutant: an operator beside the definition it
mutates ("Mutant:") that makes TLC find the property violated.

### Bounds

Each is a constant. `N` = 4 elements; the worlds above; `MaxMessages` per
subscription, `MaxHeartbeats`, `MaxTime`, `Surplus` (answers beyond those asked
for; one is enough to leave the list). The entry runs have one message more than
the goroutines can hold between them. Operations of Federation have up to four
levels, as many as it takes for a step below a step below a step; the data have
two objects of each type, so that a list can hold different ones. The services of
startup come in pairs, as a merge is of two schemas; the triples are those in
which the order of the merges matters. Posts have two files, two services and up
to two depths: what is shared is shared by two. Texts are three levels deep, so that
values are within values, directives and selections, and two uses of a variable come in
both orders. What a theorem states holds for every value of the
constants, so that its bounds in the run only decide whether TLC would find it
false; the bounds matter for the rest: liveness and Federation.

### Fairness

In AsyncMapReduce, DepthExecutor and the subscription modules: weak fairness per
goroutine, as the Go scheduler runs what can run. A `select` with several ready
cases chooses at random, hence strong fairness for Listen's receive from
closeCh, and for a heartbeat's receive from `ctx.Done()`. A heartbeat's write
returns, and the handler's deferred calls run. Nothing makes a client or a service send. For an execution we assume
that a service answers or its connection breaks: the default HTTP client has no
timeout (`gateway.go:121-130`), only the client's request context, so the code
alone does not guarantee it. The other modules have no loops, and TLC's deadlock
check shows that they stop nowhere but at their ends.

## Findings

Each is a run in which TLC finds a statement of the code violated:

1. **Stopping can end the process** (`subscription_stop`). Close ignores
   TryLock's result, may unlock a mutex held by Listen (fatal), may send on the
   closed closeCh, and the reader may be sending on respCh when it is closed:
   the recover in Subscribe covers only the second of the two panics.
2. **Fields are missing when a sibling nests a field of the same name**
   (`federation_nested`). FindSelection searches depth first, and takes the
   `boss` within `friend` for the one of the path users, boss, friend:
   `users { friend { boss { name } } boss { friend { age } } }` comes back
   without `age`, and without an error.
3. **A variable called `id` is overwritten** (`gateway_arguments`). Below the
   root the object's id is stored under that name, over what the client has sent
   for an argument.
4. **A variable in a directive is not sent** (`gateway_arguments`, its other post:
   with `-continue`, TLC shows both). The list of a
   step's variables comes from the arguments of its fields; directives are printed
   all the same. `query($x: Boolean!) { a @include(if: $x) }` reaches the service
   with `$x` used, not declared and without its value.

### Failures that passing properties name

These are no disagreement with something the repository says, or the repository
says nothing; the properties say exactly how far they go, so that TLC would find
any that goes further.

- `CrashesOnlyBy`: without a stop, three things end the process. A message without
  insertion points, on a subscription with further steps: the executor reads the
  first depth of a plan without any (`subscription_entry.go:115`,
  `depth_executor_manager.go:60`). A data message without a payload, which Listen
  takes for the end (`subscription_entry.go:152`), and a client that leaves while
  messages come, so that Listen's write fails: in both Listen closes respCh, and the
  reader's next send on it panics (`subscribe.go:124`).
- `FilesArrive`, and `AnswersOperation` in Federation: an operation that leaves the
  planner nothing, as `{ node(id: "x") { id } }` (`sequential_planner.go:359-364`
  takes fragments of a node only), has a plan without steps, and Execute dereferences
  nil in a goroutine of AsyncMapReduce, where nobody recovers
  (`depth_executor_manager.go:60`).
- `LeaksOnlyBy`: subscriptions outlive their handler if the close frame cannot be
  written, as the cleanup returns early (`subscription.go:78`), or if a second
  start has taken their id (`subscription.go:152`); and two goroutines stay of a
  subscription whose first messages cannot be written (`subscribe.go:63`).
- `WholePlan`: a subscription sets `Then` to nil in a plan that the cache gives
  to others with its hash (`subscription_entry.go:51`). Only with
  `CachedPlanner`, which is opt-in (`WithPlanner`).
- `AnswersInPlace`: inputs a service leaves unanswered stay nil; more answers than
  inputs are out of range, in a goroutine nobody recovers.
- `FilesPlaced`: a path that ends at a map does nothing, one that goes on after
  its null is accepted. A negative index, and a path in a batch that has nothing but
  the entry's index, panic, which net/http recovers; the client gets no response.
- `FilesArrive`: below the root a file that is a variable called `id` goes
  nowhere, as the object's id takes its place. A file within a variable reaches one
  of the inputs with the variable and is null for the others, as extractFiles takes
  it from a map they share; if they belong to two services of one depth, the process
  may end. A file that several inputs or places use is read once: the others send
  it empty, or in part.
- `VariablesOfTheText`: the `id` and the directives above; a variable within a custom
  scalar is sent but not declared, as walkChildrenArgumentList has no definition for
  it (`format.go:303-306`); a variable is declared as the last argument it is given
  to expects, so that a required argument may refuse it; a literal spelled like a
  variable is sent with the variable's value, undeclared.
- `AskedWhereDeclared`, `ConflictsRefused`: services may split a type that is no
  node if they have no field in common, although no field of it is then asked
  anywhere else; with three services the order of the urls decides whether they
  may. The readme (line 7) demands that types in several services implement Node,
  which the mergers do not check.
- `ConflictsRefused`: a type of more than seven lists and non-nulls ends the
  start with a nil dereference. Interfaces that differ are not refused by the
  merger, but if an object no longer fits, by the loading of the result.
- `NothingLost`: `node` and the type of `id` are those of the last service that
  has the type; a last service without `node` removes it.

The operations of `MCCase` (federation) are those for which the code does what it should.
Others were tried and left out because one of the properties fails, each for a
reason that is among the hazards. A team that changes the code should add them:

- `users { name } users { age }`: fields are not merged, the second is dropped
  (AnswersOperation). `users { n: name name }` loses a field in the same way.
- `users { id ... on User { age } }`: what a fragment gets added is taken out of
  the object, the client's own id with it (AnswersOperation). A fragment within a
  fragment has the same effect.
- `users { ...F } top { author { ...F } }` with `fragment F on User { friend {
  age } }`: the id added for the first use is taken for the client's in the
  second, and stays in its answer (AnswersOperation).
- `users { key: id age }`: an alias for `id` makes the operation fail, because
  extractID finds none (AnswersOperation).
- `animals { call ... on Cat { lives } }`: the id the planner adds to Cat counts
  for Dog too, which then becomes a node query inside a fragment (PlanFits).
- `animals { ... on Animal { call } }`: what is added is recorded under the
  interface, and stays in the answer (AnswersOperation).
- `node(id: "x") { ... on User { boss { age } name } }`: below a node field,
  fields of other services are sent along (PlanFits).
- `node(id: "x") { ... on User { name age } }` where one service has lost x: one
  answer is null, and the answer that came last stands (AnswersAgree).
- `{ node(id: "x") { id } users { name } }`: nothing of node is planned, and it is
  missing from the answer without an error (AnswersOperation).
- `animals { kind: __typename call }`: the answer has an additional `__typename`; and
  where the fields to take out differ by type, an object without `__typename` loses
  those of any type: `pets { kind: __typename ... on Cat { lives call } ... on Dog
  { id call } }` may lose the id of a dog (AnswersOperation).

## What is proved

Every theorem about a component is a consequence of an inductive invariant
(`IInv`, `HandlerIInv`), which a run checks too; only `ServiceRead` is about an
operator alone. The argument is the same everywhere: `Init` establishes it, every
action preserves it, it implies the property. What differs is what the invariant
must add.

| Module | Theorems | For |
|---|---|---|
| `AsyncMapReduceProofs` | `Invariance`, `TypeCorrect`, `FoldsEverythingOnce`, `ClosesSafely`, `RefinesMapReduce` | every N |
| `DepthExecutorProofs` | `Invariance`, `RefinesPlanExecution`, `OneFailsAll`, `AsksOnce` | every plan, world and set of services |
| `SubscriptionProofs` | `Invariance`, `WhatEndsTheProcess`, `MessagesBeforeEnd` | every set of subscriptions, any number of messages |
| `SubscriptionProofs` | `HandlerInvariance`, `NoSecondClose`, `LeaksOnlyThen`, `WhatEndsTheProcessUnderAHandler` | every set of ids and subscriptions, any number of heartbeats |
| `CachedPlannerProofs` | `Invariance`, `TimersFollowPlans`, `NeverStale`, `SameHash`, `TakenOutBySubscription` | any callers, operations, hashes, TTL and clock |
| `MultiOpQueryerProofs` | `Invariance`, `AnswersStayInPlace`, `EachInputSentOnce` | every number of inputs, maxBatchSize and choice of files |
| `GatewayProofs` | `Invariance`, `EachItsOwnResult`, `FilesOfTheMap`, `FilesOfWhatIsSent` | every batch, plan, client's map, set of files and finite set of services |
| `StartupProofs` | `Invariance`, `FieldsAskedWhereDeclared`, `SchemaKept`, `Refusals`, `ServiceRead` | every number of services, whatever their schemas, both mergers |

- *AsyncMapReduce* (assumes N is a natural number). At every step `wg` equals the
  number of elements whose outcome is not yet folded and counted; with where each
  goroutine may stand together with the others, and what `acc` and `errs` hold so
  far. With it, `wg = 0` means that nothing is pending. Every step is a step of
  `MapReduce` or changes nothing there.
- *DepthExecutor* (`PlanAssumption`: the steps are a finite tree, equal queries have
  the same variables; `WorldAssumption`: it has a deepest step, root steps and no
  others start at no point, and a service has no object of another type under an
  id that shows its type). `NoneForgotten` says what the manager needs when it
  goes from depth to depth: each request whose object is in the result is asked
  at this depth or answered. `GroupInv` follows each service's requests through
  the index map (each is skipped because nothing is there, or in the row of the
  input that asks for it), so that what is parsed is what was asked. From these
  every step is a step of `PlanExecution` or changes nothing there; that includes
  its end, with everything answered. The depths come from a recursive function,
  which is unfolded by induction.
- *SubscriptionEntry* (`KindAssumption`: messages are of the kinds the code tells
  apart). `EntryInv` says which goroutines there are (`Started`), that the
  deferred function of Listen goes with the goroutine that closes the connection
  (`Stages`), that the reader is at most one message ahead of Listen, and all
  that Listen has received is with the client (`Passing`), and what makes Listen
  stop (`Stopping`). A channel is closed only in a stage in which, without a
  stop, nobody sends on it any more.
- *SubscriptionHandler* (`NoEntryAssumption`, `MaxHeartbeatsAssumption`) takes
  `EntryInv`, which no step of the handler breaks, and adds that a
  subscription without a Listen is the one about to be registered, and that a
  running one is in the dictionary unless its id was used again.
- *CachedPlanner* (times are natural numbers, nil is no plan of a caller). `IInv`
  adds what a caller knows between two sections: one about to delete has every
  expired key that is its own on its list, or a fresh plan has taken its place;
  one about to store holds its own plan; and a plan that has lost its steps is
  one that a subscription of its hash has been given.
- *MultiOpQueryer* (`CallAssumption`: maxBatchSize is positive, and files belong to
  inputs). A chunk's results are of its own length, each the answer to the input
  at its place or none, and the reducer's list keeps the length of the inputs.
  What makes this hold for every maxBatchSize is the arithmetic of the chunks:
  they cover 1..n without overlapping, and only the last may be shorter.
- *Gateway* (`PostAssumption`: a post without batch has one entry, there are files
  in multipart bodies only, the lists are lists, texts are trees of what can be in
  what, and what is within a variable is so within the variable; `ServiceAssumption`: finitely many
  services; `FileAssumption`: a file is no other value). `ServeInv`: a goroutine that is not idle
  works for a service of the request's depth, on one of its inputs; a result is
  there when no service of the request works any more; a file has as many
  readers as goroutines are copying it; all variables are still the client's,
  but for files within others, which are null. `PlacedInv` follows the files of the map: the paths
  of those already injected are settled, nothing but a null that one of them leads to is
  changed, and as no file removes a map or a list, what a path leads to in the
  client's variables is what the walk of a later file finds there, unless that null
  is taken. The walk itself (`WalkStep`, `FilePlaces`) is an induction over the parts
  of a path, and one over the paths of a file; a map in which every path leads to a
  null of its own is never refused. `FilesArrive` is about the whole history of a request, so
  `ArriveInv` says of every moment what has become of each upload: an input that a
  goroutine is done with has been sent its files, but for those within others
  (`PassedInv`); for the one it works on, the goroutine holds them or has yet to come
  by their places (`HeldInv`); and
  one that is no longer in the variables is held by a goroutine or has been sent
  (`OnItsWay`), so that no input that comes later finds it missing for good. What
  is not whole, or read when a goroutine begins to copy it, has another copy (`PartInv`,
  `FileInv`), and two copies are of two places or for two inputs. `DepthInv` makes
  a request that ends without errors one whose every depth was gone through. A
  goroutine that sets a file to null has come by a place within a variable that its
  input is given, and so has the one that it meets there: the process ends for no
  other reason than two such services, or a plan without steps.
- *Startup* (`WorldAssumption`: there is a service, as Merge refuses an empty
  list at once, and each service's types are as GraphQL describes them: a root
  type is an object, only objects and interfaces have interfaces, only unions
  members, only enums values; names are neither empty nor the wire's NON_NULL and
  LIST). `ReadInv`: a schema that can be read is folded once, and an error is
  counted, so that the sorted list is that of the urls (`ByIndexSorts`), whichever
  came first. The rest is about operators. *Introspection*: a type cut into the
  wire's nested references and parsed again is the same type, and an empty name is
  parsed exactly if it was cut off (`ServiceRead`). *Merger*: `Fits(k, schema)`
  says type by type what the first k services come to: the kind they agree on,
  all interfaces, members and values, and of each field the declaration of the
  `Latest` service that has it, unless it is one of those that a later service
  takes away (`Stays`); `Located(k, map)` says where its fields are asked. One
  more service preserves both, with either merger. What clashes and is merged all
  the same is split (`ClashesSplit`); what neither clashes nor is mixed or uneven is
  merged (`Merges`), and loads (`MergeLoads`). Clients read the result as it is
  (`LostNothing`). The recursive functions of both modules are unfolded by
  induction, as the depths are.

`Enumeration`'s `InOrder` and `Only` stand for Go's loops with `append`, and are
functions, as tlapm reasons about functions only. What the proofs need of
them, and of induction, is in `EnumerationProofs`: a set of numbers with 0 that
is closed under successor is everything, because a nonempty set of numbers has a
least member.

What stays with TLC:

- liveness (`Terminates`, `ReleasesEverything`, `HeartbeatsEnd`, termination of
  AsyncMapReduce): fairness and ENABLED are out of tlapm's reach;
- Federation (planner and stitching): RECURSIVE operators on selection sets and
  JSON values, which tlapm cannot reason about. Nor do its properties hold for every
  operation: those above for which one fails would first have to be excluded;
- `VariablesOfTheText`: it is about what three recursions compute, for every small
  text of the run `gateway`.

The planner's operators were also compared with the plans and scrub fields that
`src/planner/sequential_planner_test.go` expects, for seventeen of its queries
(interfaces, unions, nodes, aliases, fragments): they agree.

## Not modelled

- Errors (`gqlerrors/`): their formatting and the merging of their lists; that there
  are errors is modelled where it decides something.
- The playground: one static page.
- The text of queries (`format/`, the planner's query strings): what it decides is
  modelled, as which variables a query uses and declares and which operations share a
  hash.
- Decoding of request bodies, gqlparser, the HTTP client, middlewares: external, a
  choice among what they can give.
- A gateway that is a service of another gateway: the fields that both add would
  come twice.
- Frames of several goroutines mixed on one websocket (`subscription.go:45`): a
  write is one step.

## Plan

What would come next: in Federation, subscriptions that run further steps on a
payload, and the merger's url map in place of the constants of `Selections`.
