------------------------------ MODULE Gateway ------------------------------
(***************************************************************************)
(* One POST to the gateway: queryHandler (gateway.go) parses it, and runs  *)
(* each request of the batch in a goroutine of its own                     *)
(* (common.AsyncMapReduce): validation, plan, introspection or execution;  *)
(* the results are put in their places and written.                        *)
(*                                                                         *)
(* Of an execution there is what concerns variables: depth by depth, a     *)
(* goroutine for each service, which prepares its inputs (getVariables),   *)
(* takes the uploads out of each (queryer/files.go), sends those that have *)
(* some one by one, and posts the others together.  See DepthExecutor and  *)
(* MultiOpQueryer for the rest.                                            *)
(***************************************************************************)
EXTENDS Requests, StepText

CONSTANTS
  Service,
  Post              \* the posts, see PostAssumption

ASSUME ServiceAssumption == IsFiniteSet(Service)

\* An entry of a post has its query ("ok" to be executed), its variables, and
\* per depth and service of its plan the inputs.  An input asks for the selections
\* in its text, at the root or below it of an object.  A plan may have no steps at
\* all: there is none for { node(id: "1") { id } }, since routeSelectionSet looks
\* into the fragments of a node only.
IsList(s) == s \in Seq(Range(s))

Entry(e) ==
  /\ e.query \in {"ok", "missing", "invalid", "nameless", "unplannable", "introspection"}
  /\ IsList(e.depths)
  /\ e.query # "ok" => e.depths = <<>>
  /\ \A p \in DOMAIN e.variables : IsList(p) /\ p # <<>> /\ <<Head(p)>> \in DOMAIN e.variables
  /\ \A d \in DOMAIN e.depths : \A s \in DOMAIN e.depths[d] :
       /\ s \in Service
       /\ IsList(e.depths[d][s])
       /\ \A k \in DOMAIN e.depths[d][s] :
            e.depths[d][s][k].below = (d > 1) /\ IsText(e.depths[d][s][k].text)

ASSUME PostAssumption ==
  \A p \in Post :
    /\ p.multipart \in BOOLEAN /\ p.batch \in BOOLEAN
    /\ IsList(p.entries) /\ p.entries # <<>> /\ (p.batch \/ Len(p.entries) = 1)
    /\ DOMAIN p.map \subseteq File /\ (p.multipart \/ p.map = <<>>)
    /\ \A f \in DOMAIN p.map :
         /\ IsList(p.map[f])
         /\ \A n \in DOMAIN p.map[f] :
              LET path == p.map[f][n] IN
              /\ IsList(path.keys) /\ path.root \in {"variables", "other", "none"}
              /\ p.batch \/ (path.entry = 1 /\ path.root # "none")
    /\ \A r \in DOMAIN p.entries : Entry(p.entries[r])

VARIABLES
  post,             \* this post
  stage,            \* "parse", "inject", "serve", "answered", "refused", "aborted", "crashed"
  toInject,         \* files of the map that are not yet placed
  parsed,           \* history: the variables of each request as Parse leaves them
  vars,             \* the variables, which the goroutines of a request share
  request,          \* per request: its goroutine, depth and result
  work,             \* per request and service: the goroutine of the depth
  file,             \* per file: whether it has been read, and by how many at once
  sent,             \* history: the inputs sent
  results,          \* per request: its folded result
  response          \* what was written

parseVars == <<post, toInject, parsed>>
allVars == <<parseVars, stage, vars, request, work, file, sent, results, response>>

Indices == DOMAIN post.entries
Idle == [at |-> "idle", k |-> 0, toFetch |-> <<>>, look |-> {}, found |-> {}, taking |-> <<>>,
         todo |-> {}, reading |-> <<>>, fresh |-> FALSE, parts |-> {}]
NoResult == [index |-> 0, errors |-> FALSE, by |-> 0]
NoResponse == <<>>

Init ==
  /\ post \in Post
  /\ stage = "parse"
  /\ toInject = DOMAIN post.map
  /\ vars = [r \in Indices |-> post.entries[r].variables]
  /\ parsed = vars
  /\ request = [r \in Indices |-> [at |-> "start", depth |-> 0, result |-> NoResult]]
  /\ work = [g \in Indices \X Service |-> Idle]
  /\ file = [f \in File |-> [read |-> FALSE, readers |-> 0, mixed |-> FALSE]]
  /\ sent = {}
  /\ results = [r \in Indices |-> NoResult]
  /\ response = NoResponse
-----------------------------------------------------------------------------
\* requests.Parse

\* A query is missing, or a multipart body has no file or an empty map.
ParseRequests ==
  /\ stage = "parse"
  /\ stage' = IF \/ \E r \in Indices : post.entries[r].query = "missing"
                 \/ post.multipart /\ post.map = <<>>
              THEN "refused"
              ELSE IF post.multipart THEN "inject" ELSE "serve"
  /\ UNCHANGED <<parseVars, vars, request, work, file, sent, results, response>>

\* The map is gone through in any order.
Place(f) ==
  LET injected == InjectFile(f, vars, post.map[f])
  IN /\ stage = "inject"
     /\ f \in toInject
     /\ toInject' = toInject \ {f}
     /\ vars' = injected.trees
     /\ parsed' = injected.trees
     /\ stage' = CASE injected.outcome # "ok" -> injected.outcome
                   [] injected.outcome = "ok" /\ toInject' = {} -> "serve"
                   [] OTHER -> stage
     /\ UNCHANGED <<post, request, work, file, sent, results, response>>
-----------------------------------------------------------------------------
\* The goroutine of request r.

Plan(r) == post.entries[r].depths
Result(r, errors) == [index |-> r, errors |-> errors, by |-> r]

Unchanged == UNCHANGED <<parseVars, vars, file, response>>

\* The query is not valid, has no operation of that name, or cannot be planned.
Refuse(r) ==
  /\ request[r].at = "start"
  /\ post.entries[r].query \in {"invalid", "nameless", "unplannable"}
  /\ request' = [request EXCEPT ![r].at = "result", ![r].result = Result(r, TRUE)]
  /\ Unchanged /\ UNCHANGED <<stage, work, sent, results>>

\* Mutant: the index of the result is not set.
ResolveIntrospectionAtFirst(r) ==
  /\ request[r].at = "start"
  /\ post.entries[r].query = "introspection"
  /\ request' = [request EXCEPT ![r].at = "result",
                   ![r].result = [Result(r, FALSE) EXCEPT !.index = 1]]
  /\ Unchanged /\ UNCHANGED <<stage, work, sent, results>>

\* parseIntrospectionQuery: its root fields are answered, and no others.
ResolveIntrospection(r) ==
  /\ request[r].at = "start"
  /\ post.entries[r].query = "introspection"
  /\ request' = [request EXCEPT ![r].at = "result", ![r].result = Result(r, FALSE)]
  /\ Unchanged /\ UNCHANGED <<stage, work, sent, results>>

InDepth(r, d) == DOMAIN Plan(r)[d]

\* Of a plan without steps there is no first depth to execute, and nobody recovers
\* from the nil that stands for it.
ExecutePanics(r) ==
  /\ request[r].at = "start"
  /\ post.entries[r].query = "ok" /\ Plan(r) = <<>>
  /\ stage' = "crashed"
  /\ Unchanged /\ UNCHANGED <<request, work, sent, results>>

StartDepth(r) ==
  LET d == request[r].depth + 1
  IN /\ \/ request[r].at = "start" /\ post.entries[r].query = "ok" /\ Plan(r) # <<>>
        \/ request[r].at = "next"
     /\ request' = [request EXCEPT ![r].at = "depth", ![r].depth = d]
     /\ work' = [g \in DOMAIN work |->
          IF g[1] = r /\ g[2] \in InDepth(r, d) THEN [Idle EXCEPT !.at = "input", !.k = 1]
          ELSE IF g[1] = r THEN Idle ELSE work[g]]
     /\ Unchanged /\ UNCHANGED <<stage, sent, results>>

\* All services of the depth have been heard: an error of one is the result.
FinishDepth(r) ==
  LET groups == { work[<<r, s>>] : s \in InDepth(r, request[r].depth) }
      failed == \E w \in groups : w.at = "err"
  IN /\ request[r].at = "depth"
     /\ \A w \in groups : w.at \in {"ok", "err"}
     /\ request' = [request EXCEPT
          ![r].at = IF ~failed /\ request[r].depth < Len(Plan(r)) THEN "next" ELSE "result",
          ![r].result = Result(r, failed)]
     /\ Unchanged /\ UNCHANGED <<stage, work, sent, results>>

\* acc[value.index] = value
Fold(r) ==
  /\ request[r].at = "result"
  /\ request' = [request EXCEPT ![r].at = "folded"]
  /\ results' = [results EXCEPT ![request[r].result.index] = request[r].result]
  /\ Unchanged /\ UNCHANGED <<stage, work, sent>>

\* Results.Emit: a list for a batch.
Emit ==
  /\ stage = "serve"
  /\ \A r \in Indices : request[r].at = "folded"
  /\ response' = IF post.batch THEN results ELSE <<results[1]>>
  /\ stage' = "answered"
  /\ UNCHANGED <<parseVars, vars, request, work, file, sent, results>>
-----------------------------------------------------------------------------
\* The variables of an input (SetComputedValues, getVariables).

TextOf(input) == IF input.below THEN NodeQuery(input.text) ELSE input.text
VariablesList(input) == GetVariablesList(TextOf(input))

\* The variables among them that the client has sent.
Given(r, input) == { n \in VariablesList(input) : <<n>> \in DOMAIN parsed[r] }

\* Mutant: below the root there is nothing but the id.
OnlyTheId(r, input) ==
  IF input.below THEN [v \in {"id"} |-> "the object's id"]
  ELSE [v \in Given(r, input) |-> "the client's"]

\* getVariables: the client's values, and below the root the object's id.
GetVariables(r, input) ==
  LET id == IF input.below THEN {"id"} ELSE {}
  IN [v \in Given(r, input) \cup id |-> IF v \in id THEN "the object's id" ELSE "the client's"]
-----------------------------------------------------------------------------
\* The goroutine of request r and service s, in the request's depth.

InputsOf(r, s) == Plan(r)[request[r].depth][s]
Input(r, s) == InputsOf(r, s)[work[<<r, s>>].k]

FilesIn(r) == { p \in DOMAIN parsed[r] : parsed[r][p] \in File }

\* The client's variables that an input has share all but their top level with
\* the request's.
Shares(r, input, path) ==
  LET variables == GetVariables(r, input)
  IN Head(path) \in DOMAIN variables /\ variables[Head(path)] = "the client's"

\* Mutant: files are looked for among the variables only, not within them.
PlacesAtTheTop(r, input) ==
  { p \in DOMAIN parsed[r] : Len(p) = 1 /\ parsed[r][p] \in File /\ Shares(r, input, p) }

\* The places of the input's variables that the client has put a file at.
PlacesToLook(r, input) == { p \in FilesIn(r) : Shares(r, input, p) }

Goto(g, at) == work' = [work EXCEPT ![g].at = at]

\* extractFiles goes through the variables of the next input.  Of the places that
\* it comes by there are those that may have a file, in any order.
BeginExtract(r, s) ==
  LET g == <<r, s>> IN
  /\ work[g].at = "input"
  /\ work[g].k <= Len(InputsOf(r, s))
  /\ work' = [work EXCEPT ![g].at = "extract", ![g].found = {},
                          ![g].look = PlacesToLook(r, Input(r, s))]
  /\ Unchanged /\ UNCHANGED <<stage, request, sent, results>>

\* Mutant: the uploads at the top level are taken from the request, too.
ExtractToClear(r, s) ==
  LET g == <<r, s>> IN
  /\ work[g].at = "extract"
  /\ \E p \in work[g].look :
       \/ vars[r][p] \notin File /\ work' = [work EXCEPT ![g].look = @ \ {p}]
       \/ /\ vars[r][p] \in File
          /\ work' = [work EXCEPT ![g].at = "clear", ![g].look = @ \ {p}, ![g].taking = p,
                                  ![g].found = @ \cup {p}]
  /\ Unchanged /\ UNCHANGED <<stage, request, sent, results>>

\* Others may have taken the file that was there.  One at the top level is set to
\* null in the input's own variables at once ...
Extract(r, s) ==
  LET g == <<r, s>> IN
  /\ work[g].at = "extract"
  /\ \E p \in work[g].look :
       \/ vars[r][p] \notin File /\ work' = [work EXCEPT ![g].look = @ \ {p}]
       \/ /\ vars[r][p] \in File /\ Len(p) = 1
          /\ work' = [work EXCEPT ![g].look = @ \ {p}, ![g].found = @ \cup {p}]
       \/ /\ vars[r][p] \in File /\ Len(p) > 1
          /\ work' = [work EXCEPT ![g].at = "clear", ![g].look = @ \ {p}, ![g].taking = p,
                                  ![g].found = @ \cup {p}]
  /\ Unchanged /\ UNCHANGED <<stage, request, sent, results>>

\* ... and one within others in what all inputs of the request share.
Clear(r, s) ==
  LET g == <<r, s>> IN
  /\ work[g].at = "clear"
  /\ vars' = [vars EXCEPT ![r][work[g].taking] = "null"]
  /\ Goto(g, "extract")
  /\ UNCHANGED <<parseVars, file, response, stage, request, sent, results>>

\* An input without files waits for the others of its kind.
EndExtract(r, s) ==
  LET g == <<r, s>> IN
  /\ work[g].at = "extract"
  /\ work[g].look = {}
  /\ work' = IF work[g].found = {}
             THEN [work EXCEPT ![g].at = "input", ![g].k = @ + 1,
                               ![g].toFetch = Append(@, work[g].k)]
             ELSE [work EXCEPT ![g].at = "marshal"]
  /\ Unchanged /\ UNCHANGED <<stage, request, sent, results>>

\* The inputs that a goroutine is walking through: while uploads are taken out,
\* and when the JSON of one input or of the rest is written.
Walking(h) ==
  IF work[h].at \in {"extract", "clear", "marshal"} THEN {work[h].k}
  ELSE IF work[h].at = "marshalAll" THEN Range(work[h].toFetch) ELSE {}

\* One goroutine sets to null what another comes by.  The runtime may notice that a
\* map is written while another goes through it; in a map or a list, the other may
\* read half of the value, an upload that is nil, and panic when it copies it.
Collide(r, s) ==
  LET p == work[<<r, s>>].taking IN
  /\ work[<<r, s>>].at = "clear"
  /\ \E other \in Service \ {s} :
       \/ /\ At(vars[r], Front(p)) = "map"
          /\ \E k \in Walking(<<r, other>>) : Shares(r, InputsOf(r, other)[k], p)
       \/ p \in work[<<r, other>>].look
  /\ stage' = "crashed"
  /\ Unchanged /\ UNCHANGED <<request, work, sent, results>>

Marshal(r, s) ==
  LET g == <<r, s>> IN
  /\ work[g].at = "marshal"
  /\ work' = [work EXCEPT ![g].at = "copy", ![g].todo = work[g].found, ![g].parts = {}]
  /\ Unchanged /\ UNCHANGED <<stage, request, sent, results>>

\* prepareMultipart copies one file after the other.  Two goroutines may read the
\* same file at the same time.
BeginCopy(r, s) ==
  LET g == <<r, s>> IN
  /\ work[g].at = "copy"
  /\ \E p \in work[g].todo : LET f == parsed[r][p] IN
       /\ work' = [work EXCEPT ![g].at = "reading", ![g].reading = p,
                     ![g].todo = @ \ {p}, ![g].fresh = ~file[f].read]
       /\ file' = [file EXCEPT ![f].read = TRUE, ![f].readers = @ + 1,
                     ![f].mixed = @ \/ file[f].readers > 0]
  /\ UNCHANGED <<parseVars, vars, response, stage, request, sent, results>>

EndCopy(r, s) ==
  LET g == <<r, s>>
      p == work[g].reading
      f == parsed[r][p]
      part == IF file[f].mixed THEN {"whole", "some", "empty"}
              ELSE IF work[g].fresh THEN {"whole"} ELSE {"empty"}
  IN
  /\ work[g].at = "reading"
  /\ \E c \in part :
       work' = [work EXCEPT ![g].at = "copy", ![g].parts = @ \cup {[path |-> p, file |-> f, part |-> c]}]
  /\ file' = [file EXCEPT ![f].readers = @ - 1,
                ![f].mixed = @ /\ file[f].readers > 1]
  /\ UNCHANGED <<parseVars, vars, response, stage, request, sent, results>>

SentInput(r, s, k, parts) ==
  [request |-> r, depth |-> request[r].depth, service |-> s, k |-> k, parts |-> parts,
   variables |-> GetVariables(r, InputsOf(r, s)[k])]

\* fetchFile: the service answers, with an error or without.
SendMultipart(r, s) ==
  LET g == <<r, s>> IN
  /\ work[g].at = "copy"
  /\ work[g].todo = {}
  /\ sent' = sent \cup {SentInput(r, s, work[g].k, work[g].parts)}
  /\ \/ work' = [work EXCEPT ![g].at = "input", ![g].k = @ + 1]
     \/ Goto(g, "err")
  /\ Unchanged /\ UNCHANGED <<stage, request, results>>

\* fetch, for the inputs without files.
BeginFetch(r, s) ==
  LET g == <<r, s>> IN
  /\ work[g].at = "input"
  /\ work[g].k > Len(InputsOf(r, s))
  /\ Goto(g, IF work[g].toFetch = <<>> THEN "ok" ELSE "marshalAll")
  /\ Unchanged /\ UNCHANGED <<stage, request, sent, results>>

Fetch(r, s) ==
  LET g == <<r, s>> IN
  /\ work[g].at = "marshalAll"
  /\ sent' = sent \cup { SentInput(r, s, k, {}) : k \in Range(work[g].toFetch) }
  /\ Goto(g, "ok") \/ Goto(g, "err")
  /\ Unchanged /\ UNCHANGED <<stage, request, results>>

Group(r, s) ==
  \/ BeginExtract(r, s) \/ Extract(r, s) \/ Clear(r, s) \/ EndExtract(r, s) \/ Collide(r, s)
  \/ Marshal(r, s)
  \/ BeginCopy(r, s) \/ EndCopy(r, s) \/ SendMultipart(r, s)
  \/ BeginFetch(r, s) \/ Fetch(r, s)
-----------------------------------------------------------------------------
Request(r) ==
  \/ Refuse(r) \/ ResolveIntrospection(r) \/ ExecutePanics(r)
  \/ StartDepth(r) \/ FinishDepth(r) \/ Fold(r)
  \/ \E s \in Service : Group(r, s)

Next ==
  \/ ParseRequests
  \/ \E f \in File : Place(f)
  \/ stage = "serve" /\ \E r \in Indices : Request(r)
  \/ Emit
  \/ stage \in {"answered", "refused", "aborted", "crashed"} /\ UNCHANGED allVars

Spec == Init /\ [][Next]_allVars
-----------------------------------------------------------------------------
Files == UNION { { parsed[r][p] : p \in DOMAIN parsed[r] } \cap File : r \in Indices }

\* The types of the variables.
Keys == UNION { DOMAIN parsed[r] : r \in Indices }
Part == [path : Keys, file : File, part : {"whole", "some", "empty"}]
ResultType == [index : Nat, errors : BOOLEAN, by : Nat]
RequestType ==
  [at : {"start", "depth", "next", "result", "folded"}, depth : Nat, result : ResultType]
WorkType ==
  [at      : {"idle", "input", "extract", "clear", "marshal", "copy", "reading", "marshalAll", "ok", "err"},
   k       : Nat,
   toFetch : Seq(Nat),
   look    : SUBSET Keys,
   found   : SUBSET Keys,
   taking  : Keys \cup {<<>>},
   todo    : SUBSET Keys,
   reading : Keys \cup {<<>>},
   fresh   : BOOLEAN,
   parts   : SUBSET Part]
FileType == [read : BOOLEAN, readers : Nat, mixed : BOOLEAN]

TypeOK ==
  /\ post \in Post
  /\ stage \in {"parse", "inject", "serve", "answered", "refused", "aborted", "crashed"}
  /\ toInject \subseteq DOMAIN post.map
  /\ DOMAIN vars = Indices /\ DOMAIN parsed = Indices
  /\ request \in [Indices -> RequestType]
  /\ work \in [Indices \X Service -> WorkType]
  /\ file \in [File -> FileType]
  /\ results \in [Indices -> ResultType]

\* Nothing is taken from the client's variables but files within others, which
\* are null then.
Taken ==
  \A r \in Indices :
    /\ DOMAIN vars[r] = DOMAIN parsed[r]
    /\ \A p \in DOMAIN parsed[r] :
         vars[r][p] # parsed[r][p] => Len(p) > 1 /\ p \in FilesIn(r) /\ vars[r][p] = "null"

Reading(f) ==
  { g \in DOMAIN work : work[g].at = "reading" /\ parsed[g[1]][work[g].reading] = f }

Failed(r) ==
  \/ post.entries[r].query \notin {"ok", "introspection"}
  \/ \E s \in Service : work[<<r, s>>].at = "err"

\* A result is there when no service of the request works any more, and has errors
\* if one has failed.
RequestInv(r) ==
  LET q == request[r] IN
  /\ q.depth <= Len(Plan(r))
  /\ q.at = "start" => q.depth = 0 /\ \A s \in Service : work[<<r, s>>].at = "idle"
  /\ q.at \in {"next", "depth"} => post.entries[r].query = "ok"
  /\ q.at # "start" /\ post.entries[r].query = "ok" => q.depth > 0
  /\ q.at = "next" => q.depth < Len(Plan(r)) /\ \A s \in Service : work[<<r, s>>].at # "err"
  /\ q.at \in {"result", "folded"} =>
       q.result.index = r /\ q.result.by = r /\ (q.result.errors <=> Failed(r))
  /\ q.at = "folded" => results[r] = q.result

\* A goroutine that w describes works for service s of the request's depth, on
\* one of its inputs, and with uploads of the request.
GroupInv(r, s, w) ==
  /\ w.at = "idle" => w = Idle
  /\ w.at # "idle" =>
       /\ request[r].depth \in DOMAIN Plan(r)
       /\ s \in InDepth(r, request[r].depth)
       /\ w.k \in 1 .. Len(InputsOf(r, s)) + 1
       /\ Range(w.toFetch) \subseteq 1 .. Len(InputsOf(r, s))
  /\ w.at \in {"extract", "clear", "marshal", "copy", "reading"} => w.k <= Len(InputsOf(r, s))
  /\ w.look \subseteq FilesIn(r) /\ w.found \subseteq FilesIn(r) /\ w.todo \subseteq FilesIn(r)
  /\ w.look # {} => w.at \in {"extract", "clear"}
  /\ w.at = "clear" => w.taking \in w.found /\ Len(w.taking) > 1
  /\ w.at = "reading" => w.reading \in FilesIn(r)
  /\ w.at \notin {"idle", "ok", "err"} => request[r].at = "depth"

\* An input that was sent is one of the plan, and has its variables.
SentInv(i) ==
  /\ i.request \in Indices
  /\ i.depth \in DOMAIN Plan(i.request)
  /\ i.service \in InDepth(i.request, i.depth)
  /\ i.k \in DOMAIN Plan(i.request)[i.depth][i.service]
  /\ i.variables = GetVariables(i.request, Plan(i.request)[i.depth][i.service][i.k])

\* In particular a file has as many readers as there are goroutines copying it,
\* and nothing is served before all files are placed.
ServeInv ==
  /\ TypeOK
  /\ Taken
  /\ \A r \in Indices : RequestInv(r) /\ \A s \in Service : GroupInv(r, s, work[<<r, s>>])
  /\ \A f \in File : file[f].readers = Cardinality(Reading(f))
  /\ \A i \in sent : SentInv(i)
  /\ stage \in {"parse", "inject", "refused", "aborted"} =>
       vars = parsed /\ sent = {} /\ \A r \in Indices : request[r].at = "start"
  /\ stage = "answered" =>
       /\ \A r \in Indices : request[r].at = "folded"
       /\ response = IF post.batch THEN results ELSE <<results[1]>>

\* Each request of a batch gets its own result at its own place, with errors if
\* it was refused or a service failed, and never because of another request:
\* queryHandler's goroutines finish in any order, and only an index brings a
\* result back to its request.
ResultsInPlace ==
  stage = "answered" =>
    /\ DOMAIN response = Indices
    /\ \A r \in Indices :
         /\ response[r].by = r
         /\ response[r].errors <=>
              \/ post.entries[r].query \notin {"ok", "introspection"}
              \/ \E s \in Service : work[<<r, s>>].at = "err"
-----------------------------------------------------------------------------
\* Places that the client's map names.
Named(f) == { <<path.entry, path.keys>> : path \in Range(post.map[f]) }
Tree(r) == post.entries[r].variables
WellNamed(f) ==
  /\ \A path \in Range(post.map[f]) : path.root = "variables"
  /\ \A n \in Named(f) : n[1] \in Indices /\ IsHole(Tree(n[1]), n[2])
NamedOnce ==
  /\ \A f \in DOMAIN post.map : Cardinality(Named(f)) = Len(post.map[f])
  /\ \A f, g \in DOMAIN post.map : f # g => Named(f) \cap Named(g) = {}

\* injectFile puts each file where the client's map says, in whatever order the
\* map is gone through and through whatever maps and lists the paths lead, and
\* leaves all else as it was: the exceptions are a path that ends at a map, which
\* does nothing, and one that goes on after its null.  A map whose paths all
\* lead to a null of their own is never refused.
FilesPlaced ==
  /\ stage \in {"serve", "answered"} =>
       /\ \A f \in DOMAIN post.map : \A n \in Named(f) :
            \/ IsHole(Tree(n[1]), n[2]) /\ parsed[n[1]][n[2]] = f
            \/ EndsAtMap(Tree(n[1]), n[2])
            \/ GoesOn(Tree(n[1]), n[2])
       /\ \A r \in Indices : \A p \in DOMAIN Tree(r) :
            parsed[r][p] # Tree(r)[p] =>
              /\ Tree(r)[p] = "null"
              /\ \E f \in DOMAIN post.map : \E n \in Named(f) :
                   parsed[r][p] = f /\ n[1] = r /\ (n[2] = p \/ GoesOn(Tree(r), n[2]))
  /\ stage \in {"refused", "aborted"} =>
       \/ \E r \in Indices : post.entries[r].query = "missing"
       \/ post.map = <<>>
       \/ ~NamedOnce
       \/ \E f \in DOMAIN post.map : ~WellNamed(f)

\* What has come of a path when its file has been injected.
Settled(trees, f, n) ==
  /\ n[1] \in Indices
  /\ \/ IsHole(Tree(n[1]), n[2]) /\ trees[n[1]][n[2]] = f
     \/ EndsAtMap(Tree(n[1]), n[2])
     \/ GoesOn(Tree(n[1]), n[2])

\* Of pairs of a file and a place all are settled, and nothing else is changed.
Placed(trees, pairs) ==
  /\ \A d \in pairs : Settled(trees, d[1], d[2])
  /\ \A r \in Indices : \A p \in DOMAIN Tree(r) :
       trees[r][p] # Tree(r)[p] =>
         /\ Tree(r)[p] = "null"
         /\ \E d \in pairs :
              /\ trees[r][p] = d[1] /\ d[2][1] = r
              /\ d[2][2] = p \/ GoesOn(Tree(r), d[2][2])

\* The files fs with the places the map names for them.
Pairs(fs) == UNION { { <<f, n>> : n \in Named(f) } : f \in fs }

\* As long as Parse goes on, the files that are already injected are placed; it
\* stops early only for a reason.
PlacedInv ==
  /\ stage \notin {"refused", "aborted"} => Placed(parsed, Pairs(DOMAIN post.map \ toInject))
  /\ stage \in {"serve", "answered", "crashed"} => toInject = {}
  /\ stage \in {"refused", "aborted"} =>
       \/ \E r \in Indices : post.entries[r].query = "missing"
       \/ post.map = <<>>
       \/ ~NamedOnce
       \/ \E f \in DOMAIN post.map : ~WellNamed(f)
-----------------------------------------------------------------------------
PlacesOf(f) == UNION { { <<r, p>> : p \in { q \in DOMAIN parsed[r] : parsed[r][q] = f } } : r \in Indices }

\* The inputs of request r that are given the variable that p leads into: not the
\* one called id, where the object's id takes its place.
Using(r, p) ==
  UNION { UNION { { <<d, s, k>> : k \in { l \in DOMAIN Plan(r)[d][s] :
                      /\ Head(p) \in VariablesList(Plan(r)[d][s][l])
                      /\ ~(Plan(r)[d][s][l].below /\ Head(p) = "id") } }
                  : s \in DOMAIN Plan(r)[d] } : d \in DOMAIN Plan(r) }

Getting(r, p) == { i \in sent : i.request = r /\ \E x \in i.parts : x.path = p }

\* In one depth two services are given a variable with a file in it.
FileShared ==
  \E r \in Indices : \E p \in FilesIn(r) :
    /\ Len(p) > 1
    /\ \E u, v \in Using(r, p) : u[1] = v[1] /\ u[2] # v[2]

PlanWithoutSteps == \E r \in Indices : post.entries[r].query = "ok" /\ Plan(r) = <<>>

\* When a request has no errors, a file that is a variable has gone to every
\* input with this variable, one that is within a variable to at least one of
\* them, and under its own place only.  If just one input has got it, and the
\* client has used it at one place, it has arrived whole.  (extractFiles takes
\* files out of maps and lists that all inputs share, and a file can be read once.)
\* The process ends only where two services share such a variable, or for a plan
\* without steps.
FilesArrive ==
  /\ \A i \in sent : \A x \in i.parts :
       /\ x.file = parsed[i.request][x.path]
       /\ <<i.depth, i.service, i.k>> \in Using(i.request, x.path)
  /\ stage = "answered" =>
       \A f \in Files : \A place \in PlacesOf(f) :
         LET r == place[1]
             p == place[2]
         IN ~results[r].errors =>
              /\ Using(r, p) # {} => Getting(r, p) # {}
              /\ Len(p) = 1 =>
                   { <<i.depth, i.service, i.k>> : i \in Getting(r, p) } = Using(r, p)
              /\ \A i \in Getting(r, p) :
                   Getting(r, p) = {i} /\ PlacesOf(f) = {place} =>
                     \A x \in i.parts : x.path = p => x.part = "whole"
  /\ stage = "crashed" => FileShared \/ PlanWithoutSteps
-----------------------------------------------------------------------------
\* Which input: of a request, a depth and a service the k-th.
InputAt(r, d, s, k) == [request |-> r, depth |-> d, service |-> s, k |-> k]
SentAs(i) == InputAt(i.request, i.depth, i.service, i.k)
WorkedOn(r, s, w) == InputAt(r, request[r].depth, s, w.k)

\* The uploads that a goroutine which w describes has begun to copy, and all that it
\* has for its input.
Begun(w) ==
  IF w.at \in {"copy", "reading"}
  THEN { x.path : x \in w.parts } \cup (IF w.at = "reading" THEN {w.reading} ELSE {})
  ELSE {}

Held(w) ==
  IF w.at \in {"extract", "clear", "marshal"} THEN w.found
  ELSE IF w.at \in {"copy", "reading"} THEN w.todo \cup Begun(w) ELSE {}

\* For which inputs, and from which places, file f has been copied or is being so.
Copies(f) ==
  (UNION { { <<SentAs(i), x.path>> : x \in { y \in i.parts : y.file = f } } : i \in sent })
  \cup (UNION { { <<WorkedOn(g[1], g[2], work[g]), p>> :
                   p \in { q \in Begun(work[g]) : parsed[g[1]][q] = f } } : g \in DOMAIN work })

Shared(f, copy) == \E other \in Copies(f) : other # copy

\* What is read once is whole.
PartInv(input, x) ==
  /\ x.path \in FilesIn(input.request)
  /\ x.file = parsed[input.request][x.path]
  /\ x.part # "whole" => Shared(x.file, <<input, x.path>>)

FileInv(f) ==
  /\ file[f].read => Copies(f) # {}
  /\ file[f].mixed => \E c \in Copies(f) : Shared(f, c)

OnItsWay(r, p) == Getting(r, p) # {} \/ \E s \in Service : p \in Held(work[<<r, s>>])

\* A goroutine has every upload of its input, or has yet to come by its place, but
\* for those within a variable that others have taken.
HeldInv(r, s, w) ==
  /\ Held(w) \subseteq FilesIn(r)
  /\ w.at \in {"extract", "clear", "marshal", "copy", "reading"} =>
       \A p \in FilesIn(r) :
         /\ p \in Held(w) \cup w.look => Shares(r, InputsOf(r, s)[w.k], p)
         /\ Shares(r, InputsOf(r, s)[w.k], p) =>
              \/ p \in w.look
              \/ IF Len(p) = 1 THEN p \in Held(w) ELSE OnItsWay(r, p)
  /\ w.at \in {"copy", "reading"} =>
       w.todo \cap Begun(w) = {} /\ \A x \in w.parts : PartInv(WorkedOn(r, s, w), x)
  /\ w.at = "reading" =>
       w.fresh \/ Shared(parsed[r][w.reading], <<WorkedOn(r, s, w), w.reading>>)
  /\ w.at \in {"marshalAll", "ok"} => w.k > Len(InputsOf(r, s))

\* And so have the inputs that it is done with got theirs.
Passed(r, d, s, k) ==
  d < request[r].depth \/ (d = request[r].depth /\ k < work[<<r, s>>].k)

Got(input, p) == \E i \in sent : SentAs(i) = input /\ \E x \in i.parts : x.path = p

PassedInv(r) ==
  \A d \in DOMAIN Plan(r) : \A s \in InDepth(r, d) : \A k \in DOMAIN Plan(r)[d][s] :
    Passed(r, d, s, k) =>
      \A p \in FilesIn(r) : Shares(r, Plan(r)[d][s][k], p) =>
        IF Len(p) = 1 THEN Got(InputAt(r, d, s, k), p) ELSE OnItsWay(r, p)

\* No input is sent files before its turn, or twice.
SentFiles(i) ==
  /\ \A x \in i.parts :
       PartInv(SentAs(i), x) /\ Shares(i.request, Plan(i.request)[i.depth][i.service][i.k], x.path)
  /\ i.depth <= request[i.request].depth
  /\ i.depth = request[i.request].depth /\ i.parts # {} =>
       LET w == work[<<i.request, i.service>>] IN i.k < w.k \/ w.at = "err"

\* A depth is over when each of its services is.
AllOk(r) == \A s \in InDepth(r, request[r].depth) : work[<<r, s>>].at = "ok"

DepthInv(r) ==
  /\ request[r].at = "depth" => \A s \in InDepth(r, request[r].depth) : work[<<r, s>>].at # "idle"
  /\ request[r].at = "next" => AllOk(r)
  /\ request[r].at \in {"result", "folded"} /\ post.entries[r].query = "ok" /\ ~Failed(r) =>
       request[r].depth = Len(Plan(r)) /\ AllOk(r)

ArriveInv ==
  /\ \A r \in Indices :
       /\ DOMAIN parsed[r] = DOMAIN Tree(r)
       /\ DepthInv(r) /\ PassedInv(r)
       /\ \A p \in DOMAIN parsed[r] : vars[r][p] # parsed[r][p] => OnItsWay(r, p)
       /\ \A s \in Service : HeldInv(r, s, work[<<r, s>>])
  /\ \A f \in File : FileInv(f)
  /\ \A i \in sent : SentFiles(i)
  /\ stage = "crashed" => FileShared \/ PlanWithoutSteps

\* The inductive invariant.
IInv == ServeInv /\ PlacedInv /\ ArriveInv
-----------------------------------------------------------------------------
TextSent(i) == TextOf(Plan(i.request)[i.depth][i.service][i.k])
Types(i) == WalkArgumentList(TextSent(i))

Sends(i, v) == <<v>> \in DOMAIN parsed[i.request]
ValueArrives(i, v) == v \in DOMAIN i.variables /\ i.variables[v] = "the client's"
IsTheId(i, v) == i.depth > 1 /\ v = "id"

\* Every variable in the text of what is sent gets the value the client has sent, if
\* any ("we need to grab the variable definitions and values for each variable in
\* the step ... and the value if it exists", depth_executor_query.go:77-82).
ArgumentsArrive ==
  \A i \in sent : \A p \in Uses(TextSent(i)) :
    LET v == TextSent(i)[p].name IN Sends(i, v) => ValueArrives(i, v)

\* What the three recursions over a text make of its variables.  Each gets the
\* client's value, but for one called id below the root, where the object's id takes
\* its place, and one that is in directives only.  Each is declared, but for one
\* that is in directives and custom scalars only, and with a type that fits, but for
\* one that is also used where null is allowed.  Nothing is sent that is not
\* declared, but for a variable within a custom scalar or one that a literal is
\* spelled like.  (getVariablesList goes by names, walkArgumentList by definitions,
\* in the order of the fields, and neither looks at directives.)
VariablesOfTheText ==
  \A i \in sent :
    LET text == TextSent(i)
        Outside(places, kinds) == \E p \in places : ~Within(text, p, kinds)
    IN
    /\ \A p \in Uses(text) :
         LET v == text[p].name
             uses == UsesOf(text, v)
         IN
         /\ Sends(i, v) =>
              (ValueArrives(i, v) <=> ~IsTheId(i, v) /\ Outside(Spelled(text, v), {"directive"}))
         /\ v \in DOMAIN Types(i) <=> Outside(uses, {"directive", "custom"})
         /\ v \in DOMAIN Types(i) /\ text[p].nonNull =>
              \/ Types(i)[v]
              \/ Outside({ q \in uses : ~text[q].nonNull }, {"directive", "custom"})
    /\ \A v \in DOMAIN i.variables :
         \/ v \in DOMAIN Types(i)
         \/ \E p \in Spelled(text, v) :
              text[p].kind = "literal" \/ Within(text, p, {"custom"})
=============================================================================
