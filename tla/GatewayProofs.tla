--------------------------- MODULE GatewayProofs ---------------------------
(***************************************************************************)
(* A POST to the gateway, for any services, batch, plans and files: every  *)
(* request gets its own result, and files go where the map says and reach  *)
(* the inputs that use them.                                               *)
(***************************************************************************)
EXTENDS Gateway, EnumerationProofs

-----------------------------------------------------------------------------
\* injectFile: what its outcome can be, and that no request and no place in a
\* request's variables is lost or added.

Outcomes == {"ok", "refused", "aborted"}

LEMMA StepOutcome ==
  ASSUME NEW upload, NEW keys, NEW i, NEW walk, DOMAIN walk = {"tree", "cur", "isIndex", "outcome"},
         walk.outcome \in Outcomes
  PROVE  /\ DOMAIN StepInto(upload, keys, walk, i) = {"tree", "cur", "isIndex", "outcome"}
         /\ StepInto(upload, keys, walk, i).outcome \in Outcomes
         /\ DOMAIN StepInto(upload, keys, walk, i).tree = DOMAIN walk.tree
<1> DEFINE path == Append(walk.cur, keys[i])
           val == At(walk.tree, path)
           item == Append(path, keys[i + 1])
           stops == walk.outcome # "ok" \/ walk.isIndex
           lookedUp ==
             CASE val = "map" -> [walk EXCEPT !.cur = path]
               [] val = "null" -> [walk EXCEPT !.tree[path] = upload]
               [] val = "list" /\ i < Len(keys) /\ At(walk.tree, item) = "null" ->
                    [walk EXCEPT !.tree[item] = upload, !.isIndex = TRUE]
               [] val = "list" /\ i < Len(keys) /\ keys[i + 1] \in NegativeIndex /\ At(walk.tree, item) = Absent ->
                    [walk EXCEPT !.outcome = "aborted"]
               [] OTHER -> [walk EXCEPT !.outcome = "refused"]
<1>1. StepInto(upload, keys, walk, i) = IF stops THEN [walk EXCEPT !.isIndex = FALSE] ELSE lookedUp
  BY DEF StepInto
<1>2. \/ StepInto(upload, keys, walk, i) = [walk EXCEPT !.isIndex = FALSE]
      \/ StepInto(upload, keys, walk, i) = [walk EXCEPT !.cur = path]
      \/ StepInto(upload, keys, walk, i) = [walk EXCEPT !.tree[path] = upload]
      \/ StepInto(upload, keys, walk, i) = [walk EXCEPT !.tree[item] = upload, !.isIndex = TRUE]
      \/ StepInto(upload, keys, walk, i) = [walk EXCEPT !.outcome = "aborted"]
      \/ StepInto(upload, keys, walk, i) = [walk EXCEPT !.outcome = "refused"]
  <2> HIDE DEF path, val, item, stops
  <2> QED BY <1>1
<1> HIDE DEF path, item
<1> QED BY <1>2 DEF Outcomes

\* The walk along a path is defined at each of its parts.
LEMMA InjectWalks ==
  ASSUME NEW upload, NEW tree, NEW keys, Len(keys) \in Nat
  PROVE  \E walk :
           /\ Inject(upload, tree, keys) = walk[Len(keys)]
           /\ walk[0] = Start(tree)
           /\ \A i \in 1 .. Len(keys) : walk[i] = StepInto(upload, keys, walk[i - 1], i)
<1> DEFINE n == Len(keys)
           S(w, i) == IF i = 0 THEN Start(tree) ELSE StepInto(upload, keys, w[i - 1], i)
           Walked(w, m) == w = [i \in 0 .. m |-> S(w, i)]
           E == { m \in 0 .. n : \E w : Walked(w, m) }
           W == CHOOSE w : w = [i \in 0 .. n |-> S(w, i)]
<1>1. Inject(upload, tree, keys) = W[n]
  BY DEF Inject
<1>2. 0 \in E
  <2> DEFINE w == [i \in 0 .. 0 |-> Start(tree)]
  <2>1. w = [i \in 0 .. 0 |-> S(w, i)]
    OBVIOUS
  <2> HIDE DEF w, S
  <2> QED BY <2>1
<1>3. ASSUME NEW k \in 0 .. n - 1, k \in E
      PROVE  k + 1 \in E
  <2>1. PICK f : Walked(f, k)
    BY <1>3
  <2> DEFINE g == [i \in 0 .. k + 1 |-> IF i <= k THEN f[i] ELSE S(f, k + 1)]
  <2>2. DOMAIN f = 0 .. k /\ \A i \in 0 .. k : f[i] = S(f, i)
    <3> HIDE DEF S
    <3> QED BY <2>1
  <2>3. \A i \in 0 .. k + 1 : i # 0 => g[i - 1] = f[i - 1]
    OBVIOUS
  <2>4. \A i \in 0 .. k + 1 : S(g, i) = S(f, i)
    BY <2>3
  <2>5. \A i \in 0 .. k + 1 : g[i] = S(f, i)
    <3> HIDE DEF S
    <3> QED BY <2>2
  <2>6. Walked(g, k + 1)
    <3>1. g = [i \in 0 .. k + 1 |-> g[i]]
      OBVIOUS
    <3> HIDE DEF g, S
    <3> QED BY <2>4, <2>5, <3>1
  <2>7. k + 1 \in 0 .. n
    OBVIOUS
  <2> HIDE DEF g, Walked
  <2> QED BY <2>6, <2>7
<1>4. n \in E
  <2> HIDE DEF E
  <2>1. 0 .. n \subseteq E
    BY <1>2, <1>3, BoundedInduction
  <2> QED BY <2>1
<1>5. PICK f : f = [i \in 0 .. n |-> S(f, i)]
  BY <1>4
<1>6. W = [i \in 0 .. n |-> S(W, i)]
  <2> HIDE DEF S
  <2> QED BY <1>5
<1>7. \A i \in 0 .. n : W[i] = S(W, i)
  <2> HIDE DEF S, W
  <2> QED BY <1>6
<1> HIDE DEF W
<1>8. W[0] = Start(tree) /\ \A i \in 1 .. n : W[i] = StepInto(upload, keys, W[i - 1], i)
  BY <1>7
<1> QED BY <1>1, <1>8

LEMMA InjectOutcome ==
  ASSUME NEW upload, NEW tree, NEW keys, Len(keys) \in Nat
  PROVE  /\ Inject(upload, tree, keys).outcome \in Outcomes
         /\ DOMAIN Inject(upload, tree, keys).tree = DOMAIN tree
<1> DEFINE n == Len(keys)
<1>1. PICK walk :
           /\ Inject(upload, tree, keys) = walk[n]
           /\ walk[0] = Start(tree)
           /\ \A i \in 1 .. n : walk[i] = StepInto(upload, keys, walk[i - 1], i)
  BY InjectWalks
<1> DEFINE Fine(w) == /\ DOMAIN w = {"tree", "cur", "isIndex", "outcome"} /\ w.outcome \in Outcomes
                      /\ DOMAIN w.tree = DOMAIN tree
           G == { i \in 0 .. n : Fine(walk[i]) }
<1>2. 0 \in G
  BY <1>1 DEF Start, Outcomes
<1>3. ASSUME NEW k \in 0 .. n - 1, k \in G PROVE k + 1 \in G
  <2>1. walk[k + 1] = StepInto(upload, keys, walk[k], k + 1)
    BY <1>1
  <2>2. Fine(walk[k])
    BY <1>3
  <2> DEFINE w == walk[k]
             after == StepInto(upload, keys, w, k + 1)
  <2>3. /\ DOMAIN after = {"tree", "cur", "isIndex", "outcome"} /\ after.outcome \in Outcomes
        /\ DOMAIN after.tree = DOMAIN w.tree
    <3>1. DOMAIN w = {"tree", "cur", "isIndex", "outcome"} /\ w.outcome \in Outcomes
      BY <2>2
    <3> HIDE DEF w
    <3> QED BY <3>1, StepOutcome
  <2>4. Fine(walk[k + 1])
    BY <2>1, <2>2, <2>3
  <2> QED BY <2>4
<1>4. n \in G
  <2> HIDE DEF G
  <2>1. 0 .. n \subseteq G
    BY <1>2, <1>3, BoundedInduction
  <2> QED BY <2>1
<1> QED BY <1>1, <1>4

\* The same for the paths of a file, one after the other.
LEMMA InjectFileWalks ==
  ASSUME NEW upload, NEW trees, NEW paths, Len(paths) \in Nat
  PROVE  \E after :
           /\ InjectFile(upload, trees, paths) = after[Len(paths)]
           /\ after[0] = [trees |-> trees, outcome |-> "ok"]
           /\ \A i \in 1 .. Len(paths) : after[i] = InjectPath(upload, after[i - 1], paths[i])
<1> DEFINE n == Len(paths)
           S(w, i) == IF i = 0 THEN [trees |-> trees, outcome |-> "ok"]
                      ELSE InjectPath(upload, w[i - 1], paths[i])
           Walked(w, m) == w = [i \in 0 .. m |-> S(w, i)]
           E == { m \in 0 .. n : \E w : Walked(w, m) }
           W == CHOOSE w : w = [i \in 0 .. n |-> S(w, i)]
<1>1. InjectFile(upload, trees, paths) = W[n]
  BY DEF InjectFile
<1>2. 0 \in E
  <2> DEFINE w == [i \in 0 .. 0 |-> [trees |-> trees, outcome |-> "ok"]]
  <2>1. w = [i \in 0 .. 0 |-> S(w, i)]
    OBVIOUS
  <2> HIDE DEF w, S
  <2> QED BY <2>1
<1>3. ASSUME NEW k \in 0 .. n - 1, k \in E
      PROVE  k + 1 \in E
  <2>1. PICK f : Walked(f, k)
    BY <1>3
  <2> DEFINE g == [i \in 0 .. k + 1 |-> IF i <= k THEN f[i] ELSE S(f, k + 1)]
  <2>2. DOMAIN f = 0 .. k /\ \A i \in 0 .. k : f[i] = S(f, i)
    <3> HIDE DEF S
    <3> QED BY <2>1
  <2>3. \A i \in 0 .. k + 1 : i # 0 => g[i - 1] = f[i - 1]
    OBVIOUS
  <2>4. \A i \in 0 .. k + 1 : S(g, i) = S(f, i)
    BY <2>3
  <2>5. \A i \in 0 .. k + 1 : g[i] = S(f, i)
    <3> HIDE DEF S
    <3> QED BY <2>2
  <2>6. Walked(g, k + 1)
    <3>1. g = [i \in 0 .. k + 1 |-> g[i]]
      OBVIOUS
    <3> HIDE DEF g, S
    <3> QED BY <2>4, <2>5, <3>1
  <2>7. k + 1 \in 0 .. n
    OBVIOUS
  <2> HIDE DEF g, Walked
  <2> QED BY <2>6, <2>7
<1>4. n \in E
  <2> HIDE DEF E
  <2>1. 0 .. n \subseteq E
    BY <1>2, <1>3, BoundedInduction
  <2> QED BY <2>1
<1>5. PICK f : f = [i \in 0 .. n |-> S(f, i)]
  BY <1>4
<1>6. W = [i \in 0 .. n |-> S(W, i)]
  <2> HIDE DEF S
  <2> QED BY <1>5
<1>7. \A i \in 0 .. n : W[i] = S(W, i)
  <2> HIDE DEF S, W
  <2> QED BY <1>6
<1> HIDE DEF W
<1>8. /\ W[0] = [trees |-> trees, outcome |-> "ok"]
      /\ \A i \in 1 .. n : W[i] = InjectPath(upload, W[i - 1], paths[i])
  BY <1>7
<1> QED BY <1>1, <1>8

LEMMA PathOutcome ==
  ASSUME NEW upload, NEW before, NEW path, Len(path.keys) \in Nat,
         DOMAIN before = {"trees", "outcome"}, before.outcome \in Outcomes
  PROVE  /\ DOMAIN InjectPath(upload, before, path) = {"trees", "outcome"}
         /\ InjectPath(upload, before, path).outcome \in Outcomes
         /\ DOMAIN InjectPath(upload, before, path).trees = DOMAIN before.trees
         /\ \A e \in DOMAIN before.trees :
              DOMAIN InjectPath(upload, before, path).trees[e] = DOMAIN before.trees[e]
<1> DEFINE after == InjectPath(upload, before, path)
           walk == Inject(upload, before.trees[path.entry], path.keys)
<1>1. walk.outcome \in Outcomes /\ DOMAIN walk.tree = DOMAIN before.trees[path.entry]
  BY InjectOutcome
<1>2. \/ after = before
      \/ after = [before EXCEPT !.outcome = "refused"]
      \/ after = [before EXCEPT !.outcome = "aborted"]
      \/ after = [before EXCEPT !.trees[path.entry] = walk.tree]
      \/ after = [before EXCEPT !.outcome = walk.outcome]
  <2> HIDE DEF walk
  <2>1. after = IF before.outcome # "ok" THEN before
                ELSE IF path.root = "none" THEN [before EXCEPT !.outcome = "aborted"]
                ELSE IF path.root = "other" \/ path.keys = <<>> THEN [before EXCEPT !.outcome = "refused"]
                ELSE IF path.entry \notin DOMAIN before.trees THEN [before EXCEPT !.outcome = "aborted"]
                ELSE IF walk.outcome = "ok" THEN [before EXCEPT !.trees[path.entry] = walk.tree]
                ELSE [before EXCEPT !.outcome = walk.outcome]
    BY DEF InjectPath, walk
  <2> HIDE DEF after
  <2> QED BY <2>1
<1> HIDE DEF after, walk
<1>3. /\ DOMAIN after = {"trees", "outcome"} /\ after.outcome \in Outcomes
      /\ DOMAIN after.trees = DOMAIN before.trees
      /\ \A e \in DOMAIN before.trees : DOMAIN after.trees[e] = DOMAIN before.trees[e]
  BY <1>1, <1>2 DEF Outcomes
<1> QED BY <1>3 DEF after

LEMMA InjectFileOutcome ==
  ASSUME NEW upload, NEW trees, NEW paths, Len(paths) \in Nat,
         \A i \in 1 .. Len(paths) : Len(paths[i].keys) \in Nat
  PROVE  /\ InjectFile(upload, trees, paths).outcome \in Outcomes
         /\ DOMAIN InjectFile(upload, trees, paths).trees = DOMAIN trees
         /\ \A e \in DOMAIN trees : DOMAIN InjectFile(upload, trees, paths).trees[e] = DOMAIN trees[e]
<1> DEFINE n == Len(paths)
<1>1. PICK after :
           /\ InjectFile(upload, trees, paths) = after[n]
           /\ after[0] = [trees |-> trees, outcome |-> "ok"]
           /\ \A i \in 1 .. n : after[i] = InjectPath(upload, after[i - 1], paths[i])
  BY InjectFileWalks
<1> DEFINE Fine(x) == /\ DOMAIN x = {"trees", "outcome"} /\ x.outcome \in Outcomes
                      /\ DOMAIN x.trees = DOMAIN trees
                      /\ \A e \in DOMAIN trees : DOMAIN x.trees[e] = DOMAIN trees[e]
           G == { i \in 0 .. n : Fine(after[i]) }
<1>2. 0 \in G
  BY <1>1 DEF Outcomes
<1>3. ASSUME NEW k \in 0 .. n - 1, k \in G PROVE k + 1 \in G
  <2>1. after[k + 1] = InjectPath(upload, after[k], paths[k + 1]) /\ Len(paths[k + 1].keys) \in Nat
    BY <1>1
  <2>2. Fine(after[k])
    BY <1>3
  <2> DEFINE b == after[k]
             q == paths[k + 1]
  <2>3. /\ DOMAIN InjectPath(upload, b, q) = {"trees", "outcome"}
        /\ InjectPath(upload, b, q).outcome \in Outcomes
        /\ DOMAIN InjectPath(upload, b, q).trees = DOMAIN b.trees
        /\ \A e \in DOMAIN b.trees : DOMAIN InjectPath(upload, b, q).trees[e] = DOMAIN b.trees[e]
    <3>1. DOMAIN b = {"trees", "outcome"} /\ b.outcome \in Outcomes /\ Len(q.keys) \in Nat
      BY <2>1, <2>2
    <3> HIDE DEF b, q
    <3> QED BY <3>1, PathOutcome
  <2>4. Fine(after[k + 1])
    BY <2>1, <2>2, <2>3
  <2> QED BY <2>4
<1>4. n \in G
  <2> HIDE DEF G
  <2>1. 0 .. n \subseteq G
    BY <1>2, <1>3, BoundedInduction
  <2> QED BY <2>1
<1> QED BY <1>1, <1>4
-----------------------------------------------------------------------------
\* What a post is.

LEMMA ListIs ==
  ASSUME NEW s, IsList(s)
  PROVE  Len(s) \in Nat /\ DOMAIN s = 1 .. Len(s)
BY DEF IsList

LEMMA PostFacts ==
  ASSUME post \in Post
  PROVE  /\ Len(post.entries) \in Nat /\ Indices = 1 .. Len(post.entries) /\ 1 \in Indices
         /\ IsFiniteSet(Indices)
         /\ ~post.batch => Indices = {1}
         /\ \A r \in Indices : Entry(post.entries[r])
<1> DEFINE n == Len(post.entries)
<1>1. /\ IsList(post.entries) /\ post.entries # <<>>
      /\ post.batch \in BOOLEAN /\ (post.batch \/ n = 1)
      /\ \A r \in DOMAIN post.entries : Entry(post.entries[r])
  BY PostAssumption
<1>2. n \in Nat /\ DOMAIN post.entries = 1 .. n
  BY <1>1, ListIs
<1>3. n # 0
  BY <1>1 DEF IsList
<1> HIDE DEF n
<1>4. IsFiniteSet(1 .. n)
  BY <1>2, FS_Interval
<1>5. 1 \in 1 .. n
  BY <1>2, <1>3
<1>6. ~post.batch => 1 .. n = {1}
  BY <1>1
<1> QED BY <1>1, <1>2, <1>4, <1>5, <1>6 DEF Indices, n

LEMMA PlanFacts ==
  ASSUME post \in Post, NEW r \in Indices
  PROVE  /\ Len(Plan(r)) \in Nat /\ DOMAIN Plan(r) = 1 .. Len(Plan(r))
         /\ Plan(r) # <<>> => post.entries[r].query = "ok" /\ Len(Plan(r)) > 0
         /\ \A d \in DOMAIN Plan(r) :
              /\ InDepth(r, d) \subseteq Service
              /\ \A s \in InDepth(r, d) :
                   Len(Plan(r)[d][s]) \in Nat /\ DOMAIN Plan(r)[d][s] = 1 .. Len(Plan(r)[d][s])
<1>1. Entry(post.entries[r])
  BY PostFacts
<1>2. IsList(Plan(r)) /\ (Plan(r) # <<>> => post.entries[r].query = "ok")
  BY <1>1 DEF Entry, Plan
<1>3. Len(Plan(r)) \in Nat /\ DOMAIN Plan(r) = 1 .. Len(Plan(r))
  BY <1>2, ListIs
<1>4. Plan(r) # <<>> => Len(Plan(r)) # 0
  BY <1>2 DEF IsList
<1>5. \A d \in DOMAIN Plan(r) : \A s \in DOMAIN Plan(r)[d] : s \in Service /\ IsList(Plan(r)[d][s])
  BY <1>1 DEF Entry, Plan
<1> QED BY <1>2, <1>3, <1>4, <1>5, ListIs DEF InDepth

\* A record with the fields of a goroutine's work, each of its type.
LEMMA WorkFields ==
  ASSUME NEW w,
         DOMAIN w = {"at", "k", "toFetch", "look", "found", "taking", "todo", "reading", "fresh", "parts"},
         w = [x \in DOMAIN w |-> w[x]],
         w.at \in {"idle", "input", "extract", "clear", "marshal", "copy", "reading", "marshalAll",
                   "ok", "err"},
         w.k \in Nat, w.toFetch \in Seq(Nat), w.look \in SUBSET Keys, w.found \in SUBSET Keys,
         w.taking \in Keys \cup {<<>>}, w.todo \in SUBSET Keys,
         w.reading \in Keys \cup {<<>>}, w.fresh \in BOOLEAN, w.parts \in SUBSET Part
  PROVE  w \in WorkType
BY DEF WorkType

LEMMA FileFields ==
  ASSUME NEW d, DOMAIN d = {"read", "readers", "mixed"}, d = [x \in DOMAIN d |-> d[x]],
         d.read \in BOOLEAN, d.readers \in Nat, d.mixed \in BOOLEAN
  PROVE  d \in FileType
BY DEF FileType

LEMMA WorkHas ==
  ASSUME TypeOK, NEW r \in Indices, NEW s \in Service
  PROVE  LET w == work[<<r, s>>] IN
         /\ <<r, s>> \in DOMAIN work /\ w \in WorkType
         /\ DOMAIN w = {"at", "k", "toFetch", "look", "found", "taking", "todo", "reading", "fresh", "parts"}
         /\ w.at \in {"idle", "input", "extract", "clear", "marshal", "copy", "reading", "marshalAll",
                       "ok", "err"}
         /\ w.k \in Nat /\ w.toFetch \in Seq(Nat) /\ w.look \in SUBSET Keys /\ w.found \in SUBSET Keys
         /\ w.taking \in Keys \cup {<<>>} /\ w.todo \in SUBSET Keys
         /\ w.reading \in Keys \cup {<<>>} /\ w.fresh \in BOOLEAN /\ w.parts \in SUBSET Part
BY DEF TypeOK, WorkType

LEMMA IdleIsWork == Idle \in WorkType /\ Idle.at = "idle"
<1>1. <<>> \in Seq(Nat)
  OBVIOUS
<1> QED BY <1>1 DEF Idle, WorkType

LEMMA ReadingFinite ==
  ASSUME TypeOK, NEW f
  PROVE  IsFiniteSet(Reading(f)) /\ Reading(f) \subseteq Indices \X Service
<1>1. IsFiniteSet(Indices \X Service)
  BY PostFacts, ServiceAssumption, FS_Product DEF TypeOK
<1>2. Reading(f) \in SUBSET (Indices \X Service)
  BY DEF TypeOK, Reading
<1> QED BY <1>1, <1>2, FS_Subset

-----------------------------------------------------------------------------
LEMMA InitServeInv == Init => ServeInv
<1> SUFFICES ASSUME Init PROVE ServeInv
  OBVIOUS
<1>1. post \in Post
  BY DEF Init
<1>2. /\ work = [g \in Indices \X Service |-> Idle]
      /\ request = [r \in Indices |-> [at |-> "start", depth |-> 0, result |-> NoResult]]
      /\ file = [f \in File |-> [read |-> FALSE, readers |-> 0, mixed |-> FALSE]]
      /\ results = [r \in Indices |-> NoResult]
      /\ vars = [r \in Indices |-> post.entries[r].variables]
      /\ parsed = vars /\ sent = {} /\ stage = "parse" /\ toInject = DOMAIN post.map
  BY DEF Init
<1>3. NoResult \in ResultType
  BY DEF NoResult, ResultType
<1>4. request \in [Indices -> RequestType]
  BY <1>2, <1>3 DEF RequestType
<1>5. work \in [Indices \X Service -> WorkType]
  BY <1>2, IdleIsWork
<1>6. file \in [File -> FileType]
  BY <1>2 DEF FileType
<1>7. TypeOK
  BY <1>1, <1>2, <1>3, <1>4, <1>5, <1>6 DEF TypeOK
<1>8. Taken
  BY <1>2 DEF Taken
<1>9. ASSUME NEW r \in Indices PROVE RequestInv(r)
  <2>1. request[r].at = "start" /\ request[r].depth = 0
    BY <1>2
  <2>2. \A s \in Service : work[<<r, s>>].at = "idle"
    BY <1>2, IdleIsWork
  <2>3. Len(Plan(r)) \in Nat
    BY <1>1, PlanFacts
  <2> QED BY <2>1, <2>2, <2>3 DEF RequestInv
<1>10. ASSUME NEW r \in Indices, NEW s \in Service PROVE GroupInv(r, s, work[<<r, s>>])
  BY <1>2, IdleIsWork DEF GroupInv, Idle
<1>11. ASSUME NEW f \in File PROVE file[f].readers = Cardinality(Reading(f))
  <2>1. Reading(f) = {}
    BY <1>2, IdleIsWork DEF Reading
  <2> QED BY <1>2, <2>1, FS_EmptySet
<1> QED BY <1>2, <1>7, <1>8, <1>9, <1>10, <1>11 DEF ServeInv
-----------------------------------------------------------------------------
\* Steps of the goroutine of request r and service s.

\* While nothing is placed any more, what depends on the post and on the parsed
\* variables stays the same.
LEMMA SamePost ==
  ASSUME UNCHANGED <<post, parsed>>
  PROVE  /\ Indices' = Indices /\ Keys' = Keys /\ Part' = Part /\ WorkType' = WorkType
         /\ \A r : Plan(r)' = Plan(r) /\ FilesIn(r)' = FilesIn(r)
         /\ \A r, d : InDepth(r, d)' = InDepth(r, d)
         /\ \A r, input : GetVariables(r, input)' = GetVariables(r, input)
BY DEF Indices, Keys, Part, WorkType, Plan, FilesIn, InDepth, GetVariables, Given

LEMMA GroupStep ==
  ASSUME ServeInv, stage = "serve", stage' \in {"serve", "crashed"},
         NEW r \in Indices, NEW s \in Service, NEW w \in WorkType,
         work' = [work EXCEPT ![<<r, s>>] = w],
         request[r].at = "depth",
         UNCHANGED <<parseVars, request, response, results>>,
         GroupInv(r, s, w),
         DOMAIN vars' = Indices, Taken',
         file' \in [File -> FileType],
         \A f \in File : file'[f].readers = Cardinality(Reading(f)'),
         \A i \in sent' : SentInv(i)
  PROVE  ServeInv'
<1>1. TypeOK /\ UNCHANGED <<post, toInject, parsed>>
  BY DEF ServeInv, parseVars
<1>2. /\ Indices' = Indices /\ Keys' = Keys /\ Part' = Part /\ WorkType' = WorkType
      /\ \A q : Plan(q)' = Plan(q) /\ FilesIn(q)' = FilesIn(q)
      /\ \A q, d : InDepth(q, d)' = InDepth(q, d)
      /\ \A q, input : GetVariables(q, input)' = GetVariables(q, input)
  BY <1>1, SamePost
<1>3. work' \in [Indices \X Service -> WorkType]
  BY <1>1 DEF TypeOK
<1>4. TypeOK'
  BY <1>1, <1>2, <1>3 DEF TypeOK
<1>5. ASSUME NEW q \in Indices, NEW t \in Service
      PROVE  work'[<<q, t>>] = IF q = r /\ t = s THEN w ELSE work[<<q, t>>]
  BY <1>1 DEF TypeOK
<1>6. ASSUME NEW q \in Indices PROVE RequestInv(q)'
  <2>1. RequestInv(q)
    BY DEF ServeInv
  <2>2. CASE q = r
    <3>1. Plan(r)' = Plan(r) /\ post' = post
      BY <1>1, <1>2
    <3> QED BY <2>1, <2>2, <3>1 DEF RequestInv
  <2>3. CASE q # r
    <3>1. \A t \in Service : work'[<<q, t>>] = work[<<q, t>>]
      BY <1>5, <2>3
    <3>2. Failed(q)' <=> Failed(q)
      BY <1>1, <3>1 DEF Failed
    <3>3. Plan(q)' = Plan(q)
      BY <1>2
    <3> QED BY <1>1, <2>1, <3>1, <3>2, <3>3 DEF RequestInv
  <2> QED BY <2>2, <2>3
<1>7. ASSUME NEW q \in Indices, NEW t \in Service PROVE GroupInv(q, t, work[<<q, t>>])'
  <2>1. GroupInv(q, t, work[<<q, t>>])
    BY DEF ServeInv
  <2>2. InputsOf(q, t)' = InputsOf(q, t)
    BY <1>1, <1>2 DEF InputsOf
  <2>3. \A x : GroupInv(q, t, x) => GroupInv(q, t, x)'
    BY <1>2, <2>2 DEF GroupInv
  <2>4. CASE q = r /\ t = s
    BY <1>5, <2>3, <2>4 DEF GroupInv
  <2>5. CASE ~(q = r /\ t = s)
    <3>1. work'[<<q, t>>] = work[<<q, t>>]
      BY <1>5, <2>5
    <3> QED BY <2>1, <2>3, <3>1 DEF GroupInv
  <2> QED BY <2>4, <2>5
<1>8. \A i \in sent' : SentInv(i)'
  BY <1>2 DEF SentInv
<1> QED BY <1>2, <1>4, <1>6, <1>7, <1>8 DEF ServeInv

\* What holds of a goroutine at work.
LEMMA Working ==
  ASSUME ServeInv, NEW r \in Indices, NEW s \in Service,
         work[<<r, s>>].at \notin {"idle", "ok", "err"}
  PROVE  /\ request[r].at = "depth"
         /\ request[r].depth \in DOMAIN Plan(r) /\ s \in InDepth(r, request[r].depth)
         /\ Len(InputsOf(r, s)) \in Nat /\ DOMAIN InputsOf(r, s) = 1 .. Len(InputsOf(r, s))
         /\ work[<<r, s>>].k \in 1 .. Len(InputsOf(r, s)) + 1
         /\ Range(work[<<r, s>>].toFetch) \subseteq 1 .. Len(InputsOf(r, s))
         /\ work[<<r, s>>].look \subseteq FilesIn(r)
         /\ work[<<r, s>>].found \subseteq FilesIn(r) /\ work[<<r, s>>].todo \subseteq FilesIn(r)
<1>1. post \in Post /\ GroupInv(r, s, work[<<r, s>>])
  BY DEF ServeInv, TypeOK
<1>2. /\ request[r].at = "depth"
      /\ request[r].depth \in DOMAIN Plan(r) /\ s \in InDepth(r, request[r].depth)
      /\ work[<<r, s>>].k \in 1 .. Len(InputsOf(r, s)) + 1
      /\ Range(work[<<r, s>>].toFetch) \subseteq 1 .. Len(InputsOf(r, s))
      /\ work[<<r, s>>].look \subseteq FilesIn(r)
      /\ work[<<r, s>>].found \subseteq FilesIn(r) /\ work[<<r, s>>].todo \subseteq FilesIn(r)
  BY <1>1 DEF GroupInv
<1>3. Len(InputsOf(r, s)) \in Nat /\ DOMAIN InputsOf(r, s) = 1 .. Len(InputsOf(r, s))
  BY <1>1, <1>2, PlanFacts DEF InputsOf
<1> QED BY <1>2, <1>3

LEMMA FilesInKeys ==
  ASSUME NEW r \in Indices
  PROVE  FilesIn(r) \subseteq Keys /\ \A p \in FilesIn(r) : parsed[r][p] \in File
BY DEF FilesIn, Keys

LEMMA ReadingSame ==
  ASSUME TypeOK, NEW r \in Indices, NEW s \in Service, NEW w,
         work' = [work EXCEPT ![<<r, s>>] = w], parsed' = parsed,
         work[<<r, s>>].at # "reading", w.at # "reading"
  PROVE  \A f : Reading(f)' = Reading(f)
<1>1. DOMAIN work' = DOMAIN work /\ \A g \in DOMAIN work : work'[g] = IF g = <<r, s>> THEN w ELSE work[g]
  BY DEF TypeOK
<1>2. ASSUME NEW f PROVE Reading(f)' \subseteq Reading(f) /\ Reading(f) \subseteq Reading(f)'
  <2>1. ASSUME NEW g \in DOMAIN work PROVE g \in Reading(f)' <=> g \in Reading(f)
    <3>1. CASE g = <<r, s>>
      BY <1>1, <3>1 DEF Reading
    <3>2. CASE g # <<r, s>>
      BY <1>1, <3>2 DEF Reading
    <3> QED BY <3>1, <3>2
  <2>2. Reading(f)' \subseteq DOMAIN work /\ Reading(f) \subseteq DOMAIN work
    BY <1>1 DEF Reading
  <2> QED BY <2>1, <2>2
<1> SUFFICES ASSUME NEW f PROVE Reading(f)' = Reading(f)
  OBVIOUS
<1> DEFINE A == Reading(f)'
           B == Reading(f)
<1>3. A \subseteq B /\ B \subseteq A
  BY <1>2
<1>4. A = B
  <2> HIDE DEF A, B
  <2> QED BY <1>3
<1> QED BY <1>4

\* A step that reads no file and takes none out of the variables.
LEMMA QuietStep ==
  ASSUME ServeInv, stage = "serve", stage' \in {"serve", "crashed"},
         NEW r \in Indices, NEW s \in Service, NEW w \in WorkType,
         work' = [work EXCEPT ![<<r, s>>] = w],
         work[<<r, s>>].at \notin {"idle", "ok", "err", "reading"}, w.at # "reading",
         UNCHANGED <<parseVars, vars, file, request, response, results>>,
         GroupInv(r, s, w),
         \A i \in sent' : SentInv(i)
  PROVE  ServeInv'
<1>1. TypeOK /\ UNCHANGED <<post, parsed, vars>>
  BY DEF ServeInv, parseVars
<1>2. request[r].at = "depth"
  BY Working
<1>3. \A f \in File : Reading(f)' = Reading(f)
  BY <1>1, ReadingSame
<1>4. file' \in [File -> FileType] /\ \A f \in File : file'[f].readers = Cardinality(Reading(f)')
  BY <1>1, <1>3 DEF ServeInv, TypeOK
<1>5. Taken' /\ DOMAIN vars' = Indices
  BY <1>1 DEF ServeInv, TypeOK, Taken, Indices, FilesIn
<1> QED BY <1>2, <1>4, <1>5, GroupStep

LEMMA UnchangedMeans ==
  ASSUME Unchanged
  PROVE  UNCHANGED <<parseVars, vars, file, response>>
BY DEF Unchanged

LEMMA GotoKeeps ==
  ASSUME ServeInv, stage = "serve", NEW r \in Indices, NEW s \in Service, NEW at,
         Goto(<<r, s>>, at),
         at \in {"ok", "err", "marshalAll"},
         work[<<r, s>>].at \notin {"idle", "ok", "err", "extract", "clear", "reading"},
         Unchanged, UNCHANGED <<stage, request, results>>,
         \A i \in sent' : SentInv(i)
  PROVE  ServeInv'
<1> DEFINE g == <<r, s>>
           w == [work[g] EXCEPT !.at = at]
<1>1. TypeOK /\ GroupInv(r, s, work[g])
  BY DEF ServeInv
<1>2. work[g] \in WorkType /\ g \in DOMAIN work
  BY <1>1, WorkHas
<1>3. work' = [work EXCEPT ![g] = w]
  BY <1>2 DEF Goto
<1>4. w \in WorkType
  BY <1>2 DEF WorkType
<1>5. /\ w.at = at /\ w.k = work[g].k /\ w.toFetch = work[g].toFetch
      /\ w.look = work[g].look /\ w.taking = work[g].taking
      /\ w.found = work[g].found /\ w.todo = work[g].todo
  BY <1>2 DEF WorkType
<1> HIDE DEF w
<1>6. GroupInv(r, s, w)
  <2>1. work[g].look = {}
    BY <1>1 DEF GroupInv
  <2>2. w.look = {}
    BY <1>5, <2>1
  <2> QED BY <1>1, <1>5, <2>2, Working DEF GroupInv
<1>7. w.at # "reading"
  BY <1>5
<1>8. stage' = "serve" /\ UNCHANGED <<parseVars, vars, file, request, response, results>>
  BY UnchangedMeans
<1> QED BY <1>3, <1>4, <1>6, <1>7, <1>8, QuietStep

LEMMA BeginExtractKeeps ==
  ASSUME ServeInv, stage = "serve", NEW r \in Indices, NEW s \in Service, BeginExtract(r, s)
  PROVE  ServeInv'
<1> DEFINE g == <<r, s>>
           places == PlacesToLook(r, Input(r, s))
           w == [work[g] EXCEPT !.at = "extract", !.found = {}, !.look = places]
<1>1. /\ work[g].at = "input" /\ work[g].k <= Len(InputsOf(r, s))
      /\ Unchanged /\ UNCHANGED <<stage, request, sent, results>>
  BY DEF BeginExtract
<1>2. TypeOK /\ GroupInv(r, s, work[g])
  BY DEF ServeInv
<1>3. work[g] \in WorkType /\ g \in DOMAIN work
  BY <1>2, WorkHas
<1>4. work' = [work EXCEPT ![g] = w]
  <2> HIDE DEF places
  <2> QED BY <1>3 DEF BeginExtract, places
<1>5. places \in SUBSET Keys /\ places \subseteq FilesIn(r)
  BY FilesInKeys DEF PlacesToLook
<1> HIDE DEF places
<1>6. /\ w.at = "extract" /\ w.k = work[g].k /\ w.toFetch = work[g].toFetch
      /\ w.look = places /\ w.taking = work[g].taking
      /\ w.found = {} /\ w.todo = work[g].todo /\ w.reading = work[g].reading
      /\ w.fresh = work[g].fresh /\ w.parts = work[g].parts
      /\ DOMAIN w = {"at", "k", "toFetch", "look", "found", "taking", "todo", "reading", "fresh", "parts"}
      /\ w = [x \in DOMAIN w |-> w[x]]
  BY <1>3 DEF WorkType
<1> HIDE DEF w
<1>7. w \in WorkType
  BY <1>2, <1>5, <1>6, WorkHas, WorkFields
<1>8. GroupInv(r, s, w) /\ w.at # "reading"
  BY <1>1, <1>2, <1>5, <1>6, Working DEF GroupInv
<1>9. stage' = "serve" /\ UNCHANGED <<parseVars, vars, file, request, response, results>> /\ sent' = sent
  BY <1>1, UnchangedMeans
<1>10. \A i \in sent' : SentInv(i)
  BY <1>9 DEF ServeInv
<1> QED BY <1>1, <1>4, <1>7, <1>8, <1>9, <1>10, QuietStep

\* The work of a goroutine that has come by one more place.
ExtractTo(r, s, w) ==
  LET v == work[<<r, s>>] IN
  /\ work' = [work EXCEPT ![<<r, s>>] = w]
  /\ \E p \in v.look :
       /\ w.look = v.look \ {p}
       /\ \/ /\ vars[r][p] \notin File
             /\ w.at = "extract" /\ w.found = v.found /\ w.taking = v.taking
          \/ /\ vars[r][p] \in File /\ Len(p) = 1
             /\ w.at = "extract" /\ w.found = v.found \cup {p} /\ w.taking = v.taking
          \/ /\ vars[r][p] \in File /\ Len(p) > 1
             /\ w.at = "clear" /\ w.found = v.found \cup {p} /\ w.taking = p
  /\ w.k = v.k /\ w.toFetch = v.toFetch /\ w.todo = v.todo /\ w.reading = v.reading
  /\ w.fresh = v.fresh /\ w.parts = v.parts
  /\ DOMAIN w = {"at", "k", "toFetch", "look", "found", "taking", "todo", "reading", "fresh", "parts"}
  /\ w = [x \in DOMAIN w |-> w[x]]

LEMMA ExtractIs ==
  ASSUME TypeOK, NEW r \in Indices, NEW s \in Service, Extract(r, s)
  PROVE  \E w : ExtractTo(r, s, w)
<1> DEFINE g == <<r, s>>
<1>1. work[g] \in WorkType /\ g \in DOMAIN work /\ work[g].at = "extract"
  BY WorkHas DEF Extract
<1>2. PICK p \in work[g].look :
        \/ vars[r][p] \notin File /\ work' = [work EXCEPT ![g].look = @ \ {p}]
        \/ /\ vars[r][p] \in File /\ Len(p) = 1
           /\ work' = [work EXCEPT ![g].look = @ \ {p}, ![g].found = @ \cup {p}]
        \/ /\ vars[r][p] \in File /\ Len(p) > 1
           /\ work' = [work EXCEPT ![g].at = "clear", ![g].look = @ \ {p}, ![g].taking = p,
                                   ![g].found = @ \cup {p}]
  BY DEF Extract
<1> DEFINE left == work[g].look \ {p}
           more == work[g].found \cup {p}
<1>3. CASE vars[r][p] \notin File /\ work' = [work EXCEPT ![g].look = @ \ {p}]
  <2> DEFINE w == [work[g] EXCEPT !.look = left]
  <2> HIDE DEF left
  <2>1. work' = [work EXCEPT ![g] = w]
    BY <1>1, <1>3 DEF left
  <2>2. /\ w.at = "extract" /\ w.look = left /\ w.found = work[g].found /\ w.taking = work[g].taking
        /\ w.k = work[g].k /\ w.toFetch = work[g].toFetch /\ w.todo = work[g].todo
        /\ w.reading = work[g].reading /\ w.fresh = work[g].fresh /\ w.parts = work[g].parts
        /\ DOMAIN w = {"at", "k", "toFetch", "look", "found", "taking", "todo", "reading", "fresh", "parts"}
        /\ w = [x \in DOMAIN w |-> w[x]]
    BY <1>1 DEF WorkType
  <2> HIDE DEF w
  <2>3. ExtractTo(r, s, w)
    BY <1>3, <2>1, <2>2 DEF ExtractTo, left
  <2> QED BY <2>3
<1>4. CASE /\ vars[r][p] \in File /\ Len(p) = 1
           /\ work' = [work EXCEPT ![g].look = @ \ {p}, ![g].found = @ \cup {p}]
  <2> DEFINE w == [work[g] EXCEPT !.look = left, !.found = more]
  <2> HIDE DEF left, more
  <2>1. work' = [work EXCEPT ![g] = w]
    BY <1>1, <1>4 DEF left, more
  <2>2. /\ w.at = "extract" /\ w.look = left /\ w.found = more /\ w.taking = work[g].taking
        /\ w.k = work[g].k /\ w.toFetch = work[g].toFetch /\ w.todo = work[g].todo
        /\ w.reading = work[g].reading /\ w.fresh = work[g].fresh /\ w.parts = work[g].parts
        /\ DOMAIN w = {"at", "k", "toFetch", "look", "found", "taking", "todo", "reading", "fresh", "parts"}
        /\ w = [x \in DOMAIN w |-> w[x]]
    BY <1>1 DEF WorkType
  <2> HIDE DEF w
  <2>3. ExtractTo(r, s, w)
    BY <1>4, <2>1, <2>2 DEF ExtractTo, left, more
  <2> QED BY <2>3
<1>5. CASE /\ vars[r][p] \in File /\ Len(p) > 1
           /\ work' = [work EXCEPT ![g].at = "clear", ![g].look = @ \ {p}, ![g].taking = p,
                                   ![g].found = @ \cup {p}]
  <2> DEFINE w == [work[g] EXCEPT !.at = "clear", !.look = left, !.taking = p, !.found = more]
  <2> HIDE DEF left, more
  <2>1. work' = [work EXCEPT ![g] = w]
    BY <1>1, <1>5 DEF left, more
  <2>2. /\ w.at = "clear" /\ w.look = left /\ w.found = more /\ w.taking = p
        /\ w.k = work[g].k /\ w.toFetch = work[g].toFetch /\ w.todo = work[g].todo
        /\ w.reading = work[g].reading /\ w.fresh = work[g].fresh /\ w.parts = work[g].parts
        /\ DOMAIN w = {"at", "k", "toFetch", "look", "found", "taking", "todo", "reading", "fresh", "parts"}
        /\ w = [x \in DOMAIN w |-> w[x]]
    BY <1>1 DEF WorkType
  <2> HIDE DEF w
  <2>3. ExtractTo(r, s, w)
    BY <1>5, <2>1, <2>2 DEF ExtractTo, left, more
  <2> QED BY <2>3
<1> QED BY <1>2, <1>3, <1>4, <1>5

LEMMA ExtractKeeps ==
  ASSUME ServeInv, stage = "serve", NEW r \in Indices, NEW s \in Service, Extract(r, s)
  PROVE  ServeInv'
<1> DEFINE g == <<r, s>>
<1>1. /\ work[g].at = "extract"
      /\ Unchanged /\ UNCHANGED <<stage, request, sent, results>>
  BY DEF Extract
<1>2. TypeOK /\ GroupInv(r, s, work[g])
  BY DEF ServeInv
<1>3. work[g] \in WorkType /\ g \in DOMAIN work
  BY <1>2, WorkHas
<1>4. PICK w : ExtractTo(r, s, w)
  BY <1>2, ExtractIs
<1>5. work' = [work EXCEPT ![g] = w]
  BY <1>4 DEF ExtractTo
<1>6. /\ w.at \in {"extract", "clear"} /\ w.k = work[g].k /\ w.toFetch = work[g].toFetch
      /\ w.look \subseteq work[g].look /\ w.found \subseteq work[g].found \cup work[g].look
      /\ w.at = "clear" => w.taking \in w.found /\ Len(w.taking) > 1
      /\ w.taking \in work[g].look \cup {work[g].taking}
      /\ w.todo = work[g].todo /\ w.reading = work[g].reading
      /\ w.fresh = work[g].fresh /\ w.parts = work[g].parts
      /\ DOMAIN w = {"at", "k", "toFetch", "look", "found", "taking", "todo", "reading", "fresh", "parts"}
      /\ w = [x \in DOMAIN w |-> w[x]]
  BY <1>4 DEF ExtractTo
<1>7. w \in WorkType
  <2>1. /\ w.look \in SUBSET Keys /\ w.found \in SUBSET Keys /\ w.taking \in Keys \cup {<<>>}
        /\ w.at \in {"idle", "input", "extract", "clear", "marshal", "copy", "reading", "marshalAll",
                      "ok", "err"}
    BY <1>2, <1>6, WorkHas
  <2> QED BY <1>2, <1>6, <2>1, WorkHas, WorkFields
<1>8. GroupInv(r, s, w) /\ w.at # "reading"
  BY <1>1, <1>2, <1>6, Working DEF GroupInv
<1>9. stage' = "serve" /\ UNCHANGED <<parseVars, vars, file, request, response, results>> /\ sent' = sent
  BY <1>1, UnchangedMeans
<1>10. \A i \in sent' : SentInv(i)
  BY <1>9 DEF ServeInv
<1> QED BY <1>1, <1>5, <1>7, <1>8, <1>9, <1>10, QuietStep

LEMMA MarshalKeeps ==
  ASSUME ServeInv, stage = "serve", NEW r \in Indices, NEW s \in Service, Marshal(r, s)
  PROVE  ServeInv'
<1> DEFINE g == <<r, s>>
           w == [work[g] EXCEPT !.at = "copy", !.todo = work[g].found, !.parts = {}]
<1>1. /\ work[g].at = "marshal"
      /\ Unchanged /\ UNCHANGED <<stage, request, sent, results>>
  BY DEF Marshal
<1>2. TypeOK /\ GroupInv(r, s, work[g])
  BY DEF ServeInv
<1>3. work[g] \in WorkType /\ g \in DOMAIN work
  BY <1>2, WorkHas
<1>4. work' = [work EXCEPT ![g] = w]
  BY <1>3 DEF Marshal
<1>5. /\ w.at = "copy" /\ w.k = work[g].k /\ w.toFetch = work[g].toFetch
      /\ w.look = work[g].look /\ w.taking = work[g].taking
      /\ w.found = work[g].found /\ w.todo = work[g].found /\ w.reading = work[g].reading
      /\ w.fresh = work[g].fresh /\ w.parts = {}
      /\ DOMAIN w = {"at", "k", "toFetch", "look", "found", "taking", "todo", "reading", "fresh", "parts"}
      /\ w = [x \in DOMAIN w |-> w[x]]
  BY <1>3 DEF WorkType
<1> HIDE DEF w
<1>6. w \in WorkType
  BY <1>2, <1>5, WorkHas, WorkFields
<1>7. GroupInv(r, s, w) /\ w.at # "reading"
  BY <1>1, <1>2, <1>5, Working DEF GroupInv
<1>8. stage' = "serve" /\ UNCHANGED <<parseVars, vars, file, request, response, results>> /\ sent' = sent
  BY <1>1, UnchangedMeans
<1>9. \A i \in sent' : SentInv(i)
  BY <1>8 DEF ServeInv
<1> QED BY <1>1, <1>4, <1>6, <1>7, <1>8, <1>9, QuietStep

LEMMA AppendTo ==
  ASSUME NEW q \in Seq(Nat), NEW e \in Nat
  PROVE  Append(q, e) \in Seq(Nat) /\ Range(Append(q, e)) \subseteq Range(q) \cup {e}
<1> DEFINE a == Append(q, e)
<1>1. a \in Seq(Nat) /\ Len(a) = Len(q) + 1 /\ a[Len(q) + 1] = e
      /\ (\A i \in 1 .. Len(q) : a[i] = q[i]) /\ Len(q) \in Nat
  BY AppendProperties
<1> HIDE DEF a
<1>2. Range(a) = { a[i] : i \in 1 .. Len(a) } /\ Range(q) = { q[i] : i \in 1 .. Len(q) }
  BY <1>1, RangeEquality
<1>3. ASSUME NEW i \in 1 .. Len(a) PROVE a[i] \in Range(q) \cup {e}
  <2>1. i \in 1 .. Len(q) \/ i = Len(q) + 1
    BY <1>1
  <2> QED BY <1>1, <1>2, <2>1
<1> QED BY <1>1, <1>2, <1>3 DEF a

LEMMA EndExtractKeeps ==
  ASSUME ServeInv, stage = "serve", NEW r \in Indices, NEW s \in Service, EndExtract(r, s)
  PROVE  ServeInv'
<1> DEFINE g == <<r, s>>
<1>1. /\ work[g].at = "extract" /\ work[g].look = {}
      /\ Unchanged /\ UNCHANGED <<stage, request, sent, results>>
  BY DEF EndExtract
<1>2. TypeOK /\ GroupInv(r, s, work[g])
  BY DEF ServeInv
<1>3. work[g] \in WorkType /\ g \in DOMAIN work
  BY <1>2, WorkHas
<1>4. /\ stage' = "serve" /\ UNCHANGED <<parseVars, vars, file, request, response, results>>
      /\ \A i \in sent' : SentInv(i)
  BY <1>1, UnchangedMeans DEF ServeInv
<1>5. CASE work[g].found = {}
  <2> DEFINE w == [work[g] EXCEPT !.at = "input", !.k = work[g].k + 1,
                                  !.toFetch = Append(work[g].toFetch, work[g].k)]
  <2>1. work' = [work EXCEPT ![g] = w]
    BY <1>3, <1>5 DEF EndExtract
  <2>2. work[g].k \in Nat /\ work[g].toFetch \in Seq(Nat)
    BY <1>2, WorkHas
  <2>3. /\ Append(work[g].toFetch, work[g].k) \in Seq(Nat)
        /\ Range(Append(work[g].toFetch, work[g].k)) \subseteq Range(work[g].toFetch) \cup {work[g].k}
    BY <2>2, AppendTo
  <2>4. /\ w.at = "input" /\ w.k = work[g].k + 1 /\ w.toFetch = Append(work[g].toFetch, work[g].k)
        /\ w.look = work[g].look /\ w.taking = work[g].taking
        /\ w.found = work[g].found /\ w.todo = work[g].todo /\ w.reading = work[g].reading
        /\ w.fresh = work[g].fresh /\ w.parts = work[g].parts
        /\ DOMAIN w = {"at", "k", "toFetch", "look", "found", "taking", "todo", "reading", "fresh", "parts"}
        /\ w = [x \in DOMAIN w |-> w[x]]
    BY <1>3 DEF WorkType
  <2> HIDE DEF w
  <2>5. w \in WorkType
    <3>1. w.k \in Nat /\ w.toFetch \in Seq(Nat)
      BY <2>2, <2>3, <2>4
    <3>2. /\ w.look \in SUBSET Keys /\ w.taking \in Keys \cup {<<>>}
          /\ w.found \in SUBSET Keys /\ w.todo \in SUBSET Keys /\ w.reading \in Keys \cup {<<>>}
          /\ w.fresh \in BOOLEAN /\ w.parts \in SUBSET Part
      BY <1>2, <2>4, WorkHas
    <3> QED BY <2>4, <3>1, <3>2, WorkFields
  <2>6. w.k \in 1 .. Len(InputsOf(r, s)) + 1 /\ work[g].k \in 1 .. Len(InputsOf(r, s))
    <3> DEFINE n == Len(InputsOf(r, s))
               k == work[g].k
    <3>1. n \in Nat /\ k \in 1 .. n + 1
      BY <1>1, Working
    <3>2. k <= n
      BY <1>1, <1>2 DEF GroupInv
    <3> HIDE DEF n, k
    <3>3. k + 1 \in 1 .. n + 1 /\ k \in 1 .. n
      BY <3>1, <3>2
    <3> QED BY <2>4, <3>3 DEF n, k
  <2>7. GroupInv(r, s, w)
    BY <1>1, <1>2, <2>3, <2>4, <2>6, Working DEF GroupInv
  <2>8. w.at # "reading"
    BY <2>4
  <2> QED BY <1>1, <1>4, <2>1, <2>5, <2>7, <2>8, QuietStep
<1>6. CASE work[g].found # {}
  <2> DEFINE w == [work[g] EXCEPT !.at = "marshal"]
  <2>1. work' = [work EXCEPT ![g] = w]
    BY <1>3, <1>6 DEF EndExtract
  <2>2. w \in WorkType
    BY <1>3 DEF WorkType
  <2>3. /\ w.at = "marshal" /\ w.k = work[g].k /\ w.toFetch = work[g].toFetch
        /\ w.look = work[g].look /\ w.taking = work[g].taking
        /\ w.found = work[g].found /\ w.todo = work[g].todo
    BY <1>3 DEF WorkType
  <2> HIDE DEF w
  <2>4. GroupInv(r, s, w)
    BY <1>1, <1>2, <2>3, Working DEF GroupInv
  <2>5. w.at # "reading"
    BY <2>3
  <2> QED BY <1>1, <1>4, <2>1, <2>2, <2>4, <2>5, QuietStep
<1> QED BY <1>5, <1>6

LEMMA ClearKeeps ==
  ASSUME ServeInv, stage = "serve", NEW r \in Indices, NEW s \in Service, Clear(r, s)
  PROVE  ServeInv'
<1> DEFINE g == <<r, s>>
           taking == work[g].taking
           tree == [vars[r] EXCEPT ![taking] = "null"]
           w == [work[g] EXCEPT !.at = "extract"]
<1>1. /\ work[g].at = "clear"
      /\ vars' = [vars EXCEPT ![r][taking] = "null"]
      /\ UNCHANGED <<parseVars, file, response, stage, request, sent, results>>
  BY DEF Clear
<1>2. TypeOK /\ GroupInv(r, s, work[g]) /\ Taken /\ UNCHANGED <<post, parsed>>
  BY <1>1 DEF ServeInv, parseVars
<1>3. work[g] \in WorkType /\ g \in DOMAIN work
  BY <1>2, WorkHas
<1>4. Indices' = Indices /\ \A q : FilesIn(q)' = FilesIn(q)
  BY <1>2, SamePost
<1>5. taking \in FilesIn(r) /\ Len(taking) > 1
  BY <1>1, <1>2 DEF GroupInv
<1> HIDE DEF taking
<1>6. DOMAIN vars' = Indices /\ \A q \in Indices : vars'[q] = IF q = r THEN tree ELSE vars[q]
  BY <1>1, <1>2 DEF TypeOK
<1>7. Taken'
  <2>1. ASSUME NEW q \in Indices
        PROVE  /\ DOMAIN vars'[q] = DOMAIN parsed[q]
               /\ \A p \in DOMAIN parsed[q] : vars'[q][p] # parsed[q][p] =>
                    Len(p) > 1 /\ p \in FilesIn(q) /\ vars'[q][p] = "null"
    <3>1. CASE q # r
      BY <1>2, <1>6, <3>1 DEF Taken
    <3>2. CASE q = r
      <4>1. DOMAIN vars[r] = DOMAIN parsed[r] /\ vars'[q] = tree
        BY <1>2, <1>6, <3>2 DEF Taken
      <4>2. ASSUME NEW p \in DOMAIN parsed[r], tree[p] # parsed[r][p]
            PROVE  Len(p) > 1 /\ p \in FilesIn(r) /\ tree[p] = "null"
        <5>1. CASE p = taking
          BY <1>5, <4>1, <5>1
        <5>2. CASE p # taking
          <6>1. tree[p] = vars[r][p]
            BY <4>1, <5>2
          <6> QED BY <1>2, <4>2, <6>1 DEF Taken
        <5> QED BY <5>1, <5>2
      <4>3. DOMAIN tree = DOMAIN parsed[r]
        BY <4>1
      <4> HIDE DEF tree
      <4> QED BY <3>2, <4>1, <4>2, <4>3
    <3> QED BY <3>1, <3>2
  <2> HIDE DEF tree
  <2> QED BY <1>2, <1>4, <2>1 DEF Taken
<1>8. work' = [work EXCEPT ![g] = w]
  BY <1>3 DEF Clear, Goto
<1>9. w \in WorkType
  BY <1>3 DEF WorkType
<1>10. /\ w.at = "extract" /\ w.k = work[g].k /\ w.toFetch = work[g].toFetch
       /\ w.look = work[g].look /\ w.found = work[g].found /\ w.todo = work[g].todo
  BY <1>3 DEF WorkType
<1> HIDE DEF w, tree
<1>11. GroupInv(r, s, w)
  BY <1>1, <1>2, <1>10, Working DEF GroupInv
<1>12. \A f \in File : Reading(f)' = Reading(f)
  BY <1>1, <1>2, <1>8, <1>10, ReadingSame
<1>13. file' \in [File -> FileType] /\ \A f \in File : file'[f].readers = Cardinality(Reading(f)')
  BY <1>1, <1>12 DEF ServeInv, TypeOK
<1>14. request[r].at = "depth" /\ stage' = "serve" /\ \A i \in sent' : SentInv(i)
  BY <1>1, Working DEF ServeInv
<1>15. UNCHANGED <<parseVars, request, response, results>>
  BY <1>1
<1> HIDE DEF g
<1> QED BY <1>6, <1>7, <1>8, <1>9, <1>11, <1>13, <1>14, <1>15, GroupStep DEF g

LEMMA CollideKeeps ==
  ASSUME ServeInv, stage = "serve", NEW r \in Indices, NEW s \in Service, Collide(r, s)
  PROVE  ServeInv'
<1> DEFINE g == <<r, s>>
<1>1. /\ work[g].at = "clear" /\ stage' = "crashed"
      /\ Unchanged /\ UNCHANGED <<request, work, sent, results>>
  BY DEF Collide
<1>2. TypeOK /\ GroupInv(r, s, work[g])
  BY DEF ServeInv
<1>3. work[g] \in WorkType /\ g \in DOMAIN work
  BY <1>2, WorkHas
<1>4. work' = [work EXCEPT ![g] = work[g]]
  BY <1>1, <1>2 DEF TypeOK
<1>5. UNCHANGED <<parseVars, vars, file, request, response, results>> /\ sent' = sent
  BY <1>1, UnchangedMeans
<1>6. \A i \in sent' : SentInv(i)
  BY <1>5 DEF ServeInv
<1> QED BY <1>1, <1>2, <1>3, <1>4, <1>5, <1>6, QuietStep

\* How the set of a file's readers changes when a goroutine's work becomes w.
LEMMA ReadingMoves ==
  ASSUME TypeOK, NEW r \in Indices, NEW s \in Service, NEW w,
         work' = [work EXCEPT ![<<r, s>>] = w], parsed' = parsed, NEW f
  PROVE  /\ w.at = "reading" /\ parsed[r][w.reading] = f => Reading(f)' = Reading(f) \cup {<<r, s>>}
         /\ ~(w.at = "reading" /\ parsed[r][w.reading] = f) => Reading(f)' = Reading(f) \ {<<r, s>>}
<1> DEFINE g == <<r, s>>
           A == Reading(f)'
           B == Reading(f)
           Reads == w.at = "reading" /\ parsed[r][w.reading] = f
<1>1. /\ DOMAIN work' = DOMAIN work /\ g \in DOMAIN work
      /\ \A h \in DOMAIN work : work'[h] = IF h = g THEN w ELSE work[h]
  BY DEF TypeOK
<1>2. ASSUME NEW h \in DOMAIN work, h # g PROVE h \in A <=> h \in B
  BY <1>1, <1>2 DEF Reading
<1>3. g \in A <=> Reads
  <2>1. work'[g] = w /\ g \in DOMAIN work' /\ g[1] = r
    BY <1>1
  <2> QED BY <2>1 DEF Reading
<1>4. A \subseteq DOMAIN work /\ B \subseteq DOMAIN work
  BY <1>1 DEF Reading
<1> HIDE DEF A, B, g
<1>5. Reads => A = B \cup {g}
  BY <1>1, <1>2, <1>3, <1>4
<1>6. ~Reads => A = B \ {g}
  BY <1>1, <1>2, <1>3, <1>4
<1> QED BY <1>5, <1>6 DEF A, B, g

LEMMA BeginCopyKeeps ==
  ASSUME ServeInv, stage = "serve", NEW r \in Indices, NEW s \in Service, BeginCopy(r, s)
  PROVE  ServeInv'
<1> DEFINE g == <<r, s>>
<1>1. /\ work[g].at = "copy"
      /\ UNCHANGED <<parseVars, vars, response, stage, request, sent, results>>
  BY DEF BeginCopy
<1>2. PICK p \in work[g].todo :
        /\ work' = [work EXCEPT ![g].at = "reading", ![g].reading = p,
                      ![g].todo = @ \ {p}, ![g].fresh = ~file[parsed[r][p]].read]
        /\ file' = [file EXCEPT ![parsed[r][p]].read = TRUE, ![parsed[r][p]].readers = @ + 1,
                      ![parsed[r][p]].mixed = @ \/ file[parsed[r][p]].readers > 0]
  BY DEF BeginCopy
<1>3. TypeOK /\ GroupInv(r, s, work[g]) /\ Taken /\ UNCHANGED <<post, parsed, vars>>
  BY <1>1 DEF ServeInv, parseVars
<1>4. work[g] \in WorkType /\ g \in DOMAIN work
  BY <1>3, WorkHas
<1> DEFINE f == parsed[r][p]
           w == [work[g] EXCEPT !.at = "reading", !.reading = p,
                                !.todo = work[g].todo \ {p}, !.fresh = ~file[f].read]
           c == [file[f] EXCEPT !.read = TRUE, !.readers = file[f].readers + 1,
                                !.mixed = file[f].mixed \/ file[f].readers > 0]
<1>5. p \in FilesIn(r) /\ p \in Keys /\ f \in File /\ f \in DOMAIN file
  BY <1>1, <1>3, Working, FilesInKeys DEF TypeOK
<1>6. work' = [work EXCEPT ![g] = w]
  <2> HIDE DEF f
  <2> QED BY <1>2, <1>4 DEF f
<1>7. file' = [file EXCEPT ![f] = c]
  BY <1>2, <1>5
<1>8. file[f] \in FileType /\ file[f].read \in BOOLEAN /\ file[f].readers \in Nat
  BY <1>3, <1>5 DEF TypeOK, FileType
<1> HIDE DEF f
<1>9. c \in FileType /\ c.readers = file[f].readers + 1
  <2> DEFINE mixed == file[f].mixed \/ file[f].readers > 0
             d == [file[f] EXCEPT !.read = TRUE, !.readers = file[f].readers + 1, !.mixed = mixed]
  <2>1. mixed \in BOOLEAN /\ c = d
    OBVIOUS
  <2> HIDE DEF mixed
  <2>2. /\ DOMAIN d = {"read", "readers", "mixed"} /\ d = [y \in DOMAIN d |-> d[y]]
        /\ d.read = TRUE /\ d.readers = file[f].readers + 1 /\ d.mixed = mixed
    BY <1>8 DEF FileType
  <2> HIDE DEF d, c
  <2>3. d \in FileType
    <3>1. d.readers \in Nat
      BY <1>8, <2>2
    <3>2. d.mixed \in BOOLEAN
      BY <2>1, <2>2, Zenon
    <3>3. d.read \in BOOLEAN
      BY <2>2, Zenon
    <3> QED BY <2>2, <3>1, <3>2, <3>3, FileFields
  <2> QED BY <2>1, <2>2, <2>3
<1>10. file' \in [File -> FileType] /\ \A h \in File : file'[h] = IF h = f THEN c ELSE file[h]
  <2> HIDE DEF c
  <2> QED BY <1>3, <1>5, <1>7, <1>9 DEF TypeOK
<1>11. /\ w.at = "reading" /\ w.k = work[g].k /\ w.toFetch = work[g].toFetch
       /\ w.look = work[g].look /\ w.taking = work[g].taking
       /\ w.found = work[g].found /\ w.todo = work[g].todo \ {p} /\ w.reading = p
       /\ w.fresh \in BOOLEAN /\ w.parts = work[g].parts
       /\ DOMAIN w = {"at", "k", "toFetch", "look", "found", "taking", "todo", "reading", "fresh", "parts"}
       /\ w = [x \in DOMAIN w |-> w[x]]
  BY <1>4 DEF WorkType
<1> HIDE DEF w, c
<1>12. w \in WorkType
  <2>1. w.todo \in SUBSET Keys /\ w.reading \in Keys \cup {<<>>}
    BY <1>3, <1>5, <1>11, WorkHas
  <2> QED BY <1>3, <1>11, <2>1, WorkHas, WorkFields
<1>13. GroupInv(r, s, w)
  BY <1>1, <1>3, <1>5, <1>11, Working DEF GroupInv
<1>14. ASSUME NEW h \in File PROVE file'[h].readers = Cardinality(Reading(h)')
  <2>1. /\ h = f => Reading(h)' = Reading(h) \cup {g}
        /\ h # f => Reading(h)' = Reading(h) \ {g}
    <3>1. w.at = "reading" /\ parsed[r][w.reading] = f
      BY <1>11 DEF f
    <3> QED BY <1>3, <1>6, <3>1, ReadingMoves
  <2>2. g \notin Reading(h) /\ IsFiniteSet(Reading(h))
    BY <1>1, <1>3, ReadingFinite DEF Reading
  <2>3. file[h].readers = Cardinality(Reading(h))
    BY DEF ServeInv
  <2>4. CASE h = f
    BY <1>9, <1>10, <2>1, <2>2, <2>3, <2>4, FS_AddElement
  <2>5. CASE h # f
    <3>1. Reading(h)' = Reading(h)
      BY <2>1, <2>2, <2>5
    <3> QED BY <1>10, <2>3, <2>5, <3>1
  <2> QED BY <2>4, <2>5
<1>15. Taken' /\ DOMAIN vars' = Indices
  BY <1>3 DEF TypeOK, Taken, Indices, FilesIn
<1>16. request[r].at = "depth" /\ stage' = "serve" /\ \A i \in sent' : SentInv(i)
  BY <1>1, Working DEF ServeInv
<1>17. UNCHANGED <<parseVars, request, response, results>>
  BY <1>1
<1> QED BY <1>6, <1>10, <1>12, <1>13, <1>14, <1>15, <1>16, <1>17, GroupStep

LEMMA EndCopyKeeps ==
  ASSUME ServeInv, stage = "serve", NEW r \in Indices, NEW s \in Service, EndCopy(r, s)
  PROVE  ServeInv'
<1> DEFINE g == <<r, s>>
           p == work[g].reading
           f == parsed[r][p]
<1>1. /\ work[g].at = "reading"
      /\ UNCHANGED <<parseVars, vars, response, stage, request, sent, results>>
      /\ file' = [file EXCEPT ![f].readers = @ - 1, ![f].mixed = @ /\ file[f].readers > 1]
  BY DEF EndCopy
<1>2. PICK part \in {"whole", "some", "empty"} :
        work' = [work EXCEPT ![g].at = "copy",
                   ![g].parts = @ \cup {[path |-> p, file |-> f, part |-> part]}]
  BY DEF EndCopy
<1>3. TypeOK /\ GroupInv(r, s, work[g]) /\ Taken /\ UNCHANGED <<post, parsed, vars>>
  BY <1>1 DEF ServeInv, parseVars
<1>4. work[g] \in WorkType /\ g \in DOMAIN work
  BY <1>3, WorkHas
<1> DEFINE x == [path |-> p, file |-> f, part |-> part]
           w == [work[g] EXCEPT !.at = "copy", !.parts = work[g].parts \cup {x}]
           c == [file[f] EXCEPT !.readers = file[f].readers - 1,
                                !.mixed = file[f].mixed /\ file[f].readers > 1]
<1>5. p \in FilesIn(r) /\ p \in Keys /\ f \in File /\ f \in DOMAIN file
  <2>1. p \in FilesIn(r)
    BY <1>1, <1>3 DEF GroupInv
  <2> QED BY <1>3, <2>1, FilesInKeys DEF TypeOK
<1>6. x \in Part
  BY <1>5 DEF Part
<1>7. work' = [work EXCEPT ![g] = w]
  <2> HIDE DEF x
  <2> QED BY <1>2, <1>4 DEF x
<1>8. file' = [file EXCEPT ![f] = c]
  BY <1>1, <1>5
<1>9. file[f] \in FileType /\ file[f].read \in BOOLEAN /\ file[f].readers \in Nat
  BY <1>3, <1>5 DEF TypeOK, FileType
<1>10. g \in Reading(f)
  BY <1>1, <1>4 DEF Reading
<1>11. IsFiniteSet(Reading(f)) /\ file[f].readers = Cardinality(Reading(f))
  BY <1>3, <1>5, ReadingFinite DEF ServeInv
<1>12. /\ Cardinality(Reading(f) \ {g}) = file[f].readers - 1
       /\ Cardinality(Reading(f) \ {g}) \in Nat
  <2>1. Cardinality(Reading(f) \ {g}) = Cardinality(Reading(f)) - 1 /\ IsFiniteSet(Reading(f) \ {g})
    BY <1>10, <1>11, FS_RemoveElement
  <2> QED BY <1>11, <2>1, FS_CardinalityType
<1> HIDE DEF f, p, x
<1>13. c \in FileType /\ c.readers = file[f].readers - 1
  <2>1. file[f].readers - 1 \in Nat
    BY <1>12
  <2> QED BY <1>9, <2>1 DEF FileType
<1>14. file' \in [File -> FileType] /\ \A h \in File : file'[h] = IF h = f THEN c ELSE file[h]
  <2> HIDE DEF c
  <2> QED BY <1>3, <1>5, <1>8, <1>13 DEF TypeOK
<1>15. /\ w.at = "copy" /\ w.k = work[g].k /\ w.toFetch = work[g].toFetch
       /\ w.look = work[g].look /\ w.taking = work[g].taking
       /\ w.found = work[g].found /\ w.todo = work[g].todo /\ w.reading = work[g].reading
       /\ w.fresh = work[g].fresh /\ w.parts = work[g].parts \cup {x}
       /\ DOMAIN w = {"at", "k", "toFetch", "look", "found", "taking", "todo", "reading", "fresh", "parts"}
       /\ w = [y \in DOMAIN w |-> w[y]]
  BY <1>4 DEF WorkType
<1> HIDE DEF w, c
<1>16. w \in WorkType
  <2>1. w.parts \in SUBSET Part
    BY <1>3, <1>6, <1>15, WorkHas
  <2> QED BY <1>3, <1>15, <2>1, WorkHas, WorkFields
<1>17. GroupInv(r, s, w)
  BY <1>1, <1>3, <1>15, Working DEF GroupInv
<1>18. ASSUME NEW h \in File PROVE file'[h].readers = Cardinality(Reading(h)')
  <2>1. Reading(h)' = Reading(h) \ {g}
    BY <1>3, <1>7, <1>15, ReadingMoves
  <2>2. CASE h = f
    BY <1>12, <1>13, <1>14, <2>1, <2>2
  <2>3. CASE h # f
    <3>1. g \notin Reading(h)
      BY <2>3 DEF Reading, f, p
    <3>2. Reading(h)' = Reading(h)
      BY <2>1, <3>1
    <3> QED BY <1>14, <2>3, <3>2 DEF ServeInv
  <2> QED BY <2>2, <2>3
<1>19. Taken' /\ DOMAIN vars' = Indices
  BY <1>3 DEF TypeOK, Taken, Indices, FilesIn
<1>20. request[r].at = "depth" /\ stage' = "serve" /\ \A i \in sent' : SentInv(i)
  BY <1>1, Working DEF ServeInv
<1>21. UNCHANGED <<parseVars, request, response, results>>
  BY <1>1
<1> QED BY <1>7, <1>14, <1>16, <1>17, <1>18, <1>19, <1>20, <1>21, GroupStep

LEMMA SentInputIs ==
  ASSUME ServeInv, NEW r \in Indices, NEW s \in Service,
         work[<<r, s>>].at \notin {"idle", "ok", "err"},
         NEW k \in 1 .. Len(InputsOf(r, s)), NEW parts
  PROVE  SentInv(SentInput(r, s, k, parts))
<1>1. /\ request[r].depth \in DOMAIN Plan(r) /\ s \in InDepth(r, request[r].depth)
      /\ k \in DOMAIN InputsOf(r, s)
  BY Working
<1> QED BY <1>1 DEF SentInv, SentInput, InputsOf

LEMMA SendMultipartKeeps ==
  ASSUME ServeInv, stage = "serve", NEW r \in Indices, NEW s \in Service, SendMultipart(r, s)
  PROVE  ServeInv'
<1> DEFINE g == <<r, s>>
           w == [work[g] EXCEPT !.at = "input", !.k = work[g].k + 1]
<1>1. /\ work[g].at = "copy"
      /\ sent' = sent \cup {SentInput(r, s, work[g].k, work[g].parts)}
      /\ Unchanged /\ UNCHANGED <<stage, request, results>>
  BY DEF SendMultipart
<1>2. TypeOK /\ GroupInv(r, s, work[g])
  BY DEF ServeInv
<1>3. work[g] \in WorkType /\ g \in DOMAIN work
  BY <1>2, WorkHas
<1>4. work[g].k \in 1 .. Len(InputsOf(r, s)) /\ work[g].k + 1 \in 1 .. Len(InputsOf(r, s)) + 1
  <2> DEFINE n == Len(InputsOf(r, s))
             k == work[g].k
  <2>1. n \in Nat /\ k \in 1 .. n + 1
    BY <1>1, Working
  <2>2. k <= n
    BY <1>1, <1>2 DEF GroupInv
  <2> HIDE DEF n, k
  <2>3. k + 1 \in 1 .. n + 1 /\ k \in 1 .. n
    BY <2>1, <2>2
  <2> QED BY <2>3 DEF n, k
<1>5. \A i \in sent' : SentInv(i)
  <2>1. SentInv(SentInput(r, s, work[g].k, work[g].parts))
    BY <1>1, <1>4, SentInputIs
  <2> QED BY <1>1, <2>1 DEF ServeInv
<1>6. CASE Goto(g, "err")
  BY <1>1, <1>5, <1>6, GotoKeeps
<1>7. CASE work' = [work EXCEPT ![g].at = "input", ![g].k = @ + 1]
  <2>1. work' = [work EXCEPT ![g] = w]
    BY <1>3, <1>7
  <2>2. /\ w.at = "input" /\ w.k = work[g].k + 1 /\ w.toFetch = work[g].toFetch
        /\ w.look = work[g].look /\ w.taking = work[g].taking
        /\ w.found = work[g].found /\ w.todo = work[g].todo /\ w.reading = work[g].reading
        /\ w.fresh = work[g].fresh /\ w.parts = work[g].parts
        /\ DOMAIN w = {"at", "k", "toFetch", "look", "found", "taking", "todo", "reading", "fresh", "parts"}
        /\ w = [x \in DOMAIN w |-> w[x]]
    BY <1>3 DEF WorkType
  <2> HIDE DEF w
  <2>3. w \in WorkType
    <3>1. w.k \in Nat
      BY <1>4, <2>2
    <3>2. /\ w.toFetch \in Seq(Nat)
          /\ w.look \in SUBSET Keys /\ w.taking \in Keys \cup {<<>>}
          /\ w.found \in SUBSET Keys /\ w.todo \in SUBSET Keys /\ w.reading \in Keys \cup {<<>>}
          /\ w.fresh \in BOOLEAN /\ w.parts \in SUBSET Part
      BY <1>2, <2>2, WorkHas
    <3> QED BY <2>2, <3>1, <3>2, WorkFields
  <2>4. GroupInv(r, s, w)
    BY <1>1, <1>2, <1>4, <2>2, Working DEF GroupInv
  <2>5. stage' = "serve" /\ UNCHANGED <<parseVars, vars, file, request, response, results>>
    BY <1>1, UnchangedMeans
  <2>6. w.at # "reading"
    BY <2>2
  <2> QED BY <1>1, <1>5, <2>1, <2>3, <2>4, <2>5, <2>6, QuietStep
<1> QED BY <1>6, <1>7 DEF SendMultipart

LEMMA BeginFetchKeeps ==
  ASSUME ServeInv, stage = "serve", NEW r \in Indices, NEW s \in Service, BeginFetch(r, s)
  PROVE  ServeInv'
<1> DEFINE at == IF work[<<r, s>>].toFetch = <<>> THEN "ok" ELSE "marshalAll"
<1>1. /\ work[<<r, s>>].at = "input" /\ Goto(<<r, s>>, at)
      /\ Unchanged /\ UNCHANGED <<stage, request, sent, results>>
  BY DEF BeginFetch
<1>2. at \in {"ok", "err", "marshalAll"}
  OBVIOUS
<1>3. \A i \in sent' : SentInv(i)
  BY <1>1 DEF ServeInv
<1> HIDE DEF at
<1> QED BY <1>1, <1>2, <1>3, GotoKeeps

LEMMA FetchKeeps ==
  ASSUME ServeInv, stage = "serve", NEW r \in Indices, NEW s \in Service, Fetch(r, s)
  PROVE  ServeInv'
<1>1. /\ work[<<r, s>>].at = "marshalAll"
      /\ sent' = sent \cup { SentInput(r, s, k, {}) : k \in Range(work[<<r, s>>].toFetch) }
      /\ Goto(<<r, s>>, "ok") \/ Goto(<<r, s>>, "err")
      /\ Unchanged /\ UNCHANGED <<stage, request, results>>
  BY DEF Fetch
<1>2. \A i \in sent' : SentInv(i)
  <2>1. ASSUME NEW k \in Range(work[<<r, s>>].toFetch) PROVE SentInv(SentInput(r, s, k, {}))
    BY <1>1, Working, SentInputIs
  <2> QED BY <1>1, <2>1 DEF ServeInv
<1> QED BY <1>1, <1>2, GotoKeeps

LEMMA GroupKeeps ==
  ASSUME ServeInv, stage = "serve", NEW r \in Indices, NEW s \in Service, Group(r, s)
  PROVE  ServeInv'
BY BeginExtractKeeps, ExtractKeeps, ClearKeeps, EndExtractKeeps, CollideKeeps, MarshalKeeps,
   BeginCopyKeeps, EndCopyKeeps, SendMultipartKeeps, BeginFetchKeeps, FetchKeeps DEF Group
-----------------------------------------------------------------------------
\* Steps of the goroutine of request r, when none works for it.

LEMMA RequestHas ==
  ASSUME TypeOK, NEW r \in Indices
  PROVE  /\ request[r] \in RequestType /\ DOMAIN request[r] = {"at", "depth", "result"}
         /\ request[r].at \in {"start", "depth", "next", "result", "folded"}
         /\ request[r].depth \in Nat /\ request[r].result \in ResultType
BY DEF TypeOK, RequestType

LEMMA ResultIs ==
  ASSUME TypeOK, NEW r \in Indices, NEW errors \in BOOLEAN
  PROVE  /\ Result(r, errors) \in ResultType
         /\ Result(r, errors).index = r /\ Result(r, errors).by = r
         /\ Result(r, errors).errors = errors
<1>1. r \in Nat
  BY PostFacts DEF TypeOK
<1> QED BY <1>1 DEF Result, ResultType

LEMMA RequestStep ==
  ASSUME ServeInv, stage = "serve", NEW r \in Indices, NEW q \in RequestType,
         request' = [request EXCEPT ![r] = q], q.depth = request[r].depth,
         \A s \in Service : work[<<r, s>>].at \in {"idle", "ok", "err"},
         UNCHANGED <<parseVars, vars, file, response, stage, work, sent>>,
         results' \in [Indices -> ResultType],
         \A o \in Indices \ {r} : results'[o] = results[o],
         RequestInv(r)'
  PROVE  ServeInv'
<1>1. TypeOK /\ UNCHANGED <<post, toInject, parsed, vars, file, stage, work, sent>>
  BY DEF ServeInv, parseVars
<1>2. /\ Indices' = Indices /\ Keys' = Keys /\ Part' = Part /\ WorkType' = WorkType
      /\ \A o : Plan(o)' = Plan(o) /\ FilesIn(o)' = FilesIn(o)
      /\ \A o, d : InDepth(o, d)' = InDepth(o, d)
      /\ \A o, input : GetVariables(o, input)' = GetVariables(o, input)
  BY <1>1, SamePost
<1>3. /\ request' \in [Indices -> RequestType] /\ request'[r] = q
      /\ \A o \in Indices \ {r} : request'[o] = request[o]
  BY <1>1 DEF TypeOK
<1>4. TypeOK'
  BY <1>1, <1>2, <1>3 DEF TypeOK
<1>5. ASSUME NEW o \in Indices PROVE RequestInv(o)'
  <2>1. CASE o # r
    <3>1. request'[o] = request[o] /\ results'[o] = results[o]
      BY <1>3, <2>1
    <3>2. Failed(o)' <=> Failed(o)
      BY <1>1 DEF Failed
    <3>3. RequestInv(o)
      BY DEF ServeInv
    <3> QED BY <1>1, <1>2, <3>1, <3>2, <3>3 DEF RequestInv
  <2> QED BY <2>1
<1>6. ASSUME NEW o \in Indices, NEW s \in Service PROVE GroupInv(o, s, work[<<o, s>>])'
  <2>1. GroupInv(o, s, work[<<o, s>>])
    BY DEF ServeInv
  <2>2. request'[o].depth = request[o].depth
    BY <1>3
  <2>3. InputsOf(o, s)' = InputsOf(o, s)
    BY <1>2, <2>2 DEF InputsOf
  <2> DEFINE x == work[<<o, s>>]
  <2>4. x.at \notin {"idle", "ok", "err"} => request'[o].at = "depth"
    <3>1. CASE o = r
      BY <3>1
    <3>2. CASE o # r
      BY <1>3, <2>1, <3>2 DEF GroupInv
    <3> QED BY <3>1, <3>2
  <2>5. work'[<<o, s>>] = x
    BY <1>1
  <2> HIDE DEF x
  <2>6. GroupInv(o, s, x)
    BY <2>1 DEF x
  <2>7. GroupInv(o, s, x)'
    BY <1>2, <2>2, <2>3, <2>4, <2>5, <2>6 DEF GroupInv, x
  <2> QED BY <2>5, <2>7 DEF x
<1>7. Taken'
  BY <1>1, <1>2 DEF ServeInv, Taken
<1>8. ASSUME NEW f \in File PROVE file'[f].readers = Cardinality(Reading(f)')
  <2>1. Reading(f)' = Reading(f)
    BY <1>1 DEF Reading
  <2> QED BY <1>1, <2>1 DEF ServeInv
<1>9. \A i \in sent' : SentInv(i)'
  BY <1>1, <1>2 DEF ServeInv, SentInv
<1>10. stage' = "serve"
  BY <1>1
<1> QED BY <1>2, <1>4, <1>5, <1>6, <1>7, <1>8, <1>9, <1>10 DEF ServeInv

LEMMA SameResults ==
  ASSUME TypeOK, UNCHANGED results
  PROVE  results' \in [Indices -> ResultType] /\ \A o \in Indices : results'[o] = results[o]
BY DEF TypeOK

\* A request whose query is not executed has its result at once.
LEMMA AnsweredAtOnce ==
  ASSUME ServeInv, stage = "serve", NEW r \in Indices, NEW errors \in BOOLEAN,
         request[r].at = "start", post.entries[r].query # "ok",
         errors <=> post.entries[r].query # "introspection",
         request' = [request EXCEPT ![r].at = "result", ![r].result = Result(r, errors)],
         Unchanged, UNCHANGED <<stage, work, sent, results>>
  PROVE  ServeInv'
<1> DEFINE q == [request[r] EXCEPT !.at = "result", !.result = Result(r, errors)]
<1>1. TypeOK /\ RequestInv(r) /\ UNCHANGED <<parseVars, vars, file, response>>
  BY UnchangedMeans DEF ServeInv
<1>2. post' = post /\ parsed' = parsed /\ Plan(r)' = Plan(r)
  BY <1>1, SamePost DEF parseVars
<1>3. request' = [request EXCEPT ![r] = q]
  BY <1>1 DEF TypeOK
<1>4. q \in RequestType /\ q.at = "result" /\ q.depth = request[r].depth /\ q.result = Result(r, errors)
  BY <1>1, RequestHas, ResultIs DEF RequestType
<1> HIDE DEF q
<1>5. request'[r] = q
  BY <1>1, <1>3 DEF TypeOK
<1>6. \A s \in Service : work[<<r, s>>].at = "idle"
  BY <1>1 DEF RequestInv
<1>7. Failed(r)' <=> errors
  BY <1>1, <1>2, <1>6 DEF Failed
<1>8. RequestInv(r)'
  BY <1>1, <1>2, <1>4, <1>5, <1>7, ResultIs DEF RequestInv
<1>9. results' \in [Indices -> ResultType] /\ \A o \in Indices : results'[o] = results[o]
  BY <1>1, SameResults
<1>10. UNCHANGED <<parseVars, vars, file, response, stage, work, sent>>
  BY <1>1
<1>11. \A s \in Service : work[<<r, s>>].at \in {"idle", "ok", "err"}
  BY <1>6
<1> QED BY <1>3, <1>4, <1>8, <1>9, <1>10, <1>11, RequestStep

LEMMA RefuseKeeps ==
  ASSUME ServeInv, stage = "serve", NEW r \in Indices, Refuse(r)
  PROVE  ServeInv'
<1>1. /\ request[r].at = "start" /\ post.entries[r].query \in {"invalid", "nameless", "unplannable"}
      /\ request' = [request EXCEPT ![r].at = "result", ![r].result = Result(r, TRUE)]
      /\ Unchanged /\ UNCHANGED <<stage, work, sent, results>>
  BY DEF Refuse
<1> QED BY <1>1, AnsweredAtOnce

LEMMA ResolveIntrospectionKeeps ==
  ASSUME ServeInv, stage = "serve", NEW r \in Indices, ResolveIntrospection(r)
  PROVE  ServeInv'
<1>1. /\ request[r].at = "start" /\ post.entries[r].query = "introspection"
      /\ request' = [request EXCEPT ![r].at = "result", ![r].result = Result(r, FALSE)]
      /\ Unchanged /\ UNCHANGED <<stage, work, sent, results>>
  BY DEF ResolveIntrospection
<1> QED BY <1>1, AnsweredAtOnce

LEMMA FinishDepthKeeps ==
  ASSUME ServeInv, stage = "serve", NEW r \in Indices, FinishDepth(r)
  PROVE  ServeInv'
<1> DEFINE groups == { work[<<r, s>>] : s \in InDepth(r, request[r].depth) }
           failed == \E w \in groups : w.at = "err"
           at == IF ~failed /\ request[r].depth < Len(Plan(r)) THEN "next" ELSE "result"
           q == [request[r] EXCEPT !.at = at, !.result = Result(r, failed)]
<1>1. /\ request[r].at = "depth" /\ \A w \in groups : w.at \in {"ok", "err"}
      /\ request' = [request EXCEPT ![r].at = at, ![r].result = Result(r, failed)]
      /\ Unchanged /\ UNCHANGED <<stage, work, sent, results>>
  BY DEF FinishDepth
<1>2. TypeOK /\ RequestInv(r) /\ UNCHANGED <<parseVars, vars, file, response>>
  BY <1>1, UnchangedMeans DEF ServeInv
<1>3. post' = post /\ parsed' = parsed /\ Plan(r)' = Plan(r)
  BY <1>2, SamePost DEF parseVars
<1>4. \A s \in Service : work[<<r, s>>].at # "idle" => s \in InDepth(r, request[r].depth)
  BY DEF ServeInv, GroupInv
<1>5. \A s \in Service : work[<<r, s>>].at \in {"idle", "ok", "err"}
  BY <1>1, <1>4
<1>6. failed <=> \E s \in Service : work[<<r, s>>].at = "err"
  <2>1. ASSUME failed PROVE \E s \in Service : work[<<r, s>>].at = "err"
    <3>1. PICK s \in InDepth(r, request[r].depth) : work[<<r, s>>].at = "err"
      BY <2>1
    <3>2. request[r].depth \in DOMAIN Plan(r) /\ post \in Post
      BY <1>1, <1>2, PlanFacts, RequestHas DEF TypeOK, RequestInv
    <3>3. s \in Service
      BY <3>1, <3>2, PlanFacts
    <3> QED BY <3>1, <3>3
  <2>2. ASSUME NEW s \in Service, work[<<r, s>>].at = "err" PROVE failed
    BY <1>4, <2>2
  <2> QED BY <2>1, <2>2
<1>7. failed \in BOOLEAN /\ at \in {"next", "result"}
  OBVIOUS
<1>8. at = "next" => ~failed /\ request[r].depth < Len(Plan(r))
  OBVIOUS
<1> HIDE DEF failed, at
<1>9. request' = [request EXCEPT ![r] = q]
  BY <1>1, <1>2 DEF TypeOK
<1>10. q \in RequestType /\ q.at = at /\ q.depth = request[r].depth /\ q.result = Result(r, failed)
  BY <1>2, <1>7, RequestHas, ResultIs DEF RequestType
<1> HIDE DEF q
<1>11. request'[r] = q
  BY <1>2, <1>9 DEF TypeOK
<1>12. post.entries[r].query = "ok" /\ request[r].depth > 0
  BY <1>1, <1>2 DEF RequestInv
<1>13. Failed(r)' <=> failed
  BY <1>1, <1>3, <1>6, <1>12 DEF Failed
<1>14. Result(r, failed).index = r /\ Result(r, failed).by = r /\ Result(r, failed).errors = failed
  BY <1>2, <1>7, ResultIs
<1>15. RequestInv(r)'
  <2>1. work' = work
    BY <1>1
  <2> QED BY <1>2, <1>3, <1>6, <1>7, <1>8, <1>10, <1>11, <1>12, <1>13, <1>14, <2>1 DEF RequestInv
<1>16. results' \in [Indices -> ResultType] /\ \A o \in Indices : results'[o] = results[o]
  BY <1>1, <1>2, SameResults
<1>17. UNCHANGED <<parseVars, vars, file, response, stage, work, sent>>
  BY <1>1, <1>2
<1> QED BY <1>5, <1>9, <1>10, <1>15, <1>16, <1>17, RequestStep

LEMMA FoldKeeps ==
  ASSUME ServeInv, stage = "serve", NEW r \in Indices, Fold(r)
  PROVE  ServeInv'
<1> DEFINE q == [request[r] EXCEPT !.at = "folded"]
<1>1. /\ request[r].at = "result"
      /\ request' = [request EXCEPT ![r].at = "folded"]
      /\ results' = [results EXCEPT ![request[r].result.index] = request[r].result]
      /\ Unchanged /\ UNCHANGED <<stage, work, sent>>
  BY DEF Fold
<1>2. TypeOK /\ RequestInv(r) /\ UNCHANGED <<parseVars, vars, file, response>>
  BY <1>1, UnchangedMeans DEF ServeInv
<1>3. post' = post /\ parsed' = parsed /\ Plan(r)' = Plan(r)
  BY <1>2, SamePost DEF parseVars
<1>4. request' = [request EXCEPT ![r] = q]
  BY <1>1, <1>2 DEF TypeOK
<1>5. q \in RequestType /\ q.at = "folded" /\ q.depth = request[r].depth /\ q.result = request[r].result
  BY <1>2, RequestHas DEF RequestType
<1> HIDE DEF q
<1>6. request'[r] = q
  BY <1>2, <1>4 DEF TypeOK
<1>7. request[r].result.index = r /\ request[r].result.by = r /\ (request[r].result.errors <=> Failed(r))
  BY <1>1, <1>2 DEF RequestInv
<1>8. /\ results' \in [Indices -> ResultType] /\ results'[r] = request[r].result
      /\ \A o \in Indices \ {r} : results'[o] = results[o]
  BY <1>1, <1>2, <1>7, RequestHas DEF TypeOK
<1>9. \A s \in Service : work[<<r, s>>].at \in {"idle", "ok", "err"}
  <2>1. ASSUME NEW s \in Service PROVE work[<<r, s>>].at \in {"idle", "ok", "err"}
    <3>1. GroupInv(r, s, work[<<r, s>>])
      BY DEF ServeInv
    <3> QED BY <1>1, <3>1 DEF GroupInv
  <2> QED BY <2>1
<1>10. Failed(r)' <=> Failed(r)
  BY <1>1, <1>3 DEF Failed
<1>11. RequestInv(r)'
  <2>1. request[r].depth <= Len(Plan(r)) /\ (post.entries[r].query = "ok" => request[r].depth > 0)
    BY <1>1, <1>2 DEF RequestInv
  <2> QED BY <1>3, <1>5, <1>6, <1>7, <1>8, <1>10, <2>1 DEF RequestInv
<1>12. UNCHANGED <<parseVars, vars, file, response, stage, work, sent>>
  BY <1>1, <1>2
<1> QED BY <1>4, <1>5, <1>8, <1>9, <1>11, <1>12, RequestStep

LEMMA StartDepthKeeps ==
  ASSUME ServeInv, stage = "serve", NEW r \in Indices, StartDepth(r)
  PROVE  ServeInv'
<1>0. PICK d : d = request[r].depth + 1
  OBVIOUS
<1> DEFINE q == [request[r] EXCEPT !.at = "depth", !.depth = d]
           first == [Idle EXCEPT !.at = "input", !.k = 1]
<1>1. /\ \/ request[r].at = "start" /\ post.entries[r].query = "ok" /\ Plan(r) # <<>>
         \/ request[r].at = "next"
      /\ request' = [request EXCEPT ![r].at = "depth", ![r].depth = d]
      /\ work' = [g \in DOMAIN work |->
           IF g[1] = r /\ g[2] \in InDepth(r, d) THEN first
           ELSE IF g[1] = r THEN Idle ELSE work[g]]
      /\ Unchanged /\ UNCHANGED <<stage, sent, results>>
  BY <1>0 DEF StartDepth
<1>2. TypeOK /\ RequestInv(r) /\ UNCHANGED <<parseVars, vars, file, response>>
  BY <1>1, UnchangedMeans DEF ServeInv
<1>3. UNCHANGED <<post, toInject, parsed>>
  BY <1>2 DEF parseVars
<1>4. /\ Indices' = Indices /\ Keys' = Keys /\ Part' = Part /\ WorkType' = WorkType
      /\ \A o : Plan(o)' = Plan(o) /\ FilesIn(o)' = FilesIn(o)
      /\ \A o, e : InDepth(o, e)' = InDepth(o, e)
      /\ \A o, input : GetVariables(o, input)' = GetVariables(o, input)
  BY <1>3, SamePost
<1>5. /\ Len(Plan(r)) \in Nat /\ DOMAIN Plan(r) = 1 .. Len(Plan(r))
      /\ Plan(r) # <<>> => Len(Plan(r)) > 0
  BY <1>2, PlanFacts DEF TypeOK
<1>6. post.entries[r].query = "ok" /\ d \in 1 .. Len(Plan(r)) /\ d \in Nat
  BY <1>0, <1>1, <1>2, <1>5, RequestHas DEF RequestInv
<1>7. request' = [request EXCEPT ![r] = q]
  BY <1>1, <1>2 DEF TypeOK
<1>8. q \in RequestType /\ q.at = "depth" /\ q.depth = d /\ q.result = request[r].result
  BY <1>2, <1>6, RequestHas DEF RequestType
<1> HIDE DEF q
<1>9. /\ request' \in [Indices -> RequestType] /\ request'[r] = q
      /\ \A o \in Indices \ {r} : request'[o] = request[o]
  BY <1>2, <1>7, <1>8 DEF TypeOK
<1>10. /\ first.at = "input" /\ first.k = 1 /\ first.toFetch = <<>>
       /\ first.look = {} /\ first.found = {} /\ first.taking = <<>>
       /\ first.todo = {} /\ first.reading = <<>> /\ first.fresh = FALSE /\ first.parts = {}
       /\ DOMAIN first = {"at", "k", "toFetch", "look", "found", "taking", "todo", "reading", "fresh", "parts"}
       /\ first = [x \in DOMAIN first |-> first[x]]
  BY DEF Idle
<1> HIDE DEF first
<1>11. first \in WorkType
  <2>1. <<>> \in Seq(Nat)
    OBVIOUS
  <2>2. first.fresh \in BOOLEAN
    BY <1>10, Zenon
  <2>3. first.k \in Nat /\ first.look \in SUBSET Keys /\ first.found \in SUBSET Keys
        /\ first.todo \in SUBSET Keys /\ first.parts \in SUBSET Part
    BY <1>10
  <2>4. first.toFetch \in Seq(Nat)
    BY <1>10, <2>1
  <2> QED BY <1>10, <2>2, <2>3, <2>4, WorkFields
<1>12. /\ DOMAIN work = Indices \X Service /\ DOMAIN work' = Indices \X Service
       /\ \A o \in Indices, s \in Service : work'[<<o, s>>] =
            IF o = r /\ s \in InDepth(r, d) THEN first ELSE IF o = r THEN Idle ELSE work[<<o, s>>]
  BY <1>1, <1>2 DEF TypeOK
<1>13. work' \in [Indices \X Service -> WorkType]
  <2>1. \A o \in Indices, s \in Service : work'[<<o, s>>] \in WorkType
    <3>1. \A o \in Indices, s \in Service : work[<<o, s>>] \in WorkType
      BY <1>2 DEF TypeOK
    <3> QED BY <1>11, <1>12, <3>1, IdleIsWork
  <2>2. work' = [g \in Indices \X Service |-> work'[g]]
    <3> HIDE DEF q
    <3> QED BY <1>1, <1>12
  <2> QED BY <2>1, <2>2
<1>14. TypeOK'
  BY <1>1, <1>2, <1>3, <1>4, <1>9, <1>13 DEF TypeOK
<1>15. ASSUME NEW o \in Indices PROVE RequestInv(o)'
  <2>1. CASE o = r
    BY <1>4, <1>5, <1>6, <1>8, <1>9, <1>3, <2>1 DEF RequestInv
  <2>2. CASE o # r
    <3>1. \A s \in Service : work'[<<o, s>>] = work[<<o, s>>]
      BY <1>12, <2>2
    <3>2. Failed(o)' <=> Failed(o)
      BY <1>3, <3>1 DEF Failed
    <3>3. RequestInv(o) /\ request'[o] = request[o] /\ results'[o] = results[o]
      BY <1>1, <1>9, <2>2 DEF ServeInv
    <3> QED BY <1>3, <1>4, <3>1, <3>2, <3>3 DEF RequestInv
  <2> QED BY <2>1, <2>2
<1>16. ASSUME NEW o \in Indices, NEW s \in Service PROVE GroupInv(o, s, work[<<o, s>>])'
  <2>1. CASE o # r
    <3>1. work'[<<o, s>>] = work[<<o, s>>] /\ request'[o] = request[o]
      BY <1>9, <1>12, <2>1
    <3>2. GroupInv(o, s, work[<<o, s>>])
      BY DEF ServeInv
    <3>3. InputsOf(o, s)' = InputsOf(o, s)
      BY <1>4, <3>1 DEF InputsOf
    <3> QED BY <1>4, <3>1, <3>2, <3>3 DEF GroupInv
  <2>2. CASE o = r /\ s \notin InDepth(r, d)
    <3>1. work'[<<o, s>>] = Idle
      BY <1>12, <2>2
    <3> QED BY <3>1 DEF GroupInv, Idle
  <2>3. CASE o = r /\ s \in InDepth(r, d)
    <3>1. work'[<<o, s>>] = first /\ request'[o].depth = d /\ request'[o].at = "depth"
      BY <1>8, <1>9, <1>12, <2>3
    <3>2. d \in DOMAIN Plan(o)' /\ s \in InDepth(o, d)'
      BY <1>4, <1>5, <1>6, <2>3
    <3>3. InputsOf(o, s)' = Plan(r)[d][s]
      BY <1>4, <3>1, <2>3 DEF InputsOf
    <3>4. Len(InputsOf(o, s)') \in Nat
      BY <1>2, <1>5, <1>6, <2>3, <3>3, PlanFacts DEF TypeOK
    <3>5. Range(<<>>) = {}
      <4>1. DOMAIN <<>> = {}
        OBVIOUS
      <4> QED BY <4>1, Zenon DEF Range
    <3>6. 1 \in 1 .. Len(InputsOf(o, s)') + 1
      BY <3>4
    <3>7. /\ work'[<<o, s>>].at = "input" /\ work'[<<o, s>>].k = 1
          /\ work'[<<o, s>>].toFetch = <<>> /\ work'[<<o, s>>].look = {}
          /\ work'[<<o, s>>].found = {} /\ work'[<<o, s>>].todo = {}
      BY <1>10, <3>1
    <3>8. request'[o].depth \in DOMAIN Plan(o)' /\ s \in InDepth(o, request[o].depth)'
      BY <3>1, <3>2
    <3> QED BY <3>1, <3>5, <3>6, <3>7, <3>8 DEF GroupInv
  <2> QED BY <2>1, <2>2, <2>3
<1>17. Taken'
  BY <1>2, <1>3, <1>4 DEF ServeInv, Taken
<1>18. ASSUME NEW f \in File PROVE file'[f].readers = Cardinality(Reading(f)')
  <2>1. ASSUME NEW o \in Indices, NEW s \in Service
        PROVE  <<o, s>> \in Reading(f)' <=> <<o, s>> \in Reading(f)
    <3>1. CASE o # r
      BY <1>3, <1>12, <3>1 DEF Reading
    <3>2. CASE o = r
      <4>1. work'[<<o, s>>].at # "reading"
        BY <1>10, <1>12, <3>2, IdleIsWork
      <4>2. GroupInv(o, s, work[<<o, s>>])
        BY DEF ServeInv
      <4>3. work[<<o, s>>].at # "reading"
        BY <1>1, <3>2, <4>2 DEF GroupInv
      <4> QED BY <4>1, <4>3 DEF Reading
    <3> QED BY <3>1, <3>2
  <2>2. Reading(f)' \subseteq Indices \X Service /\ Reading(f) \subseteq Indices \X Service
    BY <1>12 DEF Reading
  <2> DEFINE A == Reading(f)'
             B == Reading(f)
  <2>3. A = B
    <3>1. \A o \in Indices, s \in Service : <<o, s>> \in A <=> <<o, s>> \in B
      BY <2>1
    <3>2. A \subseteq Indices \X Service /\ B \subseteq Indices \X Service
      BY <2>2
    <3> HIDE DEF A, B
    <3> QED BY <3>1, <3>2
  <2> QED BY <1>2, <2>3 DEF ServeInv
<1>19. \A i \in sent' : SentInv(i)'
  BY <1>1, <1>4 DEF ServeInv, SentInv
<1>20. stage' = "serve"
  BY <1>1
<1> QED BY <1>4, <1>14, <1>15, <1>16, <1>17, <1>18, <1>19, <1>20 DEF ServeInv

\* When only the stage changes, and what was written.
LEMMA StageStep ==
  ASSUME ServeInv,
         UNCHANGED <<post, toInject, parsed, vars, request, work, file, sent, results>>,
         stage' # stage => stage' \in {"answered", "crashed"},
         stage' = "answered" =>
           /\ \A r \in Indices : request[r].at = "folded"
           /\ response' = IF post.batch THEN results ELSE <<results[1]>>
  PROVE  ServeInv'
<1>1. /\ Indices' = Indices /\ Keys' = Keys /\ Part' = Part /\ WorkType' = WorkType
      /\ \A o : Plan(o)' = Plan(o) /\ FilesIn(o)' = FilesIn(o)
      /\ \A o, d : InDepth(o, d)' = InDepth(o, d)
      /\ \A o, input : GetVariables(o, input)' = GetVariables(o, input)
  BY SamePost
<1>2. TypeOK' /\ Taken'
  BY <1>1 DEF ServeInv, TypeOK, Taken
<1>3. ASSUME NEW r \in Indices PROVE RequestInv(r)'
  <2>1. RequestInv(r) /\ (Failed(r)' <=> Failed(r))
    BY DEF ServeInv, Failed
  <2> QED BY <1>1, <2>1 DEF RequestInv
<1>4. ASSUME NEW r \in Indices, NEW s \in Service PROVE GroupInv(r, s, work[<<r, s>>])'
  <2>1. GroupInv(r, s, work[<<r, s>>]) /\ InputsOf(r, s)' = InputsOf(r, s)
    BY <1>1 DEF ServeInv, InputsOf
  <2> QED BY <1>1, <2>1 DEF GroupInv
<1>5. ASSUME NEW f \in File PROVE file'[f].readers = Cardinality(Reading(f)')
  <2>1. Reading(f)' = Reading(f)
    BY DEF Reading
  <2> QED BY <2>1 DEF ServeInv
<1>6. \A i \in sent' : SentInv(i)'
  BY <1>1 DEF ServeInv, SentInv
<1> QED BY <1>1, <1>2, <1>3, <1>4, <1>5, <1>6 DEF ServeInv

LEMMA ExecutePanicsKeeps ==
  ASSUME ServeInv, stage = "serve", NEW r \in Indices, ExecutePanics(r)
  PROVE  ServeInv'
<1>1. stage' = "crashed" /\ Unchanged /\ UNCHANGED <<request, work, sent, results>>
  BY DEF ExecutePanics
<1>2. UNCHANGED <<post, toInject, parsed, vars, file>>
  BY <1>1, UnchangedMeans DEF parseVars
<1> QED BY <1>1, <1>2, StageStep

LEMMA RequestKeeps ==
  ASSUME ServeInv, stage = "serve", NEW r \in Indices, Request(r)
  PROVE  ServeInv'
BY RefuseKeeps, ResolveIntrospectionKeeps, ExecutePanicsKeeps, StartDepthKeeps, FinishDepthKeeps,
   FoldKeeps, GroupKeeps DEF Request
-----------------------------------------------------------------------------
\* Before and after the requests are served.

\* When only the parsing goes on, and no request has started, what holds of the
\* requests' goroutines and of the files goes on to hold.
LEMMA ParseStep ==
  ASSUME ServeInv, stage \in {"parse", "inject"},
         stage' \in {"inject", "serve", "refused", "aborted"},
         UNCHANGED <<post, request, work, file, sent, results, response>>,
         toInject' \subseteq toInject,
         vars' = parsed', DOMAIN vars' = Indices
  PROVE  ServeInv'
<1>1. /\ TypeOK /\ sent = {}
      /\ \A r \in Indices : request[r].at = "start"
  BY DEF ServeInv
<1>2. \A r \in Indices : RequestInv(r)
  BY DEF ServeInv
<1>3. \A r \in Indices, s \in Service : work[<<r, s>>] = Idle
  <2> SUFFICES ASSUME NEW r \in Indices, NEW s \in Service PROVE work[<<r, s>>] = Idle
    OBVIOUS
  <2>1. work[<<r, s>>].at = "idle"
    BY <1>1, <1>2 DEF RequestInv
  <2>2. GroupInv(r, s, work[<<r, s>>])
    BY DEF ServeInv
  <2> QED BY <2>1, <2>2 DEF GroupInv
<1>4. Indices' = Indices
  BY DEF Indices
<1>5. work' \in [Indices \X Service -> WorkType']
  <2>1. Idle \in WorkType'
    <3>1. <<>> \in Seq(Nat)
      OBVIOUS
    <3> QED BY <3>1 DEF Idle, WorkType
  <2>2. \A g \in Indices \X Service : work'[g] = Idle
    BY <1>3
  <2>3. work' = [g \in Indices \X Service |-> work'[g]]
    BY <1>1 DEF TypeOK
  <2> QED BY <2>1, <2>2, <2>3
<1>6. TypeOK'
  BY <1>1, <1>4, <1>5 DEF TypeOK
<1>7. Taken'
  BY <1>4 DEF Taken
<1>8. ASSUME NEW r \in Indices PROVE RequestInv(r)'
  <2>1. Plan(r)' = Plan(r) /\ (Failed(r)' <=> Failed(r))
    BY DEF Plan, Failed
  <2> QED BY <1>1, <1>2, <2>1 DEF RequestInv
<1>9. ASSUME NEW r \in Indices, NEW s \in Service PROVE GroupInv(r, s, work[<<r, s>>])'
  <2>1. work'[<<r, s>>] = Idle
    BY <1>3
  <2> QED BY <2>1 DEF GroupInv, Idle
<1>10. ASSUME NEW f \in File PROVE file'[f].readers = Cardinality(Reading(f)')
  <2>1. DOMAIN work = Indices \X Service /\ \A g \in Indices \X Service : work[g].at = "idle"
    BY <1>1, <1>3, IdleIsWork DEF TypeOK
  <2>2. Reading(f) = {} /\ Reading(f)' = {}
    BY <2>1 DEF Reading
  <2> QED BY <2>2 DEF ServeInv
<1> QED BY <1>1, <1>4, <1>6, <1>7, <1>8, <1>9, <1>10 DEF ServeInv

LEMMA ParseRequestsKeeps == ServeInv /\ ParseRequests => ServeInv'
<1> SUFFICES ASSUME ServeInv, ParseRequests PROVE ServeInv'
  OBVIOUS
<1>1. /\ stage = "parse" /\ stage' \in {"refused", "inject", "serve"}
      /\ UNCHANGED <<parseVars, vars, request, work, file, sent, results, response>>
  BY DEF ParseRequests
<1>2. UNCHANGED <<post, toInject, parsed, vars>> /\ vars = parsed /\ DOMAIN vars = Indices
  BY <1>1 DEF parseVars, ServeInv, TypeOK
<1> QED BY <1>1, <1>2, ParseStep

LEMMA PlaceKeeps ==
  ASSUME ServeInv, NEW f \in File, Place(f)
  PROVE  ServeInv'
<1> DEFINE injected == InjectFile(f, vars, post.map[f])
<1>1. /\ stage = "inject" /\ f \in toInject /\ toInject' = toInject \ {f}
      /\ vars' = injected.trees /\ parsed' = injected.trees
      /\ stage' = CASE injected.outcome # "ok" -> injected.outcome
                    [] injected.outcome = "ok" /\ toInject' = {} -> "serve"
                    [] OTHER -> stage
      /\ UNCHANGED <<post, request, work, file, sent, results, response>>
  BY DEF Place
<1>2. TypeOK
  BY DEF ServeInv
<1>3. IsList(post.map[f]) /\ \A n \in DOMAIN post.map[f] : IsList(post.map[f][n].keys)
  BY <1>1, <1>2, PostAssumption DEF TypeOK
<1>4. /\ Len(post.map[f]) \in Nat
      /\ \A n \in 1 .. Len(post.map[f]) : Len(post.map[f][n].keys) \in Nat
  BY <1>3, ListIs
<1>5. injected.outcome \in Outcomes /\ DOMAIN injected.trees = DOMAIN vars
  BY <1>4, InjectFileOutcome
<1> HIDE DEF injected
<1>6. stage' \in {"inject", "serve", "refused", "aborted"}
  BY <1>1, <1>5 DEF Outcomes
<1>7. vars' = parsed' /\ DOMAIN vars' = Indices /\ toInject' \subseteq toInject
  BY <1>1, <1>2, <1>5 DEF TypeOK
<1> QED BY <1>1, <1>6, <1>7, ParseStep

LEMMA EmitKeeps == ServeInv /\ Emit => ServeInv'
<1> SUFFICES ASSUME ServeInv, Emit PROVE ServeInv'
  OBVIOUS
<1>1. /\ stage = "serve" /\ stage' = "answered" /\ \A r \in Indices : request[r].at = "folded"
      /\ response' = IF post.batch THEN results ELSE <<results[1]>>
      /\ UNCHANGED <<post, toInject, parsed, vars, request, work, file, sent, results>>
  BY DEF Emit, parseVars
<1> QED BY <1>1, StageStep

LEMMA StutterKeeps == ServeInv /\ UNCHANGED allVars => ServeInv'
<1> SUFFICES ASSUME ServeInv, UNCHANGED allVars PROVE ServeInv'
  OBVIOUS
<1>1. UNCHANGED <<post, toInject, parsed, stage, vars, request, work, file, sent, results, response>>
  BY DEF allVars, parseVars
<1>2. stage' = "answered" =>
        /\ \A r \in Indices : request[r].at = "folded"
        /\ response' = IF post.batch THEN results ELSE <<results[1]>>
  BY <1>1 DEF ServeInv
<1> QED BY <1>1, <1>2, StageStep

LEMMA NextServeInv == ServeInv /\ [Next]_allVars => ServeInv'
<1> SUFFICES ASSUME ServeInv, [Next]_allVars PROVE ServeInv'
  OBVIOUS
<1>1. CASE ParseRequests
  BY <1>1, ParseRequestsKeeps
<1>2. CASE \E f \in File : Place(f)
  BY <1>2, PlaceKeeps
<1>3. CASE stage = "serve" /\ \E r \in Indices : Request(r)
  BY <1>3, RequestKeeps
<1>4. CASE Emit
  BY <1>4, EmitKeeps
<1>5. CASE UNCHANGED allVars
  BY <1>5, StutterKeeps
<1> QED BY <1>1, <1>2, <1>3, <1>4, <1>5 DEF Next
-----------------------------------------------------------------------------
\* What getVariables gives an input.
LEMMA VariablesOf ==
  ASSUME NEW r, NEW input
  PROVE  LET gives == GetVariables(r, input) IN
         /\ \A v : v \in DOMAIN gives <=>
              \/ input.below /\ v = "id"
              \/ v \in VariablesList(input) /\ <<v>> \in DOMAIN parsed[r]
         /\ \A v \in VariablesList(input) :
              <<v>> \in DOMAIN parsed[r] /\ ~(input.below /\ v = "id") => gives[v] = "the client's"
<1> DEFINE id == IF input.below THEN {"id"} ELSE {}
<1>1. GetVariables(r, input) =
        [v \in Given(r, input) \cup id |-> IF v \in id THEN "the object's id" ELSE "the client's"]
  BY DEF GetVariables
<1>2. /\ \A v : v \in id <=> input.below /\ v = "id"
      /\ \A v : v \in Given(r, input) <=> v \in VariablesList(input) /\ <<v>> \in DOMAIN parsed[r]
  BY DEF Given
<1> HIDE DEF id
<1> QED BY <1>1, <1>2

-----------------------------------------------------------------------------
\* Files that arrive: what copies there are, and how steps add to them.

\* The copies whose upload has been sent, and those that a goroutine holds or
\* is making.
CopySent(f, c) == \E i \in sent : \E x \in i.parts : x.file = f /\ c = <<SentAs(i), x.path>>
CopyBegun(f, c) ==
  \E r \in Indices, s \in Service : \E p \in Begun(work[<<r, s>>]) :
    parsed[r][p] = f /\ c = <<WorkedOn(r, s, work[<<r, s>>]), p>>

LEMMA CopiesAre ==
  ASSUME TypeOK, NEW f, NEW c
  PROVE  c \in Copies(f) <=> CopySent(f, c) \/ CopyBegun(f, c)
<1> DEFINE A == UNION { { <<SentAs(i), x.path>> : x \in { y \in i.parts : y.file = f } } : i \in sent }
           B == UNION { { <<WorkedOn(g[1], g[2], work[g]), p>> :
                            p \in { q \in Begun(work[g]) : parsed[g[1]][q] = f } } : g \in DOMAIN work }
<1>1. c \in Copies(f) <=> c \in A \/ c \in B
  <2>1. Copies(f) = A \cup B
    BY DEF Copies
  <2> HIDE DEF A, B
  <2> QED BY <2>1
<1>2. c \in A <=> \E i \in sent : \E x \in i.parts : x.file = f /\ c = <<SentAs(i), x.path>>
  OBVIOUS
<1>3. c \in B <=> \E g \in DOMAIN work : \E p \in Begun(work[g]) :
                    parsed[g[1]][p] = f /\ c = <<WorkedOn(g[1], g[2], work[g]), p>>
  OBVIOUS
<1>4. DOMAIN work = Indices \X Service
  BY DEF TypeOK
<1> HIDE DEF A, B
<1>5. c \in B <=> \E r \in Indices, s \in Service : \E p \in Begun(work[<<r, s>>]) :
                    parsed[r][p] = f /\ c = <<WorkedOn(r, s, work[<<r, s>>]), p>>
  <2>1. ASSUME c \in B
        PROVE  \E r \in Indices, s \in Service : \E p \in Begun(work[<<r, s>>]) :
                 parsed[r][p] = f /\ c = <<WorkedOn(r, s, work[<<r, s>>]), p>>
    <3>1. PICK g \in Indices \X Service : \E p \in Begun(work[g]) :
                    parsed[g[1]][p] = f /\ c = <<WorkedOn(g[1], g[2], work[g]), p>>
      BY <1>3, <1>4, <2>1
    <3>2. g[1] \in Indices /\ g[2] \in Service /\ g = <<g[1], g[2]>>
      OBVIOUS
    <3> QED BY <3>1, <3>2
  <2>2. ASSUME NEW r \in Indices, NEW s \in Service, NEW p \in Begun(work[<<r, s>>]),
               parsed[r][p] = f, c = <<WorkedOn(r, s, work[<<r, s>>]), p>>
        PROVE  c \in B
    <3>1. <<r, s>> \in DOMAIN work /\ <<r, s>>[1] = r /\ <<r, s>>[2] = s
      BY <1>4
    <3> QED BY <1>3, <2>2, <3>1
  <2> QED BY <2>1, <2>2
<1> QED BY <1>1, <1>2, <1>5 DEF CopySent, CopyBegun

LEMMA SentIsCopy ==
  ASSUME TypeOK, NEW i \in sent, NEW x \in i.parts
  PROVE  <<SentAs(i), x.path>> \in Copies(x.file)
BY CopiesAre DEF CopySent

LEMMA BegunIsCopy ==
  ASSUME TypeOK, NEW r \in Indices, NEW s \in Service, NEW p \in Begun(work[<<r, s>>])
  PROVE  <<WorkedOn(r, s, work[<<r, s>>]), p>> \in Copies(parsed[r][p])
BY CopiesAre DEF CopyBegun

\* What tells inputs apart.
LEMMA InputsDiffer ==
  ASSUME NEW r, NEW d, NEW s, NEW k, NEW q, NEW e, NEW t, NEW l,
         InputAt(r, d, s, k) = InputAt(q, e, t, l)
  PROVE  r = q /\ d = e /\ s = t /\ k = l
BY DEF InputAt

\* An input shares a path with the request just when it uses it.
LEMMA SharesIsUsing ==
  ASSUME TypeOK, NEW r \in Indices, DOMAIN parsed[r] = DOMAIN Tree(r), NEW p \in DOMAIN parsed[r],
         NEW d \in DOMAIN Plan(r), NEW s \in InDepth(r, d), NEW k \in DOMAIN Plan(r)[d][s]
  PROVE  Shares(r, Plan(r)[d][s][k], p) <=> <<d, s, k>> \in Using(r, p)
<1> DEFINE input == Plan(r)[d][s][k]
           v == Head(p)
           Uses1 == v \in VariablesList(input) /\ ~(input.below /\ v = "id")
<1>1. Entry(post.entries[r])
  BY PostFacts DEF TypeOK
<1>2. <<v>> \in DOMAIN parsed[r]
  BY <1>1 DEF Entry, Tree
<1>3. <<d, s, k>> \in Using(r, p) <=> Uses1
  <2> DEFINE In(e, t) == { l \in DOMAIN Plan(r)[e][t] :
                      /\ Head(p) \in VariablesList(Plan(r)[e][t][l])
                      /\ ~(Plan(r)[e][t][l].below /\ Head(p) = "id") }
  <2>1. Using(r, p) = UNION { UNION { { <<e, t, l>> : l \in In(e, t) } : t \in DOMAIN Plan(r)[e] } : e \in DOMAIN Plan(r) }
    BY DEF Using
  <2>2. k \in In(d, s) <=> Uses1
    OBVIOUS
  <2> HIDE DEF In, Uses1
  <2>3. s \in DOMAIN Plan(r)[d]
    BY DEF InDepth
  <2> QED BY <2>1, <2>2, <2>3
<1>4. /\ \A u : u \in DOMAIN GetVariables(r, input) <=>
              \/ input.below /\ u = "id"
              \/ u \in VariablesList(input) /\ <<u>> \in DOMAIN parsed[r]
      /\ \A u \in VariablesList(input) :
              <<u>> \in DOMAIN parsed[r] /\ ~(input.below /\ u = "id") =>
                GetVariables(r, input)[u] = "the client's"
  <2> HIDE DEF input
  <2> QED BY VariablesOf
<1>5. input.below => GetVariables(r, input)["id"] = "the object's id"
  <2> HIDE DEF input
  <2> QED BY DEF GetVariables
<1>6. Shares(r, input, p) <=> v \in DOMAIN GetVariables(r, input) /\ GetVariables(r, input)[v] = "the client's"
  BY DEF Shares
<1> HIDE DEF input, v
<1>7. Shares(r, input, p) <=> Uses1
  BY <1>2, <1>4, <1>5, <1>6
<1> QED BY <1>3, <1>7 DEF input


\* A step that makes nothing undone: what is sent or begun stays so.
Grows ==
  /\ UNCHANGED <<post, parsed>> /\ sent \subseteq sent'
  /\ \A f, c : c \in Copies(f) => c \in Copies(f)'
  /\ \A r \in Indices : \A p : OnItsWay(r, p) => OnItsWay(r, p)'

LEMMA GrowsKeeps ==
  ASSUME Grows
  PROVE  /\ \A f, c : Shared(f, c) => Shared(f, c)'
         /\ \A input, x : PartInv(input, x) => PartInv(input, x)'
         /\ \A input, p : Got(input, p) => Got(input, p)'
         /\ \A r, input, p : Shares(r, input, p)' <=> Shares(r, input, p)
         /\ \A r, p : p \in FilesIn(r)' <=> p \in FilesIn(r)
<1>1. UNCHANGED <<post, parsed>> /\ sent \subseteq sent'
  BY DEF Grows
<1>2. \A f, c : Shared(f, c) => Shared(f, c)'
  BY DEF Grows, Shared
<1>3. \A r, p : p \in FilesIn(r)' <=> p \in FilesIn(r)
  BY <1>1 DEF FilesIn
<1>4. \A input, x : PartInv(input, x) => PartInv(input, x)'
  BY <1>1, <1>2, <1>3 DEF PartInv
<1>5. \A input, p : Got(input, p) => Got(input, p)'
  <2>1. \A i : SentAs(i)' = SentAs(i)
    BY DEF SentAs, InputAt
  <2> QED BY <1>1, <2>1 DEF Got
<1>6. \A r, input : GetVariables(r, input)' = GetVariables(r, input)
  BY <1>1, SamePost
<1>7. \A r, input, p : Shares(r, input, p)' <=> Shares(r, input, p)
  BY <1>6 DEF Shares
<1> QED BY <1>2, <1>3, <1>4, <1>5, <1>7

\* After a step, too.
LEMMA SentIsCopyThen ==
  ASSUME NEW i \in sent', NEW x \in i.parts
  PROVE  <<SentAs(i), x.path>> \in Copies(x.file)'
<1> DEFINE A == { <<SentAs(i), y.path>> : y \in { z \in i.parts : z.file = x.file } }
<1>1. <<SentAs(i), x.path>> \in A
  OBVIOUS
<1>2. A \subseteq Copies(x.file)'
  BY DEF Copies, SentAs, InputAt
<1> HIDE DEF A
<1> QED BY <1>1, <1>2

LEMMA BegunIsCopyThen ==
  ASSUME NEW r, NEW s, <<r, s>> \in DOMAIN work', NEW w, work'[<<r, s>>] = w,
         NEW p \in Begun(w), UNCHANGED parsed, request'[r].depth = request[r].depth
  PROVE  <<WorkedOn(r, s, w), p>> \in Copies(parsed[r][p])'
<1> DEFINE f == parsed[r][p]
           g == <<r, s>>
           In(h) == { <<WorkedOn(h[1], h[2], work[h])', q>> :
                        q \in { o \in Begun(work[h])' : parsed'[h[1]][o] = f' } }
<1>1. WorkedOn(r, s, w)' = WorkedOn(r, s, w)
  BY DEF WorkedOn, InputAt
<1>2. <<WorkedOn(r, s, w), p>> \in In(g)
  <2>1. g[1] = r /\ g[2] = s /\ work'[g] = w
    OBVIOUS
  <2>2. <<WorkedOn(g[1], g[2], work[g])', p>> \in In(g)
    BY <2>1
  <2> QED BY <1>1, <2>1, <2>2 DEF WorkedOn
<1>3. In(g) \subseteq Copies(f)'
  BY DEF Copies
<1> HIDE DEF In
<1> QED BY <1>2, <1>3

LEMMA GroupGrows ==
  ASSUME TypeOK, NEW r \in Indices, NEW s \in Service, NEW w,
         work' = [work EXCEPT ![<<r, s>>] = w],
         UNCHANGED <<post, parsed, request>>, sent \subseteq sent',
         \A p \in Held(work[<<r, s>>]) : p \in Held(w) \/ Getting(r, p)' # {},
         \A p \in Begun(work[<<r, s>>]) :
           <<WorkedOn(r, s, work[<<r, s>>]), p>> \in Copies(parsed[r][p])'
  PROVE  Grows
<1>1. /\ DOMAIN work' = Indices \X Service /\ work'[<<r, s>>] = w
      /\ \A o \in Indices, t \in Service :
           ~(o = r /\ t = s) => work'[<<o, t>>] = work[<<o, t>>]
  BY DEF TypeOK
<1>2. ASSUME NEW f, NEW c \in Copies(f) PROVE c \in Copies(f)'
  <2>1. CASE CopySent(f, c)
    BY <2>1, SentIsCopyThen DEF CopySent
  <2>2. CASE CopyBegun(f, c)
    <3>0. PICK o \in Indices, t \in Service : \E p \in Begun(work[<<o, t>>]) :
                 parsed[o][p] = f /\ c = <<WorkedOn(o, t, work[<<o, t>>]), p>>
      BY <2>2 DEF CopyBegun
    <3>1. PICK p \in Begun(work[<<o, t>>]) :
                 parsed[o][p] = f /\ c = <<WorkedOn(o, t, work[<<o, t>>]), p>>
      BY <3>0
    <3>2. CASE o = r /\ t = s
      BY <3>1, <3>2
    <3>3. CASE ~(o = r /\ t = s)
      <4>1. PICK v : v = work[<<o, t>>]
        OBVIOUS
      <4>2. work'[<<o, t>>] = v /\ <<o, t>> \in DOMAIN work'
        BY <1>1, <3>3, <4>1
      <4>3. <<WorkedOn(o, t, v), p>> \in Copies(parsed[o][p])'
        BY <4>1, <4>2, BegunIsCopyThen
      <4> QED BY <3>1, <4>1, <4>3
    <3> QED BY <3>2, <3>3
  <2> QED BY <2>1, <2>2, CopiesAre
<1>3. ASSUME NEW o \in Indices, NEW p, OnItsWay(o, p) PROVE OnItsWay(o, p)'
  <2>1. Getting(o, p) \subseteq Getting(o, p)'
    BY DEF Getting
  <2>2. CASE Getting(o, p) # {}
    BY <2>1, <2>2 DEF OnItsWay
  <2>3. CASE \E t \in Service : p \in Held(work[<<o, t>>])
    <3>1. PICK t \in Service : p \in Held(work[<<o, t>>])
      BY <2>3
    <3>2. CASE o = r /\ t = s
      BY <1>1, <3>1, <3>2 DEF OnItsWay
    <3>3. CASE ~(o = r /\ t = s)
      BY <1>1, <3>1, <3>3 DEF OnItsWay
    <3> QED BY <3>2, <3>3
  <2> QED BY <1>3, <2>2, <2>3 DEF OnItsWay
<1> QED BY <1>2, <1>3 DEF Grows

\* The depth whose services a request has been waiting for.
LEMMA DepthExists ==
  ASSUME ServeInv, ArriveInv, NEW r \in Indices,
         \/ request[r].at \in {"depth", "next"}
         \/ request[r].at \in {"result", "folded"} /\ post.entries[r].query = "ok" /\ ~Failed(r)
  PROVE  request[r].depth \in DOMAIN Plan(r) /\ InDepth(r, request[r].depth) \subseteq Service
<1>1. RequestInv(r) /\ DepthInv(r) /\ post \in Post /\ request[r].depth \in Nat
  BY RequestHas DEF ServeInv, ArriveInv, TypeOK
<1>2. Len(Plan(r)) \in Nat /\ DOMAIN Plan(r) = 1 .. Len(Plan(r))
  BY <1>1, PlanFacts
<1>3. request[r].depth > 0 /\ request[r].depth <= Len(Plan(r))
  BY <1>1 DEF RequestInv
<1>4. request[r].depth \in DOMAIN Plan(r)
  BY <1>1, <1>2, <1>3
<1> QED BY <1>1, <1>4, PlanFacts

\* A step of the goroutine of request r and service s, whose work becomes w.
LEMMA ArriveStep ==
  ASSUME ServeInv, ArriveInv, NEW r \in Indices, NEW s \in Service, NEW w,
         work' = [work EXCEPT ![<<r, s>>] = w], Grows,
         request[r].at = "depth",
         work[<<r, s>>].k \in Nat, work[<<r, s>>].at # "err",
         UNCHANGED request, w.at # "idle",
         NEW input, input = WorkedOn(r, s, work[<<r, s>>]),
         \/ w.k = work[<<r, s>>].k
         \/ /\ w.k = work[<<r, s>>].k + 1
            /\ \A p \in FilesIn(r) : Shares(r, InputsOf(r, s)[work[<<r, s>>].k], p) =>
                 IF Len(p) = 1 THEN Got(input, p)' ELSE OnItsWay(r, p)',
         \A o \in Indices : \A p \in DOMAIN parsed[o] :
           vars'[o][p] # vars[o][p] => OnItsWay(o, p)',
         HeldInv(r, s, w)',
         \A f \in File : FileInv(f)',
         \A i \in sent' \ sent : SentFiles(i)',
         stage' = "crashed" => (FileShared \/ PlanWithoutSteps)'
  PROVE  ArriveInv'
<1> DEFINE g == <<r, s>>
<1>1. /\ UNCHANGED <<post, parsed>> /\ sent \subseteq sent'
      /\ \A o \in Indices : \A p : OnItsWay(o, p) => OnItsWay(o, p)'
  BY DEF Grows
<1>2. /\ Indices' = Indices
      /\ \A q : Plan(q)' = Plan(q) /\ FilesIn(q)' = FilesIn(q) /\ Tree(q)' = Tree(q)
      /\ \A q, d : InDepth(q, d)' = InDepth(q, d)
      /\ \A q, t : InputsOf(q, t)' = InputsOf(q, t)
  BY <1>1, SamePost DEF Tree, InputsOf
<1>3. /\ work'[<<r, s>>] = w
      /\ \A o \in Indices, t \in Service :
           ~(o = r /\ t = s) => work'[<<o, t>>] = work[<<o, t>>]
  BY DEF ServeInv, TypeOK
<1>4. /\ \A f, c : Shared(f, c) => Shared(f, c)'
      /\ \A y, x : PartInv(y, x) => PartInv(y, x)'
      /\ \A y, p : Got(y, p) => Got(y, p)'
      /\ \A q, y, p : Shares(q, y, p)' <=> Shares(q, y, p)
  BY GrowsKeeps
<1>5. \A o \in Indices : DOMAIN parsed'[o] = DOMAIN Tree(o)'
  BY <1>1, <1>2 DEF ArriveInv
<1>6. ASSUME NEW o \in Indices PROVE DepthInv(o)'
  <2>1. DepthInv(o)
    BY DEF ArriveInv
  <2>2. CASE o = r
    <3>1. \A t \in InDepth(r, request[r].depth) : work'[<<r, t>>].at # "idle"
      <4> SUFFICES ASSUME NEW t \in InDepth(r, request[r].depth) PROVE work'[<<r, t>>].at # "idle"
        OBVIOUS
      <4>1. t \in Service
        BY DepthExists
      <4>2. CASE t = s
        BY <1>3, <4>2
      <4>3. CASE t # s
        BY <1>3, <2>1, <2>2, <4>1, <4>3 DEF DepthInv
      <4> QED BY <4>2, <4>3
    <3> QED BY <1>2, <2>2, <3>1 DEF DepthInv
  <2>3. CASE o # r
    <3>1. \A t \in Service : work'[<<o, t>>] = work[<<o, t>>]
      BY <1>3, <2>3
    <3>2. Failed(o)' <=> Failed(o)
      BY <1>1, <3>1 DEF Failed
    <3>3. \/ request[o].at \in {"depth", "next"}
          \/ request[o].at \in {"result", "folded"} /\ post.entries[o].query = "ok" /\ ~Failed(o)
          => InDepth(o, request[o].depth) \subseteq Service
      BY DepthExists
    <3> QED BY <1>1, <1>2, <2>1, <3>1, <3>2, <3>3 DEF DepthInv, AllOk
  <2> QED BY <2>2, <2>3
<1>7. ASSUME NEW o \in Indices PROVE PassedInv(o)'
  <2> SUFFICES ASSUME NEW d \in DOMAIN Plan(o), NEW t \in InDepth(o, d), NEW k \in DOMAIN Plan(o)[d][t],
                      Passed(o, d, t, k)', NEW p \in FilesIn(o), Shares(o, Plan(o)[d][t][k], p)
               PROVE  IF Len(p) = 1 THEN Got(InputAt(o, d, t, k), p)' ELSE OnItsWay(o, p)'
    BY <1>2, <1>4 DEF PassedInv
  <2>1. t \in Service /\ k \in Nat
    <3>1. /\ InDepth(o, d) \subseteq Service
          /\ DOMAIN Plan(o)[d][t] = 1 .. Len(Plan(o)[d][t]) /\ Len(Plan(o)[d][t]) \in Nat
      BY PlanFacts DEF ServeInv, TypeOK
    <3> QED BY <3>1
  <2>2. CASE Passed(o, d, t, k)
    <3>1. IF Len(p) = 1 THEN Got(InputAt(o, d, t, k), p) ELSE OnItsWay(o, p)
      BY <2>2 DEF ArriveInv, PassedInv
    <3> QED BY <1>1, <1>4, <3>1
  <2>3. CASE ~Passed(o, d, t, k)
    <3>1. o = r /\ t = s /\ d = request[r].depth /\ w.k = work[g].k + 1 /\ k < w.k /\ ~(k < work[g].k)
      BY <1>3, <2>1, <2>3 DEF Passed
    <3>2. k = work[g].k
      BY <2>1, <3>1
    <3>3. /\ Plan(o)[d][t][k] = InputsOf(r, s)[work[g].k]
          /\ InputAt(o, d, t, k) = input
      BY <3>1, <3>2 DEF InputsOf, WorkedOn
    <3> QED BY <3>1, <3>3
  <2> QED BY <2>2, <2>3
<1>8. ASSUME NEW o \in Indices, NEW p \in DOMAIN parsed[o], vars'[o][p] # parsed[o][p]
      PROVE  OnItsWay(o, p)'
  BY <1>1, <1>8 DEF ArriveInv
<1>9. ASSUME NEW o \in Indices, NEW t \in Service PROVE HeldInv(o, t, work[<<o, t>>])'
  <2>1. CASE o = r /\ t = s
    <3>1. work'[<<o, t>>] = w
      BY <1>3, <2>1
    <3> QED BY <2>1, <3>1 DEF HeldInv
  <2>2. CASE ~(o = r /\ t = s)
    <3>1. PICK v : v = work[<<o, t>>]
      OBVIOUS
    <3>2. work'[<<o, t>>] = v
      BY <1>3, <2>2, <3>1
    <3>3. HeldInv(o, t, v)
      BY <3>1 DEF ArriveInv
    <3>4. WorkedOn(o, t, v)' = WorkedOn(o, t, v)
      BY DEF WorkedOn, InputAt
    <3>5. HeldInv(o, t, v)'
      BY <1>1, <1>2, <1>4, <3>3, <3>4 DEF HeldInv
    <3> QED BY <3>2, <3>5 DEF HeldInv
  <2> QED BY <2>1, <2>2
<1>10. ASSUME NEW i \in sent PROVE SentFiles(i)'
  <2>1. SentFiles(i) /\ SentInv(i)
    BY DEF ArriveInv, ServeInv
  <2>2. SentAs(i)' = SentAs(i)
    BY DEF SentAs, InputAt
  <2>3. i.request \in Indices /\ i.service \in Service
    <3>1. InDepth(i.request, i.depth) \subseteq Service
      BY <2>1, PlanFacts DEF SentInv, ServeInv, TypeOK
    <3> QED BY <2>1, <3>1 DEF SentInv
  <2>4. i.k < work[<<i.request, i.service>>].k \/ work[<<i.request, i.service>>].at = "err" =>
          i.k < work'[<<i.request, i.service>>].k \/ work'[<<i.request, i.service>>].at = "err"
    <3>1. CASE i.request = r /\ i.service = s
      <4>1. i.k \in Nat
        BY <2>1, PlanFacts DEF SentInv, ServeInv, TypeOK
      <4> QED BY <1>3, <3>1, <4>1
    <3>2. CASE ~(i.request = r /\ i.service = s)
      BY <1>3, <2>3, <3>2
    <3> QED BY <3>1, <3>2
  <2> QED BY <1>2, <1>4, <2>1, <2>2, <2>4 DEF SentFiles
<1>11. \A i \in sent' : SentFiles(i)'
  BY <1>1, <1>10
<1> QED BY <1>1, <1>2, <1>5, <1>6, <1>7, <1>8, <1>9, <1>11 DEF ArriveInv

LEMMA FilesSame ==
  ASSUME ArriveInv, Grows, UNCHANGED file
  PROVE  \A f \in File : FileInv(f)'
<1>1. /\ \A f, c : c \in Copies(f) => c \in Copies(f)'
      /\ \A f, c : Shared(f, c) => Shared(f, c)'
  BY GrowsKeeps DEF Grows
<1> SUFFICES ASSUME NEW f \in File PROVE FileInv(f)'
  OBVIOUS
<1>2. FileInv(f)
  BY DEF ArriveInv
<1> QED BY <1>1, <1>2 DEF FileInv

\* What a goroutine holds for one of its inputs.
LEMMA HeldIs ==
  ASSUME ServeInv, ArriveInv, NEW r \in Indices, NEW s \in Service
  PROVE  LET w == work[<<r, s>>] IN
         /\ Held(w) \subseteq FilesIn(r)
         /\ w.at \in {"extract", "clear", "marshal", "copy", "reading"} =>
              \A p \in FilesIn(r) :
                /\ p \in Held(w) \cup w.look => Shares(r, InputsOf(r, s)[w.k], p)
                /\ Shares(r, InputsOf(r, s)[w.k], p) =>
                     \/ p \in w.look
                     \/ IF Len(p) = 1 THEN p \in Held(w) ELSE OnItsWay(r, p)
BY DEF ArriveInv, HeldInv

\* When it has come by all places, that is all that it is to send.
LEMMA HeldAll ==
  ASSUME ServeInv, ArriveInv, NEW r \in Indices, NEW s \in Service,
         work[<<r, s>>].at \in {"marshal", "copy", "reading"}
  PROVE  LET w == work[<<r, s>>] IN
         /\ w.look = {}
         /\ Held(w) \subseteq FilesIn(r)
         /\ \A p \in FilesIn(r) :
              /\ p \in Held(w) => Shares(r, InputsOf(r, s)[w.k], p)
              /\ Shares(r, InputsOf(r, s)[w.k], p) =>
                   IF Len(p) = 1 THEN p \in Held(w) ELSE OnItsWay(r, p)
<1> DEFINE w == work[<<r, s>>]
<1>1. w.look = {}
  <2>1. GroupInv(r, s, w)
    BY DEF ServeInv
  <2> QED BY <2>1 DEF GroupInv
<1> QED BY <1>1, HeldIs

LEMMA FilePath ==
  ASSUME ServeInv, ArriveInv, NEW r \in Indices, NEW p \in FilesIn(r)
  PROVE  p \in DOMAIN parsed[r] /\ parsed[r][p] \in File /\ p # <<>> /\ Len(p) \in Nat
<1>1. Entry(post.entries[r]) /\ DOMAIN parsed[r] = DOMAIN Tree(r)
  BY PostFacts DEF ServeInv, TypeOK, ArriveInv
<1> QED BY <1>1, ListIs DEF FilesIn, Entry, Tree

LEMMA BeginExtractArrives ==
  ASSUME ServeInv, ArriveInv, stage = "serve", NEW r \in Indices, NEW s \in Service, BeginExtract(r, s)
  PROVE  ArriveInv'
<1> DEFINE g == <<r, s>>
<1>1. /\ work[g].at = "input" /\ work[g].k <= Len(InputsOf(r, s))
      /\ Unchanged /\ UNCHANGED <<stage, request, sent, results>>
  BY DEF BeginExtract
<1>2. PICK places : places = PlacesToLook(r, Input(r, s))
  OBVIOUS
<1>3. PICK w : w = [work[g] EXCEPT !.at = "extract", !.found = {}, !.look = places]
  OBVIOUS
<1>4. work[g] \in WorkType /\ g \in DOMAIN work /\ work[g].k \in Nat
  BY WorkHas DEF ServeInv
<1>5. work' = [work EXCEPT ![g] = w]
  BY <1>2, <1>3, <1>4 DEF BeginExtract
<1>6. w.at = "extract" /\ w.k = work[g].k /\ w.found = {} /\ w.look = places
  BY <1>3, <1>4 DEF WorkType
<1>7. Held(work[g]) = {} /\ Begun(work[g]) = {} /\ Held(w) = {}
  BY <1>1, <1>6 DEF Held, Begun
<1>8. UNCHANGED <<post, parsed, vars, file>>
  BY <1>1, UnchangedMeans DEF parseVars
<1>9. Grows
  BY <1>1, <1>5, <1>7, <1>8, GroupGrows DEF ServeInv
<1>10. \A p \in FilesIn(r) : p \in w.look <=> Shares(r, InputsOf(r, s)[w.k], p)
  BY <1>2, <1>6 DEF PlacesToLook, Input
<1>11. HeldInv(r, s, w)'
  <2>1. FilesIn(r)' = FilesIn(r) /\ InputsOf(r, s)' = InputsOf(r, s)
    BY <1>1, <1>8, SamePost DEF InputsOf
  <2>2. \A input, p : Shares(r, input, p)' <=> Shares(r, input, p)
    BY <1>9, GrowsKeeps
  <2> QED BY <1>6, <1>7, <1>10, <2>1, <2>2 DEF HeldInv
<1>12. request[r].at = "depth"
  BY <1>1, Working
<1>13. \A f \in File : FileInv(f)'
  BY <1>8, <1>9, FilesSame
<1> QED BY <1>1, <1>4, <1>5, <1>6, <1>8, <1>9, <1>11, <1>12, <1>13, ArriveStep

\* A file that is not where the client has put it has been taken by another, who
\* has it on its way.
LEMMA ExtractArrives ==
  ASSUME ServeInv, ArriveInv, stage = "serve", NEW r \in Indices, NEW s \in Service, Extract(r, s)
  PROVE  ArriveInv'
<1> DEFINE g == <<r, s>>
<1>1. work[g].at = "extract" /\ Unchanged /\ UNCHANGED <<stage, request, sent, results>>
  BY DEF Extract
<1>2. UNCHANGED <<post, parsed, vars, file>>
  BY <1>1, UnchangedMeans DEF parseVars
<1>3. work[g] \in WorkType /\ g \in DOMAIN work /\ work[g].k \in Nat
  BY WorkHas DEF ServeInv
<1>4. PICK w : ExtractTo(r, s, w)
  BY ExtractIs DEF ServeInv
<1>5. work' = [work EXCEPT ![g] = w] /\ w.at \in {"extract", "clear"} /\ w.k = work[g].k
  BY <1>4 DEF ExtractTo
<1>6. PICK p \in work[g].look :
        /\ w.look = work[g].look \ {p}
        /\ w.found \subseteq work[g].found \cup {p} /\ work[g].found \subseteq w.found
        /\ vars[r][p] \in File => p \in w.found
  BY <1>4 DEF ExtractTo
<1>7. Held(work[g]) = work[g].found /\ Begun(work[g]) = {} /\ Held(w) = w.found
  BY <1>1, <1>5 DEF Held, Begun
<1>8. Grows
  <2>1. TypeOK /\ sent' = sent /\ UNCHANGED <<post, parsed, request>>
    BY <1>1, <1>2 DEF ServeInv
  <2>2. \A q \in Held(work[g]) : q \in Held(w)
    BY <1>6, <1>7
  <2> QED BY <1>5, <1>7, <2>1, <2>2, GroupGrows
<1>9. /\ Held(work[g]) \subseteq FilesIn(r) /\ work[g].look \subseteq FilesIn(r)
      /\ \A q \in FilesIn(r) :
           /\ q \in Held(work[g]) \cup work[g].look => Shares(r, InputsOf(r, s)[work[g].k], q)
           /\ Shares(r, InputsOf(r, s)[work[g].k], q) =>
                \/ q \in work[g].look
                \/ IF Len(q) = 1 THEN q \in Held(work[g]) ELSE OnItsWay(r, q)
  BY <1>1, HeldIs, Working
<1>10. \A q : OnItsWay(r, q) => OnItsWay(r, q)'
  BY <1>8 DEF Grows
<1>11. work'[g] = w
  BY <1>3, <1>5
<1>12. IF Len(p) = 1 THEN p \in Held(w) ELSE OnItsWay(r, p)'
  <2>1. CASE vars[r][p] \in File
    BY <1>6, <1>7, <1>11, <2>1 DEF OnItsWay
  <2>2. CASE vars[r][p] \notin File
    <3>1. p \in FilesIn(r)
      BY <1>9
    <3>2. p \in DOMAIN parsed[r] /\ vars[r][p] # parsed[r][p]
      BY <2>2, <3>1, FilePath
    <3>3. Len(p) > 1 /\ OnItsWay(r, p)
      BY <3>2 DEF ServeInv, Taken, ArriveInv
    <3>4. PICK n \in Nat : n = Len(p)
      BY <3>1, FilePath
    <3>5. n > 1
      BY <3>3, <3>4
    <3>6. n # 1
      BY <3>5
    <3> QED BY <1>10, <3>3, <3>4, <3>6
  <2> QED BY <2>1, <2>2
<1>13. HeldInv(r, s, w)'
  <2>1. \A input, q : Shares(r, input, q)' <=> Shares(r, input, q)
    BY <1>8, GrowsKeeps
  <2>2. FilesIn(r)' = FilesIn(r) /\ InputsOf(r, s)' = InputsOf(r, s)
    BY <1>1, <1>2, SamePost DEF InputsOf
  <2>3. Held(w) \subseteq FilesIn(r)
    BY <1>6, <1>7, <1>9
  <2>4. ASSUME NEW q \in FilesIn(r)
        PROVE  /\ q \in Held(w) \cup w.look => Shares(r, InputsOf(r, s)[w.k], q)
               /\ Shares(r, InputsOf(r, s)[w.k], q) =>
                    \/ q \in w.look
                    \/ IF Len(q) = 1 THEN q \in Held(w) ELSE OnItsWay(r, q)'
    <3>1. q \in Held(w) \cup w.look => Shares(r, InputsOf(r, s)[w.k], q)
      BY <1>5, <1>6, <1>7, <1>9
    <3>2. ASSUME Shares(r, InputsOf(r, s)[w.k], q), q \notin w.look
          PROVE  IF Len(q) = 1 THEN q \in Held(w) ELSE OnItsWay(r, q)'
      <4>1. CASE q = p
        BY <1>12, <4>1
      <4>2. CASE q # p
        <5>1. IF Len(q) = 1 THEN q \in Held(work[g]) ELSE OnItsWay(r, q)
          BY <1>5, <1>6, <1>9, <3>2, <4>2
        <5> QED BY <1>6, <1>7, <1>10, <5>1
      <4> QED BY <4>1, <4>2
    <3> QED BY <3>1, <3>2
  <2> QED BY <1>5, <2>1, <2>2, <2>3, <2>4 DEF HeldInv
<1>14. request[r].at = "depth"
  BY <1>1, Working
<1>15. \A f \in File : FileInv(f)'
  BY <1>2, <1>8, FilesSame
<1> QED BY <1>1, <1>2, <1>3, <1>5, <1>8, <1>13, <1>14, <1>15, ArriveStep

LEMMA ClearArrives ==
  ASSUME ServeInv, ArriveInv, stage = "serve", NEW r \in Indices, NEW s \in Service, Clear(r, s)
  PROVE  ArriveInv'
<1> DEFINE g == <<r, s>>
<1>0. PICK taking : taking = work[g].taking
  OBVIOUS
<1>1. /\ work[g].at = "clear"
      /\ vars' = [vars EXCEPT ![r][taking] = "null"]
      /\ UNCHANGED <<parseVars, file, response, stage, request, sent, results>>
  BY <1>0 DEF Clear
<1>2. UNCHANGED <<post, parsed>>
  BY <1>1 DEF parseVars
<1>3. work[g] \in WorkType /\ g \in DOMAIN work /\ work[g].k \in Nat
  BY WorkHas DEF ServeInv
<1>4. PICK w : w = [work[g] EXCEPT !.at = "extract"]
  OBVIOUS
<1>5. work' = [work EXCEPT ![g] = w]
  BY <1>3, <1>4 DEF Clear, Goto
<1>6. w.at = "extract" /\ w.k = work[g].k /\ w.found = work[g].found /\ w.look = work[g].look
  BY <1>3, <1>4 DEF WorkType
<1>7. Held(work[g]) = work[g].found /\ Begun(work[g]) = {} /\ Held(w) = Held(work[g])
  BY <1>1, <1>6 DEF Held, Begun
<1>8. Grows
  BY <1>1, <1>2, <1>5, <1>7, GroupGrows DEF ServeInv
<1>9. taking \in Held(w)
  <2>1. GroupInv(r, s, work[g])
    BY DEF ServeInv
  <2> QED BY <1>0, <1>1, <1>7, <2>1 DEF GroupInv
<1>10. OnItsWay(r, taking)'
  <2>1. work'[g] = w
    BY <1>3, <1>5
  <2> QED BY <1>9, <2>1 DEF OnItsWay
<1>11. ASSUME NEW o \in Indices, NEW p \in DOMAIN parsed[o], vars'[o][p] # vars[o][p]
       PROVE  OnItsWay(o, p)'
  <2>1. DOMAIN vars[o] = DOMAIN parsed[o] /\ o \in DOMAIN vars
    BY DEF ServeInv, TypeOK, Taken
  <2>2. CASE o # r
    BY <1>1, <1>11, <2>1, <2>2
  <2>3. CASE o = r
    <3>1. vars'[r] = [vars[r] EXCEPT ![taking] = "null"]
      BY <1>1, <2>1, <2>3
    <3>2. p = taking
      BY <1>11, <2>1, <2>3, <3>1
    <3> QED BY <1>10, <2>3, <3>2
  <2> QED BY <2>2, <2>3
<1>12. HeldInv(r, s, w)'
  <2>1. \A input, p : Shares(r, input, p)' <=> Shares(r, input, p)
    BY <1>8, GrowsKeeps
  <2>2. \A p : OnItsWay(r, p) => OnItsWay(r, p)'
    BY <1>8 DEF Grows
  <2>3. FilesIn(r)' = FilesIn(r) /\ InputsOf(r, s)' = InputsOf(r, s)
    BY <1>1, <1>2, SamePost DEF InputsOf
  <2>4. /\ Held(work[g]) \subseteq FilesIn(r)
        /\ \A p \in FilesIn(r) :
             /\ p \in Held(work[g]) \cup work[g].look => Shares(r, InputsOf(r, s)[work[g].k], p)
             /\ Shares(r, InputsOf(r, s)[work[g].k], p) =>
                  \/ p \in work[g].look
                  \/ IF Len(p) = 1 THEN p \in Held(work[g]) ELSE OnItsWay(r, p)
    BY <1>1, HeldIs
  <2> QED BY <1>6, <1>7, <2>1, <2>2, <2>3, <2>4 DEF HeldInv
<1>13. request[r].at = "depth"
  BY <1>1, Working
<1>14. \A f \in File : FileInv(f)'
  BY <1>1, <1>8, FilesSame
<1> QED BY <1>1, <1>3, <1>5, <1>6, <1>8, <1>11, <1>12, <1>13, <1>14, ArriveStep

LEMMA EndExtractArrives ==
  ASSUME ServeInv, ArriveInv, stage = "serve", NEW r \in Indices, NEW s \in Service, EndExtract(r, s)
  PROVE  ArriveInv'
<1> DEFINE g == <<r, s>>
<1>1. /\ work[g].at = "extract" /\ work[g].look = {}
      /\ Unchanged /\ UNCHANGED <<stage, request, sent, results>>
  BY DEF EndExtract
<1>2. UNCHANGED <<post, parsed, vars, file>>
  BY <1>1, UnchangedMeans DEF parseVars
<1>3. work[g] \in WorkType /\ g \in DOMAIN work /\ work[g].k \in Nat
  BY WorkHas DEF ServeInv
<1>4. Held(work[g]) = work[g].found /\ Begun(work[g]) = {}
  BY <1>1 DEF Held, Begun
<1>5. request[r].at = "depth"
  BY <1>1, Working
<1>6. \A p \in FilesIn(r) :
        /\ p \in Held(work[g]) => Shares(r, InputsOf(r, s)[work[g].k], p)
        /\ Shares(r, InputsOf(r, s)[work[g].k], p) =>
             IF Len(p) = 1 THEN p \in Held(work[g]) ELSE OnItsWay(r, p)
  BY <1>1, HeldIs
<1>7. /\ FilesIn(r)' = FilesIn(r) /\ InputsOf(r, s)' = InputsOf(r, s)
      /\ Held(work[g]) \subseteq FilesIn(r)
  BY <1>1, <1>2, SamePost, HeldIs DEF InputsOf
<1>8. CASE work[g].found = {}
  <2>1. PICK w : w = [work[g] EXCEPT !.at = "input", !.k = work[g].k + 1,
                                     !.toFetch = Append(work[g].toFetch, work[g].k)]
    OBVIOUS
  <2>2. work' = [work EXCEPT ![g] = w]
    BY <1>3, <1>8, <2>1 DEF EndExtract
  <2>3. w.at = "input" /\ w.k = work[g].k + 1
    BY <1>3, <2>1 DEF WorkType
  <2>4. Held(w) = {}
    BY <2>3 DEF Held
  <2>5. Grows
    BY <1>1, <1>2, <1>4, <1>8, <2>2, GroupGrows DEF ServeInv
  <2>6. HeldInv(r, s, w)'
    BY <2>3, <2>4, <1>7 DEF HeldInv
  <2>7. PICK input : input = WorkedOn(r, s, work[g])
    OBVIOUS
  <2>8. \A p \in FilesIn(r) : Shares(r, InputsOf(r, s)[work[g].k], p) =>
          IF Len(p) = 1 THEN Got(input, p)' ELSE OnItsWay(r, p)'
    BY <1>4, <1>6, <1>8, <2>5 DEF Grows
  <2>9. \A f \in File : FileInv(f)'
    BY <1>2, <2>5, FilesSame
  <2> QED BY <1>1, <1>2, <1>3, <1>5, <2>2, <2>3, <2>5, <2>6, <2>7, <2>8, <2>9, ArriveStep
<1>9. CASE work[g].found # {}
  <2>1. PICK w : w = [work[g] EXCEPT !.at = "marshal"]
    OBVIOUS
  <2>2. work' = [work EXCEPT ![g] = w]
    BY <1>3, <1>9, <2>1 DEF EndExtract
  <2>3. w.at = "marshal" /\ w.k = work[g].k /\ w.found = work[g].found /\ w.look = {}
    BY <1>1, <1>3, <2>1 DEF WorkType
  <2>4. Held(w) = Held(work[g])
    BY <1>4, <2>3 DEF Held
  <2>5. Grows
    BY <1>1, <1>2, <1>4, <2>2, <2>4, GroupGrows DEF ServeInv
  <2>6. HeldInv(r, s, w)'
    <3>1. \A input, p : Shares(r, input, p)' <=> Shares(r, input, p)
      BY <2>5, GrowsKeeps
    <3>2. \A p : OnItsWay(r, p) => OnItsWay(r, p)'
      BY <2>5 DEF Grows
    <3> QED BY <1>6, <1>7, <2>3, <2>4, <3>1, <3>2 DEF HeldInv
  <2>7. \A f \in File : FileInv(f)'
    BY <1>2, <2>5, FilesSame
  <2> QED BY <1>1, <1>2, <1>3, <1>5, <2>2, <2>3, <2>5, <2>6, <2>7, ArriveStep
<1> QED BY <1>8, <1>9

LEMMA MarshalArrives ==
  ASSUME ServeInv, ArriveInv, stage = "serve", NEW r \in Indices, NEW s \in Service, Marshal(r, s)
  PROVE  ArriveInv'
<1> DEFINE g == <<r, s>>
<1>1. /\ work[g].at = "marshal"
      /\ Unchanged /\ UNCHANGED <<stage, request, sent, results>>
  BY DEF Marshal
<1>2. UNCHANGED <<post, parsed, vars, file>>
  BY <1>1, UnchangedMeans DEF parseVars
<1>3. work[g] \in WorkType /\ g \in DOMAIN work /\ work[g].k \in Nat
  BY WorkHas DEF ServeInv
<1>4. PICK w : w = [work[g] EXCEPT !.at = "copy", !.todo = work[g].found, !.parts = {}]
  OBVIOUS
<1>5. work' = [work EXCEPT ![g] = w]
  BY <1>3, <1>4 DEF Marshal
<1>6. /\ w.at = "copy" /\ w.k = work[g].k /\ w.todo = work[g].found /\ w.parts = {}
      /\ w.look = work[g].look
  BY <1>3, <1>4 DEF WorkType
<1>7. Held(work[g]) = work[g].found /\ Begun(work[g]) = {} /\ Held(w) = work[g].found /\ Begun(w) = {}
  BY <1>1, <1>6 DEF Held, Begun
<1>8. Grows
  BY <1>1, <1>2, <1>5, <1>7, GroupGrows DEF ServeInv
<1>9. /\ work[g].look = {} /\ Held(work[g]) \subseteq FilesIn(r)
      /\ \A p \in FilesIn(r) :
           /\ p \in Held(work[g]) => Shares(r, InputsOf(r, s)[work[g].k], p)
           /\ Shares(r, InputsOf(r, s)[work[g].k], p) =>
                IF Len(p) = 1 THEN p \in Held(work[g]) ELSE OnItsWay(r, p)
  BY <1>1, HeldAll
<1>10. HeldInv(r, s, w)'
  <2>1. \A input, p : Shares(r, input, p)' <=> Shares(r, input, p)
    BY <1>8, GrowsKeeps
  <2>2. \A p : OnItsWay(r, p) => OnItsWay(r, p)'
    BY <1>8 DEF Grows
  <2>3. FilesIn(r)' = FilesIn(r) /\ InputsOf(r, s)' = InputsOf(r, s)
    BY <1>1, <1>2, SamePost DEF InputsOf
  <2> QED BY <1>6, <1>7, <1>9, <2>1, <2>2, <2>3 DEF HeldInv
<1>11. request[r].at = "depth"
  BY <1>1, Working
<1>12. \A f \in File : FileInv(f)'
  BY <1>2, <1>8, FilesSame
<1> QED BY <1>1, <1>2, <1>3, <1>5, <1>6, <1>8, <1>10, <1>11, <1>12, ArriveStep

\* An upload that is yet to be copied has not been copied for this input.
LEMMA NotYetCopied ==
  ASSUME ServeInv, ArriveInv, NEW r \in Indices, NEW s \in Service,
         work[<<r, s>>].at = "copy", NEW p \in work[<<r, s>>].todo, NEW f,
         <<WorkedOn(r, s, work[<<r, s>>]), p>> \in Copies(f)
  PROVE  FALSE
<1> DEFINE w == work[<<r, s>>]
           c == <<WorkedOn(r, s, w), p>>
<1>1. HeldInv(r, s, w)
  BY DEF ArriveInv
<1>2. p \notin Begun(w)
  BY <1>1 DEF HeldInv
<1>3. w.k \in Nat
  BY WorkHas DEF ServeInv
<1>4. CASE CopySent(f, c)
  <2>1. PICK i \in sent : \E x \in i.parts : c = <<SentAs(i), x.path>>
    BY <1>4 DEF CopySent
  <2>2. SentAs(i) = WorkedOn(r, s, w) /\ i.parts # {}
    BY <2>1
  <2>3. i.request = r /\ i.depth = request[r].depth /\ i.service = s /\ i.k = w.k
    BY <2>2, InputsDiffer DEF SentAs, WorkedOn
  <2>4. i.k < w.k \/ w.at = "err"
    BY <2>2, <2>3 DEF ArriveInv, SentFiles
  <2> QED BY <1>3, <2>3, <2>4
<1>5. CASE CopyBegun(f, c)
  <2>1. PICK o \in Indices, t \in Service : \E q \in Begun(work[<<o, t>>]) :
               c = <<WorkedOn(o, t, work[<<o, t>>]), q>>
    BY <1>5 DEF CopyBegun
  <2>2. PICK q \in Begun(work[<<o, t>>]) : c = <<WorkedOn(o, t, work[<<o, t>>]), q>>
    BY <2>1
  <2>3. WorkedOn(o, t, work[<<o, t>>]) = WorkedOn(r, s, w) /\ q = p
    BY <2>2
  <2>4. o = r /\ t = s
    BY <2>3, InputsDiffer DEF WorkedOn
  <2> QED BY <1>2, <2>3, <2>4
<1> HIDE DEF c
<1>6. c \in Copies(f) /\ TypeOK
  BY DEF ServeInv, c
<1> QED BY <1>4, <1>5, <1>6, CopiesAre

\* A copy that is one of two is shared with another.
LEMMA OneOfTwo ==
  ASSUME NEW f, NEW c \in Copies(f), Shared(f, c), NEW mine
  PROVE  Shared(f, mine)
BY DEF Shared

LEMMA BeginCopyArrives ==
  ASSUME ServeInv, ArriveInv, stage = "serve", NEW r \in Indices, NEW s \in Service, BeginCopy(r, s)
  PROVE  ArriveInv'
<1> DEFINE g == <<r, s>>
<1>1. /\ work[g].at = "copy"
      /\ UNCHANGED <<parseVars, vars, response, stage, request, sent, results>>
  BY DEF BeginCopy
<1>2. PICK p \in work[g].todo :
        /\ work' = [work EXCEPT ![g].at = "reading", ![g].reading = p,
                      ![g].todo = @ \ {p}, ![g].fresh = ~file[parsed[r][p]].read]
        /\ file' = [file EXCEPT ![parsed[r][p]].read = TRUE, ![parsed[r][p]].readers = @ + 1,
                      ![parsed[r][p]].mixed = @ \/ file[parsed[r][p]].readers > 0]
  BY DEF BeginCopy
<1>3. UNCHANGED <<post, parsed>>
  BY <1>1 DEF parseVars
<1>4. work[g] \in WorkType /\ g \in DOMAIN work /\ work[g].k \in Nat
  BY WorkHas DEF ServeInv
<1>5. PICK f : f = parsed[r][p]
  OBVIOUS
<1>6. PICK w : w = [work[g] EXCEPT !.at = "reading", !.reading = p,
                                   !.todo = work[g].todo \ {p}, !.fresh = ~file[f].read]
  OBVIOUS
<1>7. work' = [work EXCEPT ![g] = w]
  BY <1>2, <1>4, <1>5, <1>6
<1>8. /\ w.at = "reading" /\ w.k = work[g].k /\ w.todo = work[g].todo \ {p}
      /\ w.reading = p /\ w.parts = work[g].parts /\ w.look = work[g].look
  BY <1>4, <1>6 DEF WorkType
<1>9. w.fresh <=> ~file[f].read
  BY <1>4, <1>6, Zenon DEF WorkType
<1>10. HeldInv(r, s, work[g])
  BY DEF ArriveInv
<1>11. /\ Begun(w) = Begun(work[g]) \cup {p} /\ p \notin Begun(work[g])
       /\ Held(w) = Held(work[g])
       /\ work[g].todo \subseteq Held(work[g])
  <2>1. Begun(work[g]) = { x.path : x \in work[g].parts } /\ Begun(w) = { x.path : x \in work[g].parts } \cup {p}
    BY <1>1, <1>8 DEF Begun
  <2>2. p \notin Begun(work[g])
    BY <1>1, <1>2, <1>10 DEF HeldInv
  <2>3. Held(work[g]) = work[g].todo \cup Begun(work[g]) /\ Held(w) = w.todo \cup Begun(w)
    BY <1>1, <1>8 DEF Held
  <2> QED BY <1>8, <2>1, <2>2, <2>3
<1>12. PICK input : input = WorkedOn(r, s, work[g])
  OBVIOUS
<1>13. WorkedOn(r, s, w) = input /\ WorkedOn(r, s, w)' = input
  BY <1>1, <1>8, <1>12 DEF WorkedOn
<1>14. g \in DOMAIN work' /\ work'[g] = w
  BY <1>4, <1>7
<1>15. \A q \in Begun(w) : <<input, q>> \in Copies(parsed[r][q])'
  BY <1>1, <1>3, <1>13, <1>14, BegunIsCopyThen
<1>16. Grows
  BY <1>1, <1>3, <1>7, <1>11, <1>12, <1>15, GroupGrows DEF ServeInv
<1>17. /\ \A o, c : Shared(o, c) => Shared(o, c)'
       /\ \A y, x : PartInv(y, x) => PartInv(y, x)'
       /\ \A q, y, o : Shares(q, y, o)' <=> Shares(q, y, o)
  BY <1>16, GrowsKeeps
<1>18. \A o, c : c \in Copies(o) => c \in Copies(o)'
  BY <1>16 DEF Grows
<1>19. FilesIn(r)' = FilesIn(r) /\ InputsOf(r, s)' = InputsOf(r, s) /\ p \in FilesIn(r) /\ f \in File
  <2>1. p \in FilesIn(r)
    BY <1>1, <1>2, Working
  <2> QED BY <1>1, <1>3, <1>5, <2>1, SamePost, FilesInKeys DEF InputsOf
<1>20. ASSUME NEW c \in Copies(f) PROVE c # <<input, p>>
  BY <1>1, <1>2, <1>12, <1>20, NotYetCopied
<1>21. HeldInv(r, s, w)'
  <2>1. \A q : OnItsWay(r, q) => OnItsWay(r, q)'
    BY <1>16 DEF Grows
  <2>2. w.fresh \/ Shared(f, <<input, p>>)'
    <3> SUFFICES ASSUME ~w.fresh PROVE Shared(f, <<input, p>>)'
      BY Zenon
    <3>1. file[f].read
      BY <1>9, Zenon
    <3>2. PICK c : c \in Copies(f)
      BY <1>19, <3>1 DEF ArriveInv, FileInv
    <3> QED BY <1>18, <1>20, <3>2 DEF Shared
  <2>3. w.todo \cap Begun(w) = {} /\ \A x \in w.parts : PartInv(input, x)'
    <3>1. work[g].todo \cap Begun(work[g]) = {} /\ \A x \in work[g].parts : PartInv(input, x)
      BY <1>1, <1>10, <1>12 DEF HeldInv
    <3> QED BY <1>8, <1>11, <1>17, <3>1
  <2>4. /\ w.look = {} /\ Held(w) \subseteq FilesIn(r)
        /\ \A q \in FilesIn(r) :
             /\ q \in Held(w) => Shares(r, InputsOf(r, s)[w.k], q)
             /\ Shares(r, InputsOf(r, s)[w.k], q) =>
                  IF Len(q) = 1 THEN q \in Held(w) ELSE OnItsWay(r, q)
    BY <1>1, <1>8, <1>11, HeldAll
  <2>5. Shared(f, <<input, p>>)' <=> Shared(parsed[r][w.reading], <<WorkedOn(r, s, w), w.reading>>)'
    BY <1>3, <1>5, <1>8, <1>13
  <2>6. w.fresh \/ Shared(parsed[r][w.reading], <<WorkedOn(r, s, w), w.reading>>)'
    BY <2>2, <2>5, Zenon
  <2> QED BY <1>8, <1>13, <1>17, <1>19, <2>1, <2>3, <2>4, <2>6 DEF HeldInv
<1>22. /\ f \in DOMAIN file /\ file' = [file EXCEPT ![f].read = TRUE, ![f].readers = @ + 1,
                      ![f].mixed = @ \/ file[f].readers > 0]
  BY <1>2, <1>5, <1>19 DEF ServeInv, TypeOK
<1>23. /\ \A o \in File \ {f} : file'[o] = file[o]
       /\ file'[f].mixed <=> file[f].mixed \/ file[f].readers > 0
  <2>1. file[f] \in FileType
    BY <1>19 DEF ServeInv, TypeOK
  <2>2. \A o \in File \ {f} : file'[o] = file[o]
    BY <1>22 DEF ServeInv, TypeOK
  <2>3. file'[f] = [file[f] EXCEPT !.read = TRUE, !.readers = file[f].readers + 1,
                      !.mixed = file[f].mixed \/ file[f].readers > 0]
    BY <1>22
  <2>4. file'[f].mixed <=> file[f].mixed \/ file[f].readers > 0
    BY <2>1, <2>3, Zenon DEF FileType
  <2> QED BY <2>2, <2>4
<1>24. ASSUME NEW o \in File PROVE FileInv(o)'
  <2>1. CASE o # f
    BY <1>17, <1>18, <1>23, <2>1 DEF ArriveInv, FileInv
  <2>2. CASE o = f
    <3>1. <<input, p>> \in Copies(f)'
      BY <1>3, <1>5, <1>11, <1>15
    <3>2. ASSUME file'[f].mixed PROVE \E c \in Copies(f)' : Shared(f, c)'
      <4>1. CASE file[f].mixed
        BY <1>17, <1>18, <1>19, <4>1 DEF ArriveInv, FileInv
      <4>2. CASE file[f].readers > 0
        <5>1. Reading(f) # {}
          <6>1. file[f].readers = Cardinality(Reading(f))
            BY <1>19 DEF ServeInv
          <6> QED BY <4>2, <6>1, FS_EmptySet
        <5>2. PICK h \in Reading(f) : TRUE
          BY <5>1
        <5>3. h \in Indices \X Service /\ work[h].at = "reading" /\ parsed[h[1]][work[h].reading] = f
          BY DEF ServeInv, TypeOK, Reading
        <5>4. PICK q \in Indices, t \in Service : h = <<q, t>>
          BY <5>3
        <5>5. work[<<q, t>>].reading \in Begun(work[<<q, t>>]) /\ parsed[q][work[<<q, t>>].reading] = f
          BY <5>3, <5>4 DEF Begun
        <5>6. \E c : c \in Copies(f)
          BY <5>5, BegunIsCopy DEF ServeInv
        <5> QED BY <1>18, <1>20, <3>1, <5>6 DEF Shared
      <4>3. file[f].mixed \/ file[f].readers > 0
        BY <1>23, <3>2, Zenon
      <4> QED BY <4>1, <4>2, <4>3
    <3> QED BY <2>2, <3>1, <3>2 DEF FileInv
  <2> QED BY <2>1, <2>2
<1>25. request[r].at = "depth"
  BY <1>1, Working
<1> QED BY <1>1, <1>4, <1>7, <1>8, <1>16, <1>21, <1>24, <1>25, ArriveStep

LEMMA EndCopyArrives ==
  ASSUME ServeInv, ArriveInv, stage = "serve", NEW r \in Indices, NEW s \in Service, EndCopy(r, s)
  PROVE  ArriveInv'
<1> DEFINE g == <<r, s>>
<1>0. PICK p, f : p = work[g].reading /\ f = parsed[r][p]
  OBVIOUS
<1>1. /\ work[g].at = "reading"
      /\ UNCHANGED <<parseVars, vars, response, stage, request, sent, results>>
      /\ file' = [file EXCEPT ![f].readers = @ - 1, ![f].mixed = @ /\ file[f].readers > 1]
  BY <1>0 DEF EndCopy
<1>2. PICK part \in IF file[f].mixed THEN {"whole", "some", "empty"}
                    ELSE IF work[g].fresh THEN {"whole"} ELSE {"empty"} :
        work' = [work EXCEPT ![g].at = "copy",
                   ![g].parts = @ \cup {[path |-> p, file |-> f, part |-> part]}]
  BY <1>0 DEF EndCopy
<1>3. UNCHANGED <<post, parsed>>
  BY <1>1 DEF parseVars
<1>4. work[g] \in WorkType /\ g \in DOMAIN work /\ work[g].k \in Nat
  BY WorkHas DEF ServeInv
<1>5. PICK x : x = [path |-> p, file |-> f, part |-> part]
  OBVIOUS
<1>6. x.path = p /\ x.file = f /\ x.part = part
  BY <1>5
<1>7. PICK w : w = [work[g] EXCEPT !.at = "copy", !.parts = work[g].parts \cup {x}]
  OBVIOUS
<1>8. work' = [work EXCEPT ![g] = w]
  BY <1>2, <1>4, <1>5, <1>7
<1>9. /\ w.at = "copy" /\ w.k = work[g].k /\ w.todo = work[g].todo /\ w.parts = work[g].parts \cup {x}
      /\ w.look = work[g].look
  BY <1>4, <1>7 DEF WorkType
<1>10. HeldInv(r, s, work[g])
  BY DEF ArriveInv
<1>11. Begun(w) = Begun(work[g]) /\ Held(w) = Held(work[g])
  <2>1. /\ Begun(work[g]) = { y.path : y \in work[g].parts } \cup {p}
        /\ Begun(w) = { y.path : y \in work[g].parts \cup {x} }
    BY <1>0, <1>1, <1>9 DEF Begun
  <2>2. { y.path : y \in work[g].parts \cup {x} } = { y.path : y \in work[g].parts } \cup {p}
    BY <1>6
  <2>3. Begun(w) = Begun(work[g])
    BY <2>1, <2>2
  <2> QED BY <1>1, <1>9, <2>3 DEF Held
<1>12. PICK input : input = WorkedOn(r, s, work[g])
  OBVIOUS
<1>13. WorkedOn(r, s, w) = input /\ WorkedOn(r, s, w)' = input
  BY <1>1, <1>9, <1>12 DEF WorkedOn
<1>14. g \in DOMAIN work' /\ work'[g] = w
  BY <1>4, <1>8
<1>15. \A q \in Begun(w) : <<input, q>> \in Copies(parsed[r][q])'
  BY <1>1, <1>3, <1>13, <1>14, BegunIsCopyThen
<1>16. Grows
  BY <1>1, <1>3, <1>8, <1>11, <1>12, <1>15, GroupGrows DEF ServeInv
<1>17. /\ \A o, c : Shared(o, c) => Shared(o, c)'
       /\ \A y, z : PartInv(y, z) => PartInv(y, z)'
       /\ \A q, y, o : Shares(q, y, o)' <=> Shares(q, y, o)
       /\ \A q, o : o \in FilesIn(q)' <=> o \in FilesIn(q)
  BY <1>16, GrowsKeeps
<1>18. \A o, c : c \in Copies(o) => c \in Copies(o)'
  BY <1>16 DEF Grows
<1>19. FilesIn(r)' = FilesIn(r) /\ InputsOf(r, s)' = InputsOf(r, s) /\ p \in FilesIn(r) /\ f \in File
  <2>1. p \in FilesIn(r)
    BY <1>0, <1>1 DEF ServeInv, GroupInv
  <2> QED BY <1>0, <1>1, <1>3, <2>1, SamePost, FilesInKeys DEF InputsOf
<1>20. part # "whole" => Shared(f, <<input, p>>)
  <2>1. CASE file[f].mixed
    <3>1. PICK c \in Copies(f) : Shared(f, c)
      BY <1>19, <2>1 DEF ArriveInv, FileInv
    <3> QED BY <3>1, OneOfTwo
  <2>2. CASE ~file[f].mixed /\ ~work[g].fresh
    BY <1>0, <1>1, <1>10, <1>12, <2>2 DEF HeldInv
  <2>3. CASE ~file[f].mixed /\ work[g].fresh
    BY <1>2, <2>3
  <2> QED BY <2>1, <2>2, <2>3, Zenon
<1>21. PartInv(input, x)
  <2>1. input.request = r
    BY <1>12 DEF WorkedOn, InputAt
  <2> QED BY <1>0, <1>6, <1>19, <1>20, <2>1 DEF PartInv
<1>22. HeldInv(r, s, w)'
  <2>1. \A q : OnItsWay(r, q) => OnItsWay(r, q)'
    BY <1>16 DEF Grows
  <2>2. w.todo \cap Begun(w) = {} /\ \A y \in w.parts : PartInv(input, y)'
    <3>1. work[g].todo \cap Begun(work[g]) = {} /\ \A y \in work[g].parts : PartInv(input, y)
      BY <1>1, <1>10, <1>12 DEF HeldInv
    <3> QED BY <1>9, <1>11, <1>17, <1>21, <3>1
  <2>3. /\ w.look = {} /\ Held(w) \subseteq FilesIn(r)
        /\ \A q \in FilesIn(r) :
             /\ q \in Held(w) => Shares(r, InputsOf(r, s)[w.k], q)
             /\ Shares(r, InputsOf(r, s)[w.k], q) =>
                  IF Len(q) = 1 THEN q \in Held(w) ELSE OnItsWay(r, q)
    BY <1>1, <1>9, <1>11, HeldAll
  <2> QED BY <1>9, <1>13, <1>17, <1>19, <2>1, <2>2, <2>3 DEF HeldInv
<1>23. ASSUME NEW o \in File PROVE FileInv(o)'
  <2>1. (file'[o].read <=> file[o].read) /\ (file'[o].mixed => file[o].mixed)
    <3>1. file[f] \in FileType /\ f \in DOMAIN file
      BY <1>19 DEF ServeInv, TypeOK
    <3>2. CASE o # f
      BY <1>1, <3>2 DEF ServeInv, TypeOK
    <3>3. CASE o = f
      <4>1. file'[f] = [file[f] EXCEPT !.readers = file[f].readers - 1,
                          !.mixed = file[f].mixed /\ file[f].readers > 1]
        BY <1>1, <3>1
      <4>2. (file'[f].read <=> file[f].read) /\ (file'[f].mixed <=> file[f].mixed /\ file[f].readers > 1)
        BY <3>1, <4>1, Zenon DEF FileType
      <4> QED BY <3>3, <4>2, Zenon
    <3> QED BY <3>2, <3>3
  <2> QED BY <1>17, <1>18, <2>1 DEF ArriveInv, FileInv
<1>24. request[r].at = "depth"
  BY <1>1, Working
<1> QED BY <1>1, <1>4, <1>8, <1>9, <1>16, <1>22, <1>23, <1>24, ArriveStep

LEMMA SendMultipartArrives ==
  ASSUME ServeInv, ArriveInv, stage = "serve", NEW r \in Indices, NEW s \in Service, SendMultipart(r, s)
  PROVE  ArriveInv'
<1> DEFINE g == <<r, s>>
<1>0. PICK i : i = SentInput(r, s, work[g].k, work[g].parts)
  OBVIOUS
<1>1. /\ work[g].at = "copy" /\ work[g].todo = {}
      /\ sent' = sent \cup {i}
      /\ Unchanged /\ UNCHANGED <<stage, request, results>>
  BY <1>0 DEF SendMultipart
<1>2. UNCHANGED <<post, parsed, vars, file>>
  BY <1>1, UnchangedMeans DEF parseVars
<1>3. work[g] \in WorkType /\ g \in DOMAIN work /\ work[g].k \in Nat
  BY WorkHas DEF ServeInv
<1>4. PICK w : /\ work' = [work EXCEPT ![g] = w]
               /\ Held(w) = {}
               /\ \/ w.at = "input" /\ w.k = work[g].k + 1
                  \/ w.at = "err" /\ w.k = work[g].k
  <2>1. CASE work' = [work EXCEPT ![g].at = "input", ![g].k = @ + 1]
    <3>1. PICK w : w = [work[g] EXCEPT !.at = "input", !.k = work[g].k + 1]
      OBVIOUS
    <3>2. work' = [work EXCEPT ![g] = w]
      BY <1>3, <2>1, <3>1
    <3>3. w.at = "input" /\ w.k = work[g].k + 1
      BY <1>3, <3>1 DEF WorkType
    <3>4. Held(w) = {}
      BY <3>3 DEF Held
    <3> QED BY <3>2, <3>3, <3>4
  <2>2. CASE Goto(g, "err")
    <3>1. PICK w : w = [work[g] EXCEPT !.at = "err"]
      OBVIOUS
    <3>2. work' = [work EXCEPT ![g] = w]
      BY <1>3, <2>2, <3>1 DEF Goto
    <3>3. w.at = "err" /\ w.k = work[g].k
      BY <1>3, <3>1 DEF WorkType
    <3>4. Held(w) = {}
      BY <3>3 DEF Held
    <3> QED BY <3>2, <3>3, <3>4
  <2> QED BY <2>1, <2>2 DEF SendMultipart
<1>5. HeldInv(r, s, work[g])
  BY DEF ArriveInv
<1>6. Held(work[g]) = Begun(work[g]) /\ Begun(work[g]) = { x.path : x \in work[g].parts }
  BY <1>1 DEF Held, Begun
<1>7. PICK input : input = WorkedOn(r, s, work[g])
  OBVIOUS
<1>8. /\ i.request = r /\ i.depth = request[r].depth /\ i.service = s /\ i.k = work[g].k
      /\ i.parts = work[g].parts
  BY <1>0 DEF SentInput
<1>9. SentAs(i) = input
  BY <1>7, <1>8 DEF SentAs, WorkedOn
<1>10. \A x \in work[g].parts : PartInv(input, x) /\ x.file = parsed[r][x.path]
  <2>1. input.request = r
    BY <1>7 DEF WorkedOn, InputAt
  <2> QED BY <1>1, <1>5, <1>7, <2>1 DEF HeldInv, PartInv
<1>11. ASSUME NEW p \in Held(work[g])
       PROVE  /\ Getting(r, p)' # {} /\ Got(input, p)'
              /\ <<input, p>> \in Copies(parsed[r][p])'
  <2>1. PICK x \in i.parts : x.path = p
    BY <1>6, <1>8
  <2>2. i \in sent' /\ x.file = parsed[r][p]
    BY <1>1, <1>8, <1>10, <2>1
  <2>3. i \in Getting(r, p)'
    BY <1>8, <2>1, <2>2 DEF Getting
  <2>4. Got(input, p)'
    BY <1>9, <2>1, <2>2 DEF Got, SentAs
  <2>5. <<SentAs(i), x.path>> \in Copies(x.file)'
    BY <2>2, SentIsCopyThen
  <2> QED BY <1>2, <1>9, <2>1, <2>2, <2>3, <2>4, <2>5
<1>12. Grows
  BY <1>1, <1>2, <1>4, <1>6, <1>7, <1>11, GroupGrows DEF ServeInv
<1>13. /\ \A y, x : PartInv(y, x) => PartInv(y, x)'
       /\ \A q, y, p : Shares(q, y, p)' <=> Shares(q, y, p)
       /\ \A p : OnItsWay(r, p) => OnItsWay(r, p)'
  BY <1>12, GrowsKeeps DEF Grows
<1>14. FilesIn(r)' = FilesIn(r) /\ InputsOf(r, s)' = InputsOf(r, s)
  BY <1>1, <1>2, SamePost DEF InputsOf
<1>15. HeldInv(r, s, w)'
  BY <1>4, <1>14 DEF HeldInv
<1>16. \A p \in FilesIn(r) : Shares(r, InputsOf(r, s)[work[g].k], p) =>
         IF Len(p) = 1 THEN Got(input, p)' ELSE OnItsWay(r, p)'
  BY <1>1, <1>11, <1>13, HeldAll
<1>17. SentFiles(i)'
  <2>1. ASSUME NEW x \in i.parts
        PROVE  PartInv(SentAs(i), x)' /\ Shares(r, Plan(r)[i.depth][s][i.k], x.path)'
    <3>1. PartInv(input, x)'
      BY <1>8, <1>10, <1>13, <2>1
    <3>2. SentAs(i)' = input
      BY <1>9 DEF SentAs, InputAt
    <3>3. x.path \in Held(work[g]) /\ x.path \in FilesIn(r)
      BY <1>5, <1>6, <1>8 DEF HeldInv
    <3>4. Shares(r, InputsOf(r, s)[work[g].k], x.path)
      BY <1>1, <1>5, <3>3 DEF HeldInv
    <3>5. Plan(r)[i.depth][s][i.k]' = InputsOf(r, s)[work[g].k]
      BY <1>2, <1>8, SamePost DEF InputsOf
    <3> QED BY <1>13, <3>1, <3>2, <3>4, <3>5
  <2>2. work'[g] = w
    BY <1>3, <1>4
  <2>3. i.depth <= request'[r].depth
    BY <1>1, <1>8, RequestHas DEF ServeInv
  <2>4. i.k < w.k \/ w.at = "err"
    BY <1>3, <1>4, <1>8
  <2> QED BY <1>8, <2>1, <2>2, <2>3, <2>4 DEF SentFiles
<1>18. \A f \in File : FileInv(f)'
  BY <1>2, <1>12, FilesSame
<1>19. request[r].at = "depth"
  BY <1>1, Working
<1>20. \A j \in sent' \ sent : SentFiles(j)'
  BY <1>1, <1>17
<1> QED BY <1>1, <1>2, <1>3, <1>4, <1>7, <1>12, <1>15, <1>16, <1>18, <1>19, <1>20, ArriveStep

LEMMA BeginFetchArrives ==
  ASSUME ServeInv, ArriveInv, stage = "serve", NEW r \in Indices, NEW s \in Service, BeginFetch(r, s)
  PROVE  ArriveInv'
<1> DEFINE g == <<r, s>>
<1>0. PICK at \in {"ok", "marshalAll"} : Goto(g, at)
  BY DEF BeginFetch
<1>1. /\ work[g].at = "input" /\ work[g].k > Len(InputsOf(r, s))
      /\ Unchanged /\ UNCHANGED <<stage, request, sent, results>>
  BY DEF BeginFetch
<1>2. UNCHANGED <<post, parsed, vars, file>>
  BY <1>1, UnchangedMeans DEF parseVars
<1>3. work[g] \in WorkType /\ g \in DOMAIN work /\ work[g].k \in Nat
  BY WorkHas DEF ServeInv
<1>4. PICK w : w = [work[g] EXCEPT !.at = at]
  OBVIOUS
<1>5. work' = [work EXCEPT ![g] = w]
  BY <1>0, <1>3, <1>4 DEF Goto
<1>6. w.at = at /\ w.k = work[g].k
  BY <1>3, <1>4 DEF WorkType
<1>7. Held(work[g]) = {} /\ Begun(work[g]) = {} /\ Held(w) = {}
  BY <1>0, <1>1, <1>6 DEF Held, Begun
<1>8. Grows
  BY <1>1, <1>2, <1>5, <1>7, GroupGrows DEF ServeInv
<1>9. HeldInv(r, s, w)'
  <2>1. FilesIn(r)' = FilesIn(r) /\ InputsOf(r, s)' = InputsOf(r, s)
    BY <1>1, <1>2, SamePost DEF InputsOf
  <2> QED BY <1>0, <1>1, <1>6, <1>7, <2>1 DEF HeldInv
<1>10. \A f \in File : FileInv(f)'
  BY <1>2, <1>8, FilesSame
<1>11. request[r].at = "depth"
  BY <1>1, Working
<1>12. w.at # "idle"
  BY <1>6
<1> QED BY <1>1, <1>2, <1>3, <1>5, <1>6, <1>8, <1>9, <1>10, <1>11, <1>12, ArriveStep

LEMMA FetchArrives ==
  ASSUME ServeInv, ArriveInv, stage = "serve", NEW r \in Indices, NEW s \in Service, Fetch(r, s)
  PROVE  ArriveInv'
<1> DEFINE g == <<r, s>>
<1>0. PICK at \in {"ok", "err"} : Goto(g, at)
  BY DEF Fetch
<1>1. /\ work[g].at = "marshalAll"
      /\ sent' = sent \cup { SentInput(r, s, k, {}) : k \in Range(work[g].toFetch) }
      /\ Unchanged /\ UNCHANGED <<stage, request, results>>
  BY DEF Fetch
<1>2. UNCHANGED <<post, parsed, vars, file>>
  BY <1>1, UnchangedMeans DEF parseVars
<1>3. work[g] \in WorkType /\ g \in DOMAIN work /\ work[g].k \in Nat
  BY WorkHas DEF ServeInv
<1>4. PICK w : w = [work[g] EXCEPT !.at = at]
  OBVIOUS
<1>5. work' = [work EXCEPT ![g] = w]
  BY <1>0, <1>3, <1>4 DEF Goto
<1>6. w.at = at /\ w.k = work[g].k
  BY <1>3, <1>4 DEF WorkType
<1>7. Held(work[g]) = {} /\ Begun(work[g]) = {} /\ Held(w) = {}
  BY <1>0, <1>1, <1>6 DEF Held, Begun
<1>8. sent \subseteq sent'
  BY <1>1
<1>9. Grows
  BY <1>1, <1>2, <1>5, <1>7, <1>8, GroupGrows DEF ServeInv
<1>10. HeldInv(r, s, w)'
  <2>1. FilesIn(r)' = FilesIn(r) /\ InputsOf(r, s)' = InputsOf(r, s)
    BY <1>1, <1>2, SamePost DEF InputsOf
  <2>2. work[g].k > Len(InputsOf(r, s))
    BY <1>1 DEF ArriveInv, HeldInv
  <2> QED BY <1>0, <1>6, <1>7, <2>1, <2>2 DEF HeldInv
<1>11. ASSUME NEW i \in sent' \ sent PROVE SentFiles(i)'
  <2>1. PICK k : i = SentInput(r, s, k, {})
    BY <1>1
  <2>2. i.request = r /\ i.depth = request[r].depth /\ i.parts = {}
    BY <2>1 DEF SentInput
  <2>3. i.depth <= request'[i.request].depth
    BY <1>1, <2>2, RequestHas DEF ServeInv
  <2> QED BY <2>2, <2>3 DEF SentFiles
<1>12. \A f \in File : FileInv(f)'
  BY <1>2, <1>9, FilesSame
<1>13. request[r].at = "depth"
  BY <1>1, Working
<1>14. w.at # "idle"
  BY <1>6
<1> QED BY <1>1, <1>2, <1>3, <1>5, <1>6, <1>9, <1>10, <1>11, <1>12, <1>13, <1>14, ArriveStep

LEMMA GroupArrives ==
  ASSUME ServeInv, ArriveInv, stage = "serve", NEW r \in Indices, NEW s \in Service,
         Group(r, s), ~Collide(r, s)
  PROVE  ArriveInv'
BY BeginExtractArrives, ExtractArrives, ClearArrives, EndExtractArrives, MarshalArrives, BeginCopyArrives,
   EndCopyArrives, SendMultipartArrives, BeginFetchArrives, FetchArrives DEF Group
-----------------------------------------------------------------------------
\* Steps that take no upload from one place to another.

LEMMA WorkGrows ==
  ASSUME TypeOK, UNCHANGED <<post, parsed, sent>>, DOMAIN work' = DOMAIN work,
         \A r \in Indices, s \in Service :
           \/ Held(work[<<r, s>>]) = {}
           \/ work'[<<r, s>>] = work[<<r, s>>] /\ request'[r].depth = request[r].depth
  PROVE  Grows
<1>1. DOMAIN work' = Indices \X Service
  BY DEF TypeOK
<1>2. ASSUME NEW f, NEW c \in Copies(f) PROVE c \in Copies(f)'
  <2>1. CASE CopySent(f, c)
    BY <2>1, SentIsCopyThen DEF CopySent
  <2>2. CASE CopyBegun(f, c)
    <3>1. PICK r \in Indices, s \in Service : \E p \in Begun(work[<<r, s>>]) :
                 parsed[r][p] = f /\ c = <<WorkedOn(r, s, work[<<r, s>>]), p>>
      BY <2>2 DEF CopyBegun
    <3>2. PICK p \in Begun(work[<<r, s>>]) :
                 parsed[r][p] = f /\ c = <<WorkedOn(r, s, work[<<r, s>>]), p>>
      BY <3>1
    <3>3. p \in Held(work[<<r, s>>])
      BY <3>2 DEF Begun, Held
    <3>4. PICK v : v = work[<<r, s>>]
      OBVIOUS
    <3>5. work'[<<r, s>>] = v /\ <<r, s>> \in DOMAIN work' /\ request'[r].depth = request[r].depth
      BY <1>1, <3>3, <3>4
    <3>6. <<WorkedOn(r, s, v), p>> \in Copies(parsed[r][p])'
      BY <3>2, <3>4, <3>5, BegunIsCopyThen
    <3> QED BY <3>2, <3>4, <3>6
  <2> QED BY <2>1, <2>2, CopiesAre
<1>3. ASSUME NEW r \in Indices, NEW p, OnItsWay(r, p) PROVE OnItsWay(r, p)'
  <2>1. Getting(r, p) \subseteq Getting(r, p)'
    BY DEF Getting
  <2>2. CASE Getting(r, p) # {}
    BY <2>1, <2>2 DEF OnItsWay
  <2>3. CASE \E s \in Service : p \in Held(work[<<r, s>>])
    <3>1. PICK s \in Service : p \in Held(work[<<r, s>>])
      BY <2>3
    <3>2. work'[<<r, s>>] = work[<<r, s>>]
      BY <3>1
    <3> QED BY <3>1, <3>2 DEF OnItsWay
  <2> QED BY <1>3, <2>2, <2>3 DEF OnItsWay
<1> QED BY <1>2, <1>3 DEF Grows

\* What a goroutine holds stays right as long as its request's depth does.
LEMMA HeldStays ==
  ASSUME Grows, NEW r \in Indices, NEW s \in Service, NEW w, HeldInv(r, s, w),
         request'[r].depth = request[r].depth
  PROVE  HeldInv(r, s, w)'
<1>1. UNCHANGED <<post, parsed>> /\ \A p : OnItsWay(r, p) => OnItsWay(r, p)'
  BY DEF Grows
<1>2. FilesIn(r)' = FilesIn(r) /\ InputsOf(r, s)' = InputsOf(r, s)
  BY <1>1, SamePost DEF InputsOf
<1>3. /\ \A f, c : Shared(f, c) => Shared(f, c)'
      /\ \A y, x : PartInv(y, x) => PartInv(y, x)'
      /\ \A y, p : Shares(r, y, p)' <=> Shares(r, y, p)
  BY GrowsKeeps
<1>4. WorkedOn(r, s, w)' = WorkedOn(r, s, w)
  BY DEF WorkedOn, InputAt
<1> QED BY <1>1, <1>2, <1>3, <1>4 DEF HeldInv

\* So do the promises for the inputs that the request is done with.
LEMMA PassedStays ==
  ASSUME Grows, NEW r \in Indices, PassedInv(r),
         \A d \in DOMAIN Plan(r) : \A s \in InDepth(r, d) : \A k \in DOMAIN Plan(r)[d][s] :
           Passed(r, d, s, k)' => Passed(r, d, s, k)
  PROVE  PassedInv(r)'
<1>1. UNCHANGED <<post, parsed>> /\ \A p : OnItsWay(r, p) => OnItsWay(r, p)'
  BY DEF Grows
<1>2. FilesIn(r)' = FilesIn(r) /\ Plan(r)' = Plan(r) /\ \A d : InDepth(r, d)' = InDepth(r, d)
  BY <1>1, SamePost
<1>3. /\ \A y, p : Got(y, p) => Got(y, p)'
      /\ \A y, p : Shares(r, y, p)' <=> Shares(r, y, p)
  BY GrowsKeeps
<1> SUFFICES ASSUME NEW d \in DOMAIN Plan(r), NEW s \in InDepth(r, d), NEW k \in DOMAIN Plan(r)[d][s],
                    Passed(r, d, s, k)', NEW p \in FilesIn(r), Shares(r, Plan(r)[d][s][k], p)
             PROVE  IF Len(p) = 1 THEN Got(InputAt(r, d, s, k), p)' ELSE OnItsWay(r, p)'
  BY <1>2, <1>3 DEF PassedInv
<1>4. IF Len(p) = 1 THEN Got(InputAt(r, d, s, k), p) ELSE OnItsWay(r, p)
  BY DEF PassedInv
<1> QED BY <1>1, <1>3, <1>4

LEMMA DepthStays ==
  ASSUME UNCHANGED <<post, work>>, NEW r, request'[r] = request[r], DepthInv(r)
  PROVE  DepthInv(r)'
<1>1. Plan(r)' = Plan(r) /\ \A d : InDepth(r, d)' = InDepth(r, d)
  BY DEF Plan, InDepth
<1>2. (Failed(r)' <=> Failed(r)) /\ (AllOk(r)' <=> AllOk(r))
  BY <1>1 DEF Failed, AllOk
<1> QED BY <1>1, <1>2 DEF DepthInv

\* What stays when no work, no variable and no file changes, and nothing is sent.
LEMMA ArriveStays ==
  ASSUME ServeInv, ArriveInv, UNCHANGED <<post, parsed, vars, work, file, sent>>,
         \A r \in Indices : request'[r].depth = request[r].depth /\ DepthInv(r)',
         stage' = "crashed" => (FileShared \/ PlanWithoutSteps)'
  PROVE  ArriveInv'
<1>1. /\ Indices' = Indices
      /\ \A q : Plan(q)' = Plan(q) /\ FilesIn(q)' = FilesIn(q) /\ Tree(q)' = Tree(q)
  BY SamePost DEF Tree
<1>2. Grows
  BY WorkGrows DEF ServeInv
<1>3. ASSUME NEW r \in Indices
      PROVE  /\ DOMAIN parsed'[r] = DOMAIN Tree(r)'
             /\ PassedInv(r)'
             /\ \A p \in DOMAIN parsed[r] : vars'[r][p] # parsed'[r][p] => OnItsWay(r, p)'
  <2>1. DOMAIN parsed'[r] = DOMAIN Tree(r)'
    BY <1>1 DEF ArriveInv
  <2>2. PassedInv(r)'
    BY <1>2, PassedStays DEF ArriveInv, Passed
  <2>3. \A p \in DOMAIN parsed[r] : vars'[r][p] # parsed'[r][p] => OnItsWay(r, p)'
    BY <1>2 DEF ArriveInv, Grows
  <2> QED BY <2>1, <2>2, <2>3
<1>4. ASSUME NEW r \in Indices, NEW s \in Service PROVE HeldInv(r, s, work[<<r, s>>])'
  <2>1. PICK w : w = work[<<r, s>>]
    OBVIOUS
  <2>2. HeldInv(r, s, w)'
    BY <1>2, <2>1, HeldStays DEF ArriveInv
  <2>3. work'[<<r, s>>] = w
    BY <2>1
  <2> QED BY <2>2, <2>3 DEF HeldInv
<1>5. \A f \in File : FileInv(f)'
  BY <1>2, FilesSame
<1>6. ASSUME NEW i \in sent PROVE SentFiles(i)'
  <2>1. SentFiles(i) /\ i.request \in Indices
    BY DEF ArriveInv, ServeInv, SentInv
  <2>2. SentAs(i)' = SentAs(i)
    BY DEF SentAs, InputAt
  <2>3. /\ \A y, x : PartInv(y, x) => PartInv(y, x)'
        /\ \A q, y, p : Shares(q, y, p)' <=> Shares(q, y, p)
    BY <1>2, GrowsKeeps
  <2> QED BY <1>1, <2>1, <2>2, <2>3 DEF SentFiles
<1> QED BY <1>1, <1>3, <1>4, <1>5, <1>6 DEF ArriveInv

\* What a crash is due to depends on the post and its files only.
LEMMA CrashesSame ==
  ASSUME UNCHANGED <<post, parsed>>
  PROVE  (FileShared' <=> FileShared) /\ (PlanWithoutSteps' <=> PlanWithoutSteps)
<1>1. Indices' = Indices /\ \A q, o : Using(q, o)' = Using(q, o) /\ FilesIn(q)' = FilesIn(q)
  BY DEF Indices, Using, Plan, FilesIn
<1> QED BY <1>1 DEF FileShared, PlanWithoutSteps, Plan

\* Two services, one of which changes what the other comes by, are both given it.
LEMMA CollideArrives ==
  ASSUME ServeInv, ArriveInv, stage = "serve", NEW r \in Indices, NEW s \in Service, Collide(r, s)
  PROVE  ArriveInv'
<1> DEFINE g == <<r, s>>
<1>0. PICK p : p = work[g].taking
  OBVIOUS
<1>1. /\ work[g].at = "clear"
      /\ Unchanged /\ UNCHANGED <<request, work, sent, results>>
  BY DEF Collide
<1>2. UNCHANGED <<post, parsed, vars, file>>
  BY <1>1, UnchangedMeans DEF parseVars
<1>3. PICK other \in Service \ {s} :
        \E k \in Walking(<<r, other>>) : Shares(r, InputsOf(r, other)[k], p)
  <2>1. PICK other \in Service \ {s} :
          \/ \E k \in Walking(<<r, other>>) : Shares(r, InputsOf(r, other)[k], p)
          \/ p \in work[<<r, other>>].look
    BY <1>0 DEF Collide
  <2>2. CASE p \in work[<<r, other>>].look
    <3> DEFINE w == work[<<r, other>>]
    <3>1. GroupInv(r, other, w)
      BY DEF ServeInv
    <3>2. w.at \in {"extract", "clear"} /\ w.look \subseteq FilesIn(r)
      BY <2>2, <3>1 DEF GroupInv
    <3>3. Shares(r, InputsOf(r, other)[w.k], p)
      BY <2>2, <3>2, HeldIs
    <3>4. w.k \in Walking(<<r, other>>)
      BY <3>2 DEF Walking
    <3> QED BY <3>3, <3>4
  <2> QED BY <2>1, <2>2
<1>4. PICK k \in Walking(<<r, other>>) : Shares(r, InputsOf(r, other)[k], p)
  BY <1>3
<1>5. PICK d : d = request[r].depth
  OBVIOUS
<1>6. /\ d \in DOMAIN Plan(r) /\ s \in InDepth(r, d) /\ work[g].k \in DOMAIN Plan(r)[d][s]
      /\ p \in FilesIn(r) /\ p \in work[g].found /\ Len(p) > 1
  <2>1. GroupInv(r, s, work[g])
    BY DEF ServeInv
  <2>2. work[g].k <= Len(InputsOf(r, s)) /\ p \in work[g].found /\ Len(p) > 1
    BY <1>0, <1>1, <2>1 DEF GroupInv
  <2>3. PICK n \in Nat : n = Len(InputsOf(r, s)) /\ DOMAIN InputsOf(r, s) = 1 .. n
    BY <1>1, Working
  <2>4. work[g].k \in 1 .. n + 1 /\ work[g].k <= n
    BY <1>1, <2>2, <2>3, Working
  <2>5. work[g].k \in 1 .. n
    BY <2>4
  <2>6. d \in DOMAIN Plan(r) /\ s \in InDepth(r, d) /\ p \in FilesIn(r)
    BY <1>1, <1>5, <2>2, Working
  <2> QED BY <1>5, <2>2, <2>3, <2>5, <2>6 DEF InputsOf
<1>7. other \in InDepth(r, d) /\ k \in DOMAIN Plan(r)[d][other]
  <2> DEFINE w == work[<<r, other>>]
  <2>1. w.at \in {"extract", "clear", "marshal", "marshalAll"}
    BY <1>4 DEF Walking
  <2>2. GroupInv(r, other, w)
    BY DEF ServeInv
  <2>3. PICK n \in Nat : n = Len(InputsOf(r, other)) /\ DOMAIN InputsOf(r, other) = 1 .. n
    BY <2>1, Working
  <2>4. other \in InDepth(r, d)
    BY <1>5, <2>1, <2>2 DEF GroupInv
  <2>5. k \in 1 .. n
    <3>1. CASE w.at = "marshalAll"
      <4>1. k \in Range(w.toFetch)
        BY <1>4, <3>1 DEF Walking
      <4> QED BY <2>1, <2>3, <4>1, Working
    <3>2. CASE w.at \in {"extract", "clear", "marshal"}
      <4>1. k = w.k /\ w.k <= Len(InputsOf(r, other)) /\ w.k \in 1 .. Len(InputsOf(r, other)) + 1
        BY <1>4, <2>2, <3>2, Working DEF Walking, GroupInv
      <4> QED BY <2>3, <4>1
    <3> QED BY <2>1, <3>1, <3>2
  <2> QED BY <1>5, <2>3, <2>4, <2>5 DEF InputsOf
<1>8. p \in DOMAIN parsed[r] /\ parsed[r][p] \in File
  BY <1>6 DEF FilesIn
<1>9. DOMAIN parsed[r] = DOMAIN Tree(r) /\ TypeOK
  BY DEF ArriveInv, ServeInv
<1>10. <<d, s, work[g].k>> \in Using(r, p)
  <2>1. p \in Held(work[g])
    BY <1>1, <1>6 DEF Held
  <2>2. Shares(r, Plan(r)[d][s][work[g].k], p)
    BY <1>1, <1>5, <1>6, <2>1, HeldIs DEF InputsOf
  <2> QED BY <1>6, <1>8, <1>9, <2>2, SharesIsUsing
<1>11. <<d, other, k>> \in Using(r, p)
  BY <1>4, <1>5, <1>6, <1>7, <1>8, <1>9, SharesIsUsing DEF InputsOf
<1>12. FileShared
  <2>1. \E u, v \in Using(r, p) : u[1] = v[1] /\ u[2] # v[2]
    <3>1. <<d, s, work[g].k>>[1] = <<d, other, k>>[1] /\ <<d, s, work[g].k>>[2] # <<d, other, k>>[2]
      BY <1>3
    <3> QED BY <1>10, <1>11, <3>1
  <2> QED BY <1>6, <2>1 DEF FileShared
<1>13. FileShared'
  BY <1>2, <1>12, CrashesSame
<1>14. \A o \in Indices : request'[o].depth = request[o].depth /\ DepthInv(o)'
  BY <1>1, <1>2, DepthStays DEF ArriveInv
<1> QED BY <1>1, <1>2, <1>13, <1>14, ArriveStays

\* A plan without steps.
LEMMA ExecutePanicsArrives ==
  ASSUME ServeInv, ArriveInv, stage = "serve", NEW r \in Indices, ExecutePanics(r)
  PROVE  ArriveInv'
<1>1. /\ post.entries[r].query = "ok" /\ Plan(r) = <<>>
      /\ Unchanged /\ UNCHANGED <<request, work, sent>>
  BY DEF ExecutePanics
<1>2. UNCHANGED <<post, parsed, vars, file>>
  BY <1>1, UnchangedMeans DEF parseVars
<1>3. PlanWithoutSteps'
  BY <1>1, <1>2, CrashesSame DEF PlanWithoutSteps
<1>4. \A o \in Indices : request'[o].depth = request[o].depth /\ DepthInv(o)'
  BY <1>1, <1>2, DepthStays DEF ArriveInv
<1> QED BY <1>1, <1>2, <1>3, <1>4, ArriveStays

\* A step of request r alone: where it is then must agree with its depth.
LEMMA RequestArrives ==
  ASSUME ServeInv, ArriveInv, stage = "serve", NEW r \in Indices, NEW q,
         request' = [request EXCEPT ![r] = q], q.depth = request[r].depth, DepthInv(r)',
         Unchanged, UNCHANGED <<stage, work, sent>>
  PROVE  ArriveInv'
<1>1. UNCHANGED <<post, parsed, vars, file>>
  BY UnchangedMeans DEF parseVars
<1>2. ASSUME NEW o \in Indices PROVE request'[o].depth = request[o].depth /\ DepthInv(o)'
  <2>1. CASE o = r
    BY <2>1 DEF ServeInv, TypeOK
  <2>2. CASE o # r
    <3>1. request'[o] = request[o]
      BY <2>2 DEF ServeInv, TypeOK
    <3> QED BY <1>1, <3>1, DepthStays DEF ArriveInv
  <2> QED BY <2>1, <2>2
<1> QED BY <1>1, <1>2, ArriveStays

LEMMA RefuseArrives ==
  ASSUME ServeInv, ArriveInv, stage = "serve", NEW r \in Indices, Refuse(r)
  PROVE  ArriveInv'
<1>1. /\ post.entries[r].query # "ok"
      /\ request' = [request EXCEPT ![r].at = "result", ![r].result = Result(r, TRUE)]
      /\ Unchanged /\ UNCHANGED <<stage, work, sent>>
  BY DEF Refuse
<1>2. PICK q : q = [request[r] EXCEPT !.at = "result", !.result = Result(r, TRUE)]
  OBVIOUS
<1>3. request' = [request EXCEPT ![r] = q] /\ request'[r] = q
  BY <1>1, <1>2 DEF ServeInv, TypeOK
<1>4. q.at = "result" /\ q.depth = request[r].depth
  BY <1>2, RequestHas DEF ServeInv, RequestType
<1>5. DepthInv(r)'
  BY <1>1, <1>3, <1>4, UnchangedMeans DEF DepthInv, parseVars
<1> QED BY <1>1, <1>3, <1>4, <1>5, RequestArrives

LEMMA ResolveIntrospectionArrives ==
  ASSUME ServeInv, ArriveInv, stage = "serve", NEW r \in Indices, ResolveIntrospection(r)
  PROVE  ArriveInv'
<1>1. /\ post.entries[r].query # "ok"
      /\ request' = [request EXCEPT ![r].at = "result", ![r].result = Result(r, FALSE)]
      /\ Unchanged /\ UNCHANGED <<stage, work, sent>>
  BY DEF ResolveIntrospection
<1>2. PICK q : q = [request[r] EXCEPT !.at = "result", !.result = Result(r, FALSE)]
  OBVIOUS
<1>3. request' = [request EXCEPT ![r] = q] /\ request'[r] = q
  BY <1>1, <1>2 DEF ServeInv, TypeOK
<1>4. q.at = "result" /\ q.depth = request[r].depth
  BY <1>2, RequestHas DEF ServeInv, RequestType
<1>5. DepthInv(r)'
  BY <1>1, <1>3, <1>4, UnchangedMeans DEF DepthInv, parseVars
<1> QED BY <1>1, <1>3, <1>4, <1>5, RequestArrives

LEMMA FoldArrives ==
  ASSUME ServeInv, ArriveInv, stage = "serve", NEW r \in Indices, Fold(r)
  PROVE  ArriveInv'
<1>1. /\ request[r].at = "result"
      /\ request' = [request EXCEPT ![r].at = "folded"]
      /\ Unchanged /\ UNCHANGED <<stage, work, sent>>
  BY DEF Fold
<1>2. PICK q : q = [request[r] EXCEPT !.at = "folded"]
  OBVIOUS
<1>3. request' = [request EXCEPT ![r] = q] /\ request'[r] = q
  BY <1>1, <1>2 DEF ServeInv, TypeOK
<1>4. q.at = "folded" /\ q.depth = request[r].depth
  BY <1>2, RequestHas DEF ServeInv, RequestType
<1>5. DepthInv(r)'
  <2>1. post' = post /\ work' = work /\ DepthInv(r)
    BY <1>1, UnchangedMeans DEF parseVars, ArriveInv
  <2>2. /\ Plan(r)' = Plan(r) /\ (Failed(r)' <=> Failed(r))
        /\ \A d : InDepth(r, d)' = InDepth(r, d)
    BY <2>1 DEF Plan, Failed, InDepth
  <2>3. AllOk(r)' <=> AllOk(r)
    BY <1>3, <1>4, <2>1, <2>2 DEF AllOk
  <2> QED BY <1>1, <1>3, <1>4, <2>1, <2>2, <2>3 DEF DepthInv
<1> QED BY <1>1, <1>3, <1>4, <1>5, RequestArrives

LEMMA FinishDepthArrives ==
  ASSUME ServeInv, ArriveInv, stage = "serve", NEW r \in Indices, FinishDepth(r)
  PROVE  ArriveInv'
<1>0. PICK d : d = request[r].depth
  OBVIOUS
<1> DEFINE groups == { work[<<r, s>>] : s \in InDepth(r, d) }
           failed == \E w \in groups : w.at = "err"
           at == IF ~failed /\ d < Len(Plan(r)) THEN "next" ELSE "result"
           q == [request[r] EXCEPT !.at = at, !.result = Result(r, failed)]
<1>1. /\ request[r].at = "depth" /\ \A w \in groups : w.at \in {"ok", "err"}
      /\ request' = [request EXCEPT ![r].at = at, ![r].result = Result(r, failed)]
      /\ Unchanged /\ UNCHANGED <<stage, work, sent>>
  BY <1>0 DEF FinishDepth
<1>2. UNCHANGED <<post, work>> /\ RequestInv(r)
  BY <1>1, UnchangedMeans DEF parseVars, ServeInv
<1>3. InDepth(r, d) \subseteq Service /\ d \in DOMAIN Plan(r)
  BY <1>0, <1>1, DepthExists
<1>4. failed => Failed(r)
  <2> SUFFICES ASSUME failed PROVE Failed(r)
    OBVIOUS
  <2>1. PICK s \in InDepth(r, d) : work[<<r, s>>].at = "err"
    OBVIOUS
  <2> QED BY <1>3, <2>1 DEF Failed
<1>5. ~failed => \A s \in InDepth(r, d) : work[<<r, s>>].at = "ok"
  BY <1>1
<1>6. at \in {"next", "result"} /\ (at = "next" => ~failed) /\ (at = "result" => failed \/ ~(d < Len(Plan(r))))
  OBVIOUS
<1> HIDE DEF groups, failed, at
<1>7. request' = [request EXCEPT ![r] = q] /\ request'[r] = q
  BY <1>1 DEF ServeInv, TypeOK
<1>8. q.at = at /\ q.depth = d
  BY <1>0, RequestHas DEF ServeInv, RequestType
<1>9. PICK o : o = q
  OBVIOUS
<1> HIDE DEF q
<1>10. ~failed => AllOk(r)'
  <2>1. \A e : InDepth(r, e)' = InDepth(r, e)
    BY <1>2 DEF InDepth, Plan
  <2> QED BY <1>2, <1>5, <1>7, <1>8, <2>1 DEF AllOk
<1>11. ~failed /\ at = "result" => d = Len(Plan(r))
  <2>1. d <= Len(Plan(r)) /\ Len(Plan(r)) \in Nat /\ d \in Nat
    BY <1>0, <1>2, PlanFacts, RequestHas DEF RequestInv, ServeInv, TypeOK
  <2> QED BY <1>6, <2>1
<1>12. (Failed(r)' <=> Failed(r)) /\ Plan(r)' = Plan(r)
  BY <1>2 DEF Failed, Plan
<1>13. request'[r].at = at /\ request'[r].depth = d
  BY <1>7, <1>8
<1>14. DepthInv(r)'
  BY <1>4, <1>6, <1>10, <1>11, <1>12, <1>13 DEF DepthInv
<1> QED BY <1>0, <1>1, <1>7, <1>8, <1>9, <1>14, RequestArrives

\* A depth starts when every service of the one before is done with its inputs.
LEMMA StartDepthArrives ==
  ASSUME ServeInv, ArriveInv, stage = "serve", NEW r \in Indices, StartDepth(r)
  PROVE  ArriveInv'
<1>0. PICK d, e : d = request[r].depth + 1 /\ e = request[r].depth
  OBVIOUS
<1>1. /\ \/ request[r].at = "start" /\ post.entries[r].query = "ok" /\ Plan(r) # <<>>
         \/ request[r].at = "next"
      /\ request' = [request EXCEPT ![r].at = "depth", ![r].depth = d]
      /\ work' = [g \in DOMAIN work |->
           IF g[1] = r /\ g[2] \in InDepth(r, d) THEN [Idle EXCEPT !.at = "input", !.k = 1]
           ELSE IF g[1] = r THEN Idle ELSE work[g]]
      /\ Unchanged /\ UNCHANGED <<stage, sent, results>>
  BY <1>0 DEF StartDepth
<1>2. UNCHANGED <<post, parsed, vars, file>> /\ TypeOK /\ RequestInv(r) /\ post \in Post
  BY <1>1, UnchangedMeans DEF parseVars, ServeInv, TypeOK
<1>3. /\ Indices' = Indices
      /\ \A q : Plan(q)' = Plan(q) /\ FilesIn(q)' = FilesIn(q) /\ Tree(q)' = Tree(q)
      /\ \A q, c : InDepth(q, c)' = InDepth(q, c)
  BY <1>2, SamePost DEF Tree
<1>4. e \in Nat /\ d = e + 1
  BY <1>0, <1>2, RequestHas
<1>5. /\ \A o \in Indices \ {r} : request'[o] = request[o]
      /\ request'[r].at = "depth" /\ request'[r].depth = d
  <2>1. PICK q : q = [request[r] EXCEPT !.at = "depth", !.depth = d]
    OBVIOUS
  <2>2. q.at = "depth" /\ q.depth = d
    BY <1>2, <2>1, RequestHas
  <2>3. request' = [request EXCEPT ![r] = q]
    BY <1>1, <1>2, <2>1 DEF TypeOK
  <2> QED BY <1>2, <2>2, <2>3 DEF TypeOK
<1>6. PICK first : first = [Idle EXCEPT !.at = "input", !.k = 1]
  OBVIOUS
<1>7. first.at = "input" /\ first.k = 1 /\ Held(first) = {} /\ Held(Idle) = {}
  <2>1. first.at = "input" /\ first.k = 1 /\ Idle.at = "idle"
    BY <1>6 DEF Idle
  <2> QED BY <2>1 DEF Held
<1>8. /\ DOMAIN work' = DOMAIN work
      /\ \A o \in Indices, s \in Service : work'[<<o, s>>] =
           IF o = r /\ s \in InDepth(r, d) THEN first ELSE IF o = r THEN Idle ELSE work[<<o, s>>]
  BY <1>1, <1>2, <1>6 DEF TypeOK
<1>9. ASSUME NEW s \in Service
      PROVE  /\ work[<<r, s>>].at = "idle" \/ work[<<r, s>>].at = "ok"
             /\ Held(work[<<r, s>>]) = {}
  <2>1. work[<<r, s>>].at = "idle" \/ work[<<r, s>>].at = "ok"
    <3>1. CASE request[r].at = "start"
      BY <1>2, <3>1 DEF RequestInv
    <3>2. CASE request[r].at = "next"
      <4>1. AllOk(r)
        BY <3>2 DEF ArriveInv, DepthInv
      <4>2. GroupInv(r, s, work[<<r, s>>])
        BY DEF ServeInv
      <4> QED BY <4>1, <4>2 DEF AllOk, GroupInv
    <3> QED BY <1>1, <3>1, <3>2
  <2> QED BY <2>1 DEF Held
<1>10. Grows
  <2>1. \A o \in Indices, s \in Service :
          \/ Held(work[<<o, s>>]) = {}
          \/ work'[<<o, s>>] = work[<<o, s>>] /\ request'[o].depth = request[o].depth
    BY <1>5, <1>8, <1>9
  <2> QED BY <1>1, <1>2, <1>8, <2>1, WorkGrows
<1>11. ASSUME NEW o \in Indices PROVE DepthInv(o)'
  <2>1. CASE o = r
    <3>1. \A s \in InDepth(r, d) : work'[<<r, s>>].at # "idle"
      <4>1. d \in DOMAIN Plan(r)
        <5>1. /\ Len(Plan(r)) \in Nat /\ DOMAIN Plan(r) = 1 .. Len(Plan(r))
              /\ Plan(r) # <<>> => post.entries[r].query = "ok" /\ Len(Plan(r)) > 0
          BY <1>2, PlanFacts
        <5>2. e < Len(Plan(r))
          BY <1>0, <1>1, <1>2, <5>1 DEF RequestInv
        <5> QED BY <1>4, <5>1, <5>2
      <4>2. InDepth(r, d) \subseteq Service
        BY <1>2, <4>1, PlanFacts
      <4> QED BY <1>7, <1>8, <4>2
    <3> QED BY <1>3, <1>5, <2>1, <3>1 DEF DepthInv
  <2>2. CASE o # r
    <3>1. \A s \in Service : work'[<<o, s>>] = work[<<o, s>>]
      BY <1>8, <2>2
    <3>2. request'[o] = request[o] /\ DepthInv(o) /\ post' = post
      BY <1>2, <1>5, <2>2 DEF ArriveInv
    <3>3. Failed(o)' <=> Failed(o)
      BY <3>1, <3>2 DEF Failed
    <3>4. \/ request[o].at \in {"depth", "next"}
          \/ request[o].at \in {"result", "folded"} /\ post.entries[o].query = "ok" /\ ~Failed(o)
          => InDepth(o, request[o].depth) \subseteq Service
      BY DepthExists
    <3> QED BY <1>3, <3>1, <3>2, <3>3, <3>4 DEF DepthInv, AllOk
  <2> QED BY <2>1, <2>2
<1>12. ASSUME NEW o \in Indices PROVE PassedInv(o)'
  <2>1. ASSUME NEW c \in DOMAIN Plan(o), NEW s \in InDepth(o, c), NEW k \in DOMAIN Plan(o)[c][s],
               Passed(o, c, s, k)'
        PROVE  Passed(o, c, s, k)
    <3>1. /\ s \in Service /\ Len(Plan(o)[c][s]) \in Nat /\ k \in 1 .. Len(Plan(o)[c][s])
          /\ c \in Nat /\ c > 0
      <4>1. /\ InDepth(o, c) \subseteq Service
            /\ DOMAIN Plan(o)[c][s] = 1 .. Len(Plan(o)[c][s]) /\ Len(Plan(o)[c][s]) \in Nat
            /\ DOMAIN Plan(o) = 1 .. Len(Plan(o)) /\ Len(Plan(o)) \in Nat
        BY <1>2, PlanFacts
      <4> QED BY <4>1
    <3>2. CASE o # r
      <4>1. work'[<<o, s>>] = work[<<o, s>>] /\ request'[o] = request[o]
        BY <1>5, <1>8, <3>1, <3>2
      <4> QED BY <2>1, <4>1 DEF Passed
    <3>3. CASE o = r
      <4>1. c < d \/ (c = d /\ k < 1)
        BY <1>5, <1>7, <1>8, <2>1, <3>1, <3>3 DEF Passed
      <4>2. c < d
        BY <3>1, <4>1
      <4>3. CASE c < e
        BY <1>0, <3>3, <4>3 DEF Passed
      <4>4. CASE c = e
        <5>1. request[r].at = "next"
          BY <1>0, <1>1, <1>2, <3>1, <4>4 DEF RequestInv
        <5>2. work[<<r, s>>].at = "ok"
          BY <1>0, <3>3, <4>4, <5>1 DEF ArriveInv, DepthInv, AllOk
        <5>3. work[<<r, s>>].k > Len(InputsOf(r, s))
          BY <3>1, <5>2 DEF ArriveInv, HeldInv
        <5>4. InputsOf(r, s) = Plan(o)[c][s]
          BY <1>0, <3>3, <4>4 DEF InputsOf
        <5>5. work[<<r, s>>].k \in Nat
          BY <1>2, <3>1, WorkHas
        <5>6. k < work[<<r, s>>].k
          BY <3>1, <5>3, <5>4, <5>5
        <5> QED BY <1>0, <3>3, <4>4, <5>6 DEF Passed
      <4> QED BY <1>4, <3>1, <4>2, <4>3, <4>4
    <3> QED BY <3>2, <3>3
  <2> QED BY <1>10, <2>1, PassedStays DEF ArriveInv
<1>13. ASSUME NEW o \in Indices, NEW s \in Service PROVE HeldInv(o, s, work[<<o, s>>])'
  <2>1. CASE o # r
    <3>1. PICK w : w = work[<<o, s>>]
      OBVIOUS
    <3>2. work'[<<o, s>>] = w /\ request'[o].depth = request[o].depth
      BY <1>5, <1>8, <2>1, <3>1
    <3>3. HeldInv(o, s, w)'
      BY <1>10, <3>1, <3>2, HeldStays DEF ArriveInv
    <3> QED BY <3>2, <3>3 DEF HeldInv
  <2>2. CASE o = r
    <3>1. PICK w : w = work'[<<o, s>>]
      OBVIOUS
    <3>2. Held(w) = {} /\ w.at \in {"idle", "input"}
      BY <1>7, <1>8, <2>2, <3>1, IdleIsWork
    <3> QED BY <3>1, <3>2 DEF HeldInv
  <2> QED BY <2>1, <2>2
<1>14. ASSUME NEW i \in sent PROVE SentFiles(i)'
  <2>1. SentFiles(i) /\ SentInv(i)
    BY DEF ArriveInv, ServeInv
  <2>2. SentAs(i)' = SentAs(i)
    BY DEF SentAs, InputAt
  <2>3. /\ \A y, x : PartInv(y, x) => PartInv(y, x)'
        /\ \A q, y, p : Shares(q, y, p)' <=> Shares(q, y, p)
    BY <1>10, GrowsKeeps
  <2>4. i.request \in Indices /\ i.depth \in Nat /\ i.service \in Service
    <3>1. DOMAIN Plan(i.request) = 1 .. Len(Plan(i.request)) /\ Len(Plan(i.request)) \in Nat
          /\ InDepth(i.request, i.depth) \subseteq Service
      BY <1>2, <2>1, PlanFacts DEF SentInv
    <3> QED BY <2>1, <3>1 DEF SentInv
  <2>5. CASE i.request # r
    <3>1. work'[<<i.request, i.service>>] = work[<<i.request, i.service>>]
          /\ request'[i.request] = request[i.request]
      BY <1>5, <1>8, <2>4, <2>5
    <3> QED BY <1>3, <2>1, <2>2, <2>3, <3>1 DEF SentFiles
  <2>6. CASE i.request = r
    <3>1. i.depth <= e
      BY <1>0, <2>1, <2>6 DEF SentFiles
    <3>2. i.depth <= d /\ i.depth # d
      BY <1>4, <2>4, <3>1
    <3> QED BY <1>3, <1>5, <2>1, <2>2, <2>3, <2>6, <3>2 DEF SentFiles
  <2> QED BY <2>5, <2>6
<1>15. \A f \in File : FileInv(f)'
  BY <1>2, <1>10, FilesSame
<1>16. ASSUME NEW o \in Indices
       PROVE  /\ DOMAIN parsed'[o] = DOMAIN Tree(o)'
              /\ \A p \in DOMAIN parsed[o] : vars'[o][p] # parsed'[o][p] => OnItsWay(o, p)'
  BY <1>2, <1>3, <1>10 DEF ArriveInv, Grows
<1> QED BY <1>1, <1>2, <1>3, <1>11, <1>12, <1>13, <1>14, <1>15, <1>16 DEF ArriveInv

LEMMA EmitArrives == ServeInv /\ ArriveInv /\ Emit => ArriveInv'
<1> SUFFICES ASSUME ServeInv, ArriveInv, Emit PROVE ArriveInv'
  OBVIOUS
<1>1. UNCHANGED <<post, parsed, vars, request, work, file, sent>> /\ stage' = "answered"
  BY DEF Emit, parseVars
<1>2. \A r \in Indices : request'[r].depth = request[r].depth /\ DepthInv(r)'
  BY <1>1, DepthStays DEF ArriveInv
<1> QED BY <1>1, <1>2, ArriveStays

LEMMA StutterArrives == ServeInv /\ ArriveInv /\ UNCHANGED allVars => ArriveInv'
<1> SUFFICES ASSUME ServeInv, ArriveInv, UNCHANGED allVars PROVE ArriveInv'
  OBVIOUS
<1>1. UNCHANGED <<post, parsed, vars, request, work, file, sent, stage>>
  BY DEF allVars, parseVars
<1>2. \A r \in Indices : request'[r].depth = request[r].depth /\ DepthInv(r)'
  BY <1>1, DepthStays DEF ArriveInv
<1>3. stage' = "crashed" => FileShared' \/ PlanWithoutSteps'
  BY <1>1, CrashesSame DEF ArriveInv
<1> QED BY <1>1, <1>2, <1>3, ArriveStays
-----------------------------------------------------------------------------
\* Before the requests are served nothing has been copied or sent.

Fresh ==
  /\ TypeOK /\ stage # "crashed" /\ sent = {} /\ vars = parsed
  /\ \A r \in Indices :
       /\ request[r].at = "start" /\ request[r].depth = 0
       /\ DOMAIN parsed[r] = DOMAIN Tree(r)
       /\ \A s \in Service : work[<<r, s>>] = Idle
  /\ \A f \in File : ~file[f].read /\ ~file[f].mixed

LEMMA FreshArrives == Fresh => ArriveInv
<1> SUFFICES ASSUME Fresh PROVE ArriveInv
  OBVIOUS
<1>1. ASSUME NEW r \in Indices PROVE DepthInv(r) /\ PassedInv(r)
  <2>1. request[r].at = "start" /\ request[r].depth = 0
    BY DEF Fresh
  <2>2. Len(Plan(r)) \in Nat /\ DOMAIN Plan(r) = 1 .. Len(Plan(r))
    BY PlanFacts DEF Fresh, TypeOK
  <2>3. ASSUME NEW d \in DOMAIN Plan(r), NEW s \in InDepth(r, d), NEW k \in DOMAIN Plan(r)[d][s]
        PROVE  ~Passed(r, d, s, k)
    <3>1. d \in Nat /\ d > 0
      BY <2>2
    <3> QED BY <2>1, <3>1 DEF Passed
  <2> QED BY <2>1, <2>3 DEF DepthInv, PassedInv
<1>2. ASSUME NEW r \in Indices, NEW s \in Service PROVE HeldInv(r, s, work[<<r, s>>])
  <2>1. work[<<r, s>>].at = "idle"
    BY IdleIsWork DEF Fresh
  <2>2. Held(work[<<r, s>>]) = {}
    BY <2>1 DEF Held
  <2> QED BY <2>1, <2>2 DEF HeldInv
<1>3. \A f \in File : FileInv(f)
  BY DEF Fresh, FileInv
<1> QED BY <1>1, <1>2, <1>3 DEF Fresh, ArriveInv

LEMMA FreshArrivesThen == Fresh' => ArriveInv'
BY FreshArrives, PTL

LEMMA InitArrives == Init => ArriveInv
<1> SUFFICES ASSUME Init PROVE ArriveInv
  OBVIOUS
<1>1. TypeOK
  BY InitServeInv DEF ServeInv
<1>2. /\ stage # "crashed" /\ sent = {} /\ vars = parsed
      /\ \A r \in Indices :
           /\ request[r].at = "start" /\ request[r].depth = 0
           /\ DOMAIN parsed[r] = DOMAIN Tree(r)
           /\ \A s \in Service : work[<<r, s>>] = Idle
  BY DEF Init, Tree
<1>3. \A f \in File : ~file[f].read /\ ~file[f].mixed
  BY DEF Init
<1> QED BY <1>1, <1>2, <1>3, FreshArrives DEF Fresh

LEMMA FreshBefore ==
  ASSUME ServeInv, ArriveInv, stage \in {"parse", "inject"}
  PROVE  Fresh
<1>1. TypeOK /\ vars = parsed /\ sent = {} /\ \A r \in Indices : request[r].at = "start"
  BY DEF ServeInv
<1>2. ASSUME NEW r \in Indices, NEW s \in Service
      PROVE  request[r].depth = 0 /\ work[<<r, s>>] = Idle
  <2>1. RequestInv(r) /\ GroupInv(r, s, work[<<r, s>>])
    BY DEF ServeInv
  <2> QED BY <1>1, <2>1 DEF RequestInv, GroupInv
<1>3. ASSUME NEW f \in File PROVE ~file[f].read /\ ~file[f].mixed
  <2>1. ASSUME NEW c PROVE c \notin Copies(f)
    <3>1. ~CopySent(f, c)
      BY <1>1 DEF CopySent
    <3>2. ~CopyBegun(f, c)
      <4>1. Begun(Idle) = {}
        BY IdleIsWork DEF Begun
      <4> QED BY <1>2, <4>1 DEF CopyBegun
    <3> QED BY <1>1, <3>1, <3>2, CopiesAre
  <2>2. Copies(f) = {}
    BY <2>1
  <2> QED BY <2>2 DEF ArriveInv, FileInv
<1>4. ASSUME NEW r \in Indices PROVE request[r].depth = 0
  <2>1. RequestInv(r)
    BY DEF ServeInv
  <2> QED BY <1>1, <2>1 DEF RequestInv
<1>5. stage # "crashed" /\ \A r \in Indices : DOMAIN parsed[r] = DOMAIN Tree(r)
  BY DEF ArriveInv
<1> QED BY <1>1, <1>2, <1>3, <1>4, <1>5 DEF Fresh

\* A step of the parsing leaves all else as it was.
LEMMA ParseArrives ==
  ASSUME ServeInv, ArriveInv, stage \in {"parse", "inject"}, ServeInv',
         stage' # "crashed", UNCHANGED <<post, request, work, file, sent>>,
         vars' = parsed', \A r \in Indices : DOMAIN parsed'[r] = DOMAIN parsed[r]
  PROVE  ArriveInv'
<1>1. Fresh
  BY FreshBefore
<1>2. Indices' = Indices /\ \A r : Tree(r)' = Tree(r)
  BY DEF Indices, Tree
<1>3. Fresh'
  BY <1>1, <1>2 DEF Fresh, ServeInv
<1> QED BY <1>3, FreshArrivesThen

LEMMA ParseRequestsArrives == ServeInv /\ ArriveInv /\ ParseRequests => ArriveInv'
<1> SUFFICES ASSUME ServeInv, ArriveInv, ParseRequests PROVE ArriveInv'
  OBVIOUS
<1>1. /\ stage = "parse" /\ stage' \in {"refused", "inject", "serve"}
      /\ UNCHANGED <<post, parsed, vars, request, work, file, sent>>
  BY DEF ParseRequests, parseVars
<1>2. vars = parsed
  BY <1>1 DEF ServeInv
<1>3. ServeInv'
  BY ParseRequestsKeeps
<1> QED BY <1>1, <1>2, <1>3, ParseArrives

LEMMA PlaceArrives ==
  ASSUME ServeInv, ArriveInv, NEW f \in File, Place(f)
  PROVE  ArriveInv'
<1> DEFINE injected == InjectFile(f, vars, post.map[f])
<1>1. /\ stage = "inject" /\ f \in toInject
      /\ vars' = injected.trees /\ parsed' = injected.trees
      /\ stage' = CASE injected.outcome # "ok" -> injected.outcome
                    [] injected.outcome = "ok" /\ toInject' = {} -> "serve"
                    [] OTHER -> stage
      /\ UNCHANGED <<post, request, work, file, sent>>
  BY DEF Place
<1>2. TypeOK /\ vars = parsed
  BY <1>1 DEF ServeInv
<1>3. IsList(post.map[f]) /\ \A n \in DOMAIN post.map[f] : IsList(post.map[f][n].keys)
  BY <1>1, <1>2, PostAssumption DEF TypeOK
<1>4. /\ Len(post.map[f]) \in Nat
      /\ \A n \in 1 .. Len(post.map[f]) : Len(post.map[f][n].keys) \in Nat
  BY <1>3, ListIs
<1>5. /\ injected.outcome \in Outcomes
      /\ \A r \in DOMAIN vars : DOMAIN injected.trees[r] = DOMAIN vars[r]
  BY <1>4, InjectFileOutcome
<1> HIDE DEF injected
<1>6. stage' # "crashed"
  BY <1>1, <1>5 DEF Outcomes
<1>7. \A r \in Indices : DOMAIN parsed'[r] = DOMAIN parsed[r]
  BY <1>1, <1>2, <1>5 DEF TypeOK
<1>8. ServeInv'
  BY PlaceKeeps
<1> QED BY <1>1, <1>6, <1>7, <1>8, ParseArrives
-----------------------------------------------------------------------------
LEMMA RequestKeepsArriving ==
  ASSUME ServeInv, ArriveInv, stage = "serve", NEW r \in Indices, Request(r)
  PROVE  ArriveInv'
BY RefuseArrives, ResolveIntrospectionArrives, ExecutePanicsArrives, StartDepthArrives,
   FinishDepthArrives, FoldArrives, GroupArrives, CollideArrives DEF Request

LEMMA NextArrives == ServeInv /\ ArriveInv /\ [Next]_allVars => ArriveInv'
<1> SUFFICES ASSUME ServeInv, ArriveInv, [Next]_allVars PROVE ArriveInv'
  OBVIOUS
<1>1. CASE ParseRequests
  BY <1>1, ParseRequestsArrives
<1>2. CASE \E f \in File : Place(f)
  BY <1>2, PlaceArrives
<1>3. CASE stage = "serve" /\ \E r \in Indices : Request(r)
  BY <1>3, RequestKeepsArriving
<1>4. CASE Emit
  BY <1>4, EmitArrives
<1>5. CASE UNCHANGED allVars
  BY <1>5, StutterArrives
<1> QED BY <1>1, <1>2, <1>3, <1>4, <1>5 DEF Next

-----------------------------------------------------------------------------
\* Where files are put: the prefixes of a path.

Prefix(keys, n) == SubSeq(keys, 1, n)

LEMMA PrefixesAre ==
  ASSUME NEW keys, IsList(keys)
  PROVE  /\ Len(keys) \in Nat
         /\ Prefix(keys, 0) = <<>> /\ Prefix(keys, Len(keys)) = keys
         /\ \A n \in 0 .. Len(keys) - 1 : Prefix(keys, n + 1) = Append(Prefix(keys, n), keys[n + 1])
         /\ \A n \in 0 .. Len(keys) : Len(Prefix(keys, n)) = n
         /\ \A n \in 0 .. Len(keys) : \A m \in 0 .. n : Prefix(Prefix(keys, n), m) = Prefix(keys, m)
<1> DEFINE S == Range(keys)
<1>1. keys \in Seq(S)
  BY DEF IsList
<1> HIDE DEF S
<1>2. Len(keys) \in Nat /\ DOMAIN keys = 1 .. Len(keys)
  BY <1>1
<1>3. \A n \in 0 .. Len(keys) : Prefix(keys, n) = [i \in 1 .. n |-> keys[i]]
  BY <1>1, <1>2 DEF Prefix
<1>4. \A n \in 0 .. Len(keys) : Len(Prefix(keys, n)) = n /\ Prefix(keys, n) \in Seq(S)
  BY <1>1, <1>2 DEF Prefix
<1>5. Prefix(keys, 0) = <<>> /\ Prefix(keys, Len(keys)) = keys
  BY <1>1, <1>2, <1>4, <1>3
<1>6. ASSUME NEW n \in 0 .. Len(keys) - 1
      PROVE  Prefix(keys, n + 1) = Append(Prefix(keys, n), keys[n + 1])
  <2>1. Prefix(keys, n) \in Seq(S) /\ keys[n + 1] \in S /\ n \in 0 .. Len(keys) /\ n + 1 \in 0 .. Len(keys)
    BY <1>1, <1>2, <1>4
  <2>2. /\ Prefix(keys, n + 1) = [i \in 1 .. n + 1 |-> keys[i]]
        /\ Prefix(keys, n) = [i \in 1 .. n |-> keys[i]]
    BY <1>3, <2>1
  <2> QED BY <1>4, <2>1, <2>2
<1>7. ASSUME NEW n \in 0 .. Len(keys), NEW m \in 0 .. n
      PROVE  Prefix(Prefix(keys, n), m) = Prefix(keys, m)
  <2> DEFINE q == Prefix(keys, n)
  <2>1. q \in Seq(S) /\ Len(q) = n /\ q = [i \in 1 .. n |-> keys[i]]
    BY <1>3, <1>4
  <2>2. m \in 0 .. Len(keys) /\ Prefix(keys, m) = [i \in 1 .. m |-> keys[i]]
    BY <1>2, <1>3
  <2> HIDE DEF q
  <2>3. Prefix(q, m) = [i \in 1 .. m |-> q[i]]
    <3>1. m \in 0 .. Len(q) /\ Len(q) \in Nat
      BY <1>2, <2>1
    <3> QED BY <2>1, <3>1 DEF Prefix
  <2>4. [j \in 1 .. m |-> q[j]] = [j \in 1 .. m |-> keys[j]]
    BY <1>2, <2>1
  <2> QED BY <2>2, <2>3, <2>4 DEF q
<1> QED BY <1>2, <1>4, <1>5, <1>6, <1>7

\* A hole in terms of prefixes.
LEMMA HoleIs ==
  ASSUME NEW tree, NEW keys, IsList(keys), NEW n \in 1 .. Len(keys)
  PROVE  IsHole(tree, Prefix(keys, n)) <=>
           /\ At(tree, Prefix(keys, n)) = "null"
           /\ \A m \in 1 .. n - 1 :
                \/ At(tree, Prefix(keys, m)) = "map"
                \/ At(tree, Prefix(keys, m)) = "list" /\ m = n - 1
<1> DEFINE q == Prefix(keys, n)
<1>1. /\ Len(keys) \in Nat /\ Len(q) = n
      /\ \A m \in 1 .. n - 1 : SubSeq(q, 1, m) = Prefix(keys, m)
  BY PrefixesAre DEF Prefix
<1>2. q # <<>>
  BY <1>1
<1> HIDE DEF q
<1>3. IsHole(tree, q) <=>
           /\ At(tree, q) = "null"
           /\ \A m \in 1 .. n - 1 :
                \/ At(tree, SubSeq(q, 1, m)) = "map"
                \/ At(tree, SubSeq(q, 1, m)) = "list" /\ m = n - 1
  BY <1>1, <1>2 DEF IsHole
<1>4. IsHole(tree, q) <=>
           /\ At(tree, q) = "null"
           /\ \A m \in 1 .. n - 1 :
                \/ At(tree, Prefix(keys, m)) = "map"
                \/ At(tree, Prefix(keys, m)) = "list" /\ m = n - 1
  BY <1>1, <1>3
<1> QED BY <1>4 DEF q

LEMMA GoesOnIs ==
  ASSUME NEW tree, NEW keys, IsList(keys)
  PROVE  /\ GoesOn(tree, keys) <=> \E n \in 1 .. Len(keys) - 1 : IsHole(tree, Prefix(keys, n))
         /\ GoesOn(tree, keys) => ~IsHole(tree, keys)
<1>1. GoesOn(tree, keys) <=> \E n \in 1 .. Len(keys) - 1 : IsHole(tree, Prefix(keys, n))
  BY DEF GoesOn, Prefix
<1>2. ASSUME NEW n \in 1 .. Len(keys) - 1, IsHole(tree, Prefix(keys, n)), IsHole(tree, keys)
      PROVE  FALSE
  <2>1. At(tree, Prefix(keys, n)) = "null"
    BY <1>2 DEF IsHole
  <2>2. At(tree, SubSeq(keys, 1, n)) \in {"map", "list"}
    BY <1>2 DEF IsHole
  <2> QED BY <2>1, <2>2 DEF Prefix
<1> QED BY <1>1, <1>2

\* What a walk along a path does at its next part, the i-th, which leads to path or,
\* from a list, to item.
StepsTo(upload, keys, i, walk, path, item, next) ==
  \/ (walk.outcome # "ok" \/ walk.isIndex) /\ next = [walk EXCEPT !.isIndex = FALSE]
  \/ /\ walk.outcome = "ok" /\ ~walk.isIndex
     /\ LET val == At(walk.tree, path)
            open == val = "list" /\ i < Len(keys) /\ At(walk.tree, item) = "null"
        IN \/ val = "map" /\ next = [walk EXCEPT !.cur = path]
           \/ val = "null" /\ next = [walk EXCEPT !.tree[path] = upload]
           \/ open /\ next = [walk EXCEPT !.tree[item] = upload, !.isIndex = TRUE]
           \/ /\ val \notin {"map", "null"} /\ ~open
              /\ \/ next = [walk EXCEPT !.outcome = "aborted"]
                 \/ next = [walk EXCEPT !.outcome = "refused"]

LEMMA StepCases ==
  ASSUME NEW upload, NEW keys, NEW i, NEW walk
  PROVE  LET p == Append(walk.cur, keys[i]) IN
         StepsTo(upload, keys, i, walk, p, Append(p, keys[i + 1]), StepInto(upload, keys, walk, i))
<1> DEFINE path == Append(walk.cur, keys[i])
           val == At(walk.tree, path)
           item == Append(path, keys[i + 1])
           stops == walk.outcome # "ok" \/ walk.isIndex
           there == At(walk.tree, item)
           a == [walk EXCEPT !.cur = path]
           b == [walk EXCEPT !.tree[path] = upload]
           c == [walk EXCEPT !.tree[item] = upload, !.isIndex = TRUE]
           d == [walk EXCEPT !.outcome = "aborted"]
           e == [walk EXCEPT !.outcome = "refused"]
           lookedUp ==
             CASE val = "map" -> a
               [] val = "null" -> b
               [] val = "list" /\ i < Len(keys) /\ there = "null" -> c
               [] val = "list" /\ i < Len(keys) /\ keys[i + 1] \in NegativeIndex /\ there = Absent -> d
               [] OTHER -> e
           next == StepInto(upload, keys, walk, i)
<1>1. next = IF stops THEN [walk EXCEPT !.isIndex = FALSE] ELSE lookedUp
  BY DEF StepInto
<1>2. Absent # "null"
  BY FileAssumption
<1> HIDE DEF next, val, there, a, b, c, d, e
<1>3. \/ val = "map" /\ lookedUp = a
      \/ val = "null" /\ lookedUp = b
      \/ val = "list" /\ i < Len(keys) /\ there = "null" /\ lookedUp = c
      \/ /\ val \notin {"map", "null"} /\ ~(val = "list" /\ i < Len(keys) /\ there = "null")
         /\ lookedUp = d \/ lookedUp = e
  BY <1>2
<1> HIDE DEF lookedUp, stops
<1>4. \/ stops /\ next = [walk EXCEPT !.isIndex = FALSE]
      \/ /\ ~stops
         /\ \/ val = "map" /\ next = a
            \/ val = "null" /\ next = b
            \/ val = "list" /\ i < Len(keys) /\ there = "null" /\ next = c
            \/ /\ val \notin {"map", "null"} /\ ~(val = "list" /\ i < Len(keys) /\ there = "null")
               /\ next = d \/ next = e
  BY <1>1, <1>3
<1> QED BY <1>4, Zenon DEF StepsTo, next, stops, val, there, a, b, c, d, e

\* The walk along path keys after i of its parts: it has come to a map; or put the
\* file in the hole; or cannot go there; or goes on after it has put the file.
Changes(tree, upload, new) ==
  /\ DOMAIN new = DOMAIN tree
  /\ \A p \in DOMAIN tree : new[p] # tree[p] => tree[p] = "null" /\ new[p] = upload

Walk(upload, tree, keys, w, i) ==
  /\ DOMAIN w = {"tree", "cur", "isIndex", "outcome"}
  /\ \/ /\ w.outcome = "ok" /\ w.isIndex = FALSE /\ w.tree = tree /\ w.cur = Prefix(keys, i)
        /\ \A n \in 1 .. i : At(tree, Prefix(keys, n)) = "map"
     \/ /\ IsHole(tree, keys) /\ w.outcome = "ok" /\ w.tree = [tree EXCEPT ![keys] = upload]
        /\ i = Len(keys) \/ (i = Len(keys) - 1 /\ w.isIndex)
     \/ ~IsHole(tree, keys) /\ w.outcome # "ok" /\ w.tree = tree
     \/ GoesOn(tree, keys) /\ Changes(tree, upload, w.tree)

LEMMA WalkStep ==
  ASSUME NEW upload \in File, NEW tree, NEW keys, IsList(keys), NEW i \in 0 .. Len(keys) - 1,
         NEW w, Walk(upload, tree, keys, w, i)
  PROVE  Walk(upload, tree, keys, StepInto(upload, keys, w, i + 1), i + 1)
<1> DEFINE path == Append(w.cur, keys[i + 1])
           item == Append(path, keys[i + 1 + 1])
           val == At(w.tree, path)
           next == StepInto(upload, keys, w, i + 1)
<1>1. \/ (w.outcome # "ok" \/ w.isIndex) /\ next = [w EXCEPT !.isIndex = FALSE]
      \/ /\ w.outcome = "ok" /\ ~w.isIndex
         /\ \/ val = "map" /\ next = [w EXCEPT !.cur = path]
            \/ val = "null" /\ next = [w EXCEPT !.tree[path] = upload]
            \/ /\ val = "list" /\ i + 1 < Len(keys) /\ At(w.tree, item) = "null"
               /\ next = [w EXCEPT !.tree[item] = upload, !.isIndex = TRUE]
            \/ /\ val \notin {"map", "null"}
               /\ ~(val = "list" /\ i + 1 < Len(keys) /\ At(w.tree, item) = "null")
               /\ \/ next = [w EXCEPT !.outcome = "aborted"]
                  \/ next = [w EXCEPT !.outcome = "refused"]
  <2>1. StepsTo(upload, keys, i + 1, w, path, item, next)
    BY StepCases
  <2> HIDE DEF path, item, next
  <2> QED BY <2>1 DEF StepsTo
<1>2. /\ Len(keys) \in Nat /\ keys = Prefix(keys, Len(keys))
      /\ i + 1 \in 1 .. Len(keys) /\ i \in 0 .. Len(keys)
      /\ Prefix(keys, i + 1) = Append(Prefix(keys, i), keys[i + 1])
      /\ i + 1 < Len(keys) => /\ i + 2 \in 1 .. Len(keys)
                             /\ Prefix(keys, i + 2) = Append(Prefix(keys, i + 1), keys[i + 1 + 1])
  <2>1. Len(keys) \in Nat /\ keys = Prefix(keys, Len(keys))
    BY PrefixesAre
  <2>2. Prefix(keys, i + 1) = Append(Prefix(keys, i), keys[i + 1])
    BY PrefixesAre
  <2>3. ASSUME i + 1 < Len(keys)
        PROVE  i + 2 \in 1 .. Len(keys) /\ Prefix(keys, i + 2) = Append(Prefix(keys, i + 1), keys[i + 1 + 1])
    <3>1. i + 1 \in 0 .. Len(keys) - 1 /\ i + 2 \in 1 .. Len(keys) /\ (i + 1) + 1 = i + 2
      BY <2>1, <2>3
    <3>2. Prefix(keys, (i + 1) + 1) = Append(Prefix(keys, i + 1), keys[(i + 1) + 1])
      BY <3>1, PrefixesAre
    <3> QED BY <3>1, <3>2
  <2> QED BY <2>1, <2>2, <2>3
<1>3. DOMAIN w = {"tree", "cur", "isIndex", "outcome"}
  BY DEF Walk
<1>4. "null" # upload /\ Absent # "null"
  BY FileAssumption
<1> HIDE DEF next, val, item, path
\* The walk has come to a map.
<1>5. CASE /\ w.outcome = "ok" /\ w.isIndex = FALSE /\ w.tree = tree /\ w.cur = Prefix(keys, i)
           /\ \A n \in 1 .. i : At(tree, Prefix(keys, n)) = "map"
  <2>1. path = Prefix(keys, i + 1) /\ val = At(tree, path)
    BY <1>2, <1>5 DEF path, val
  <2>2. i + 1 < Len(keys) => item = Prefix(keys, i + 2)
    BY <1>2, <2>1 DEF item
  <2>3. CASE val = "map" /\ next = [w EXCEPT !.cur = path]
    <3>1. /\ next.outcome = "ok" /\ next.isIndex = FALSE /\ next.tree = tree
          /\ next.cur = Prefix(keys, i + 1) /\ DOMAIN next = DOMAIN w
      BY <1>3, <1>5, <2>1, <2>3
    <3>2. \A n \in 1 .. i + 1 : At(tree, Prefix(keys, n)) = "map"
      BY <1>5, <2>1, <2>3
    <3> QED BY <1>3, <3>1, <3>2 DEF Walk, next
  <2>4. CASE val = "null" /\ next = [w EXCEPT !.tree[path] = upload]
    <3>1. /\ next.outcome = "ok" /\ next.tree = [tree EXCEPT ![path] = upload] /\ DOMAIN next = DOMAIN w
      BY <1>3, <1>5, <2>4
    <3>2. IsHole(tree, Prefix(keys, i + 1))
      BY <1>2, <1>5, <2>1, <2>4, HoleIs
    <3>3. CASE i + 1 = Len(keys)
      <4>1. path = keys
        BY <1>2, <2>1, <3>3
      <4> QED BY <1>3, <3>1, <3>2, <3>3, <1>2, <4>1 DEF Walk, next
    <3>4. CASE i + 1 # Len(keys)
      <4>1. GoesOn(tree, keys)
        BY <1>2, <3>2, <3>4, GoesOnIs
      <4>2. Changes(tree, upload, next.tree)
        BY <1>4, <2>1, <2>4, <3>1 DEF Changes, At
      <4> QED BY <1>3, <3>1, <4>1, <4>2 DEF Walk, next
    <3> QED BY <3>3, <3>4
  <2>5. CASE /\ val = "list" /\ i + 1 < Len(keys) /\ At(w.tree, item) = "null"
             /\ next = [w EXCEPT !.tree[item] = upload, !.isIndex = TRUE]
    <3>1. /\ next.outcome = "ok" /\ next.tree = [tree EXCEPT ![item] = upload] /\ DOMAIN next = DOMAIN w
          /\ next.isIndex
      BY <1>3, <1>5, <2>5
    <3>2. IsHole(tree, Prefix(keys, i + 2))
      <4>1. At(tree, Prefix(keys, i + 2)) = "null" /\ At(tree, Prefix(keys, i + 1)) = "list"
        BY <1>5, <2>1, <2>2, <2>5
      <4>2. ASSUME NEW m \in 1 .. (i + 2) - 1
            PROVE  \/ At(tree, Prefix(keys, m)) = "map"
                   \/ At(tree, Prefix(keys, m)) = "list" /\ m = (i + 2) - 1
        <5>1. m \in 1 .. i \/ m = i + 1
          OBVIOUS
        <5> QED BY <1>5, <4>1, <5>1
      <4> QED BY <1>2, <2>5, <4>1, <4>2, HoleIs
    <3>3. CASE i + 2 = Len(keys)
      <4>1. item = keys
        BY <1>2, <2>2, <2>5, <3>3
      <4>2. i + 1 = Len(keys) - 1 /\ IsHole(tree, keys)
        BY <1>2, <3>2, <3>3
      <4> QED BY <1>3, <3>1, <4>1, <4>2 DEF Walk, next
    <3>4. CASE i + 2 # Len(keys)
      <4>1. GoesOn(tree, keys)
        BY <1>2, <2>5, <3>2, <3>4, GoesOnIs
      <4>2. Changes(tree, upload, next.tree)
        BY <1>4, <1>5, <2>5, <3>1 DEF Changes, At
      <4> QED BY <1>3, <3>1, <4>1, <4>2 DEF Walk, next
    <3> QED BY <3>3, <3>4
  <2>6. CASE /\ val \notin {"map", "null"}
             /\ ~(val = "list" /\ i + 1 < Len(keys) /\ At(w.tree, item) = "null")
             /\ \/ next = [w EXCEPT !.outcome = "aborted"]
                \/ next = [w EXCEPT !.outcome = "refused"]
    <3>1. next.outcome # "ok" /\ next.tree = tree /\ DOMAIN next = DOMAIN w
      BY <1>3, <1>5, <2>6
    <3>2. ASSUME IsHole(tree, keys) PROVE FALSE
      <4>1. IsHole(tree, Prefix(keys, Len(keys))) /\ Len(keys) \in 1 .. Len(keys)
        BY <1>2, <3>2
      <4>2. /\ At(tree, Prefix(keys, Len(keys))) = "null"
            /\ \A m \in 1 .. Len(keys) - 1 :
                 \/ At(tree, Prefix(keys, m)) = "map"
                 \/ At(tree, Prefix(keys, m)) = "list" /\ m = Len(keys) - 1
        BY <4>1, HoleIs
      <4>3. i + 1 # Len(keys)
        BY <2>1, <2>6, <4>2
      <4>4. val = "list" /\ i + 1 = Len(keys) - 1
        BY <1>2, <2>1, <2>6, <4>2, <4>3
      <4>5. item = Prefix(keys, Len(keys))
        BY <1>2, <2>2, <4>4
      <4> QED BY <1>2, <1>5, <2>6, <4>2, <4>4, <4>5
    <3> QED BY <1>3, <3>1, <3>2 DEF Walk, next
  <2> QED BY <1>1, <1>5, <2>3, <2>4, <2>5, <2>6
\* It has put the file in the hole, whose index is what is left.
<1>6. CASE /\ IsHole(tree, keys) /\ w.outcome = "ok" /\ w.tree = [tree EXCEPT ![keys] = upload]
           /\ i = Len(keys) \/ (i = Len(keys) - 1 /\ w.isIndex)
  <2>1. w.isIndex /\ i + 1 = Len(keys)
    BY <1>2, <1>6
  <2>2. next = [w EXCEPT !.isIndex = FALSE]
    BY <1>1, <2>1
  <2> QED BY <1>3, <1>6, <2>1, <2>2 DEF Walk, next
<1>7. CASE ~IsHole(tree, keys) /\ w.outcome # "ok" /\ w.tree = tree
  <2>1. next = [w EXCEPT !.isIndex = FALSE]
    BY <1>1, <1>7
  <2> QED BY <1>3, <1>7, <2>1 DEF Walk, next
\* It goes on.
<1>8. CASE GoesOn(tree, keys) /\ Changes(tree, upload, w.tree)
  <2>1. DOMAIN next = DOMAIN w
    BY <1>1
  <2>2. \/ next.tree = w.tree
        \/ val = "null" /\ next.tree = [w.tree EXCEPT ![path] = upload]
        \/ At(w.tree, item) = "null" /\ next.tree = [w.tree EXCEPT ![item] = upload]
    BY <1>1, <1>3
  <2>3. Changes(tree, upload, next.tree)
    <3>1. CASE next.tree = w.tree
      BY <1>8, <3>1
    <3>2. ASSUME NEW q, At(w.tree, q) = "null", next.tree = [w.tree EXCEPT ![q] = upload]
          PROVE  Changes(tree, upload, next.tree)
      <4>1. q \in DOMAIN w.tree /\ w.tree[q] = "null" /\ DOMAIN next.tree = DOMAIN tree
        BY <1>4, <1>8, <3>2 DEF At, Changes
      <4>2. tree[q] = "null"
        BY <1>4, <1>8, <4>1 DEF Changes
      <4> QED BY <1>8, <3>2, <4>1, <4>2 DEF Changes
    <3> QED BY <2>2, <3>1, <3>2 DEF val
  <2> QED BY <1>3, <1>8, <2>1, <2>3 DEF Walk, next
<1> QED BY <1>5, <1>6, <1>7, <1>8 DEF Walk

\* What injectFile makes of one path in one request's variables.
LEMMA InjectIs ==
  ASSUME NEW upload \in File, NEW tree, NEW keys, IsList(keys), keys # <<>>
  PROVE  LET w == Inject(upload, tree, keys) IN
         \/ IsHole(tree, keys) /\ w.outcome = "ok" /\ w.tree = [tree EXCEPT ![keys] = upload]
         \/ ~IsHole(tree, keys) /\ w.tree = tree /\ (w.outcome = "ok" => EndsAtMap(tree, keys))
         \/ ~IsHole(tree, keys) /\ GoesOn(tree, keys) /\ Changes(tree, upload, w.tree)
<1> DEFINE n == Len(keys)
<1>1. n \in Nat /\ n > 0 /\ Prefix(keys, n) = keys /\ Prefix(keys, 0) = <<>>
  BY PrefixesAre DEF IsList
<1>2. PICK walk :
           /\ Inject(upload, tree, keys) = walk[n]
           /\ walk[0] = Start(tree)
           /\ \A i \in 1 .. n : walk[i] = StepInto(upload, keys, walk[i - 1], i)
  BY <1>1, InjectWalks
<1> DEFINE G == { i \in 0 .. n : Walk(upload, tree, keys, walk[i], i) }
<1>3. 0 \in G
  <2>1. walk[0].outcome = "ok" /\ walk[0].isIndex = FALSE /\ walk[0].tree = tree /\ walk[0].cur = <<>>
        /\ DOMAIN walk[0] = {"tree", "cur", "isIndex", "outcome"}
    BY <1>2 DEF Start
  <2>2. Walk(upload, tree, keys, walk[0], 0)
    BY <1>1, <2>1 DEF Walk
  <2> QED BY <1>1, <2>2
<1>4. ASSUME NEW k \in 0 .. n - 1, k \in G PROVE k + 1 \in G
  <2>1. Walk(upload, tree, keys, walk[k], k)
    BY <1>4
  <2>2. walk[k + 1] = StepInto(upload, keys, walk[k], k + 1)
    BY <1>1, <1>2
  <2>3. Walk(upload, tree, keys, walk[k + 1], k + 1)
    BY <2>1, <2>2, WalkStep
  <2> QED BY <1>1, <2>3
<1>5. Walk(upload, tree, keys, walk[n], n)
  <2> HIDE DEF G
  <2>1. 0 .. n \subseteq G
    BY <1>1, <1>3, <1>4, BoundedInduction
  <2>2. n \in G
    BY <1>1, <2>1
  <2> QED BY <2>2 DEF G
<1> DEFINE w == walk[n]
<1> HIDE DEF w
<1>6. CASE /\ w.outcome = "ok" /\ w.isIndex = FALSE /\ w.tree = tree /\ w.cur = Prefix(keys, n)
           /\ \A m \in 1 .. n : At(tree, Prefix(keys, m)) = "map"
  <2>1. At(tree, keys) = "map"
    BY <1>1, <1>6
  <2> QED BY <1>2, <1>6, <2>1 DEF IsHole, EndsAtMap, w
<1>7. CASE IsHole(tree, keys) /\ w.outcome = "ok" /\ w.tree = [tree EXCEPT ![keys] = upload]
  BY <1>2, <1>7 DEF w
<1>8. CASE ~IsHole(tree, keys) /\ w.outcome # "ok" /\ w.tree = tree
  BY <1>2, <1>8 DEF w
<1>9. CASE GoesOn(tree, keys) /\ Changes(tree, upload, w.tree)
  BY <1>2, <1>9, GoesOnIs DEF w
<1> QED BY <1>5, <1>6, <1>7, <1>8, <1>9 DEF Walk, w

\* Files in place of nulls neither make nor close another way.
Fills(tree, old) ==
  /\ DOMAIN tree = DOMAIN old
  /\ \A p \in DOMAIN old : tree[p] # old[p] => old[p] = "null" /\ tree[p] \in File

LEMMA FillsKeeps ==
  ASSUME NEW tree, NEW old, Fills(tree, old), NEW keys
  PROVE  /\ IsHole(tree, keys) => IsHole(old, keys)
         /\ GoesOn(tree, keys) => GoesOn(old, keys)
         /\ EndsAtMap(tree, keys) => EndsAtMap(old, keys)
         /\ IsHole(old, keys) /\ tree[keys] = old[keys] => IsHole(tree, keys)
<1>1. "map" \notin File /\ "list" \notin File /\ "null" \notin File
  BY FileAssumption
<1>2. \A p : At(tree, p) \in {"map", "list", "null"} => At(old, p) = At(tree, p)
  BY <1>1 DEF Fills, At
<1>3. \A p : At(old, p) \in {"map", "list"} => At(old, p) = At(tree, p)
  BY FileAssumption DEF Fills, At
<1>4. \A k : IsHole(tree, k) => IsHole(old, k)
  BY <1>2 DEF IsHole
<1>5. GoesOn(tree, keys) => GoesOn(old, keys)
  BY <1>4 DEF GoesOn
<1>6. ASSUME IsHole(old, keys), tree[keys] = old[keys] PROVE IsHole(tree, keys)
  <2>1. At(tree, keys) = "null"
    BY <1>6 DEF IsHole, Fills, At
  <2> QED BY <1>3, <1>6, <2>1 DEF IsHole
<1> QED BY <1>2, <1>4, <1>5, <1>6 DEF EndsAtMap

LEMMA HoleGoesNot == ASSUME NEW tree, NEW keys, IsHole(tree, keys) PROVE ~GoesOn(tree, keys)
<1> SUFFICES ASSUME NEW n \in 1 .. Len(keys) - 1, IsHole(tree, SubSeq(keys, 1, n)) PROVE FALSE
  BY DEF GoesOn
<1>1. At(tree, SubSeq(keys, 1, n)) = "null"
  BY DEF IsHole
<1>2. At(tree, SubSeq(keys, 1, n)) \in {"map", "list"}
  BY DEF IsHole
<1> QED BY <1>1, <1>2

\* Of pairs of a file and a place.
ArePairs(pairs) == \A d \in pairs : d[1] \in File /\ d[2] = <<d[2][1], d[2][2]>>

LEMMA PlacedFills ==
  ASSUME NEW trees, NEW pairs, Placed(trees, pairs), ArePairs(pairs), NEW r \in Indices,
         DOMAIN trees[r] = DOMAIN Tree(r)
  PROVE  Fills(trees[r], Tree(r))
BY DEF Placed, ArePairs, Fills

\* One more pair, whose file has only been put where there was null.
LEMMA PlacedMore ==
  ASSUME NEW trees, NEW new, NEW pairs, Placed(trees, pairs), ArePairs(pairs),
         \A r \in Indices : DOMAIN trees[r] = DOMAIN Tree(r),
         NEW f \in File, NEW n, Settled(new, f, n),
         \A r \in Indices : \A p \in DOMAIN Tree(r) :
           new[r][p] # trees[r][p] =>
             /\ trees[r][p] = "null" /\ new[r][p] = f
             /\ n[1] = r /\ (n[2] = p \/ GoesOn(Tree(r), n[2]))
  PROVE  Placed(new, pairs \cup {<<f, n>>})
<1>1. "null" \notin File
  BY FileAssumption
<1>2. ASSUME NEW d \in pairs PROVE Settled(new, d[1], d[2])
  <2>1. Settled(trees, d[1], d[2]) /\ d[1] \in File
    BY DEF Placed, ArePairs
  <2>2. CASE IsHole(Tree(d[2][1]), d[2][2]) /\ trees[d[2][1]][d[2][2]] = d[1]
    <3>1. d[2][1] \in Indices /\ d[2][2] \in DOMAIN Tree(d[2][1])
      BY <2>1, <2>2, FileAssumption DEF Settled, IsHole, At
    <3>2. new[d[2][1]][d[2][2]] = d[1]
      BY <1>1, <2>1, <2>2, <3>1
    <3> QED BY <2>1, <2>2, <3>2 DEF Settled
  <2> QED BY <2>1, <2>2 DEF Settled
<1>3. ASSUME NEW r \in Indices, NEW p \in DOMAIN Tree(r), new[r][p] # Tree(r)[p]
      PROVE  /\ Tree(r)[p] = "null"
             /\ \E d \in pairs \cup {<<f, n>>} :
                  /\ new[r][p] = d[1] /\ d[2][1] = r
                  /\ d[2][2] = p \/ GoesOn(Tree(r), d[2][2])
  <2>1. CASE new[r][p] = trees[r][p]
    BY <1>3, <2>1 DEF Placed
  <2>2. CASE new[r][p] # trees[r][p]
    <3>1. /\ trees[r][p] = "null" /\ new[r][p] = f
          /\ n[1] = r /\ (n[2] = p \/ GoesOn(Tree(r), n[2]))
      BY <2>2
    <3>2. Tree(r)[p] = "null"
      BY <1>1, <3>1 DEF Placed, ArePairs
    <3>3. <<f, n>> \in pairs \cup {<<f, n>>} /\ <<f, n>>[1] = f /\ <<f, n>>[2] = n
      OBVIOUS
    <3> QED BY <3>1, <3>2, <3>3
  <2> QED BY <2>1, <2>2
<1>4. Settled(new, <<f, n>>[1], <<f, n>>[2])
  OBVIOUS
<1> QED BY <1>2, <1>3, <1>4 DEF Placed

\* A path to a hole, and pairs of other holes.
FitsIn(path, pairs) ==
  LET n == <<path.entry, path.keys>>
  IN /\ path.entry \in Indices /\ IsHole(Tree(path.entry), path.keys) /\ path.root = "variables"
     /\ \A d \in pairs : IsHole(Tree(d[2][1]), d[2][2]) /\ d[2] # n

\* injectFile, for one path.
LEMMA PathPlaces ==
  ASSUME NEW pairs, ArePairs(pairs), NEW f \in File, NEW path, IsList(path.keys),
         NEW before, DOMAIN before = {"trees", "outcome"}, before.outcome = "ok",
         Placed(before.trees, pairs), DOMAIN before.trees = Indices,
         \A r \in Indices : DOMAIN before.trees[r] = DOMAIN Tree(r)
  PROVE  LET after == InjectPath(f, before, path)
             n == <<path.entry, path.keys>>
         IN /\ after.outcome = "ok" => Placed(after.trees, pairs \cup {<<f, n>>})
            /\ FitsIn(path, pairs) => after.outcome = "ok"
<1> DEFINE after == InjectPath(f, before, path)
           e == path.entry
           k == path.keys
           n == <<e, k>>
           trees == before.trees
           w == Inject(f, trees[e], k)
<1>1. after = IF path.root = "none" THEN [before EXCEPT !.outcome = "aborted"]
              ELSE IF path.root = "other" \/ k = <<>> THEN [before EXCEPT !.outcome = "refused"]
              ELSE IF e \notin DOMAIN trees THEN [before EXCEPT !.outcome = "aborted"]
              ELSE IF w.outcome = "ok" THEN [before EXCEPT !.trees[e] = w.tree]
              ELSE [before EXCEPT !.outcome = w.outcome]
  BY DEF InjectPath
<1>2. k # <<>> =>
        \/ IsHole(trees[e], k) /\ w.outcome = "ok" /\ w.tree = [trees[e] EXCEPT ![k] = f]
        \/ ~IsHole(trees[e], k) /\ w.tree = trees[e] /\ (w.outcome = "ok" => EndsAtMap(trees[e], k))
        \/ ~IsHole(trees[e], k) /\ GoesOn(trees[e], k) /\ Changes(trees[e], f, w.tree)
  BY InjectIs
<1>3. n[1] = e /\ n[2] = k
  OBVIOUS
<1> HIDE DEF after, w, n
<1>4. ASSUME e \in Indices
      PROVE  /\ IsHole(trees[e], k) => IsHole(Tree(e), k)
             /\ GoesOn(trees[e], k) => GoesOn(Tree(e), k)
             /\ EndsAtMap(trees[e], k) => EndsAtMap(Tree(e), k)
             /\ IsHole(Tree(e), k) /\ trees[e][k] = Tree(e)[k] => IsHole(trees[e], k)
  <2>1. Fills(trees[e], Tree(e))
    BY <1>4, PlacedFills
  <2> HIDE DEF e, k
  <2> QED BY <2>1, FillsKeeps
<1>5. ASSUME after.outcome = "ok" PROVE Placed(after.trees, pairs \cup {<<f, n>>})
  <2>1. k # <<>> /\ e \in Indices /\ w.outcome = "ok" /\ after = [before EXCEPT !.trees[e] = w.tree]
    BY <1>1, <1>5
  <2>2. after.trees[e] = w.tree /\ \A r \in Indices \ {e} : after.trees[r] = trees[r]
    BY <2>1
  <2>3. /\ Settled(after.trees, f, n)
        /\ \A p \in DOMAIN Tree(e) : w.tree[p] # trees[e][p] =>
             trees[e][p] = "null" /\ w.tree[p] = f /\ (k = p \/ GoesOn(Tree(e), k))
    <3>1. CASE IsHole(trees[e], k) /\ w.tree = [trees[e] EXCEPT ![k] = f]
      <4>1. k \in DOMAIN trees[e] /\ trees[e][k] = "null"
        BY <3>1, FileAssumption DEF IsHole, At
      <4> QED BY <1>3, <1>4, <2>1, <2>2, <3>1, <4>1 DEF Settled
    <3>2. CASE w.tree = trees[e] /\ EndsAtMap(trees[e], k)
      BY <1>3, <1>4, <2>1, <3>2 DEF Settled
    <3>3. CASE GoesOn(trees[e], k) /\ Changes(trees[e], f, w.tree)
      BY <1>3, <1>4, <2>1, <3>3 DEF Settled, Changes
    <3> QED BY <1>2, <2>1, <3>1, <3>2, <3>3
  <2>4. ASSUME NEW r \in Indices, NEW p \in DOMAIN Tree(r), after.trees[r][p] # trees[r][p]
        PROVE  /\ trees[r][p] = "null" /\ after.trees[r][p] = f
               /\ n[1] = r /\ (n[2] = p \/ GoesOn(Tree(r), n[2]))
    <3>1. r = e
      BY <2>2, <2>4
    <3> QED BY <1>3, <2>2, <2>3, <2>4, <3>1
  <2> QED BY <2>3, <2>4, PlacedMore
<1>6. ASSUME FitsIn(path, pairs) PROVE after.outcome = "ok"
  <2>0. /\ e \in Indices /\ IsHole(Tree(e), k) /\ path.root = "variables"
        /\ \A d \in pairs : IsHole(Tree(d[2][1]), d[2][2]) /\ d[2] # n
    BY <1>6 DEF FitsIn, n
  <2>1. e \in Indices /\ IsHole(Tree(e), k) /\ k # <<>>
    BY <2>0 DEF IsHole
  <2>2. trees[e][k] = Tree(e)[k]
    <3> SUFFICES ASSUME trees[e][k] # Tree(e)[k] PROVE FALSE
      OBVIOUS
    <3>1. k \in DOMAIN Tree(e)
      BY <2>1, FileAssumption DEF IsHole, At
    <3>2. PICK d \in pairs : d[2][1] = e /\ (d[2][2] = k \/ GoesOn(Tree(e), d[2][2]))
      BY <2>1, <3>1 DEF Placed
    <3>3. d[2][2] = k
      BY <2>0, <3>2, HoleGoesNot
    <3>4. d[2] = n
      BY <3>2, <3>3 DEF ArePairs, n
    <3> QED BY <2>0, <3>4
  <2>3. IsHole(trees[e], k)
    BY <1>4, <2>1, <2>2
  <2>4. w.outcome = "ok"
    BY <1>2, <2>1, <2>3
  <2> QED BY <1>1, <2>0, <2>1, <2>4
<1> QED BY <1>5, <1>6 DEF after, n

\* For all paths of a file.
NamedAt(paths, m) == <<paths[m].entry, paths[m].keys>>

\* Every place is a hole of its own.
Fitting(pairs, paths) ==
  /\ \A d \in pairs : IsHole(Tree(d[2][1]), d[2][2])
  /\ \A m \in DOMAIN paths :
       /\ NamedAt(paths, m)[1] \in Indices
       /\ IsHole(Tree(NamedAt(paths, m)[1]), NamedAt(paths, m)[2])
       /\ paths[m].root = "variables"
       /\ \A d \in pairs : d[2] # NamedAt(paths, m)
       /\ \A l \in DOMAIN paths : l # m => NamedAt(paths, l) # NamedAt(paths, m)

LEMMA FilePlaces ==
  ASSUME NEW pairs, ArePairs(pairs), NEW f, f \in File,
         NEW trees, Placed(trees, pairs), DOMAIN trees = Indices,
         \A r \in Indices : DOMAIN trees[r] = DOMAIN Tree(r),
         NEW paths, IsList(paths), \A m \in DOMAIN paths : IsList(paths[m].keys)
  PROVE  LET injected == InjectFile(f, trees, paths) IN
         /\ injected.outcome = "ok" =>
              Placed(injected.trees, pairs \cup { <<f, NamedAt(paths, m)>> : m \in DOMAIN paths })
         /\ Fitting(pairs, paths) => injected.outcome = "ok"
<1> DEFINE len == Len(paths)
<1>1. len \in Nat /\ DOMAIN paths = 1 .. len /\ \A m \in 1 .. len : Len(paths[m].keys) \in Nat
  BY ListIs
<1>2. PICK after :
           /\ InjectFile(f, trees, paths) = after[len]
           /\ after[0] = [trees |-> trees, outcome |-> "ok"]
           /\ \A i \in 1 .. len : after[i] = InjectPath(f, after[i - 1], paths[i])
  <2>1. Len(paths) \in Nat
    BY <1>1
  <2> QED BY <2>1, InjectFileWalks
<1> DEFINE U(i) == pairs \cup { <<f, NamedAt(paths, m)>> : m \in 1 .. i }
           Fine(x) == /\ DOMAIN x = {"trees", "outcome"} /\ x.outcome \in Outcomes
                      /\ DOMAIN x.trees = Indices
                      /\ \A r \in Indices : DOMAIN x.trees[r] = DOMAIN Tree(r)
           G == { i \in 0 .. len :
                    /\ Fine(after[i])
                    /\ (after[i].outcome = "ok" => Placed(after[i].trees, U(i)))
                    /\ (Fitting(pairs, paths) => after[i].outcome = "ok") }
<1>3. 0 \in G
  <2>1. U(0) = pairs
    OBVIOUS
  <2>2. after[0].trees = trees /\ after[0].outcome = "ok" /\ Fine(after[0])
    BY <1>2 DEF Outcomes
  <2> HIDE DEF U, Fine
  <2> QED BY <1>1, <2>1, <2>2
<1>4. ASSUME NEW i \in 0 .. len - 1, i \in G PROVE i + 1 \in G
  <2> DEFINE b == after[i]
             q == paths[i + 1]
             n == NamedAt(paths, i + 1)
             next == InjectPath(f, b, q)
  <2>1. /\ Fine(b) /\ (b.outcome = "ok" => Placed(b.trees, U(i))) /\ (Fitting(pairs, paths) => b.outcome = "ok")
        /\ i + 1 \in 1 .. len /\ i + 1 \in 0 .. len /\ IsList(q.keys) /\ Len(q.keys) \in Nat
        /\ after[i + 1] = next
    BY <1>1, <1>2, <1>4
  <2>2. U(i + 1) = U(i) \cup {<<f, n>>}
    OBVIOUS
  <2>3. ArePairs(U(i))
    BY DEF ArePairs, NamedAt
  <2>4. Fine(next)
    <3>1. DOMAIN b = {"trees", "outcome"} /\ b.outcome \in Outcomes
      BY <2>1
    <3>2. /\ DOMAIN next = {"trees", "outcome"} /\ next.outcome \in Outcomes
          /\ DOMAIN next.trees = DOMAIN b.trees
          /\ \A e \in DOMAIN b.trees : DOMAIN next.trees[e] = DOMAIN b.trees[e]
      <4> HIDE DEF b, q
      <4> QED BY <2>1, <3>1, PathOutcome
    <3> HIDE DEF next, b
    <3> QED BY <2>1, <3>2
  <2>5. b.outcome # "ok" => next = b
    BY DEF InjectPath
  <2>6. ASSUME b.outcome = "ok"
        PROVE  /\ next.outcome = "ok" => Placed(next.trees, U(i) \cup {<<f, n>>})
               /\ FitsIn(q, U(i)) => next.outcome = "ok"
    <3>1. /\ DOMAIN b = {"trees", "outcome"} /\ DOMAIN b.trees = Indices
          /\ \A r \in Indices : DOMAIN b.trees[r] = DOMAIN Tree(r)
          /\ Placed(b.trees, U(i)) /\ n = <<q.entry, q.keys>>
      BY <2>1, <2>6 DEF NamedAt
    <3> DEFINE o == <<q.entry, q.keys>>
               V == U(i)
    <3>2. ArePairs(V) /\ Placed(b.trees, V) /\ IsList(q.keys)
      BY <2>1, <2>3, <3>1
    <3> HIDE DEF b, q, V
    <3>3. /\ next.outcome = "ok" => Placed(next.trees, V \cup {<<f, o>>})
          /\ FitsIn(q, V) => next.outcome = "ok"
      BY <2>6, <3>1, <3>2, PathPlaces, ZenonT(200)
    <3> HIDE DEF o, n
    <3> QED BY <3>1, <3>3 DEF o, V
  <2>7. ASSUME Fitting(pairs, paths)
        PROVE  FitsIn(q, U(i))
    <3>1. /\ n[1] \in Indices /\ IsHole(Tree(n[1]), n[2]) /\ q.root = "variables"
          /\ \A d \in pairs : d[2] # n
      BY <1>1, <2>1, <2>7 DEF Fitting
    <3>2. ASSUME NEW m \in 1 .. i
          PROVE  LET l == NamedAt(paths, m) IN IsHole(Tree(l[1]), l[2]) /\ l # n
      <4>1. m \in DOMAIN paths /\ i + 1 \in DOMAIN paths /\ m # i + 1
        BY <1>1, <2>1
      <4> QED BY <2>7, <4>1 DEF Fitting
    <3>3. ASSUME NEW d \in U(i) PROVE IsHole(Tree(d[2][1]), d[2][2]) /\ d[2] # n
      <4>1. CASE d \in pairs
        BY <2>7, <3>1, <4>1 DEF Fitting
      <4>2. CASE d \in { <<f, NamedAt(paths, m)>> : m \in 1 .. i }
        <5>1. PICK m \in 1 .. i : d = <<f, NamedAt(paths, m)>>
          BY <4>2
        <5>2. d[2] = NamedAt(paths, m)
          BY <5>1
        <5> HIDE DEF n
        <5> QED BY <3>2, <5>2
      <4> QED BY <4>1, <4>2
    <3>4. n[1] = q.entry /\ n[2] = q.keys /\ n = <<q.entry, q.keys>>
      BY DEF NamedAt
    <3> HIDE DEF q, n, U
    <3> QED BY <3>1, <3>3, <3>4 DEF FitsIn
  <2> HIDE DEF b, q, n, next, U, Fine
  <2>8. Fine(next) /\ (next.outcome = "ok" => Placed(next.trees, U(i + 1))) /\ (Fitting(pairs, paths) => next.outcome = "ok")
    BY <2>1, <2>2, <2>4, <2>5, <2>6, <2>7
  <2> QED BY <2>1, <2>8
<1>5. len \in G
  <2> HIDE DEF G
  <2>1. 0 .. len \subseteq G
    BY <1>1, <1>3, <1>4, BoundedInduction
  <2> QED BY <1>1, <2>1
<1>6. U(len) = pairs \cup { <<f, NamedAt(paths, m)>> : m \in DOMAIN paths }
  BY <1>1
<1> QED BY <1>2, <1>5, <1>6

\* The client's map names each place once.
LEMMA NamedAre ==
  ASSUME post \in Post, NEW f \in DOMAIN post.map
  PROVE  LET paths == post.map[f] IN
         /\ f \in File /\ IsList(paths) /\ \A m \in DOMAIN paths : IsList(paths[m].keys)
         /\ Named(f) = { NamedAt(paths, m) : m \in DOMAIN paths }
         /\ Cardinality(Named(f)) = Len(paths) =>
              \A l, m \in DOMAIN paths : l # m => NamedAt(paths, l) # NamedAt(paths, m)
<1> DEFINE paths == post.map[f]
           S == DOMAIN paths
           g == [m \in S |-> NamedAt(paths, m)]
<1>1. f \in File /\ IsList(paths) /\ \A m \in DOMAIN paths : IsList(paths[m].keys)
  BY PostAssumption
<1>2. Named(f) = { NamedAt(paths, m) : m \in S }
  BY DEF Named, NamedAt, Range
<1>3. Len(paths) \in Nat /\ S = 1 .. Len(paths)
  BY <1>1, ListIs
<1>4. IsFiniteSet(S) /\ Cardinality(S) = Len(paths)
  BY <1>3, FS_Interval
<1>5. ASSUME Cardinality(Named(f)) = Len(paths), NEW l \in S, NEW m \in S, l # m
      PROVE  NamedAt(paths, l) # NamedAt(paths, m)
  <2>1. g \in Surjection(S, Named(f))
    BY <1>2 DEF Surjection
  <2>2. g \in Injection(S, Named(f))
    <3> HIDE DEF g, S
    <3> QED BY <1>4, <1>5, <2>1, FS_Surjection
  <2>3. g[l] # g[m]
    <3> HIDE DEF g
    <3> QED BY <1>5, <2>2 DEF Injection, IsInjective
  <2> QED BY <2>3
<1> QED BY <1>1, <1>2, <1>5

LEMMA PairsAre ==
  ASSUME post \in Post, NEW fs \in SUBSET DOMAIN post.map
  PROVE  /\ ArePairs(Pairs(fs))
         /\ \A d \in Pairs(fs) : \E f \in fs : d[2] \in Named(f)
         /\ \A f \in DOMAIN post.map :
              Pairs(fs \cup {f}) =
                Pairs(fs) \cup { <<f, NamedAt(post.map[f], m)>> : m \in DOMAIN post.map[f] }
<1>1. ASSUME NEW d \in Pairs(fs)
      PROVE  d[1] \in File /\ d[2] = <<d[2][1], d[2][2]>> /\ \E f \in fs : d[2] \in Named(f)
  <2>1. PICK f \in fs : \E n \in Named(f) : d = <<f, n>>
    BY DEF Pairs
  <2>2. PICK n \in Named(f) : d = <<f, n>>
    BY <2>1
  <2>3. f \in File /\ Named(f) = { NamedAt(post.map[f], m) : m \in DOMAIN post.map[f] }
    BY NamedAre
  <2>4. n = <<n[1], n[2]>>
    BY <2>2, <2>3 DEF NamedAt
  <2>5. d[1] = f /\ d[2] = n
    BY <2>2
  <2> QED BY <2>2, <2>3, <2>4, <2>5
<1>2. ASSUME NEW f \in DOMAIN post.map
      PROVE  Pairs(fs \cup {f}) =
               Pairs(fs) \cup { <<f, NamedAt(post.map[f], m)>> : m \in DOMAIN post.map[f] }
  <2>1. Named(f) = { NamedAt(post.map[f], m) : m \in DOMAIN post.map[f] }
    BY NamedAre
  <2>2. { <<f, n>> : n \in Named(f) } = { <<f, NamedAt(post.map[f], m)>> : m \in DOMAIN post.map[f] }
    <3> HIDE DEF NamedAt
    <3> QED BY <2>1
  <2>3. Pairs(fs \cup {f}) = Pairs(fs) \cup { <<f, n>> : n \in Named(f) }
    BY DEF Pairs
  <2> QED BY <2>2, <2>3
<1> QED BY <1>1, <1>2 DEF ArePairs
-----------------------------------------------------------------------------
LEMMA InitPlaced == Init => PlacedInv
<1> SUFFICES ASSUME Init PROVE PlacedInv
  OBVIOUS
<1>1. stage = "parse" /\ toInject = DOMAIN post.map /\ \A r \in Indices : parsed[r] = Tree(r)
  BY DEF Init, Tree
<1>2. Pairs(DOMAIN post.map \ toInject) = {}
  BY <1>1 DEF Pairs
<1> QED BY <1>1, <1>2 DEF PlacedInv, Placed

\* After the parsing all stays in its place.
LEMMA PlacedStays ==
  ASSUME PlacedInv, UNCHANGED <<post, toInject, parsed>>,
         \/ stage' = stage
         \/ stage = "serve" /\ stage' \in {"answered", "crashed"}
  PROVE  PlacedInv'
<1>1. Placed(parsed, Pairs(DOMAIN post.map \ toInject))' <=>
      Placed(parsed, Pairs(DOMAIN post.map \ toInject))
  BY DEF Placed, Settled, Pairs, Named, Tree, Indices
<1>2. NamedOnce' <=> NamedOnce
  BY DEF NamedOnce, Named
<1>3. \A f : WellNamed(f)' <=> WellNamed(f)
  BY DEF WellNamed, Named, Tree, Indices
<1>4. Indices' = Indices
  BY DEF Indices
<1> QED BY <1>1, <1>2, <1>3, <1>4 DEF PlacedInv

LEMMA ParsePlaced == ServeInv /\ PlacedInv /\ ParseRequests => PlacedInv'
<1> SUFFICES ASSUME ServeInv, PlacedInv, ParseRequests PROVE PlacedInv'
  OBVIOUS
<1>1. /\ stage = "parse" /\ UNCHANGED <<post, toInject, parsed>>
      /\ stage' = IF \/ \E r \in Indices : post.entries[r].query = "missing"
                     \/ post.multipart /\ post.map = <<>>
                  THEN "refused"
                  ELSE IF post.multipart THEN "inject" ELSE "serve"
  BY DEF ParseRequests, parseVars
<1>2. /\ toInject \subseteq DOMAIN post.map /\ (post.multipart \/ post.map = <<>>)
  BY PostAssumption DEF ServeInv, TypeOK
<1>3. stage' = "serve" => toInject = {}
  BY <1>1, <1>2
<1>4. Placed(parsed, Pairs(DOMAIN post.map \ toInject))
  BY <1>1 DEF PlacedInv
<1>5. Placed(parsed, Pairs(DOMAIN post.map \ toInject))'
  BY <1>1, <1>4 DEF Placed, Settled, Pairs, Named, Tree, Indices
<1>6. stage' = "refused" =>
        \/ \E r \in Indices' : post'.entries[r].query = "missing"
        \/ post'.map = <<>>
  BY <1>1 DEF Indices
<1> QED BY <1>1, <1>3, <1>5, <1>6 DEF PlacedInv

LEMMA PlacePlaced ==
  ASSUME ServeInv, ArriveInv, PlacedInv, NEW f, f \in File, Place(f)
  PROVE  PlacedInv'
<1> DEFINE paths == post.map[f]
           injected == InjectFile(f, vars, paths)
           pairs == Pairs(DOMAIN post.map \ toInject)
<1>1. /\ stage = "inject" /\ f \in toInject /\ toInject' = toInject \ {f}
      /\ parsed' = injected.trees /\ post' = post
      /\ stage' = CASE injected.outcome # "ok" -> injected.outcome
                    [] injected.outcome = "ok" /\ toInject' = {} -> "serve"
                    [] OTHER -> stage
  BY DEF Place
<1>2. /\ post \in Post /\ f \in DOMAIN post.map /\ toInject \subseteq DOMAIN post.map
      /\ vars = parsed /\ DOMAIN vars = Indices
  BY <1>1 DEF ServeInv, TypeOK
<1>3. \A r \in Indices : DOMAIN vars[r] = DOMAIN Tree(r)
  BY <1>2 DEF ArriveInv
<1>4. /\ IsList(paths) /\ \A m \in DOMAIN paths : IsList(paths[m].keys)
      /\ Named(f) = { NamedAt(paths, m) : m \in DOMAIN paths }
      /\ Cardinality(Named(f)) = Len(paths) =>
           \A l, m \in DOMAIN paths : l # m => NamedAt(paths, l) # NamedAt(paths, m)
  BY <1>2, NamedAre
<1>5. /\ ArePairs(pairs) /\ \A d \in pairs : \E g \in DOMAIN post.map \ toInject : d[2] \in Named(g)
      /\ Pairs((DOMAIN post.map \ toInject) \cup {f}) =
           pairs \cup { <<f, NamedAt(paths, m)>> : m \in DOMAIN paths }
  <2>1. DOMAIN post.map \ toInject \in SUBSET DOMAIN post.map
    OBVIOUS
  <2> QED BY <1>2, <2>1, PairsAre
<1>6. (DOMAIN post.map \ toInject) \cup {f} = DOMAIN post.map \ toInject'
  BY <1>1, <1>2
<1>7. Placed(vars, pairs)
  BY <1>1, <1>2 DEF PlacedInv
<1>8. /\ (injected.outcome = "ok" =>
            Placed(injected.trees, pairs \cup { <<f, NamedAt(paths, m)>> : m \in DOMAIN paths }))
      /\ (Fitting(pairs, paths) => injected.outcome = "ok")
  <2> HIDE DEF pairs, paths
  <2>1. /\ ArePairs(pairs) /\ Placed(vars, pairs) /\ DOMAIN vars = Indices /\ f \in File
        /\ IsList(paths) /\ \A m \in DOMAIN paths : IsList(paths[m].keys)
    BY <1>2, <1>4, <1>5, <1>7
  <2> QED BY <1>3, <2>1, FilePlaces, Zenon
<1>9. injected.outcome \in Outcomes
  <2>1. Len(paths) \in Nat /\ \A m \in 1 .. Len(paths) : Len(paths[m].keys) \in Nat
    BY <1>4, ListIs
  <2> QED BY <2>1, InjectFileOutcome
\* A map whose paths all lead to nulls of their own fits.
<1>10. NamedOnce /\ (\A g \in DOMAIN post.map : WellNamed(g)) => Fitting(pairs, paths)
  <2> SUFFICES ASSUME NamedOnce, \A g \in DOMAIN post.map : WellNamed(g)
               PROVE  Fitting(pairs, paths)
    OBVIOUS
  <2>1. ASSUME NEW d \in pairs
        PROVE  IsHole(Tree(d[2][1]), d[2][2]) /\ d[2] \notin Named(f)
    <3>1. PICK g \in DOMAIN post.map \ toInject : d[2] \in Named(g)
      BY <1>5
    <3>2. g # f /\ WellNamed(g) /\ Named(f) \cap Named(g) = {}
      BY <1>1, <1>2 DEF NamedOnce
    <3> QED BY <3>1, <3>2 DEF WellNamed
  <2>2. ASSUME NEW m \in DOMAIN paths
        PROVE  /\ NamedAt(paths, m) \in Named(f)
               /\ NamedAt(paths, m)[1] \in Indices
               /\ IsHole(Tree(NamedAt(paths, m)[1]), NamedAt(paths, m)[2])
               /\ paths[m].root = "variables"
               /\ \A l \in DOMAIN paths : l # m => NamedAt(paths, l) # NamedAt(paths, m)
    <3>1. NamedAt(paths, m) \in Named(f)
      BY <1>4
    <3>2. Cardinality(Named(f)) = Len(paths) /\ WellNamed(f)
      BY <1>2 DEF NamedOnce
    <3>3. paths[m].root = "variables"
      BY <3>2 DEF WellNamed, Range
    <3> HIDE DEF paths
    <3> QED BY <1>4, <3>1, <3>2, <3>3 DEF WellNamed
  <2> HIDE DEF paths, pairs
  <2> QED BY <2>1, <2>2 DEF Fitting
<1> HIDE DEF injected
<1>11. CASE injected.outcome = "ok"
  <2>1. Placed(injected.trees, Pairs(DOMAIN post.map \ toInject'))
    BY <1>5, <1>6, <1>8, <1>11
  <2>2. Placed(parsed, Pairs(DOMAIN post.map \ toInject))'
    BY <1>1, <2>1 DEF Placed, Settled, Pairs, Named, Tree, Indices
  <2>3. stage' \in {"serve", "inject"} /\ (stage' = "serve" => toInject' = {})
    BY <1>1, <1>11
  <2> QED BY <2>2, <2>3 DEF PlacedInv
<1>12. CASE injected.outcome # "ok"
  <2>1. stage' \in {"refused", "aborted"}
    BY <1>1, <1>9, <1>12 DEF Outcomes
  <2>2. ~NamedOnce \/ \E g \in DOMAIN post.map : ~WellNamed(g)
    BY <1>8, <1>10, <1>12
  <2>3. (NamedOnce' <=> NamedOnce) /\ \A g : WellNamed(g)' <=> WellNamed(g)
    BY <1>1 DEF NamedOnce, WellNamed, Named, Tree, Indices
  <2> QED BY <1>1, <2>1, <2>2, <2>3 DEF PlacedInv
<1> QED BY <1>11, <1>12

LEMMA RequestPlaced ==
  ASSUME PlacedInv, stage = "serve", NEW r \in Indices, Request(r)
  PROVE  PlacedInv'
<1>1. UNCHANGED <<post, toInject, parsed>> /\ stage' \in {"serve", "crashed"}
  BY DEF Request, Refuse, ResolveIntrospection, ExecutePanics, StartDepth, FinishDepth, Fold,
         Group, BeginExtract, Extract, Clear, EndExtract, Collide, Goto, Marshal, BeginCopy, EndCopy, SendMultipart, BeginFetch, Fetch,
         Unchanged, parseVars
<1> QED BY <1>1, PlacedStays

LEMMA NextPlaced == ServeInv /\ ArriveInv /\ PlacedInv /\ [Next]_allVars => PlacedInv'
<1> SUFFICES ASSUME ServeInv, ArriveInv, PlacedInv, [Next]_allVars PROVE PlacedInv'
  OBVIOUS
<1>1. CASE ParseRequests
  BY <1>1, ParsePlaced
<1>2. CASE \E f \in File : Place(f)
  BY <1>2, PlacePlaced
<1>3. CASE stage = "serve" /\ \E r \in Indices : Request(r)
  BY <1>3, RequestPlaced
<1>4. CASE Emit
  BY <1>4, PlacedStays DEF Emit, parseVars
<1>5. CASE UNCHANGED allVars
  BY <1>5, PlacedStays DEF allVars, parseVars
<1> QED BY <1>1, <1>2, <1>3, <1>4, <1>5 DEF Next

-----------------------------------------------------------------------------
\* The types of a post's data; what a request, a goroutine and what is sent have
\* to do with each other; what has come of the paths the map names; and where
\* every upload is, from the request's variables through extractFiles and
\* prepareMultipart to what is sent: at every moment.
THEOREM Invariance == Spec => []IInv
<1>1. Init => IInv
  BY InitServeInv, InitPlaced, InitArrives DEF IInv
<1>2. IInv /\ [Next]_allVars => IInv'
  <2>1. IInv /\ [Next]_allVars => ServeInv' /\ PlacedInv' /\ ArriveInv'
    BY NextServeInv, NextPlaced, NextArrives DEF IInv
  <2> QED BY <2>1 DEF IInv
<1> QED BY <1>1, <1>2, PTL DEF Spec

\* Each request of a batch gets its own result at its own place, with errors if
\* and only if it was refused or a service failed (queryHandler, Results.Emit).
THEOREM EachItsOwnResult == Spec => []ResultsInPlace
<1>1. IInv => ResultsInPlace
  <2> SUFFICES ASSUME ServeInv, stage = "answered"
               PROVE  /\ DOMAIN response = Indices
                      /\ \A r \in Indices :
                           /\ response[r].by = r
                           /\ response[r].errors <=>
                                \/ post.entries[r].query \notin {"ok", "introspection"}
                                \/ \E s \in Service : work[<<r, s>>].at = "err"
    BY DEF IInv, ResultsInPlace
  <2>1. /\ TypeOK
        /\ \A r \in Indices : request[r].at = "folded"
        /\ response = IF post.batch THEN results ELSE <<results[1]>>
    BY DEF ServeInv
  <2>2. ~post.batch => Indices = {1}
    BY <2>1, PostFacts DEF TypeOK
  <2>3. DOMAIN response = Indices /\ \A r \in Indices : response[r] = results[r]
    <3>1. CASE post.batch
      BY <2>1, <3>1 DEF TypeOK
    <3>2. CASE ~post.batch
      <4>1. response = <<results[1]>>
        BY <2>1, <3>2
      <4>2. DOMAIN response = {1} /\ response[1] = results[1]
        BY <4>1
      <4> QED BY <2>2, <3>2, <4>2
    <3> QED BY <3>1, <3>2
  <2>4. ASSUME NEW r \in Indices
        PROVE  response[r].by = r /\ (response[r].errors <=> Failed(r))
    <3>1. RequestInv(r)
      BY DEF ServeInv
    <3>2. results[r] = request[r].result /\ request[r].result.by = r
          /\ (request[r].result.errors <=> Failed(r))
      BY <2>1, <3>1 DEF RequestInv
    <3> QED BY <2>3, <3>2
  <2> QED BY <2>3, <2>4 DEF Failed
<1> QED BY <1>1, Invariance, PTL

\* A file that an input sends is the client's, from a place of the request's
\* variables that this input uses. Of a request answered without errors, every
\* file that is the value of a variable reaches every input that uses it, a file
\* within a variable one of them, and whole unless another place or input
\* shares it. The process ends only where two services of a depth are given a
\* variable with a file in it, or for a plan without steps (getVariables,
\* extractFiles and prepareMultipart, whose goroutines go through the same maps and
\* read the same uploads; DepthExecutorManager.Execute).
THEOREM FilesOfWhatIsSent == Spec => []FilesArrive
<1>1. IInv => FilesArrive
  <2> SUFFICES ASSUME IInv PROVE FilesArrive
    OBVIOUS
  <2>1. ServeInv /\ ArriveInv /\ TypeOK /\ post \in Post
    BY DEF IInv, ServeInv, TypeOK
  <2>2. ASSUME NEW i \in sent, NEW x \in i.parts
        PROVE  /\ x.file = parsed[i.request][x.path] /\ x.path \in FilesIn(i.request)
               /\ <<i.depth, i.service, i.k>> \in Using(i.request, x.path)
    <3>1. SentInv(i) /\ SentFiles(i)
      BY <2>1 DEF ServeInv, ArriveInv
    <3>2. /\ PartInv(SentAs(i), x)
          /\ Shares(i.request, Plan(i.request)[i.depth][i.service][i.k], x.path)
      BY <3>1 DEF SentFiles
    <3>3. x.file = parsed[i.request][x.path] /\ x.path \in FilesIn(i.request)
      BY <3>2 DEF PartInv, SentAs, InputAt
    <3>4. x.path \in DOMAIN parsed[i.request] /\ i.request \in Indices
      BY <3>1, <3>3 DEF FilesIn, SentInv
    <3>5. DOMAIN parsed[i.request] = DOMAIN Tree(i.request)
      BY <2>1, <3>4 DEF ArriveInv
    <3>6. <<i.depth, i.service, i.k>> \in Using(i.request, x.path)
      BY <2>1, <3>1, <3>2, <3>4, <3>5, SharesIsUsing DEF SentInv
    <3> QED BY <3>3, <3>6
  <2>3. ASSUME stage = "answered", NEW f \in Files, NEW place \in PlacesOf(f)
        PROVE  LET r == place[1]
                   p == place[2]
               IN ~results[r].errors =>
                    /\ Using(r, p) # {} => Getting(r, p) # {}
                    /\ Len(p) = 1 =>
                         { <<i.depth, i.service, i.k>> : i \in Getting(r, p) } = Using(r, p)
                    /\ \A i \in Getting(r, p) :
                         Getting(r, p) = {i} /\ PlacesOf(f) = {place} =>
                           \A x \in i.parts : x.path = p => x.part = "whole"
    <3>1. PICK r \in Indices : \E p \in DOMAIN parsed[r] : place = <<r, p>> /\ parsed[r][p] = f
      BY DEF PlacesOf
    <3>2. PICK p \in DOMAIN parsed[r] : place = <<r, p>> /\ parsed[r][p] = f
      BY <3>1
    <3>3. place[1] = r /\ place[2] = p
      BY <3>2
    <3> SUFFICES ASSUME ~results[r].errors
                 PROVE  /\ Using(r, p) # {} => Getting(r, p) # {}
                        /\ Len(p) = 1 =>
                             { <<i.depth, i.service, i.k>> : i \in Getting(r, p) } = Using(r, p)
                        /\ \A i \in Getting(r, p) :
                             Getting(r, p) = {i} /\ PlacesOf(f) = {place} =>
                               \A x \in i.parts : x.path = p => x.part = "whole"
      BY <3>3
    <3>4. f \in File /\ p \in FilesIn(r)
      BY <3>2 DEF Files, FilesIn
    <3>5. DOMAIN parsed[r] = DOMAIN Tree(r)
      BY <2>1 DEF ArriveInv
    <3>6. \A o \in Indices, s \in Service : work[<<o, s>>].at \in {"idle", "ok", "err"}
      <4> SUFFICES ASSUME NEW o \in Indices, NEW s \in Service
                   PROVE  work[<<o, s>>].at \in {"idle", "ok", "err"}
        OBVIOUS
      <4>1. request[o].at = "folded" /\ GroupInv(o, s, work[<<o, s>>])
        BY <2>1, <2>3 DEF ServeInv
      <4> QED BY <4>1 DEF GroupInv
    <3>7. \A o \in Indices, s \in Service : Held(work[<<o, s>>]) = {} /\ Begun(work[<<o, s>>]) = {}
      BY <3>6 DEF Held, Begun
    <3>8. request[r].at = "folded" /\ ~Failed(r)
      BY <2>1, <2>3 DEF ServeInv, RequestInv
    \* Every input that uses p has got it, or, within a variable, some input has.
    <3>9. ASSUME NEW u \in Using(r, p)
          PROVE  /\ Getting(r, p) # {}
                 /\ Len(p) = 1 => \E i \in Getting(r, p) : u = <<i.depth, i.service, i.k>>
      <4>1. PICK d \in DOMAIN Plan(r) : \E s \in InDepth(r, d) : \E k \in DOMAIN Plan(r)[d][s] :
                   u = <<d, s, k>>
        BY DEF Using, InDepth
      <4>2. PICK s \in InDepth(r, d) : \E k \in DOMAIN Plan(r)[d][s] : u = <<d, s, k>>
        BY <4>1
      <4>3. PICK k \in DOMAIN Plan(r)[d][s] : u = <<d, s, k>>
        BY <4>2
      <4>4. Shares(r, Plan(r)[d][s][k], p)
        BY <2>1, <3>5, <4>3, SharesIsUsing
      <4>5. /\ s \in Service /\ k \in 1 .. Len(Plan(r)[d][s]) /\ Len(Plan(r)[d][s]) \in Nat
            /\ d \in 1 .. Len(Plan(r)) /\ Len(Plan(r)) \in Nat
        <5>1. /\ InDepth(r, d) \subseteq Service
              /\ DOMAIN Plan(r)[d][s] = 1 .. Len(Plan(r)[d][s]) /\ Len(Plan(r)[d][s]) \in Nat
              /\ DOMAIN Plan(r) = 1 .. Len(Plan(r)) /\ Len(Plan(r)) \in Nat
          BY <2>1, PlanFacts
        <5> QED BY <5>1
      <4>6. post.entries[r].query = "ok"
        <5>1. Entry(post.entries[r])
          BY <2>1, PostFacts
        <5>2. Plan(r) # <<>>
          BY <4>5
        <5> QED BY <5>1, <5>2 DEF Entry, Plan
      <4>7. request[r].depth = Len(Plan(r)) /\ AllOk(r)
        BY <2>1, <3>8, <4>6 DEF ArriveInv, DepthInv
      <4>8. Passed(r, d, s, k)
        <5>1. CASE d < Len(Plan(r))
          BY <4>7, <5>1 DEF Passed
        <5>2. CASE d = Len(Plan(r))
          <6>1. work[<<r, s>>].at = "ok"
            BY <4>7, <5>2 DEF AllOk
          <6>2. work[<<r, s>>].k > Len(InputsOf(r, s)) /\ InputsOf(r, s) = Plan(r)[d][s]
            BY <2>1, <4>5, <4>7, <5>2, <6>1 DEF ArriveInv, HeldInv, InputsOf
          <6>3. work[<<r, s>>].k \in Nat
            BY <2>1, <4>5, WorkHas
          <6>4. k < work[<<r, s>>].k
            BY <4>5, <6>2, <6>3
          <6> QED BY <4>7, <5>2, <6>4 DEF Passed
        <5> QED BY <4>5, <5>1, <5>2
      <4>9. IF Len(p) = 1 THEN Got(InputAt(r, d, s, k), p) ELSE OnItsWay(r, p)
        BY <2>1, <3>4, <4>4, <4>8 DEF ArriveInv, PassedInv
      <4>10. CASE Len(p) = 1
        <5>1. PICK i \in sent : SentAs(i) = InputAt(r, d, s, k) /\ \E x \in i.parts : x.path = p
          BY <4>9, <4>10 DEF Got
        <5>2. i.request = r /\ i.depth = d /\ i.service = s /\ i.k = k
          BY <5>1, InputsDiffer DEF SentAs
        <5>3. i \in Getting(r, p)
          BY <5>1, <5>2 DEF Getting
        <5> QED BY <4>3, <5>2, <5>3
      <4>11. CASE Len(p) # 1
        <5>1. OnItsWay(r, p)
          BY <4>9, <4>11
        <5>2. Getting(r, p) # {}
          BY <3>7, <5>1 DEF OnItsWay
        <5> QED BY <4>11, <5>2
      <4> QED BY <4>10, <4>11
    <3>10. ASSUME Len(p) = 1
           PROVE  { <<i.depth, i.service, i.k>> : i \in Getting(r, p) } = Using(r, p)
      <4>1. ASSUME NEW i \in Getting(r, p) PROVE <<i.depth, i.service, i.k>> \in Using(r, p)
        <5>1. i \in sent /\ i.request = r /\ \E x \in i.parts : x.path = p
          BY DEF Getting
        <5> QED BY <2>2, <5>1
      <4>2. \A u \in Using(r, p) : \E i \in Getting(r, p) : u = <<i.depth, i.service, i.k>>
        BY <3>9, <3>10
      <4> DEFINE A == { <<i.depth, i.service, i.k>> : i \in Getting(r, p) }
                 B == Using(r, p)
      <4>3. A \subseteq B
        BY <4>1
      <4>4. B \subseteq A
        BY <4>2
      <4> HIDE DEF A, B
      <4>5. A = B
        BY <4>3, <4>4
      <4> QED BY <4>5 DEF A, B
    \* A part that is not whole is one of two copies.
    <3>11. ASSUME NEW i \in Getting(r, p), Getting(r, p) = {i}, PlacesOf(f) = {place},
                  NEW x \in i.parts, x.path = p
           PROVE  x.part = "whole"
      <4> SUFFICES ASSUME x.part # "whole" PROVE FALSE
        OBVIOUS
      <4>1. i \in sent /\ i.request = r
        BY DEF Getting
      <4>2. PartInv(SentAs(i), x) /\ x.file = f
        BY <2>1, <2>2, <3>2, <3>11, <4>1 DEF ArriveInv, SentFiles
      <4>3. PICK other \in Copies(f) : other # <<SentAs(i), p>>
        BY <3>11, <4>2 DEF PartInv, Shared
      <4>4. CopySent(f, other)
        <5>1. ~CopyBegun(f, other)
          BY <3>7 DEF CopyBegun
        <5> QED BY <2>1, <5>1, CopiesAre
      <4>5. PICK j \in sent : \E y \in j.parts : y.file = f /\ other = <<SentAs(j), y.path>>
        BY <4>4 DEF CopySent
      <4>6. PICK y \in j.parts : y.file = f /\ other = <<SentAs(j), y.path>>
        BY <4>5
      <4>7. y.path \in FilesIn(j.request) /\ parsed[j.request][y.path] = f /\ j.request \in Indices
        BY <2>1, <2>2, <4>6 DEF ServeInv, SentInv
      <4>8. <<j.request, y.path>> \in PlacesOf(f)
        <5>1. y.path \in { q \in DOMAIN parsed[j.request] : parsed[j.request][q] = f }
          BY <4>7 DEF FilesIn
        <5> QED BY <4>7, <5>1 DEF PlacesOf
      <4>9. j.request = r /\ y.path = p
        BY <3>2, <3>11, <4>8
      <4>10. j \in Getting(r, p)
        BY <4>6, <4>9 DEF Getting
      <4>11. j = i
        BY <3>11, <4>10
      <4> QED BY <4>3, <4>6, <4>9, <4>11
    <3> QED BY <3>9, <3>10, <3>11
  <2>4. stage = "crashed" => FileShared \/ PlanWithoutSteps
    BY <2>1 DEF ArriveInv
  <2> QED BY <2>2, <2>3, <2>4 DEF FilesArrive
<1> QED BY <1>1, Invariance, PTL

\* A post that is served has each file of its map at the nulls the map names for
\* it and nothing else changed, whatever the order of the map; one that is
\* refused or whose process is gone gave reason to (requests.Parse, injectFile).
THEOREM FilesOfTheMap == Spec => []FilesPlaced
<1>1. IInv => FilesPlaced
  <2> SUFFICES ASSUME PlacedInv PROVE FilesPlaced
    BY DEF IInv
  <2>1. ASSUME stage \in {"serve", "answered"}
        PROVE  Placed(parsed, Pairs(DOMAIN post.map))
    <3>1. DOMAIN post.map \ toInject = DOMAIN post.map
      BY <2>1 DEF PlacedInv
    <3> QED BY <2>1, <3>1 DEF PlacedInv
  <2>2. ASSUME stage \in {"serve", "answered"}, NEW f \in DOMAIN post.map, NEW n \in Named(f)
        PROVE  \/ IsHole(Tree(n[1]), n[2]) /\ parsed[n[1]][n[2]] = f
               \/ EndsAtMap(Tree(n[1]), n[2])
               \/ GoesOn(Tree(n[1]), n[2])
    <3>1. <<f, n>> \in Pairs(DOMAIN post.map)
      BY DEF Pairs
    <3>2. Settled(parsed, <<f, n>>[1], <<f, n>>[2])
      BY <2>1, <2>2, <3>1 DEF Placed
    <3> QED BY <3>2 DEF Settled
  <2>3. ASSUME stage \in {"serve", "answered"}, NEW r \in Indices, NEW p \in DOMAIN Tree(r),
               parsed[r][p] # Tree(r)[p]
        PROVE  /\ Tree(r)[p] = "null"
               /\ \E f \in DOMAIN post.map : \E n \in Named(f) :
                    parsed[r][p] = f /\ n[1] = r /\ (n[2] = p \/ GoesOn(Tree(r), n[2]))
    <3>1. PICK d \in Pairs(DOMAIN post.map) :
            /\ Tree(r)[p] = "null" /\ parsed[r][p] = d[1] /\ d[2][1] = r
            /\ d[2][2] = p \/ GoesOn(Tree(r), d[2][2])
      BY <2>1, <2>3 DEF Placed
    <3>2. PICK f \in DOMAIN post.map : \E n \in Named(f) : d = <<f, n>>
      BY DEF Pairs
    <3>3. PICK n \in Named(f) : d = <<f, n>>
      BY <3>2
    <3>4. d[1] = f /\ d[2] = n
      BY <3>3
    <3> QED BY <3>1, <3>4
  <2>4. stage \in {"refused", "aborted"} =>
          \/ \E r \in Indices : post.entries[r].query = "missing"
          \/ post.map = <<>>
          \/ ~NamedOnce
          \/ \E f \in DOMAIN post.map : ~WellNamed(f)
    BY DEF PlacedInv
  <2> QED BY <2>2, <2>3, <2>4 DEF FilesPlaced
<1> QED BY <1>1, Invariance, PTL
=============================================================================
