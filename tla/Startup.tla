------------------------------ MODULE Startup ------------------------------
(***************************************************************************)
(* NewGateway (gateway.go): ParallelRemoteSchemaIntrospector asks every    *)
(* service for its schema in a goroutine of its own                        *)
(* (common.AsyncMapReduce), the schemas are sorted by the index of their   *)
(* url, paired with the urls and merged.                                   *)
(***************************************************************************)
EXTENDS Merger, FiniteSetsExt

CONSTANT World
  \* [services |-> Seq([url, answers, types, directives]), sanitize |-> BOOLEAN]:
  \* answers is FALSE for a service whose answer is an error

\* The schema of a service is one as GraphQL describes them.
IsMap(f) == f = [x \in DOMAIN f |-> f[x]]

IsTypeRef(type) ==
  /\ type \in [lists : Seq(BOOLEAN), nonNull : BOOLEAN, name : STRING]
  /\ type.name \notin {"", "NON_NULL", "LIST"}

IsField(field) ==
  /\ IsMap(field) /\ DOMAIN field = {"type", "args"}
  /\ IsTypeRef(field.type)
  /\ IsMap(field.args) /\ \A a \in DOMAIN field.args : IsTypeRef(field.args[a])

IsDef(name, def) ==
  /\ IsMap(def) /\ DOMAIN def = {"kind", "interfaces", "types", "values", "fields"}
  /\ def.kind \in {"SCALAR", "OBJECT", "INTERFACE", "UNION", "ENUM", "INPUT_OBJECT"}
  /\ name \in RootObjectName => def.kind = "OBJECT"
  /\ def.kind \notin {"OBJECT", "INTERFACE"} => def.interfaces = {}
  /\ def.kind # "UNION" => def.types = {}
  /\ def.kind # "ENUM" => def.values = {}
  /\ IsMap(def.fields) /\ \A f \in DOMAIN def.fields : IsField(def.fields[f])
  /\ def.kind \notin {"OBJECT", "INTERFACE", "INPUT_OBJECT"} => DOMAIN def.fields = {}

ASSUME WorldAssumption ==
  \A w \in World : /\ w.services \in Seq(Range(w.services)) /\ w.services # <<>>
                   /\ \A i \in DOMAIN w.services : LET types == w.services[i].types IN
                        IsMap(types) /\ \A n \in DOMAIN types : IsDef(n, types[n])

VARIABLES
  world,            \* the services, and which merger is configured
  introspection,    \* per service: "asked", "read", "failed" or "folded"
  acc,              \* the schemas folded so far, with their indices
  errs,             \* how many errors were
  gateway,          \* what NewGateway returns: schema and typeURLMap
  phase             \* "introspect", "merge", "started", "failed" or "panic"

vars == <<world, introspection, acc, errs, gateway, phase>>

Services == world.services
Answer(i) == ServiceSchema(Services[i])

Init ==
  /\ world \in World
  /\ introspection = [i \in DOMAIN world.services |-> "asked"]
  /\ acc = <<>>
  /\ errs = 0
  /\ gateway = NoSchema
  /\ phase = "introspect"
-----------------------------------------------------------------------------
\* introspectRemoteSchema in the goroutine of service i.
Introspect(i) ==
  /\ phase = "introspect"
  /\ introspection[i] = "asked"
  /\ Services[i].answers
  /\ ~ParsePanics(Answer(i))
  /\ introspection' = [introspection EXCEPT
       ![i] = IF ParseFails(Answer(i)) THEN "failed" ELSE "read"]
  /\ UNCHANGED <<world, acc, errs, gateway, phase>>

IntrospectFails(i) ==
  /\ phase = "introspect"
  /\ introspection[i] = "asked"
  /\ ~Services[i].answers
  /\ introspection' = [introspection EXCEPT ![i] = "failed"]
  /\ UNCHANGED <<world, acc, errs, gateway, phase>>

\* Nothing recovers the nil dereference.
IntrospectPanics(i) ==
  /\ phase = "introspect"
  /\ introspection[i] = "asked"
  /\ Services[i].answers
  /\ ParsePanics(Answer(i))
  /\ phase' = "panic"
  /\ UNCHANGED <<world, introspection, acc, errs, gateway>>

Fold(i) ==
  /\ phase = "introspect"
  /\ introspection[i] = "read"
  /\ introspection' = [introspection EXCEPT ![i] = "folded"]
  /\ acc' = Append(acc, [index |-> i, schema |-> ParseSchema(Answer(i))])
  /\ UNCHANGED <<world, errs, gateway, phase>>

\* Mutant: the error is forgotten.
FoldErrorUncounted(i) ==
  /\ phase = "introspect"
  /\ introspection[i] = "failed"
  /\ introspection' = [introspection EXCEPT ![i] = "folded"]
  /\ UNCHANGED <<world, acc, errs, gateway, phase>>

FoldError(i) ==
  /\ phase = "introspect"
  /\ introspection[i] = "failed"
  /\ introspection' = [introspection EXCEPT ![i] = "folded"]
  /\ errs' = errs + 1
  /\ UNCHANGED <<world, acc, gateway, phase>>

\* sort.Slice by Index
ByIndex(schemas) ==
  LET D == DOMAIN schemas
      order == CHOOSE p \in [D -> D] :
                 \A j, k \in D : j < k => p[j] # p[k] /\ schemas[p[j]].index <= schemas[p[k]].index
  IN [k \in D |-> schemas[order[k]]]

\* Mutant: the schemas stay in the order in which they came.
KeepOrder ==
  /\ phase = "introspect"
  /\ \A i \in DOMAIN introspection : introspection[i] = "folded"
  /\ phase' = IF errs > 0 THEN "failed" ELSE "merge"
  /\ UNCHANGED <<world, introspection, acc, errs, gateway>>

\* AsyncMapReduce returns, with an error if there was any, and
\* IntrospectRemoteSchemas sorts.
SortSchemas ==
  /\ phase = "introspect"
  /\ \A i \in DOMAIN introspection : introspection[i] = "folded"
  /\ phase' = IF errs > 0 THEN "failed" ELSE "merge"
  /\ acc' = IF errs > 0 THEN acc ELSE ByIndex(acc)
  /\ UNCHANGED <<world, introspection, errs, gateway>>

\* NewGateway pairs the k-th schema with the k-th url, and merges.
Paired(schemas) ==
  [k \in DOMAIN schemas |-> [url        |-> Services[k].url,
                            types      |-> schemas[k].schema.types,
                            directives |-> schemas[k].schema.directives]]

Merged(inputs) == IF world.sanitize THEN SanitizeNodeMerge(inputs) ELSE ExtendMerge(inputs)

Merge ==
  LET result == Merged(Paired(acc))
  IN /\ phase = "merge"
     /\ gateway' = result
     /\ phase' = IF result = NoSchema THEN "failed" ELSE "started"
     /\ UNCHANGED <<world, introspection, acc, errs>>

Service(i) ==
  Introspect(i) \/ IntrospectFails(i) \/ IntrospectPanics(i) \/ Fold(i) \/ FoldError(i)

Next ==
  \/ \E i \in DOMAIN introspection : Service(i)
  \/ SortSchemas
  \/ Merge
  \/ phase \in {"started", "failed", "panic"} /\ UNCHANGED vars

Spec == Init /\ [][Next]_vars
-----------------------------------------------------------------------------
Readable(i) == Services[i].answers /\ ~ParsePanics(Answer(i)) /\ ~ParseFails(Answer(i))
Failing(i) ==
  \/ ~Services[i].answers
  \/ ~ParsePanics(Answer(i)) /\ ParseFails(Answer(i))

InUrlOrder == [i \in DOMAIN Services |-> [index |-> i, schema |-> ParseSchema(Answer(i))]]

\* The types of the variables; every schema and every error is folded once.
StartupTypeOK ==
  /\ world \in World
  /\ introspection \in [DOMAIN Services -> {"asked", "read", "failed", "folded"}]
  /\ acc \in Seq(Range(acc)) /\ { a.index : a \in Range(acc) } \subseteq DOMAIN Services
  /\ errs \in Nat
  /\ Len(acc) + errs = Cardinality({ i \in DOMAIN Services : introspection[i] = "folded" })
  /\ phase \in {"introspect", "merge", "started", "failed", "panic"}
  /\ (phase = "started") = (gateway # NoSchema)

\* What can be read of the services has been read of them, once; and what is
\* merged are all schemas, each with its own url, whichever came first.
ReadInv ==
  /\ \A j, k \in DOMAIN acc : acc[j].index = acc[k].index => j = k
  /\ \A k \in DOMAIN acc : LET i == acc[k].index IN
       /\ i \in DOMAIN Services /\ introspection[i] = "folded" /\ Readable(i)
       /\ acc[k] = [index |-> i, schema |-> ParseSchema(Answer(i))]
  /\ \A i \in DOMAIN Services :
       /\ introspection[i] = "read" => Readable(i)
       /\ introspection[i] = "failed" => Failing(i)
       /\ introspection[i] = "folded" =>
            (\E k \in DOMAIN acc : acc[k].index = i) \/ (Failing(i) /\ errs > 0)
  /\ phase = "panic" => \E i \in DOMAIN Services : Services[i].answers /\ ParsePanics(Answer(i))

IInv ==
  /\ StartupTypeOK
  /\ ReadInv
  /\ phase \in {"merge", "started"} => \A i \in DOMAIN Services : Readable(i)
  /\ phase = "merge" => acc = InUrlOrder
  /\ phase = "started" => gateway = Merged(Paired(InUrlOrder))
  /\ phase = "failed" => \/ \E i \in DOMAIN Services : Failing(i)
                         \/ /\ \A i \in DOMAIN Services : Readable(i)
                            /\ Merged(Paired(InUrlOrder)) = NoSchema

\* The schema as a client reads it from the gateway's introspection: it asks an
\* object for its fields, and an input object for its input fields.
ClientType(full) ==
  ParseType([full EXCEPT
    !.fields = IF full.kind \in {"OBJECT", "INTERFACE"} THEN @ ELSE <<>>,
    !.inputFields = IF full.kind = "INPUT_OBJECT" THEN @ ELSE <<>>])

ClientTypes == MapValues(ClientType, ResolveSchema(gateway.schema).types)

Declaring(n) == { i \in DOMAIN Services : n \in DOMAIN Services[i].types }
DefOf(i, n) == Services[i].types[n]
FieldsOf(i, n) == DOMAIN DefOf(i, n).fields
Has(i, n, f) == n \in DOMAIN Services[i].types /\ f \in FieldsOf(i, n)

\* What a later service takes from those before it: the node fields of a root
\* type, and ids.
Taken(n, def) == IF n \in RootObjectName THEN NodeFields(def) ELSE IDFields(def)
FromLast(i, n) == Taken(n, DefOf(i, n))

\* The services have different fields of a type that is neither a root type nor
\* a node, as the code lets them if they have none in common.
Split(n) ==
  /\ n \notin RootObjectName
  /\ \E i, j \in Declaring(n) :
       /\ ~ImplementsNode(DefOf(i, n))
       /\ FieldsOf(i, n) \ FromLast(i, n) # FieldsOf(j, n) \ FromLast(j, n)

\* In whatever order the introspections finish: a field of a root type or a node
\* is asked of a service that declares it as the client sees it.  Other types
\* are asked wherever the query is, so that each service that has the type has
\* all of its fields, unless the type is split.  Node itself is taken from the
\* first service.
AskedWhereDeclared ==
  phase = "started" =>
    \A n \in DOMAIN ClientTypes \ {NodeInterfaceName} : LET def == ClientTypes[n] IN
      \A f \in DOMAIN def.fields \ (NodeFields(def) \cup {IDFieldName}) :
        def.kind = "OBJECT" =>
          IF n \in RootObjectName \/ gateway.typeURLMap[n].isImplementsNode
          THEN \E i \in Declaring(n) :
                 /\ Services[i].url = gateway.typeURLMap[n].fields[f]
                 /\ Has(i, n, f) /\ DefOf(i, n).fields[f] = def.fields[f]
          ELSE \/ \A i \in Declaring(n) : Has(i, n, f)
               \/ Split(n)

\* A field is gone only if a later service that has the type, but not the field,
\* takes it; and the mediator's Query.node, from clients.
LastWith(n, f) == Max({ i \in Declaring(n) : f \in FieldsOf(i, n) })

VisibleFields(n) ==
  { f \in UNION { FieldsOf(i, n) : i \in Declaring(n) } :
      LastWith(n, f) = Max(Declaring(n)) \/ f \notin FromLast(LastWith(n, f), n) }
  \ (IF world.sanitize /\ n = "Query" THEN {NodeFieldName} ELSE {})

\* From the services' introspection through the merge to the gateway's own, no
\* type, field, argument, interface, member, value or directive is lost, none is
\* made up, and none changes its type: each field is as the last service that
\* has it declares it.  Node is as the first service has it.
NothingLost ==
  phase = "started" =>
    /\ DOMAIN ClientTypes = UNION { DOMAIN Services[i].types : i \in DOMAIN Services }
    /\ DOMAIN ResolveSchema(gateway.schema).directives
         = UNION { DOMAIN Services[i].directives : i \in DOMAIN Services }
    /\ \A n \in DOMAIN ClientTypes : LET def == ClientTypes[n] IN
         IF n = NodeInterfaceName THEN def = DefOf(Min(Declaring(n)), n)
         ELSE /\ DOMAIN def.fields = VisibleFields(n)
              /\ \A f \in DOMAIN def.fields : def.fields[f] = DefOf(LastWith(n, f), n).fields[f]
              /\ \A i \in Declaring(n) : def.kind = DefOf(i, n).kind
              /\ def.interfaces = UNION { DefOf(i, n).interfaces : i \in Declaring(n) }
              /\ def.types = UNION { DefOf(i, n).types : i \in Declaring(n) }
              /\ def.values = UNION { DefOf(i, n).values : i \in Declaring(n) }

\* Two services declare a type in ways that do not go together.
Clash(i, j, n) ==
  LET shared == FieldsOf(i, n) \cap FieldsOf(j, n)
      own == shared \ (FromLast(i, n) \cup FromLast(j, n))
  IN /\ n # NodeInterfaceName
     /\ \/ DefOf(i, n).kind # DefOf(j, n).kind
        \/ DefOf(i, n).kind = "UNION" /\ DefOf(i, n).types # DefOf(j, n).types
        \/ ImplementsNode(DefOf(i, n)) # ImplementsNode(DefOf(j, n))
        \/ n \in RootObjectName /\ own # {}
        \/ n \notin RootObjectName /\ own # {} /\ (ImplementsNode(DefOf(i, n)) \/ Split(n))

\* A field is a node field, or an id, for one of two services only.
Mixed(i, j, n) ==
  (FieldsOf(i, n) \cap FieldsOf(j, n) \cap FromLast(i, n)) \ FromLast(j, n) # {}

\* An interface, or a type that comes with one, may have fields in one service
\* that it does not have in another.
Uneven(n) ==
  \E i, j \in Declaring(n) :
    \/ n = NodeInterfaceName /\ DefOf(i, n) # DefOf(j, n)
    \/ DefOf(i, n).kind = "INTERFACE" /\ FieldsOf(i, n) # FieldsOf(j, n)
    \/ /\ DefOf(i, n).interfaces # {}
       /\ n \in RootObjectName \/ IDFieldName \in FieldsOf(i, n) \ FieldsOf(j, n)

\* A reference that introspection cuts off.
CutOff(i) ==
  \E n \in DOMAIN Services[i].types : \E f \in FieldsOf(i, n) :
    LET field == DefOf(i, n).fields[f] IN
    \E type \in {field.type} \cup Range(field.args) : Len(ResolveTypeRef(type)) > TypeRefDepth + 1

\* The gateway starts only if all services can be read and no two clash, except
\* on a split type: with { x }, { y } and { x, y } the order of the urls decides.
\* It refuses to start only for a reason: a service that cannot be read, a clash,
\* or fields of an interface that some type with it may then lack.  It panics
\* only because of a type with more lists and non-nulls than it asks for.
ConflictsRefused ==
  LET names == UNION { DOMAIN Services[i].types : i \in DOMAIN Services }
      clashes == { n \in names : \E i, j \in Declaring(n) : i # j /\ Clash(i, j, n) }
      mixed == { n \in names : \E i, j \in Declaring(n) : Mixed(i, j, n) }
      unread == { i \in DOMAIN Services : ~Services[i].answers \/ ~Loads(Services[i].types) }
      cut == { i \in DOMAIN Services : CutOff(i) }
  IN /\ phase = "started" => unread = {} /\ cut = {} /\ \A n \in clashes : Split(n)
     /\ phase = "failed" => unread # {} \/ clashes # {} \/ mixed # {} \/ \E n \in names : Uneven(n)
     /\ phase = "panic" => cut # {}
=============================================================================
