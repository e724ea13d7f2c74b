--------------------------- MODULE Introspection ---------------------------
(***************************************************************************)
(* Schemas, and how the gateway turns them into introspection answers and  *)
(* back: IntrospectionResolver (introspection.go) answers clients, and     *)
(* introspectRemoteSchema (remote.go) reads the answers of services.       *)
(*                                                                         *)
(* A type is its lists, outermost first and each TRUE if it is not null,   *)
(* and the named type within, nonNull or not.  A definition has its kind,  *)
(* its interfaces, the members of a union, the values of an enum, and its  *)
(* fields, a function from names to types and arguments (a function from   *)
(* names to types).  Descriptions, deprecation, default values and the     *)
(* types GraphQL itself has are left out.                                  *)
(***************************************************************************)
EXTENDS Naturals, Sequences, FiniteSets

IDFieldName == "id"
NodeInterfaceName == "Node"
NodeFieldName == "node"
RootObjectName == {"Query", "Mutation", "Subscription"}
BuiltinType == {"ID", "Int", "Float", "String", "Boolean"}

MapValues(Op(_), f) == [x \in DOMAIN f |-> Op(f[x])]

\* What a map has after all of f has been set in g.
Over(f, g) == [x \in DOMAIN f \cup DOMAIN g |-> IF x \in DOMAIN f THEN f[x] ELSE g[x]]
-----------------------------------------------------------------------------
\* Type references.  On the wire a type is the chain of kinds that "ofType"
\* unfolds, with the name at its end.

\* IntrospectionResolver.resolveType, down to the named type.
ResolveTypeRef(type) ==
  LET chain[l \in 0 .. Len(type.lists)] ==
        IF l = 0 THEN <<>>
        ELSE chain[l - 1] \o (IF type.lists[l] THEN <<"NON_NULL", "LIST">> ELSE <<"LIST">>)
  IN chain[Len(type.lists)] \o (IF type.nonNull THEN <<"NON_NULL", type.name>> ELSE <<type.name>>)

\* How many "ofType" the gateway's own query asks for: the rest of a longer
\* chain is not in the answer.
TypeRefDepth == 7
Asked(ref) == IF Len(ref) > TypeRefDepth THEN SubSeq(ref, 1, TypeRefDepth + 1) ELSE ref

\* parseTypeRef: a NON_NULL belongs to the LIST or the name behind it.
ParsePart(type, part) ==
  CASE part = "NON_NULL" -> [type EXCEPT !.nonNull = TRUE]
    [] part = "LIST" -> [type EXCEPT !.lists = Append(@, type.nonNull), !.nonNull = FALSE]
    [] part \notin {"NON_NULL", "LIST"} -> [type EXCEPT !.name = part]

ParseTypeRef(ref) ==
  LET parsed[i \in 0 .. Len(ref)] ==
        IF i = 0 THEN [lists |-> <<>>, nonNull |-> FALSE, name |-> ""]
        ELSE ParsePart(parsed[i - 1], ref[i])
  IN parsed[Len(ref)]
-----------------------------------------------------------------------------
\* The answer to a client's introspection of one type (IntrospectionResolver).

\* resolveField, resolveInputValue
ResolveField(field) ==
  [type |-> ResolveTypeRef(field.type), args |-> MapValues(ResolveTypeRef, field.args)]

\* resolveType: fields and input fields are both all the fields there are, and
\* only a union has possible types.
ResolveType(def) ==
  [kind          |-> def.kind,
   fields        |-> MapValues(ResolveField, def.fields),
   inputFields   |-> MapValues(ResolveField, def.fields),
   interfaces    |-> def.interfaces,
   possibleTypes |-> def.types,
   enumValues    |-> def.values]

\* resolveSchema, resolveDirective
ResolveSchema(schema) ==
  [query      |-> "Query" \in DOMAIN schema.types,
   types      |-> MapValues(ResolveType, schema.types),
   directives |-> MapValues(LAMBDA args : MapValues(ResolveTypeRef, args), schema.directives)]
-----------------------------------------------------------------------------
\* The answer of a service, which does as GraphQL says: fields are those of
\* objects and interfaces, input fields those of input objects, and an interface
\* has its objects as possible types.  References are cut where the query ends.
ServiceType(schema, def, name) ==
  LET field(f) == [type |-> Asked(ResolveTypeRef(f.type)),
                   args |-> MapValues(LAMBDA t : Asked(ResolveTypeRef(t)), f.args)]
      fields == MapValues(field, def.fields)
  IN [kind          |-> def.kind,
      fields        |-> IF def.kind \in {"OBJECT", "INTERFACE"} THEN fields ELSE <<>>,
      inputFields   |-> IF def.kind = "INPUT_OBJECT" THEN fields ELSE <<>>,
      interfaces    |-> def.interfaces,
      possibleTypes |-> IF def.kind # "INTERFACE" THEN def.types
                        ELSE { n \in DOMAIN schema.types : name \in schema.types[n].interfaces },
      enumValues    |-> def.values]

ServiceSchema(schema) ==
  [query      |-> "Query" \in DOMAIN schema.types,
   types      |-> [n \in DOMAIN schema.types |-> ServiceType(schema, schema.types[n], n)],
   directives |-> MapValues(LAMBDA args : MapValues(ResolveTypeRef, args), schema.directives)]
-----------------------------------------------------------------------------
\* introspectRemoteSchema.

ParseField(f) == [type |-> ParseTypeRef(f.type), args |-> MapValues(ParseTypeRef, f.args)]

\* parseType, and possibleTypes for the members of a union.
ParseType(full) ==
  [kind       |-> full.kind,
   interfaces |-> full.interfaces,
   types      |-> IF full.kind = "UNION" THEN full.possibleTypes ELSE {},
   values     |-> IF full.kind = "ENUM" THEN full.enumValues ELSE {},
   fields     |-> MapValues(ParseField, Over(full.fields, full.inputFields))]

References(full) ==
  UNION { {f.type} \cup { f.args[a] : a \in DOMAIN f.args }
          : f \in { full.fields[n] : n \in DOMAIN full.fields }
                    \cup { full.inputFields[n] : n \in DOMAIN full.inputFields } }

\* parseTypeRef follows an "ofType" that was not asked for: nil dereference.
ParsePanics(answer) ==
  \E n \in DOMAIN answer.types :
    \E ref \in References(answer.types[n]) : ParseTypeRef(ref).name = ""

\* gqlparser.LoadSchema: types that are referred to exist, objects have fields,
\* and they have those of their interfaces, which are interfaces.  That a field
\* has the type the interface gives it is left out.
Loads(types) ==
  /\ "Query" \in DOMAIN types
  /\ \A n \in DOMAIN types : LET def == types[n] IN
       /\ def.interfaces \cup def.types \subseteq DOMAIN types
       /\ def.kind \in {"OBJECT", "INTERFACE", "INPUT_OBJECT"} => def.fields # <<>>
       /\ \A f \in DOMAIN def.fields :
            /\ def.fields[f].type.name \in DOMAIN types \cup BuiltinType
            /\ \A a \in DOMAIN def.fields[f].args :
                 def.fields[f].args[a].name \in DOMAIN types \cup BuiltinType
       /\ \A i \in def.interfaces :
            types[i].kind = "INTERFACE" /\ DOMAIN types[i].fields \subseteq DOMAIN def.fields

\* Built-in directives are skipped, and the arguments of the others lost: the
\* query asks for "args", and "arg" is read.
ParseSchema(answer) ==
  [types      |-> MapValues(ParseType, answer.types),
   directives |-> [d \in DOMAIN answer.directives |-> <<>>]]

\* "could not find the root query", the names of possible types and interfaces,
\* and LoadSchema.
ParseFails(answer) == ~answer.query \/ ~Loads(ParseSchema(answer).types)
=============================================================================
