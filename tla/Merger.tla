------------------------------- MODULE Merger -------------------------------
(***************************************************************************)
(* Merging the schemas of the services into one, and the map from every    *)
(* field to the service that has it (merger/).  Services are merged one by *)
(* one in the order of their urls; a merge that fails is NoSchema.         *)
(*                                                                         *)
(* An input is [url, types, directives], see Introspection.                *)
(***************************************************************************)
EXTENDS Introspection, Functions

NoSchema == [error |-> TRUE]

ImplementsNode(def) == NodeInterfaceName \in def.interfaces

\* isIDType, isIDField, isNodeField: by the name within all lists and by what
\* is outermost.
NonNull(type) == IF type.lists = <<>> THEN type.nonNull ELSE Head(type.lists)
IsIDType(type) == type.name = "ID" /\ NonNull(type)
IsIDField(name, field) == name = IDFieldName /\ field.args = <<>> /\ IsIDType(field.type)
IsNodeField(name, field) ==
  /\ name # NodeInterfaceName
  /\ DOMAIN field.args = {IDFieldName} /\ IsIDType(field.args[IDFieldName])
  /\ field.type.name = NodeInterfaceName /\ ~NonNull(field.type)

NodeFields(def) == { f \in DOMAIN def.fields : IsNodeField(f, def.fields[f]) }
IDFields(def) == { f \in DOMAIN def.fields : IsIDField(f, def.fields[f]) }
-----------------------------------------------------------------------------
\* mergeTypes, for a type that both have: def of the schema merged in, and old
\* of what is merged so far.

\* mergeRootObjects: the node fields of old are dropped, those of def stay.
RootFields(def, old) == DOMAIN old.fields \ NodeFields(old)
RootConflict(def, old) == RootFields(def, old) \cap DOMAIN def.fields # {}
MergeRootObjects(def, old) ==
  [kind       |-> "OBJECT",
   interfaces |-> def.interfaces \cup old.interfaces,
   types      |-> {},
   values     |-> {},
   fields     |-> Over(def.fields, Restrict(old.fields, RootFields(def, old)))]

\* Mutant: fields that both have are no conflict, those of def stand.
FieldsNeverConflict(def, old) == FALSE

\* mergeCustomObjectFields: of the fields of old but its id, none may be one of
\* a node type's; of other types all or none.
FieldsConflict(def, old) ==
  LET mergeable == DOMAIN old.fields \ IDFields(old)
      overlapping == mergeable \cap DOMAIN def.fields
  IN overlapping # {} /\ (ImplementsNode(def) \/ overlapping # mergeable)

\* Mutant: the values of an enum are those of the last service.
MergeKeepsValues(def, old) ==
  [kind       |-> def.kind,
   interfaces |-> def.interfaces \cup old.interfaces,
   types      |-> def.types \cup old.types,
   values     |-> def.values,
   fields     |-> Over(def.fields, Restrict(old.fields, DOMAIN old.fields \ IDFields(old)))]

\* mergeCustomObjects, which tries both orders before it takes the first.
CustomConflict(def, old) == FieldsConflict(def, old) \/ FieldsConflict(old, def)
MergeCustomObjects(def, old) ==
  [kind       |-> def.kind,
   interfaces |-> def.interfaces \cup old.interfaces,
   types      |-> def.types \cup old.types,
   values     |-> def.values \cup old.values,
   fields     |-> Over(def.fields, Restrict(old.fields, DOMAIN old.fields \ IDFields(old)))]

\* The possible types of an interface are compared with themselves, so that no
\* two interfaces are in conflict by them.
Conflict(name, def, old) ==
  /\ name # NodeInterfaceName
  /\ \/ def.kind # old.kind
     \/ def.kind = "UNION" /\ def.types # old.types
     \/ /\ def.kind \notin {"SCALAR", "UNION"}
        /\ \/ ImplementsNode(def) # ImplementsNode(old)
           \/ name \in RootObjectName /\ RootConflict(def, old)
           \/ name \notin RootObjectName /\ CustomConflict(def, old)

MergeType(name, def, old) ==
  CASE name = NodeInterfaceName \/ def.kind = "UNION" -> old
    [] name # NodeInterfaceName /\ def.kind = "SCALAR" -> def
    [] name \in RootObjectName -> MergeRootObjects(def, old)
    [] OTHER -> MergeCustomObjects(def, old)

\* mergeTypes and mergeDirectives
MergeSchema(merged, input) ==
  LET both == IF merged = NoSchema THEN {} ELSE DOMAIN merged.types \cap DOMAIN input.types
  IN IF merged = NoSchema \/ \E n \in both : Conflict(n, input.types[n], merged.types[n])
     THEN NoSchema
     ELSE [types |-> Over([n \in both |-> MergeType(n, input.types[n], merged.types[n])],
                          Over(merged.types, input.types)),
           directives |-> Over(input.directives, merged.directives)]
-----------------------------------------------------------------------------
\* TypeURLMap: for each object type whether it implements Node, and the service
\* of each field but id and node fields; later services replace earlier ones.

NoProps == [isImplementsNode |-> FALSE, fields |-> <<>>]

LocatedFields(def) == DOMAIN def.fields \ (NodeFields(def) \cup {IDFieldName})

\* An object with nothing but an id, and not as a node, is left out.
IsLocated(def) == def.kind = "OBJECT" /\ (ImplementsNode(def) \/ LocatedFields(def) # {})

SetFromSchema(map, input) ==
  LET props(n) == IF n \in DOMAIN map THEN map[n] ELSE NoProps
  IN Over([n \in { m \in DOMAIN input.types : IsLocated(input.types[m]) } |->
             [isImplementsNode |-> props(n).isImplementsNode \/ ImplementsNode(input.types[n]),
              fields |-> Over([f \in LocatedFields(input.types[n]) |-> input.url], props(n).fields)]],
          map)
-----------------------------------------------------------------------------
\* ExtendMergerFunc.Merge, where the merged schema is loaded once more.
ExtendMerge(inputs) ==
  LET merged[k \in DOMAIN inputs] ==
        IF k = 1 THEN [types |-> inputs[1].types, directives |-> inputs[1].directives]
        ELSE MergeSchema(merged[k - 1], inputs[k])
      located[k \in 0 .. Len(inputs)] ==
        IF k = 0 THEN <<>> ELSE SetFromSchema(located[k - 1], inputs[k])
      all == merged[Len(inputs)]
  IN IF all = NoSchema \/ ~Loads(all.types) THEN NoSchema
     ELSE [schema |-> all, typeURLMap |-> located[Len(inputs)]]

\* SanitizeNodeMergerFunc.Merge: clients do not see Query.node.
SanitizeNodeMerge(inputs) ==
  LET result == ExtendMerge(inputs)
      fields == result.schema.types["Query"].fields
  IN IF result = NoSchema THEN NoSchema
     ELSE [result EXCEPT !.schema.types["Query"].fields =
             Restrict(fields, DOMAIN fields \ {NodeFieldName})]
=============================================================================
