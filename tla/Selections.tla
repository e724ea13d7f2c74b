----------------------------- MODULE Selections -----------------------------
(***************************************************************************)
(* The GraphQL side of a query: selection sets, the merged schema, and the *)
(* map from every field to the service that has it.                        *)
(*                                                                         *)
(* A selection set is a sequence of fields and inline fragments.  A field  *)
(* has a name, an alias (its name, unless the client gave one; "" if the   *)
(* planner added it) and a selection set, empty for a scalar.  A fragment  *)
(* has its type condition, the type it stands within and a selection set.  *)
(* Arguments are left out.                                                 *)
(*                                                                         *)
(* All spreads of a fragment share its definition.  definitions is a       *)
(* function to selection sets: from the names of fragments, and from keys  *)
(* of what stands in them and has a selection set itself.                  *)
(***************************************************************************)
EXTENDS Naturals, Sequences, FiniteSets, SequencesExt, TLC

CONSTANTS
  Url,              \* the services, a sequence: the order they were merged in
  Declares,         \* [service -> [object type -> fields]]: their schemas
  NodeType,         \* the object types that implement Node
  PossibleTypes,    \* [interface or union -> Seq(object type)]
  InterfaceType,    \* the interfaces among them
  Definition        \* [field -> [type, list, nonNull]]: its type, if composite

IDFieldName == "id"
TypenameFieldName == "__typename"
NodeFieldName == "node"
RootObjectName == {"Query", "Mutation", "Subscription"}
InternalServiceName == "%#!"
NoUrl == ""         \* the error "could not find location"

IsBuiltinName(name) == name \in {"__typename", "__schema", "__type"}

Field(name, sel) == [name |-> name, alias |-> name, sel |-> sel]
Added(name, sel) == [name |-> name, alias |-> "", sel |-> sel]
On(type, within, sel) == [on |-> type, within |-> within, sel |-> sel]
Spread(name, type, within) == [spread |-> name, on |-> type, within |-> within]
Shared(key, s) == s @@ [key |-> key]

IsField(s) == "name" \in DOMAIN s
IsSpread(s) == "spread" \in DOMAIN s
IsShared(s) == "key" \in DOMAIN s
DisplayName(f) == IF f.alias = "" THEN f.name ELSE f.alias

SeqMap(Op(_), s) == [k \in DOMAIN s |-> Op(s[k])]
-----------------------------------------------------------------------------
\* What s selects, and what it does when its selection set is replaced in place.
SelOf(s, definitions) == IF IsShared(s) THEN definitions[s.key] ELSE s.sel
Replace(s, sel, definitions) ==
  IF IsShared(s) THEN [definitions EXCEPT ![s.key] = sel] ELSE definitions

\* The selection set with nothing shared.
RECURSIVE Resolve(_, _)
Resolve(sel, definitions) ==
  SeqMap(LAMBDA s :
    IF IsSpread(s) THEN On(s.on, s.within, Resolve(definitions[s.spread], definitions))
    ELSE LET inner == Resolve(SelOf(s, definitions), definitions)
         IN IF IsField(s) THEN [name |-> s.name, alias |-> s.alias, sel |-> inner]
            ELSE On(s.on, s.within, inner), sel)
-----------------------------------------------------------------------------
\* common.SelectionSetToFields without a parent definition: the fields of a
\* selection set and of all fragments in it.
RECURSIVE SelectionSetToFields(_)
SelectionSetToFields(sel) ==
  FlattenSeq(SeqMap(LAMBDA s : IF IsField(s) THEN <<s>> ELSE SelectionSetToFields(s.sel), sel))

\* executor.FindSelection: the field a point names, looked for depth first.
RECURSIVE FindSelection(_, _)
FindSelection(point, sel) ==
  LET found(f) == IF DisplayName(f) = point THEN <<f>> ELSE FindSelection(point, f.sel)
      all == FlattenSeq(SeqMap(found, SelectionSetToFields(sel)))
  IN IF all = <<>> THEN <<>> ELSE <<Head(all)>>

\* isContainsField: the field by its name, in the fragments too.
ContainsField(sel, name) ==
  \E f \in ToSet(SelectionSetToFields(sel)) : f.name = name

\* selectionSetHasFieldNamed: not in the fragments.
HasFieldNamed(sel, name) == \E s \in ToSet(sel) : IsField(s) /\ s.name = name
-----------------------------------------------------------------------------
\* merger.TypeURLMap: filled from one schema after the other, without ids and
\* without Query.node, so the last service that declares a field has it.  A type
\* of which nothing is left has no entry, unless it implements Node.
SetFromSchema(tum, url) ==
  LET fields(type) == Declares[url][type] \ {IDFieldName, NodeFieldName}
      types == { t \in DOMAIN Declares[url] : t \in NodeType \/ fields(t) # {} }
  IN [type \in types |-> [field \in fields(type) |-> url]
                            @@ (IF type \in DOMAIN tum THEN tum[type] ELSE <<>>)] @@ tum

TypeURLMap == FoldLeft(SetFromSchema, <<>>, Url)

Location(type, field) ==
  IF type \in DOMAIN TypeURLMap /\ field \in DOMAIN TypeURLMap[type]
  THEN TypeURLMap[type][field] ELSE NoUrl

\* GetForType: the services with fields of a type, sorted.
LocationsOf(type) ==
  LET locations == { TypeURLMap[type][f] : f \in DOMAIN TypeURLMap[type] }
  IN SelectSeq(Url, LAMBDA u : u \in locations)

\* Mutant: every field is asked where the query already is.
StayAtFallback(type, field, fallback) ==
  IF IsBuiltinName(field) THEN fallback
  ELSE IF type \notin DOMAIN TypeURLMap THEN NoUrl
  ELSE IF fallback # InternalServiceName /\ type \notin RootObjectName THEN fallback
  ELSE Location(type, field)

\* PlanningContext.GetURL: fields of types that several services declare are
\* asked where the query already is.
GetURL(type, field, fallback) ==
  IF IsBuiltinName(field) THEN fallback
  ELSE IF type \notin DOMAIN TypeURLMap THEN NoUrl
  ELSE IF /\ type \notin NodeType
          /\ fallback # InternalServiceName
          /\ type \notin RootObjectName
  THEN fallback
  ELSE Location(type, field)
=============================================================================
