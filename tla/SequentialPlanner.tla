------------------------- MODULE SequentialPlanner -------------------------
(***************************************************************************)
(* planner.SequentialPlanner: how an operation is made into a tree of      *)
(* steps, each a query for one service.                                    *)
(*                                                                         *)
(* sanitizeSelectionSet first adds the ids and typenames that stitching    *)
(* needs, and records in ScrubFields what it added, to be taken out of the *)
(* result again.  Then the selection set is cut along the services: what   *)
(* another service has of an object becomes a step of its own, a query for *)
(* that object's node, to be run where the path of the step leads to.      *)
(***************************************************************************)
EXTENDS Selections

TypeName(f) == Definition[f.name].type

ObjectTypesOf(type) ==
  IF type \in DOMAIN PossibleTypes THEN ToSet(PossibleTypes[type]) ELSE {type}

-----------------------------------------------------------------------------
\* sanitizeSelectionSet.  ScrubFields is a set of [path, type, field].

\* addSelectionSetToSanitizedResult: a field is dropped when one whose name is
\* its alias is there already.
AddSelections(sel, more) ==
  sel \o SelectSeq(more, LAMBDA s : ~(IsField(s) /\ HasFieldNamed(sel, s.alias)))

\* Does the planner ask for the id of objects of this type?
HasID(type) ==
  IF type \in DOMAIN PossibleTypes
  THEN type \in InterfaceType /\ PossibleTypes[type][1] \in NodeType
  ELSE type \in NodeType

\* addScrubFieldsToSelectionSet
AddScrubFields(sel, type, definitions) ==
  LET missing(n) == ~ContainsField(Resolve(sel, definitions), n)
      typename == IF type \in DOMAIN PossibleTypes /\ missing(TypenameFieldName)
                  THEN <<TypenameFieldName>> ELSE <<>>
      id == IF HasID(type) /\ missing(IDFieldName) THEN <<IDFieldName>> ELSE <<>>
  IN [sel    |-> SeqMap(LAMBDA n : Added(n, <<>>), id \o typename) \o sel,
      fields |-> ToSet(id \o typename)]

\* What becomes of a fragment s whose sanitized selection set is sel: the
\* selections for the result, and what is left in the fragment itself.

\* sanitizeInterfaceInlineFragment: a fragment on the interface itself is kept
\* as fields, and repeated for every type that implements it.
SanitizeInterfaceFragment(s, sel, definitions) ==
  LET types == PossibleTypes[s.within]
  IN IF s.on \in ToSet(types)
     THEN [sel |-> <<[s EXCEPT !.sel = sel]>>, left |-> sel]
     ELSE [sel  |-> FoldLeft(LAMBDA acc, t : Append(acc, On(t, t, acc)), sel, types),
           left |-> SelOf(s, definitions)]

\* sanitizeUnionInlineFragment: fragments that repeat this one are unfolded,
\* and so is a fragment on the union itself.
SanitizeUnionFragment(s, sel, definitions) ==
  LET same(x) == ~IsField(x) /\ x.on = s.on /\ x.within = s.within
      inner == FoldLeft(LAMBDA acc, x : AddSelections(acc, IF same(x) THEN SelOf(x, definitions)
                                                           ELSE <<x>>),
                        <<>>, sel)
  IN [sel |-> IF s.on = s.within THEN inner ELSE <<[s EXCEPT !.sel = inner]>>, left |-> inner]

SanitizeFragment(s, sel, definitions) ==
  CASE s.within \in InterfaceType -> SanitizeInterfaceFragment(s, sel, definitions)
    [] s.within \in DOMAIN PossibleTypes \ InterfaceType ->
         SanitizeUnionFragment(s, sel, definitions)
    [] OTHER -> [sel |-> sel, left |-> SelOf(s, definitions)]

\* Mutant: what is added to an interface is recorded under the interface.
ScrubInterface(path, type, fields) ==
  { [path |-> path, type |-> type, field |-> f] : f \in fields }

\* setMissingScrubFieldsForFieldSelectionSet
ScrubOf(path, type, fields) ==
  { [path |-> path, type |-> t, field |-> f] : t \in ObjectTypesOf(type), f \in fields }

\* acc has the selections sanitized so far, what was added to them, and the
\* definitions; s is the next, and child its selection set sanitized.

WithField(acc, s, at, child) ==
  LET added == AddScrubFields(child.sel, TypeName(s), child.definitions)
  IN [sel   |-> AddSelections(acc.sel, <<[s EXCEPT !.sel = added.sel]>>),
      scrub |-> acc.scrub \cup child.scrub \cup ScrubOf(at, TypeName(s), added.fields),
      definitions |-> Replace(s, added.sel, child.definitions)]

WithFragment(acc, s, path, child) ==
  LET added == AddScrubFields(child.sel, s.on, child.definitions)
      kept  == SanitizeFragment(s, added.sel, child.definitions)
  IN [sel   |-> AddSelections(acc.sel, kept.sel),
      scrub |-> acc.scrub \cup child.scrub
                  \cup { [path |-> path, type |-> s.on, field |-> f] : f \in added.fields },
      definitions |-> Replace(s, kept.left, child.definitions)]

WithSpread(acc, fragment) ==
  [sel   |-> AddSelections(acc.sel, fragment.sel),
   scrub |-> acc.scrub \cup fragment.scrub,
   definitions |-> fragment.definitions]

\* A definition is sanitized in place wherever its fragment is spread: what the
\* first time adds is taken for the client's the next time.
RECURSIVE Sanitize(_, _, _)
Sanitize(sel, path, definitions) ==
  LET one(acc, s) ==
        LET at    == IF IsField(s) THEN Append(path, s.alias) ELSE path
            inner == IF IsSpread(s) THEN <<On(s.on, s.within, acc.definitions[s.spread])>>
                     ELSE SelOf(s, acc.definitions)
            child == Sanitize(inner, at, acc.definitions)
        IN CASE IsSpread(s) -> WithSpread(acc, child)
             [] IsField(s) /\ inner # <<>> -> WithField(acc, s, at, child)
             [] IsField(s) /\ inner = <<>> -> [acc EXCEPT !.sel = AddSelections(@, <<s>>)]
             [] OTHER -> WithFragment(acc, s, at, child)
  IN FoldLeft(one, [sel |-> <<>>, scrub |-> {}, definitions |-> definitions], sel)
-----------------------------------------------------------------------------
\* Node queries: node(id: $id) { ... on type { sel } }

\* convertSelectionSetToNodeQuery
NodeQuery(type, sel) == <<Added(NodeFieldName, <<On(type, "Node", sel)>>)>>

IsNodeQuery(sel) ==
  /\ sel # <<>>
  /\ IsField(Head(sel))
  /\ Head(sel).name = NodeFieldName
  /\ Head(sel).sel # <<>>
  /\ ~IsField(Head(Head(sel).sel))

\* addFieldToNodeQuery
AddToNodeQuery(type, query, field) ==
  IF IsNodeQuery(query)
  THEN NodeQuery(type, Append(Head(Head(query).sel).sel, field))
  ELSE Append(query, field)
-----------------------------------------------------------------------------
\* selectionSetToFieldsRepresentation: the fields, and those in fragments on
\* this very type, that the type has, one for each key of the response.
FieldsRepresentation(sel, type) ==
  LET has(f)  == f.name = IDFieldName \/ Location(type, f.name) # NoUrl
      RECURSIVE fields(_)
      fields(ss) == FlattenSeq(SeqMap(LAMBDA s :
                      IF IsField(s) THEN IF has(s) THEN <<s>> ELSE <<>>
                      ELSE IF s.on = type THEN fields(s.sel) ELSE <<>>, ss))
      keep(acc, f) == IF \E g \in ToSet(acc) : DisplayName(g) = DisplayName(f)
                      THEN acc ELSE Append(acc, f)
  IN FoldLeft(keep, <<>>, fields(sel))

\* formatSelectionSetForInterface: when the fields of an interface are not all
\* at this service, they are asked for each type that implements it.
FormatForInterface(type, sel, location) ==
  LET types == PossibleTypes[type]
      urls  == { Location(t, f.name) : t \in ToSet(types),
                                       f \in ToSet(SelectionSetToFields(sel)) } \ {NoUrl}
      perType(t) == On(t, t, FieldsRepresentation(sel, t))
  IN IF urls = {location} THEN sel
     ELSE <<Added(TypenameFieldName, <<>>)>> \o SeqMap(perType, types)
-----------------------------------------------------------------------------
\* extractSelectionSet and createQueryPlanSteps below the root: what to ask at
\* this location, and the steps for the rest.

\* A step of the plan, with what was extracted for it.
Step(url, parent, point, extracted) ==
  [url |-> url, parent |-> parent, sel |-> extracted.sel, point |-> point,
   then |-> extracted.steps]

\* Objects with ids are asked for by node, if not by their id already.
EmbedInNodeQuery(type, extracted) ==
  IF type \in NodeType /\ ~HasFieldNamed(extracted.sel, IDFieldName)
  THEN [extracted EXCEPT !.sel = NodeQuery(type, @)]
  ELSE extracted

RECURSIVE Extract(_, _, _, _)
Extract(point, type, input, location) ==
  LET descend(f, url) ==
        IF f.sel = <<>> THEN [sel |-> <<>>, steps |-> <<>>]
        ELSE Extract(Append(point, f.alias), TypeName(f), f.sel, url)

      here(acc, f) ==
        LET sub == descend(f, location)
        IN [sel   |-> Append(acc.sel, [f EXCEPT !.sel = sub.sel]),
            steps |-> acc.steps \o sub.steps]

      \* createQueryPlanSteps for this one field, which is at url.
      newStep(acc, f, url) ==
        [acc EXCEPT !.steps = Append(@, Step(url, type, point, Extract(point, type, <<f>>, url)))]

      merged(acc, f, k) ==
        LET sub == descend(f, acc.steps[k].url)
        IN [acc EXCEPT
              !.steps[k].sel  = AddToNodeQuery(type, @, [f EXCEPT !.sel = sub.sel]),
              !.steps[k].then = @ \o sub.steps]

      field(acc, f) ==
        LET url  == GetURL(type, f.name, location)
            same == SelectInSeq(acc.steps, LAMBDA st : st.url = url /\ st.point = point)
        IN CASE url = NoUrl    -> [acc EXCEPT !.sel = Append(@, f)]
             [] url = location -> here(acc, f)
             [] OTHER          -> IF same # 0 THEN merged(acc, f, same) ELSE newStep(acc, f, url)

      fragment(acc, s) ==
        LET sub == Extract(point, s.on, s.sel, location)
        IN [sel   |-> Append(acc.sel, [s EXCEPT !.sel = sub.sel]),
            steps |-> acc.steps \o sub.steps]

      sels == IF type \in InterfaceType THEN FormatForInterface(type, input, location) ELSE input
  IN EmbedInNodeQuery(type,
       FoldLeft(LAMBDA acc, s : IF IsField(s) THEN field(acc, s) ELSE fragment(acc, s),
                [sel |-> <<>>, steps |-> <<>>], sels))
-----------------------------------------------------------------------------
\* routeSelectionSet at the root.

IsID(f) == f.name = IDFieldName
IsNode(f) == f.name = NodeFieldName
FragmentsOf(f) == SelectSeq(f.sel, LAMBDA s : ~IsField(s))

\* groupSelectionSetForNodeField, for one fragment of a node field: what to
\* ask each service of the object, always with its id if the client wants it.
\* Nothing is asked if the client wants only the id of a type that has no more.
NodeParts(field, frag) ==
  LET fields == SelectionSetToFields(frag.sel)
      other == SelectSeq(fields, LAMBDA f : ~IsID(f))
      id    == SelectSeq(fields, IsID)
      at(f) == GetURL(frag.on, f.name, InternalServiceName)
      part(url) == <<[frag EXCEPT !.sel = SelectSeq(other, LAMBDA f : at(f) = url)]>>
                     \o (IF id = <<>> THEN <<>> ELSE <<Last(id)>>)
      known == LocationsOf(frag.on)
  IN IF other = <<>>
     THEN [url \in { u \in ToSet(known) : u = Head(known) } |-> [field EXCEPT !.sel = <<frag>>]]
     ELSE [url \in { at(f) : f \in ToSet(other) } |-> [field EXCEPT !.sel = part(url)]]

\* The plan is refused if a field of the root, a type that a fragment of a node
\* field is on, or a field in such a fragment has no location.
Refused(type, sel) ==
  LET lost(t, f) == GetURL(t, f.name, InternalServiceName) = NoUrl
      lostBelow(frag) ==
        \/ frag.on \notin DOMAIN TypeURLMap
        \/ \E f \in ToSet(SelectionSetToFields(frag.sel)) : ~IsID(f) /\ lost(frag.on, f)
  IN \E f \in ToSet(SelectionSetToFields(sel)) :
       IF IsNode(f) THEN \E frag \in ToSet(FragmentsOf(f)) : lostBelow(frag)
       ELSE lost(type, f)

RouteRoot(type, sel) ==
  LET fields == SelectionSetToFields(sel)
      others == SelectSeq(fields, LAMBDA f : ~IsNode(f))
      parts  == FlattenSeq(SeqMap(LAMBDA f :
                  SeqMap(LAMBDA frag : NodeParts(f, frag), FragmentsOf(f)),
                  SelectSeq(fields, IsNode)))
      at(url) == SelectSeq(others, LAMBDA f : GetURL(type, f.name, InternalServiceName) = url)
                   \o FlattenSeq(SeqMap(LAMBDA p : IF url \in DOMAIN p THEN <<p[url]>> ELSE <<>>,
                                        parts))
  IN [url \in ToSet(Url) \cup {InternalServiceName} |-> at(url)]

\* createQueryPlanSteps at the root.
RootSteps(type, routed) ==
  LET urls == SelectSeq(Append(Url, InternalServiceName), LAMBDA url : routed[url] # <<>>)
  IN SeqMap(LAMBDA url : Step(url, type, <<>>, Extract(<<>>, type, routed[url], url)), urls)

\* Plan: whether it is refused, the steps of the root, and the fields to scrub.
PlanFor(type, clean) ==
  LET sel == Resolve(clean.sel, clean.definitions)
      refused == Refused(type, sel)
  IN [refused |-> refused,
      steps   |-> IF refused THEN <<>> ELSE RootSteps(type, RouteRoot(type, sel)),
      scrub   |-> clean.scrub]

Plan(type, selectionSet, definitions) ==
  PlanFor(type, Sanitize(selectionSet, <<>>, definitions))
=============================================================================
