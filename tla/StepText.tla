------------------------------ MODULE StepText ------------------------------
(***************************************************************************)
(* The variables in the text of a step.  Three recursions of the code go   *)
(* through it: the formatter prints it (format/format.go), the planner     *)
(* lists the variables it is to be sent with (planner/plan.go), and the    *)
(* formatter declares those that it uses.  They do not look at the same    *)
(* parts.                                                                  *)
(***************************************************************************)
EXTENDS Integers, FiniteSets, Sequences, SequencesExt, FiniteSetsExt

\* A text is a tree, the nodes of which are at paths of positions.  A "selection"
\* (a selection set, a field or a fragment) has first the values of its arguments,
\* then its directives, then its selections; a "directive" the values of its
\* arguments.  A "custom" value is a list or an object within a custom scalar, of
\* which the schema does not know the parts.
Value == {"variable", "literal", "list", "object", "custom"}
Kind == {"selection", "directive"} \cup Value

\* What may be in what.
Holds(kind) ==
  CASE kind = "selection" -> Kind
    [] kind \in {"directive", "list", "object"} -> Value
    [] kind = "custom" -> {"variable", "literal", "custom"}
    [] kind \in {"variable", "literal"} -> {}

Kids(text, p) == { q \in DOMAIN text : q # <<>> /\ Front(q) = p }
KidsOf(text, p, kinds) == { q \in Kids(text, p) : text[q].kind \in kinds }
Positions(text, p) == 1 .. Cardinality(Kids(text, p))

\* A variable and a literal have a name, and the schema may expect no null there.
IsText(text) ==
  /\ <<>> \in DOMAIN text /\ text[<<>>].kind = "selection"
  /\ \A q \in DOMAIN text \ {<<>>} :
       /\ Front(q) \in DOMAIN text
       /\ Last(q) \in Positions(text, Front(q))
       /\ text[q].kind \in Holds(text[Front(q)].kind)

\* The tree with a node of this data above these.
Node(data, kids) ==
  [q \in {<<>>} \cup UNION { { <<n>> \o p : p \in DOMAIN kids[n] } : n \in DOMAIN kids } |->
     IF q = <<>> THEN data ELSE kids[Head(q)][Tail(q)]]

Plain(kind) == [kind |-> kind, name |-> "", nonNull |-> FALSE]
Variable(name, nonNull) == Node([kind |-> "variable", name |-> name, nonNull |-> nonNull], <<>>)

\* convertSelectionSetToNodeQuery: node(id: $id) { ... on T { the selections } }
NodeQuery(text) ==
  Node(Plain("selection"), << Node(Plain("selection"), << Variable("id", TRUE), text >>) >>)
-----------------------------------------------------------------------------
\* Mutant: lists and objects are looked into once.
NamesOneLevelDown(text) ==
  [p \in DOMAIN text |->
     IF Kids(text, p) = {} THEN {text[p].name} ELSE { text[q].name : q \in Kids(text, p) }]

\* getArgumentListChildrenVariablesList: the raw value of each leaf, be it a
\* variable or not.
ArgumentNames(text) ==
  LET names[p \in DOMAIN text] ==
        IF Kids(text, p) = {} THEN {text[p].name} ELSE UNION { names[q] : q \in Kids(text, p) }
  IN names

\* getVariablesList: those of the arguments of all fields.
GetVariablesList(text) ==
  LET list[p \in DOMAIN text] ==
        UNION ({ ArgumentNames(text)[q] : q \in KidsOf(text, p, Value) }
               \cup { list[q] : q \in KidsOf(text, p, {"selection"}) })
  IN list[<<>>]

\* What comes later takes the place of what came before (res[k] = v).
LastWins(types) ==
  LET with(v) == { n \in DOMAIN types : v \in DOMAIN types[n] }
  IN [v \in UNION { DOMAIN types[n] : n \in DOMAIN types } |-> types[Max(with(v))][v]]

\* walkArgumentList and walkChildrenArgumentList: whether the type that a variable
\* is declared with allows null.  The parts of a custom scalar have no definition.
WalkArgumentList(text) ==
  LET walk[p \in DOMAIN text] ==
        CASE text[p].kind = "variable" -> [v \in {text[p].name} |-> text[p].nonNull]
          [] text[p].kind \in {"selection", "list", "object"} ->
               LastWins([n \in Positions(text, p) |-> walk[Append(p, n)]])
          [] OTHER -> << >>
  IN walk[<<>>]
-----------------------------------------------------------------------------
\* The variables that formatSelectionSet prints are all of them.
Uses(text) == { p \in DOMAIN text : text[p].kind = "variable" }
UsesOf(text, v) == { p \in Uses(text) : text[p].name = v }

\* All that is spelled so, variable or not.
Spelled(text, v) == { p \in DOMAIN text : text[p].kind \in {"variable", "literal"} /\ text[p].name = v }

Within(text, p, kinds) == \E n \in 0 .. Len(p) - 1 : text[SubSeq(p, 1, n)].kind \in kinds
=============================================================================
