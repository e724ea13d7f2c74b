----------------------------- MODULE MCGateway -----------------------------
\* Posts over two services and two files.
EXTENDS Gateway, TLC

CONSTANTS f1, f2

\* Variables: what is at which path.
V(v) == <<v>>
None == << >>

\* Variables that may be null or not, and literals.
Var(name) == Variable(name, FALSE)
VarNN(name) == Variable(name, TRUE)
Lit(raw) == Node([kind |-> "literal", name |-> raw, nonNull |-> FALSE], << >>)

\* A field with these as its parts, its arguments, directives and fields, and the
\* inputs that ask for it alone.
Composed(kind, parts) == Node(Plain(kind), parts)
Field(parts) == Composed("selection", parts)
Directive(values) == Composed("directive", values)
AtRoot(parts) == [below |-> FALSE, text |-> Field(<<Field(parts)>>)]
Below(parts) == [below |-> TRUE, text |-> Field(<<Field(parts)>>)]

Query(variables, depths) == [query |-> "ok", variables |-> variables, depths |-> depths]
Other(what) == [query |-> what, variables |-> None, depths |-> << >>]

Json(batch, entries) ==
  [batch |-> batch, multipart |-> FALSE, map |-> None, entries |-> entries]
Multipart(batch, map, entries) ==
  [batch |-> batch, multipart |-> TRUE, map |-> map, entries |-> entries]
Path(entry, keys) == [entry |-> entry, root |-> "variables", keys |-> keys]
-----------------------------------------------------------------------------
\* Shapes of variables.
AvatarAndName == V("avatar") :> "null" @@ V("name") :> "text"
InputWithFile == V("input") :> "map" @@ <<"input", "doc">> :> "null" @@ <<"input", "title">> :> "text"
                   @@ V("other") :> "null"
ListOfTwo == V("docs") :> "list" @@ <<"docs", "0">> :> "null" @@ <<"docs", "1">> :> "null"
Inner == <<"input", "inner">> :> "map" @@ <<"input", "inner", "doc">> :> "null"
Deep == V("input") :> "map" @@ <<"input", "inner">> :> "map" @@ <<"input", "inner", "doc">> :> "null"
          @@ <<"input", "docs">> :> "list" @@ <<"input", "docs", "0">> :> "null"
          @@ <<"input", "docs", "1">> :> "map" @@ <<"input", "docs", "1", "doc">> :> "null"

\* Plans.
OneService(parts) == << "a" :> <<AtRoot(parts)>> >>
OneInput(arg) == OneService(<<arg>>)
TwoServices(arg, other) == << "a" :> <<AtRoot(<<arg>>)>> @@ "b" :> <<AtRoot(<<other>>)>> >>
TwoDepths(arg, other) == << "a" :> <<AtRoot(<<arg>>)>>, "b" :> <<Below(<<other>>)>> >>

Served == {
  \* JSON: services in two depths, with and without the client's variables.
  Json(FALSE, << Query(V("first") :> "text" @@ V("lang") :> "text",
                       << "a" :> <<AtRoot(<<VarNN("first"), Var("lang")>>)>> @@ "b" :> <<AtRoot(<<Lit("en")>>)>>,
                          "b" :> <<Below(<<Var("lang")>>), Below(<<Var("unset")>>)>> >>) >>),
  \* a batch of everything
  Json(TRUE, << Other("invalid"), Other("introspection"),
                Query(V("first") :> "text", TwoServices(Var("first"), Lit("x"))),
                Other("nameless"), Other("unplannable"), Other("introspection") >>),
  Json(TRUE, << Query(V("first") :> "text", OneInput(VarNN("first"))), Other("missing") >>),
  \* a variable named id at the root, and below it; one of two types; a literal
  \* like a variable
  Json(FALSE, << Query(V("id") :> "text", TwoDepths(VarNN("id"), Lit("x"))) >>),
  Json(FALSE, << Query(V("id") :> "text", TwoDepths(Lit("x"), Var("id"))) >>),
  Json(FALSE, << Query(V("size") :> "text", << "a" :> <<AtRoot(<<VarNN("size"), Var("size")>>)>> >>) >>),
  Json(FALSE, << Query(V("en") :> "text", TwoServices(Var("en"), Lit("en"))) >>) }

Uploads == {
  \* a variable, and a file within one; the inputs without them go together
  Multipart(FALSE, f1 :> <<Path(1, <<"avatar">>)>>,
            << Query(AvatarAndName, << "a" :> <<AtRoot(<<Var("name")>>), AtRoot(<<VarNN("avatar")>>)>>
                                         @@ "b" :> <<AtRoot(<<Var("name")>>)>> >>) >>),
  Multipart(FALSE, f1 :> <<Path(1, <<"input", "doc">>)>> @@ f2 :> <<Path(1, <<"other">>)>>,
            << Query(InputWithFile, << "a" :> <<AtRoot(<<Var("input"), Var("other")>>)>> @@ "b" :> <<AtRoot(<<Var("other")>>)>> >>) >>),
  \* the same variable in two depths, at two services, in two inputs of one
  Multipart(FALSE, f1 :> <<Path(1, <<"input", "doc">>)>>,
            << Query(InputWithFile, TwoDepths(Var("input"), Var("input"))) >>),
  Multipart(FALSE, f1 :> <<Path(1, <<"input", "doc">>)>>,
            << Query(InputWithFile, TwoServices(Var("input"), Var("input"))) >>),
  Multipart(FALSE, f1 :> <<Path(1, <<"avatar">>)>>,
            << Query(AvatarAndName, TwoDepths(Var("avatar"), Var("avatar"))) >>),
  Multipart(FALSE, f1 :> <<Path(1, <<"avatar">>)>>,
            << Query(AvatarAndName, TwoServices(Var("avatar"), Var("avatar"))) >>),
  Multipart(FALSE, f1 :> <<Path(1, <<"input", "doc">>)>>,
            << Query(InputWithFile, << "a" :> <<AtRoot(<<Var("input")>>), AtRoot(<<Var("input")>>)>> >>) >>),
  \* a file called id: below the root the object's id takes its place
  Multipart(FALSE, f1 :> <<Path(1, <<"id">>)>>,
            << Query(V("id") :> "null", TwoDepths(Var("id"), Var("id"))) >>),
  \* a list, shared by two services, where nothing notices the writes
  Multipart(FALSE, f1 :> <<Path(1, <<"docs", "0">>)>> @@ f2 :> <<Path(1, <<"docs", "1">>)>>,
            << Query(ListOfTwo, TwoServices(Var("docs"), Var("docs"))) >>),
  \* two files within a variable that two services share, in a map and in a list
  Multipart(FALSE, f1 :> <<Path(1, <<"input", "doc">>)>>
                     @@ f2 :> <<Path(1, <<"input", "inner", "doc">>)>>,
            << Query(InputWithFile @@ Inner, TwoServices(Var("input"), Var("input"))) >>),
  Multipart(FALSE, f1 :> <<Path(1, <<"input", "inner", "doc">>)>> @@ f2 :> <<Path(1, <<"input", "docs", "0">>)>>,
            << Query(Deep, OneInput(Var("input"))) >>),
  \* one file at two places, of one request and of two
  Multipart(FALSE, f1 :> <<Path(1, <<"docs", "0">>), Path(1, <<"docs", "1">>)>>,
            << Query(ListOfTwo, OneInput(Var("docs"))) >>),
  Multipart(TRUE, f1 :> <<Path(1, <<"avatar">>), Path(2, <<"avatar">>)>> @@ f2 :> <<Path(2, <<"name">>)>>,
            << Query(AvatarAndName, OneInput(Var("avatar"))),
               Query(V("avatar") :> "null" @@ V("name") :> "null", OneInput(Var("avatar"))) >>),
  Multipart(TRUE, f1 :> <<Path(1, <<"avatar">>), Path(2, <<"avatar">>)>>,
            << Query(V("avatar") :> "null", OneInput(Var("avatar"))),
               Query(V("avatar") :> "null", OneInput(Var("avatar"))) >>) }

\* Maps that are wrong, or nearly.
Misplaced ==
  { Multipart(FALSE, f1 :> <<Path(1, keys)>>, << Query(Deep, OneInput(Var("input"))) >>) :
      keys \in { << >>, <<"input">>, <<"nothing">>, <<"input", "inner">>,
                 <<"input", "inner", "doc", "more">>, <<"input", "docs">>, <<"input", "docs", "0", "more">>,
                 <<"input", "docs", "1">>, <<"input", "docs", "1", "doc">>, <<"input", "docs", "2">>, <<"input", "docs", "-1">>,
                 <<"input", "docs", "-2">> } }
  \cup { Multipart(FALSE, f1 :> <<Path(1, keys)>>, << Query(InputWithFile, OneInput(Var("input"))) >>) :
      keys \in { <<"input", "title">>, <<"other", "input">>, <<"input", "doc", "title">> } }
  \cup {
    Multipart(FALSE, f1 :> <<Path(1, <<"docs", "0">>)>> @@ f2 :> <<Path(1, <<"docs", "0">>)>>,
              << Query(ListOfTwo, OneInput(Var("docs"))) >>),
    Multipart(FALSE, f1 :> <<Path(1, <<"docs", "0">>), Path(1, <<"docs", "0">>)>>,
              << Query(ListOfTwo, OneInput(Var("docs"))) >>),
    Multipart(FALSE, None, << Query(ListOfTwo, OneInput(Var("docs"))) >>),
    Multipart(TRUE, f1 :> <<Path(3, <<"avatar">>)>>, << Query(AvatarAndName, OneInput(Var("avatar"))) >>),
    Multipart(TRUE, f1 :> << [entry |-> 1, root |-> "none", keys |-> << >>] >>,
              << Query(AvatarAndName, OneInput(Var("avatar"))) >>),
    Multipart(FALSE, f1 :> << [entry |-> 1, root |-> "other", keys |-> <<"avatar">>] >>,
              << Query(AvatarAndName, OneInput(Var("avatar"))) >>) }

\* Parts of the text that not every recursion looks into, a plan without steps.
Texts == {
  Json(FALSE, << Query(V("x") :> "text" @@ V("y") :> "text",
                       OneService(<<Directive(<<VarNN("x")>>), Field(<<Composed("custom", <<Var("y")>>)>>)>>)) >>),
  Json(TRUE, << Query(V("first") :> "text", OneInput(Var("first"))), Query(None, << >>) >>) }

\* All small texts: a field with up to two values, a directive, and fields in it.
Leaf == { Var("x"), VarNN("x"), VarNN("id"), Lit("x") }
Composite == {"list", "object", "custom"}
Shallow == { Composed(kind, <<leaf>>) : kind \in Composite, leaf \in Leaf }
InList == { Composed(kind, <<value>>) : kind \in {"list", "object"}, value \in Shallow }
Pair == { Composed("object", <<value, Var("x")>>) : value \in Shallow }
Second == { <<>>, <<Var("x")>>, <<Lit("x")>> }
Directives == { <<>>, <<Directive(<<VarNN("x")>>)>>, <<Directive(<<Composed("list", <<Var("id")>>)>>)>> }
Inside == { <<>>, <<Field(<<VarNN("x")>>)>>, <<Field(<<Directive(<<Var("x")>>)>>), Field(<<Var("id")>>)>> }

SmallTexts(value) ==
  { Field(<<Field(<<value>> \o more \o directives \o fields)>>) :
      more \in Second, directives \in Directives, fields \in Inside }

\* For each value a post with all texts that begin with it, at the root and below it.
Asking(texts) ==
  LET inputs(below) == [k \in DOMAIN texts |-> [below |-> below, text |-> texts[k]]]
  IN Json(FALSE, << Query(V("x") :> "text" @@ V("id") :> "text",
                          << "a" :> inputs(FALSE), "a" :> inputs(TRUE) >>) >>)
Spellings ==
  { Asking(FoldSet(LAMBDA text, texts : Append(texts, text), << >>, SmallTexts(value))) :
      value \in Leaf \cup Shallow \cup InList \cup Pair }
-----------------------------------------------------------------------------
MCPost == Served \cup Uploads \cup Misplaced \cup Texts \cup Spellings

\* "and the value if it exists": a variable named id, below the root, and one that
\* is in a directive.
MCArgumentPost ==
  { Json(FALSE, << Query(V("id") :> "text", TwoDepths(Lit("x"), Var("id"))) >>),
    Json(FALSE, << Query(V("full") :> "text", OneService(<<Field(<<Directive(<<VarNN("full")>>)>>)>>)) >>) }
=============================================================================
