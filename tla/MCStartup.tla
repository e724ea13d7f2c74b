------------------------------ MODULE MCStartup ------------------------------
(***************************************************************************)
(* A pool of small services, of which every pair and many triples, in every *)
(* order, are one gateway's.                                               *)
(***************************************************************************)
EXTENDS Startup, TLC

Named(n) == [lists |-> <<>>, nonNull |-> FALSE, name |-> n]
Required(n) == [lists |-> <<>>, nonNull |-> TRUE, name |-> n]
ListOf(nonNulls, n) == [lists |-> nonNulls, nonNull |-> TRUE, name |-> n]

F(type) == [type |-> type, args |-> <<>>]
FArg(type, arg, argType) == [type |-> type, args |-> arg :> argType]

Def(kind) == [kind |-> kind, interfaces |-> {}, types |-> {}, values |-> {}, fields |-> <<>>]
Object(fields) == [Def("OBJECT") EXCEPT !.fields = fields]
NodeObject(fields) ==
  [Def("OBJECT") EXCEPT !.fields = "id" :> F(Required("ID")) @@ fields, !.interfaces = {"Node"}]

Node == "Node" :> [Def("INTERFACE") EXCEPT !.fields = "id" :> F(Required("ID"))]
NodeField == "node" :> FArg(Named("Node"), "id", Required("ID"))
Text == F(Required("String"))

S(url, query, types) ==
  [url |-> url, answers |-> TRUE, types |-> types @@ "Query" :> Object(query), directives |-> <<>>]
Root(name) == name :> F(Named("String"))

\* The services of the project's readme.
Humans == S("humans", NodeField @@ "getHumans" :> F(ListOf(<<TRUE>>, "Human")),
  Node @@ "Human" :> NodeObject("name" :> Text)
       @@ "Mutation" :> Object("saveHuman" :> FArg(Required("Human"), "name", Required("String"))))
Animals == S("animals", NodeField @@ "getAnimals" :> F(ListOf(<<TRUE>>, "Animal")),
  Node @@ "Human" :> NodeObject("phone" :> Text)
       @@ "Animal" :> Object("name" :> Text @@ "owner" :> F(Required("Human"))))

\* Every other kind of type, a union and an enum that others have too.
Kinds ==
  [S("kinds", "search" :> FArg(ListOf(<<FALSE, TRUE>>, "Pet"), "where", Required("Where")),
     "Pet" :> [Def("UNION") EXCEPT !.types = {"Cat", "Dog"}]
       @@ "Cat" :> Object(Root("lives")) @@ "Dog" :> Object("color" :> F(Named("Color")))
       @@ "Where" :> [Def("INPUT_OBJECT") EXCEPT !.fields = "colors" :> F(ListOf(<<FALSE>>, "Color"))]
       @@ "Color" :> [Def("ENUM") EXCEPT !.values = {"RED", "BLUE"}] @@ "Time" :> Def("SCALAR"))
   EXCEPT !.directives = "cacheControl" :> ("maxAge" :> Named("Int"))]
Colors == [Kinds EXCEPT
  !.url = "colors",
  !.types = "Query" :> Object("color" :> F(Named("Color")) @@ "at" :> F(Named("Time")))
              @@ "Color" :> [Def("ENUM") EXCEPT !.values = {"RED", "GREEN"}] @@ "Time" :> Def("SCALAR"),
  !.directives = "internal" :> <<>>]
Dogs == S("dogs", "dogs" :> F(Named("Pet")),
  "Pet" :> [Def("UNION") EXCEPT !.types = {"Dog"}] @@ "Dog" :> Object("color" :> F(Named("String"))))

\* Types that do not go with those above, or do.
People == S("people", Root("people"), "Human" :> Object(Root("height")))
Names == S("names", Root("names"), Node @@ "Human" :> NodeObject("name" :> F(Named("String"))))
Getter == S("getter", Root("getHumans"), <<>>)
NodeGetter == S("nodeGetter", "getHumans" :> FArg(Named("Node"), "id", Required("ID")), Node)
OtherNode == S("otherNode", Root("otherNode"),
  "Node" :> [Def("INTERFACE") EXCEPT !.fields = "id" :> F(Required("ID")) @@ Root("key")])
HumanScalar == S("scalar", Root("scalar"), "Human" :> Def("SCALAR"))
Point(url, fields) == S(url, Root(url), "Point" :> Object(fields))
PointXY == Point("xy", Root("x") @@ Root("y") @@ "id" :> F(Required("ID")))
PointX == Point("x", Root("x") @@ "id" :> F(Required("ID")))
PointY == Point("y", Root("y"))
PointId == Point("pid", "id" :> F(Required("ID")))
PointText == Point("text", Root("x") @@ Root("id"))
Face(url, field) == S(url, url :> F(Named("Face")),
  "Face" :> [Def("INTERFACE") EXCEPT !.fields = Root(field)]
    @@ url :> [Object(Root(field)) EXCEPT !.interfaces = {"Face"}])
FaceX == Face("FX", "x")
FaceY == Face("FY", "y")
OtherFaceX == Face("GX", "x")
FaceId == S("FId", Root("FId"),
  "Face" :> [Def("INTERFACE") EXCEPT !.fields = Root("x") @@ "id" :> F(Required("ID"))]
    @@ "FX" :> [Object(Root("x") @@ "id" :> F(Required("ID"))) EXCEPT !.interfaces = {"Face"}])

\* Services that cannot be read, and types at the limit of the query and beyond.
Down == [PointX EXCEPT !.url = "down", !.answers = FALSE]
NoQuery == [PointX EXCEPT !.url = "noQuery", !.types = "Mutation" :> Object(Root("x"))]
Nested == S("deep", "deep" :> F(ListOf(<<TRUE, TRUE, TRUE>>, "String")), <<>>)
TooDeep == S("tooDeep", "tooDeep" :> F(ListOf(<<TRUE, FALSE, TRUE, TRUE>>, "String")), <<>>)

Pool == {Humans, Animals, Kinds, Colors, Dogs, People, Names, Getter, HumanScalar,
         PointXY, PointX, PointY, PointText, PointId, FaceX, FaceY, OtherFaceX, FaceId,
         NodeGetter, OtherNode, Down, NoQuery, Nested, TooDeep}
Triples == {{Humans, Animals, Kinds}, {Humans, Animals, Colors}, {Humans, Animals, Names},
            {Kinds, Colors, Dogs}, {PointXY, PointX, PointY}, {PointX, PointText, Getter}, {PointX, PointText, Point("n", Root("x"))},
            {FaceX, FaceY, PointXY},
            {Humans, Down, TooDeep}, {Kinds, Nested, NoQuery}}

Orders(set) == { s \in [1 .. Cardinality(set) -> set] : Range(s) = set }

MCWorld ==
  [services : UNION { Orders({s, t}) : s, t \in Pool } \cup UNION { Orders(t) : t \in Triples },
   sanitize : BOOLEAN]
=============================================================================
