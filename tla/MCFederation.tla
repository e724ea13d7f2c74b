---------------------------- MODULE MCFederation ----------------------------
(***************************************************************************)
(* Two services: "a" has users and pets, "b" has posts and what concerns   *)
(* them, and both have fields of users and of pets.  Address is a type     *)
(* without ids that both declare.  Animal is an interface, Pet a union.    *)
(***************************************************************************)
EXTENDS Federation

MCUrl == <<"a", "b">>

MCDeclares ==
  [a |-> [Query |-> {"node", "users", "pets", "animals", "id"}, Mutation |-> {"rename"},
          User |-> {"id", "name", "boss", "friend", "home"}, Address |-> {"street"},
          Cat |-> {"id", "lives"}, Dog |-> {"id"}],
   b |-> [Query |-> {"node", "top"},
          User |-> {"id", "age", "posts"}, Post |-> {"id", "title", "author", "place", "mark"},
          Address |-> {"street"},
          Cat |-> {"id", "call"}, Dog |-> {"id", "call"}, Tag |-> {"id"}, Mark |-> {"id"}]]

MCNodeType == {"User", "Post", "Cat", "Dog", "Tag"}

MCPossibleTypes ==
  [Node |-> <<"User", "Post", "Cat", "Dog", "Tag">>, Animal |-> <<"Cat", "Dog">>,
   Pet |-> <<"Cat", "Dog">>]

MCInterfaceType == {"Node", "Animal"}

One(t) == [type |-> t, list |-> FALSE, nonNull |-> FALSE]
Many(t) == [type |-> t, list |-> TRUE, nonNull |-> TRUE]

MCDefinition ==
  [node |-> One("Node"), users |-> Many("User"), pets |-> Many("Pet"), animals |-> Many("Animal"),
   top |-> One("Post"), rename |-> One("User"), boss |-> One("User"), friend |-> One("User"), home |-> One("Address"),
   posts |-> Many("Post"), author |-> One("User"), place |-> One("Address"), mark |-> One("Mark")]
-----------------------------------------------------------------------------
\* Data.

Ref(k) == [ref |-> k]
Refs(ks) == [list |-> [k \in DOMAIN ks |-> Ref(ks[k])]]

Types ==
  [Query |-> "Query", Mutation |-> "Mutation", x |-> "User", y |-> "User", p |-> "Post",
   q |-> "Post", h |-> "Address", c |-> "Cat", d |-> "Dog", m |-> "Mark"]

Fields ==
  [Query |-> [users |-> Refs(<<"x", "y", "x">>), pets |-> Refs(<<"d", "c">>),
              animals |-> Refs(<<"c", "d">>), top |-> Ref("q")],
   Mutation |-> [rename |-> Ref("y")],
   x |-> [name |-> Leaf("X"), boss |-> Ref("y"), friend |-> Ref("y"), home |-> Ref("h"), age |-> Leaf("30"),
          posts |-> Refs(<<"p", "q">>)],
   y |-> [name |-> Leaf("Y"), boss |-> Null, friend |-> Ref("x"), home |-> Null, age |-> Leaf("50"),
          posts |-> Refs(<<>>)],
   p |-> [title |-> Leaf("P"), author |-> Ref("x"), place |-> Ref("h"), mark |-> Ref("m")],
   q |-> [title |-> Leaf("Q"), author |-> Ref("y"), place |-> Null, mark |-> Ref("m")],
   m |-> <<>>,
   h |-> [street |-> Leaf("S")],
   c |-> [lives |-> Leaf("9"), call |-> Leaf("C")],
   d |-> [call |-> Leaf("D")]]

Operation(root, sel) ==
  [root |-> root, sel |-> sel, definitions |-> <<>>, id |-> "x", type |-> Types,
   fields |-> Fields, lost |-> {}]

Losing(lost, c) == [c EXCEPT !.lost = lost]
WithNull(c) == [c EXCEPT !.fields["Query"].users = [list |-> <<Ref("x"), Null>>]]
WithUsers(ks, c) == [c EXCEPT !.fields["Query"].users = Refs(ks)]
-----------------------------------------------------------------------------
\* Operations.

F(name) == Field(name, <<>>)
As(alias, f) == [f EXCEPT !.alias = alias]

\* users { name age }
Split == Operation("Query", <<Field("users", <<F("name"), F("age")>>)>>)

\* users { age older: boss { n: name posts { title author { name } } } }: a, b
\* for each of two paths, a
Deep ==
  Operation("Query", <<Field("users", <<F("age"),
    As("older", Field("boss", <<As("n", F("name")),
      Field("posts", <<F("title"), Field("author", <<F("name")>>)>>)>>))>>)>>)

\* users { id age posts { author { name boss { name } } place { street } } home { street } }
Grouped ==
  Operation("Query", <<Field("users", <<F("id"), F("age"),
    Field("posts", <<Field("author", <<F("name"), Field("boss", <<F("name")>>)>>),
                     Field("place", <<F("street")>>)>>),
    Field("home", <<F("street")>>)>>)>>)

\* pets { ... on Cat { lives call } ... on Dog { id call } }
Union ==
  Operation("Query", <<Field("pets", <<On("Cat", "Pet", <<F("lives"), F("call")>>),
                                       On("Dog", "Pet", <<F("id"), F("call")>>)>>)>>)

\* animals { call }: fields of an interface of another service
Interface == Operation("Query", <<Field("animals", <<F("call")>>)>>)

\* animals { ... on Animal { __typename id call } }
InterfaceFragment ==
  Operation("Query", <<Field("animals", <<
    On("Animal", "Animal", <<F("__typename"), F("id"), F("call")>>)>>)>>)

\* node(id: "x") { ... on User { id name age } }
NodeField ==
  Operation("Query", <<Field("node", <<On("User", "Node", <<F("id"), F("name"), F("age")>>)>>)>>)

\* node(id: "x") { id }, and with a fragment on a type with nothing but an id: plans
\* without steps
NodeId == Operation("Query", <<Field("node", <<F("id")>>)>>)
NodeTag == Operation("Query", <<Field("node", <<On("Tag", "Node", <<F("id")>>)>>)>>)

\* node(id: "x") { ... on User { id } }
NodeUserId == Operation("Query", <<Field("node", <<On("User", "Node", <<F("id")>>)>>)>>)

\* { id users { name } }, and node(id: "x") { ... on Animal { call } }: no plan
RootId == Operation("Query", <<F("id"), Field("users", <<F("name")>>)>>)
NodeAnimal == Operation("Query", <<Field("node", <<On("Animal", "Node", <<F("call")>>)>>)>>)

\* pets { kind: __typename ... on Cat { call } ... on Dog { call } }
Aliased ==
  Operation("Query", <<Field("pets", <<As("kind", F("__typename")),
    On("Cat", "Pet", <<F("call")>>), On("Dog", "Pet", <<F("call")>>)>>)>>)

\* users { home { street } ... on User { age } } top { author { name } }
TwoRoots ==
  Operation("Query", <<Field("users", <<Field("home", <<F("street")>>),
                                        On("User", "User", <<F("age")>>)>>),
                       Field("top", <<Field("author", <<F("name")>>)>>)>>)

\* top { author { age } mark { id } }: a type that is no node and has just an id
Marked == Operation("Query", <<Field("top", <<Field("author", <<F("age")>>), Field("mark", <<F("id")>>)>>)>>)

\* mutation { rename { boss { name } age } }
Mutate ==
  Operation("Mutation", <<Field("rename", <<Field("boss", <<F("name")>>), F("age")>>)>>)

\* users { friend { boss { name } } boss { friend { age } } }
Nested ==
  Operation("Query", <<Field("users", <<
    Field("friend", <<Field("boss", <<F("name")>>)>>),
    Field("boss", <<Field("friend", <<F("age")>>)>>)>>)>>)

\* users { ...User } top { author { ...User } }
\* fragment User on User { name mate: friend { id age } }
\* The definition is sanitized for two paths; both have the client's id.
UserTwice ==
  [Operation("Query", <<Field("users", <<Spread("User", "User", "User")>>),
                        Field("top", <<Field("author", <<Spread("User", "User", "User")>>)>>)>>)
   EXCEPT !.definitions =
     ("User" :> <<F("name"), Shared("User.friend", As("mate", Field("friend", <<>>)))>>)
       @@ ("User.friend" :> <<F("id"), F("age")>>)]

\* users { ...Known } top { author { ...Known } }
\* fragment Known on User { age ...Home }  fragment Home on User { id home { street } }
HomeTwice ==
  [Operation("Query", <<Field("users", <<Spread("Known", "User", "User")>>),
                        Field("top", <<Field("author", <<Spread("Known", "User", "User")>>)>>)>>)
   EXCEPT !.definitions =
     ("Known" :> <<F("age"), Spread("Home", "User", "User")>>)
       @@ ("Home" :> <<F("id"), Shared("Home.home", Field("home", <<>>))>>)
       @@ ("Home.home" :> <<F("street")>>)]

\* pets { ...Pets } again: pets { ...Pets }
\* fragment Pets on Pet { __typename ... on Cat { id call } ...Dogs }  fragment Dogs on Dog { id call }
PetsTwice ==
  [Operation("Query", <<Field("pets", <<Spread("Pets", "Pet", "Pet")>>),
                        As("again", Field("pets", <<Spread("Pets", "Pet", "Pet")>>))>>)
   EXCEPT !.definitions =
     ("Pets" :> <<F("__typename"), Shared("Pets.Cat", On("Cat", "Pet", <<>>)), Spread("Dogs", "Dog", "Pet")>>)
       @@ ("Pets.Cat" :> <<F("id"), F("call")>>)
       @@ ("Dogs" :> <<F("id"), F("call")>>)]

MCNestedCase == {Nested}

MCCase ==
  {Split, Deep, Grouped, Union, Interface, InterfaceFragment, NodeField, TwoRoots, Mutate,
   UserTwice, HomeTwice, PetsTwice, NodeId, NodeTag, NodeUserId, RootId, NodeAnimal, Aliased, Marked,
   Losing({<<"b", "x">>}, Split), Losing({<<"a", "y">>}, Deep), Losing({<<"b", "y">>}, Deep),
   WithNull(Split), WithUsers(<<>>, Grouped), WithUsers(<<"y">>, Deep)}
=============================================================================
