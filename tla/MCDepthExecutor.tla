-------------------------- MODULE MCDepthExecutor --------------------------
(***************************************************************************)
(* A plan with every feature of the executor: two root steps on different  *)
(* services; below the users of service "a", two steps of service "b" with *)
(* the same query ("name" and "sameName" select the same fields) and one   *)
(* of "c" that passes on a user's variable; below those, two steps of "a"  *)
(* about the same books.                                                   *)
(***************************************************************************)
EXTENDS DepthExecutor, TLC

MCStep == {"users", "version", "name", "sameName", "price", "review", "stock"}
MCThen ==
  [s \in MCStep |-> CASE s = "users" -> <<"name", "sameName", "price">>
                      [] s = "name"  -> <<"review", "stock">>
                      [] OTHER       -> <<>>]
MCUrlOf ==
  [s \in MCStep |-> CASE s \in {"users", "review", "stock"} -> "a"
                      [] s \in {"name", "sameName"} -> "b"
                      [] OTHER -> "c"]
MCQuery == [s \in MCStep |-> IF s = "sameName" THEN "name" ELSE s]
MCParentType == [s \in MCStep |-> IF s \in {"review", "stock"} THEN "Book" ELSE "User"]

\* GetParentTypeFromIDFunc knows User and Book ids, and cannot tell for "z".
MCTypeOf == [x |-> "User", y |-> "Book", z |-> "", bad |-> ""] @@ ("" :> "")

At(i, x) == [at |-> i, id |-> x]
In(q, x) == [query |-> q, id |-> x]
None == [x \in {"", "x", "y", "z", "bad"} |-> <<>>]

\* The users of the answer are at l; the last of them is also "sameName"'s.
Users(l) == [s \in MCStep |->
  CASE s \in {"name", "price"} -> [None EXCEPT ![""] = l]
    [] s = "sameName" -> [None EXCEPT ![""] = IF l = <<>> THEN <<>> ELSE <<Last(l)>>]
    [] s \in {"review", "stock"} -> [None EXCEPT !["x"] = <<At(0, "y"), At(1, "z")>>]
    [] OTHER -> None]

Plain ==
  [start |-> {[step |-> s, point |-> <<>>] : s \in {"users", "version"}},
   knows |-> {In("users", ""), In("version", ""), In("name", "x"), In("price", "x"),
              In("name", "z"), In("review", "y"), In("stock", "z")},
   slots |-> Users(<<At(0, "x"), At(1, "x")>>),
   broken |-> {}, unreadable |-> {"bad"}]

MixedList == [Plain EXCEPT !.slots = Users(<<At(0, "y"), At(1, "z"), At(5, "x")>>)]
EmptyList == [Plain EXCEPT !.slots = Users(<<>>)]
HashInId  == [Plain EXCEPT !.slots = Users(<<At(0, "x"), At(1, "bad")>>)]
EmptyId   == [Plain EXCEPT !.slots = Users(<<At(0, "x"), At(1, "")>>)]
NullInReviews == [Plain EXCEPT !.broken = {In("name", "x")}]
\* Execution on a subscription's payload starts below the root, at its points.
FromPayload ==
  [Plain EXCEPT !.start = {[step |-> "name", point |-> <<At(i, "x")>>] : i \in 0 .. 1}]

MCWorld == {Plain, MixedList, EmptyList, HashInId, EmptyId, NullInReviews, FromPayload}
=============================================================================
