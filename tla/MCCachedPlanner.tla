-------------------------- MODULE MCCachedPlanner ---------------------------
(***************************************************************************)
(* A subscription and a query with one selection set, and a query with     *)
(* another.                                                                *)
(***************************************************************************)
EXTENDS CachedPlanner

MCOperation == [c1 |-> "users", c2 |-> "users", c3 |-> "books"]
MCHashOf == [users |-> "h1", books |-> "h2"]
=============================================================================
