--------------------------- MODULE PlanExecution ---------------------------
(***************************************************************************)
(* What executing a query plan promises, with no depth, no grouping by     *)
(* service and no batch: answers are put into the result, each where it    *)
(* belongs and under an object that is already there, and the call returns *)
(* the whole result or an error and no result.                             *)
(***************************************************************************)
EXTENDS PlanData

VARIABLES
  world,            \* what the services hold
  result,           \* the pieces merged so far
  outcome           \* "running", "done" or "failed"

vars == <<world, result, outcome>>

Init ==
  /\ world \in World
  /\ result = {}
  /\ outcome = "running"

Ready(req) ==
  \/ req \in world.start
  \/ \E p \in result : req \in Dependents(world, p.req, p.data)

Merge(piece) ==
  /\ Ready(piece.req)
  /\ piece.data = Answer(world, Input(piece.req))

MergeSome ==
  /\ outcome = "running"
  /\ \A piece \in result' \ result : Merge(piece)
  /\ result \subseteq result'
  /\ UNCHANGED <<world, outcome>>

Succeed ==
  /\ outcome = "running"
  /\ \A r \in world.start \cup
              UNION { Dependents(world, p.req, p.data) : p \in result } :
       \E p \in result : p.req = r
  /\ outcome' = "done"
  /\ UNCHANGED <<world, result>>

Fail ==
  /\ outcome = "running"
  /\ outcome' = "failed"
  /\ UNCHANGED <<world, result>>

Next == MergeSome \/ Succeed \/ Fail

Spec == Init /\ [][Next]_vars
=============================================================================
