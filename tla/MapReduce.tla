----------------------------- MODULE MapReduce -----------------------------
(***************************************************************************)
(* What callers of common.AsyncMapReduce rely on, with no goroutine and no *)
(* channel in sight: every payload element is mapped, the outcome of each  *)
(* is folded exactly once and one at a time, in whatever order they come,  *)
(* and the call returns only when nothing is left to fold.                 *)
(***************************************************************************)
EXTENDS Naturals, Sequences, Functions

CONSTANT Item       \* the indices of the payload slice

VARIABLES
  outcome,          \* what mapFunc returned for an element, "none" before
  acc,              \* elements in the order reduceFunc folded their results
  errs,             \* elements in the order their errors were collected
  returned          \* the call has returned

vars == <<outcome, acc, errs, returned>>

Folded(i) == i \in Range(acc) \cup Range(errs)

Init ==
  /\ outcome = [i \in Item |-> "none"]
  /\ acc = <<>>
  /\ errs = <<>>
  /\ returned = FALSE

Map(i) ==
  /\ outcome[i] = "none"
  /\ \E o \in {"ok", "err"} : outcome' = [outcome EXCEPT ![i] = o]
  /\ UNCHANGED <<acc, errs, returned>>

Fold(i) ==
  /\ outcome[i] # "none"
  /\ ~Folded(i)
  /\ \/ outcome[i] = "ok"  /\ acc' = Append(acc, i)   /\ errs' = errs
     \/ outcome[i] = "err" /\ errs' = Append(errs, i) /\ acc' = acc
  /\ UNCHANGED <<outcome, returned>>

Return ==
  /\ ~returned
  /\ \A i \in Item : Folded(i)
  /\ returned' = TRUE
  /\ UNCHANGED <<outcome, acc, errs>>

Next ==
  \/ \E i \in Item : Map(i) \/ Fold(i)
  \/ Return

Safe == Init /\ [][Next]_vars

Spec == Safe /\ WF_vars(Next)
=============================================================================
