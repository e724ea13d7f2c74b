--------------------------- MODULE AsyncMapReduce ---------------------------
(***************************************************************************)
(* common.AsyncMapReduce (common/helpers.go): one goroutine per payload    *)
(* element, one reducer goroutine, three unbuffered channels and a         *)
(* WaitGroup.  The depth executor, the queryer, the HTTP handler and the   *)
(* introspector all run on it.                                             *)
(*                                                                         *)
(* A send on an unbuffered channel and its receive are one joint step.     *)
(* mapFunc is any function that returns a value or an error; that it does  *)
(* return is the fairness assumption on MapFunc.                           *)
(***************************************************************************)
EXTENDS Naturals, Sequences, FiniteSets, Functions

CONSTANT N          \* len(payload)

ASSUME NAssumption == N \in Nat

Item == 1 .. N

VARIABLES
  main,             \* where the calling goroutine stands
  spawned,          \* how many elements `range payload` has been through
  wg,               \* the WaitGroup's counter
  worker,           \* where the goroutine of each element stands
  outcome,          \* what mapFunc returned: mapRes or err
  reducer,          \* where the reducer goroutine stands
  cur,              \* the element whose outcome the reducer holds, or 0
  acc,              \* elements in the order reduceFunc folded them into acc
  errs,             \* elements in the order they extended errs
  open              \* resChan, errChan and doneChan are open

vars == <<main, spawned, wg, worker, outcome, reducer, cur, acc, errs, open>>

Init ==
  /\ main = "spawn"
  /\ spawned = 0
  /\ wg = N
  /\ worker = [i \in Item |-> "unborn"]
  /\ outcome = [i \in Item |-> "none"]
  /\ reducer = "unborn"
  /\ cur = 0
  /\ acc = <<>>
  /\ errs = <<>>
  /\ open = TRUE
-----------------------------------------------------------------------------
\* The calling goroutine.

SpawnWorker ==
  /\ main = "spawn"
  /\ spawned < N
  /\ spawned' = spawned + 1
  /\ worker' = [worker EXCEPT ![spawned + 1] = "map"]
  /\ UNCHANGED <<main, wg, outcome, reducer, cur, acc, errs, open>>

StartReducer ==
  /\ main = "spawn"
  /\ spawned = N
  /\ reducer' = "select"
  /\ main' = "wait"
  /\ UNCHANGED <<spawned, wg, worker, outcome, cur, acc, errs, open>>

WaitReturns ==
  /\ main = "wait"
  /\ wg = 0
  /\ main' = "signal"
  /\ UNCHANGED <<spawned, wg, worker, outcome, reducer, cur, acc, errs, open>>

\* Mutant: the caller goes on without handing doneChan to the reducer.
StopReducerNoHandshake ==
  /\ main = "signal"
  /\ main' = "return"
  /\ UNCHANGED <<spawned, wg, worker, outcome, reducer, cur, acc, errs, open>>

\* doneChan <- struct{}{} meets the reducer's `case <-doneChan: return`.
StopReducer ==
  /\ main = "signal"
  /\ reducer = "select"
  /\ reducer' = "exited"
  /\ main' = "return"
  /\ UNCHANGED <<spawned, wg, worker, outcome, cur, acc, errs, open>>

\* The return reads acc and errs; the deferred closes run after it.
Return ==
  /\ main = "return"
  /\ main' = "returned"
  /\ open' = FALSE
  /\ UNCHANGED <<spawned, wg, worker, outcome, reducer, cur, acc, errs>>
-----------------------------------------------------------------------------
\* The goroutine of element i.

MapFunc(i) ==
  /\ worker[i] = "map"
  /\ \E o \in {"ok", "err"} : outcome' = [outcome EXCEPT ![i] = o]
  /\ worker' = [worker EXCEPT ![i] = "send"]
  /\ UNCHANGED <<main, spawned, wg, reducer, cur, acc, errs, open>>
-----------------------------------------------------------------------------
\* The reducer goroutine.

\* Mutant: wg.Done() as soon as the outcome arrives, once more after the fold.
ReceiveEarlyDone(i) ==
  /\ reducer = "select"
  /\ worker[i] = "send"
  /\ worker' = [worker EXCEPT ![i] = "exited"]
  /\ reducer' = "fold"
  /\ cur' = i
  /\ wg' = wg - 1
  /\ UNCHANGED <<main, spawned, outcome, acc, errs, open>>

\* resChan <- mapRes or errChan <- err meets the reducer's select.
Receive(i) ==
  /\ reducer = "select"
  /\ worker[i] = "send"
  /\ open
  /\ worker' = [worker EXCEPT ![i] = "exited"]
  /\ reducer' = "fold"
  /\ cur' = i
  /\ UNCHANGED <<main, spawned, wg, outcome, acc, errs, open>>

FoldResult ==
  /\ reducer = "fold"
  /\ outcome[cur] = "ok"
  /\ acc' = Append(acc, cur)
  /\ reducer' = "wgDone"
  /\ UNCHANGED <<main, spawned, wg, worker, outcome, cur, errs, open>>

\* Mutant: the error is dropped.
FoldErrorDropped ==
  /\ reducer = "fold"
  /\ outcome[cur] = "err"
  /\ reducer' = "wgDone"
  /\ UNCHANGED <<main, spawned, wg, worker, outcome, cur, acc, errs, open>>

\* Mutant: the error case goes round the loop without wg.Done().
FoldErrorNoDone ==
  /\ reducer = "fold"
  /\ outcome[cur] = "err"
  /\ errs' = Append(errs, cur)
  /\ reducer' = "select"
  /\ UNCHANGED <<main, spawned, wg, worker, outcome, cur, acc, open>>

FoldError ==
  /\ reducer = "fold"
  /\ outcome[cur] = "err"
  /\ errs' = Append(errs, cur)
  /\ reducer' = "wgDone"
  /\ UNCHANGED <<main, spawned, wg, worker, outcome, cur, acc, open>>

WgDone ==
  /\ reducer = "wgDone"
  /\ wg' = wg - 1
  /\ cur' = 0
  /\ reducer' = "select"
  /\ UNCHANGED <<main, spawned, worker, outcome, acc, errs, open>>
-----------------------------------------------------------------------------
Caller  == SpawnWorker \/ StartReducer \/ WaitReturns \/ StopReducer \/ Return
Reducer == (\E i \in Item : Receive(i)) \/ FoldResult \/ FoldError \/ WgDone

\* The call is over and nothing of it runs any more.
Returned == main = "returned" /\ UNCHANGED vars

Next ==
  \/ Caller
  \/ Reducer
  \/ \E i \in Item : MapFunc(i)
  \/ Returned

\* The Go scheduler runs every goroutine that can run, and mapFunc returns.
Fairness ==
  /\ WF_vars(Caller)
  /\ WF_vars(Reducer)
  /\ \A i \in Item : WF_vars(MapFunc(i))

Safe == Init /\ [][Next]_vars

Spec == Safe /\ Fairness
-----------------------------------------------------------------------------
TypeOK ==
  /\ main \in {"spawn", "wait", "signal", "return", "returned"}
  /\ spawned \in 0 .. N
  /\ wg \in 0 .. N
  /\ worker \in [Item -> {"unborn", "map", "send", "exited"}]
  /\ outcome \in [Item -> {"none", "ok", "err"}]
  /\ reducer \in {"unborn", "select", "fold", "wgDone", "exited"}
  /\ cur \in 0 .. N
  /\ acc \in Seq(Item)
  /\ errs \in Seq(Item)
  /\ open \in BOOLEAN

\* When the call returns, acc holds the result of every element whose mapFunc
\* succeeded and errs the error of every other one, each exactly once: no
\* arrival order and no interleaving of wg.Done with the folds loses or
\* duplicates one.
EverythingFoldedOnce ==
  main \in {"return", "returned"} =>
    /\ Range(acc) = {i \in Item : outcome[i] = "ok"}
    /\ Range(errs) = {i \in Item : outcome[i] = "err"}
    /\ Range(acc) \cup Range(errs) = Item
    /\ IsInjective(acc) /\ IsInjective(errs)

\* The channels are closed only when no goroutine of the call is left: a
\* worker still to send would panic, a reducer still in its select would
\* receive zero values from the closed channels and fold them.
NoGoroutineOutlivesCall ==
  ~open => /\ reducer = "exited"
           /\ \A i \in Item : worker[i] = "exited"

\* Every call returns, whatever the mix of results and errors and also for an
\* empty payload.
Terminates == <>(main = "returned")

\* The elements wg still counts: those whose goroutine has not handed over its
\* outcome, and the one the reducer holds.
Held(i) == reducer \in {"fold", "wgDone"} /\ cur = i

Pending == {i \in Item : worker[i] # "exited" \/ Held(i)}

Folded(i) == worker[i] = "exited" /\ ~(reducer = "fold" /\ cur = i)

Stages ==
  /\ main = "spawn" <=> reducer = "unborn"
  /\ main # "spawn" => spawned = N
  /\ main \in {"signal", "return", "returned"} => wg = 0
  /\ main \in {"return", "returned"} <=> reducer = "exited"
  /\ open <=> main # "returned"
  /\ reducer \in {"fold", "wgDone"} => cur \in Item /\ worker[cur] = "exited"
  /\ \A i \in Item :
       /\ worker[i] = "unborn" <=> i > spawned
       /\ worker[i] \in {"unborn", "map"} <=> outcome[i] = "none"

FoldsSoFar ==
  /\ \A i \in Item : i \in Range(acc)  <=> Folded(i) /\ outcome[i] = "ok"
  /\ \A i \in Item : i \in Range(errs) <=> Folded(i) /\ outcome[i] = "err"
  /\ IsInjective(acc)
  /\ IsInjective(errs)

\* wg counts exactly the elements not folded and done yet, at every step: that
\* is why it cannot reach 0 early, and why it never goes below 0 (which would
\* panic).  With the stages of the goroutines and the contents of acc and errs
\* it is inductive.
IInv ==
  /\ TypeOK
  /\ Stages
  /\ FoldsSoFar
  /\ wg = Cardinality(Pending)

MR == INSTANCE MapReduce WITH returned <- (main = "returned")

\* The goroutines and channels implement the abstract map-reduce, its
\* progress included.
ImplementsMapReduce == MR!Spec
=============================================================================
