------------------------- MODULE SubscriptionEntry -------------------------
(***************************************************************************)
(* One running subscription of a client: the goroutines of                 *)
(* subscriptionEntry.Listen and .Close (subscription_entry.go) and the two *)
(* that MultiOpQueryer.Subscribe leaves behind (queryer/subscribe.go), one *)
(* reading from the service and one waiting to close that connection.      *)
(* They share three unbuffered channels and a mutex.                       *)
(*                                                                         *)
(* A send on an unbuffered channel and its receive are one joint step.     *)
(* A panic no deferred call recovers, and a fatal error of the mutex, end  *)
(* the process: nothing happens after either.                              *)
(***************************************************************************)
EXTENDS Naturals, Sequences

CONSTANTS
  Entry,            \* the subscriptions
  HasSubqueries,    \* those whose plan has steps below the root: executorFn
  Kind,             \* the kinds of message the services send, of those below
  MaxMessages       \* bound: messages a service sends on one subscription

\* "data" and "errors" are passed on; "null" is data with nothing at any point
\* where a further step goes on; "empty" is a data message without a payload;
\* "end" is complete, connection_error, connection_terminate, error, a message
\* that does not parse, or the end of the connection.
ASSUME KindAssumption == Kind \subseteq {"data", "errors", "null", "empty", "end"}

VARIABLES
  sub,              \* per subscription: its goroutines, mutex and channels
  clientGone,       \* writes on the client's connection may fail
  crashed           \* why the process died, or "no"

vars == <<sub, clientGone, crashed>>

NewEntry ==
  [listen    |-> "none",    \* goroutine of Listen
   reader    |-> "none",    \* goroutine of Subscribe that reads the service
   closer    |-> "none",    \* goroutine of Subscribe that waits on closeCh
   close     |-> "none",    \* goroutine of Close
   locked    |-> FALSE,     \* the embedded sync.Mutex
   isClosed  |-> FALSE,
   closeChOpen |-> TRUE,
   respChOpen  |-> TRUE,
   subscribed |-> "no",     \* what Subscribe returned: "yes" for no error
   conn      |-> "none",    \* the connection to the service
   log       |-> <<>>,      \* messages the service has sent on it
   read      |-> 0,         \* how many of them the reader has read
   got       |-> 0,         \* which of them Listen has received last
   delivered |-> <<>>]      \* which of them were written to the client

Init ==
  /\ sub = [e \in Entry |-> NewEntry]
  /\ clientGone = FALSE
  /\ crashed = "no"

Crash(why) ==
  /\ crashed' = why
  /\ UNCHANGED <<sub, clientGone>>
-----------------------------------------------------------------------------
\* newSubscriptionEntry: MultiOpQueryer.Subscribe dials the service and starts
\* both goroutines.

Subscribe(e) ==
  /\ sub[e].subscribed = "no"
  /\ sub' = [sub EXCEPT ![e].subscribed = "yes", ![e].conn = "open",
               ![e].reader = "read", ![e].closer = "wait"]
  /\ UNCHANGED <<clientGone, crashed>>

\* The init or the start message cannot be written: the error is returned, and
\* nobody is left to receive what the goroutines wait for.
SubscribeFails(e) ==
  /\ sub[e].subscribed = "no"
  /\ sub' = [sub EXCEPT ![e].subscribed = "failed", ![e].conn = "closed",
               ![e].reader = "sendNil", ![e].closer = "wait"]
  /\ UNCHANGED <<clientGone, crashed>>

\* go subEntry.Listen(conn)
StartListen(e) ==
  /\ sub[e].listen = "none"
  /\ sub[e].subscribed = "yes"
  /\ sub' = [sub EXCEPT ![e].listen = "select"]
  /\ UNCHANGED <<clientGone, crashed>>

\* go subEntry.Close()
StartClose(e) ==
  /\ sub[e].close = "none"
  /\ sub[e].listen # "none"
  /\ sub' = [sub EXCEPT ![e].close = "tryLock"]
  /\ UNCHANGED <<clientGone, crashed>>

\* The service sends; nothing follows an "end".
Send(e) ==
  /\ sub[e].conn = "open"
  /\ Len(sub[e].log) < MaxMessages
  /\ \A k \in DOMAIN sub[e].log : sub[e].log[k] # "end"
  /\ \E kind \in Kind : sub' = [sub EXCEPT ![e].log = Append(@, kind)]
  /\ UNCHANGED <<clientGone, crashed>>

ClientLeaves ==
  /\ ~clientGone
  /\ clientGone' = TRUE
  /\ UNCHANGED <<sub, crashed>>
-----------------------------------------------------------------------------
\* Subscribe's reading goroutine.

Read(e) ==
  /\ sub[e].reader = "read"
  /\ sub[e].conn = "open"
  /\ sub[e].read < Len(sub[e].log)
  /\ LET kind == sub[e].log[sub[e].read + 1]
     IN IF kind = "end"
        THEN sub' = [sub EXCEPT ![e].read = @ + 1, ![e].reader = "sendNil", ![e].conn = "closed"]
        ELSE sub' = [sub EXCEPT ![e].read = @ + 1, ![e].reader = "send"]
  /\ UNCHANGED <<clientGone, crashed>>

\* Our own side has closed the connection.
ReadFails(e) ==
  /\ sub[e].reader = "read"
  /\ sub[e].conn = "closed"
  /\ sub' = [sub EXCEPT ![e].reader = "sendNil"]
  /\ UNCHANGED <<clientGone, crashed>>

\* resCh <- serverResp.Payload once the channel is closed.  The deferred send
\* of nil panics in turn, and the recover around it stops that second panic
\* only: the first goes on.
SendPanics(e) ==
  /\ sub[e].reader = "send"
  /\ ~sub[e].respChOpen
  /\ Crash("send on closed respCh")

\* The deferred send of nil alone panics: recovered.
SendNilRecovers(e) ==
  /\ sub[e].reader = "sendNil"
  /\ ~sub[e].respChOpen
  /\ sub' = [sub EXCEPT ![e].reader = "done"]
  /\ UNCHANGED <<clientGone, crashed>>

Reader(e) == Read(e) \/ ReadFails(e) \/ SendPanics(e) \/ SendNilRecovers(e)

\* Mutant: the connection is not closed.
CloseConnForgotten(e) ==
  /\ sub[e].closer = "close"
  /\ sub' = [sub EXCEPT ![e].closer = "done"]
  /\ UNCHANGED <<clientGone, crashed>>

\* Subscribe's other goroutine: conn.Close() after the signal.
CloseConn(e) ==
  /\ sub[e].closer = "close"
  /\ sub' = [sub EXCEPT ![e].closer = "done", ![e].conn = "closed"]
  /\ UNCHANGED <<clientGone, crashed>>
-----------------------------------------------------------------------------
\* Listen: its select, with whoever sends.

\* Mutant: responses with errors are not passed on.
ReceiveDropsErrors(e) ==
  /\ sub[e].listen = "select"
  /\ sub[e].reader = "send"
  /\ LET kind == sub[e].log[sub[e].read]
     IN sub' = [sub EXCEPT ![e].reader = "read", ![e].got = sub[e].read,
                  ![e].listen = CASE kind = "empty" -> "handshake"
                                  [] kind = "errors" -> "select"
                                  [] OTHER -> "answer"]
  /\ UNCHANGED <<clientGone, crashed>>

\* resp := <-respCh; a nil payload looks like the end.
Receive(e) ==
  /\ sub[e].listen = "select"
  /\ sub[e].reader = "send"
  /\ LET last == sub[e].log[sub[e].read] = "empty"
     IN sub' = [sub EXCEPT ![e].reader = "read", ![e].got = sub[e].read,
                  ![e].listen = IF last THEN "handshake" ELSE "answer"]
  /\ UNCHANGED <<clientGone, crashed>>

ReceiveNil(e) ==
  /\ sub[e].listen = "select"
  /\ sub[e].reader = "sendNil"
  /\ sub' = [sub EXCEPT ![e].reader = "done", ![e].listen = "handshake"]
  /\ UNCHANGED <<clientGone, crashed>>

\* <-closeCh
ReceiveClose(e) ==
  /\ sub[e].listen = "select"
  /\ sub[e].close = "send"
  /\ sub' = [sub EXCEPT ![e].close = "done", ![e].listen = "handshake"]
  /\ UNCHANGED <<clientGone, crashed>>

\* prepareResponse: with no insertion point for any further step the executor
\* gets a plan without steps, and takes the first depth of none.
NothingToExecute(e) == e \in HasSubqueries /\ sub[e].log[sub[e].got] = "null"

ExecutePanics(e) ==
  /\ sub[e].listen = "answer"
  /\ NothingToExecute(e)
  /\ Crash("nil dereference in Execute")

\* Mutant: the response is written once more.
WriteAnswerTwice(e) ==
  /\ sub[e].listen = "answer"
  /\ ~NothingToExecute(e)
  /\ sub' = [sub EXCEPT ![e].listen = "select",
               ![e].delivered = @ \o <<sub[e].got, sub[e].got>>]
  /\ UNCHANGED <<clientGone, crashed>>

WriteAnswer(e) ==
  /\ sub[e].listen = "answer"
  /\ ~NothingToExecute(e)
  /\ sub' = [sub EXCEPT ![e].listen = "select",
               ![e].delivered = Append(@, sub[e].got)]
  /\ UNCHANGED <<clientGone, crashed>>

WriteFails(e) ==
  /\ sub[e].listen = "answer"
  /\ ~NothingToExecute(e)
  /\ clientGone
  /\ sub' = [sub EXCEPT ![e].listen = "handshake"]
  /\ UNCHANGED <<clientGone, crashed>>
-----------------------------------------------------------------------------
\* Listen: its deferred function.

\* queryerCloseCh <- struct{}{} meets Subscribe's waiting goroutine.
Handshake(e) ==
  /\ sub[e].listen = "handshake"
  /\ sub[e].closer = "wait"
  /\ sub' = [sub EXCEPT ![e].closer = "close", ![e].listen = "lock"]
  /\ UNCHANGED <<clientGone, crashed>>

\* Mutant: the deferred function does not lock.
LockForgotten(e) ==
  /\ sub[e].listen = "lock"
  /\ sub' = [sub EXCEPT ![e].listen = "closeCloseCh"]
  /\ UNCHANGED <<clientGone, crashed>>

Lock(e) ==
  /\ sub[e].listen = "lock"
  /\ ~sub[e].locked
  /\ sub' = [sub EXCEPT ![e].locked = TRUE, ![e].listen = "closeCloseCh"]
  /\ UNCHANGED <<clientGone, crashed>>

\* close(queryerCloseCh), which nobody waits on any more, and close(closeCh).
CloseCloseCh(e) ==
  /\ sub[e].listen = "closeCloseCh"
  /\ sub' = [sub EXCEPT ![e].closeChOpen = FALSE, ![e].listen = "closeRespCh"]
  /\ UNCHANGED <<clientGone, crashed>>

CloseRespCh(e) ==
  /\ sub[e].listen = "closeRespCh"
  /\ sub' = [sub EXCEPT ![e].respChOpen = FALSE, ![e].listen = "setClosed"]
  /\ UNCHANGED <<clientGone, crashed>>

SetClosed(e) ==
  /\ sub[e].listen = "setClosed"
  /\ sub' = [sub EXCEPT ![e].isClosed = TRUE, ![e].listen = "unlock"]
  /\ UNCHANGED <<clientGone, crashed>>

\* Unlocking a mutex that is not locked is fatal.
Unlock(e) ==
  /\ sub[e].listen = "unlock"
  /\ IF sub[e].locked
     THEN /\ sub' = [sub EXCEPT ![e].locked = FALSE, ![e].listen = "done"]
          /\ UNCHANGED <<clientGone, crashed>>
     ELSE Crash("unlock of unlocked mutex")

Listen(e) ==
  \/ Receive(e) \/ ReceiveNil(e) \/ ReceiveClose(e)
  \/ ExecutePanics(e) \/ WriteAnswer(e) \/ WriteFails(e)
  \/ Handshake(e) \/ Lock(e) \/ CloseCloseCh(e) \/ CloseRespCh(e)
  \/ SetClosed(e) \/ Unlock(e)
-----------------------------------------------------------------------------
\* Close.

\* TryLock: its result is ignored, so Close goes on without the lock as well.
TryLock(e) ==
  /\ sub[e].close = "tryLock"
  /\ sub' = [sub EXCEPT ![e].locked = TRUE, ![e].close = "readFlag"]
  /\ UNCHANGED <<clientGone, crashed>>

\* isClosed := se.isClosed
ReadFlag(e) ==
  /\ sub[e].close = "readFlag"
  /\ sub' = [sub EXCEPT
       ![e].close = IF sub[e].isClosed THEN "unlockAndReturn" ELSE "unlockAndSend"]
  /\ UNCHANGED <<clientGone, crashed>>

CloseUnlock(e) ==
  /\ sub[e].close \in {"unlockAndReturn", "unlockAndSend"}
  /\ IF sub[e].locked
     THEN /\ sub' = [sub EXCEPT ![e].locked = FALSE,
               ![e].close = IF @ = "unlockAndSend" THEN "send" ELSE "done"]
          /\ UNCHANGED <<clientGone, crashed>>
     ELSE Crash("unlock of unlocked mutex")

\* closeCh <- struct{}{}, closed before or while Close waits to send.
CloseSendPanics(e) ==
  /\ sub[e].close = "send"
  /\ ~sub[e].closeChOpen
  /\ Crash("send on closed closeCh")

Close(e) == TryLock(e) \/ ReadFlag(e) \/ CloseUnlock(e) \/ CloseSendPanics(e)
-----------------------------------------------------------------------------
Goroutines(e) == Reader(e) \/ CloseConn(e) \/ Listen(e) \/ Close(e)

Environment ==
  \/ \E e \in Entry :
       \/ Subscribe(e) \/ SubscribeFails(e) \/ StartListen(e) \/ StartClose(e)
       \/ Send(e)
  \/ ClientLeaves

Next == crashed = "no" /\ (Environment \/ \E e \in Entry : Goroutines(e))

\* Every goroutine that can run does.  A select with several channels ready
\* picks one at random: it cannot pass one over for ever.
Fairness ==
  \A e \in Entry :
    /\ WF_vars(crashed = "no" /\ StartListen(e))
    /\ WF_vars(crashed = "no" /\ Reader(e))
    /\ WF_vars(crashed = "no" /\ CloseConn(e))
    /\ WF_vars(crashed = "no" /\ Listen(e))
    /\ WF_vars(crashed = "no" /\ Close(e))
    /\ SF_vars(crashed = "no" /\ ReceiveClose(e))

Spec == Init /\ [][Next]_vars /\ Fairness
-----------------------------------------------------------------------------
EntryType ==
  [listen : {"none", "select", "answer", "handshake", "lock", "closeCloseCh",
             "closeRespCh", "setClosed", "unlock", "done"},
   reader : {"none", "read", "send", "sendNil", "done"},
   closer : {"none", "wait", "close", "done"},
   conn : {"none", "open", "closed"},
   close : {"none", "tryLock", "readFlag", "unlockAndReturn", "unlockAndSend", "send", "done"},
   locked : BOOLEAN, isClosed : BOOLEAN, closeChOpen : BOOLEAN, respChOpen : BOOLEAN,
   subscribed : {"no", "yes", "failed"},
   log : Seq(Kind), read : Nat, got : Nat, delivered : Seq(Nat)]

TypeOK ==
  /\ clientGone \in BOOLEAN
  /\ crashed \in {"no", "send on closed respCh", "send on closed closeCh",
                  "unlock of unlocked mutex", "nil dereference in Execute"}
  /\ sub \in [Entry -> EntryType]

\* When Listen learns from the reader that the service has ended the
\* subscription, every message before the end is with the client already, in the
\* order in which it was sent and nothing twice.
DrainsBeforeEnd ==
  [][\A e \in Entry :
       sub[e].listen = "select" /\ sub[e].reader = "sendNil" /\ sub'[e].reader = "done"
         => sub[e].delivered = [k \in 1 .. sub[e].read - 1 |-> k]]_vars

\* What Subscribe and Listen started has ended and given back its connection.
Released(e) ==
  /\ sub[e].listen = "done"
  /\ sub[e].reader = "done"
  /\ sub[e].closer = "done"
  /\ sub[e].close \in {"none", "done"}
  /\ sub[e].conn = "closed"
  /\ ~sub[e].locked

\* Once a subscription is stopped, ended by its service, or cannot be written
\* to its client, all its goroutines end and its connection to the service is
\* closed, unless the process dies on the way.
ReleasesEverything ==
  \A e \in Entry :
    /\ sub[e].subscribed = "yes"
    /\ \/ sub[e].close # "none"
       \/ sub[e].reader = "sendNil"
       \/ sub[e].listen = "handshake"
    ~> Released(e) \/ crashed # "no"

HasEmpty(e) == \E k \in DOMAIN sub[e].log : sub[e].log[k] = "empty"

\* Each way in which the process can die, and what it takes.  The mutex: Close,
\* which ignores whether its TryLock succeeded, meets Listen's deferred function
\* under the lock.  closeCh: Close passed its look at isClosed before Listen had
\* set it.  respCh: the reader brings a message when Listen has ended without
\* it, that is for a stop, a write that failed, or a message without a payload.
\* Execute: a message without any insertion point for the further steps.
CrashesOnlyBy ==
  /\ crashed = "unlock of unlocked mutex" =>
       \E e \in Entry : /\ sub[e].close \notin {"none", "tryLock"}
                        /\ sub[e].listen \in {"unlock", "done"}
  /\ crashed = "send on closed closeCh" =>
       \E e \in Entry : sub[e].close = "send" /\ ~sub[e].closeChOpen
  /\ crashed = "send on closed respCh" =>
       \E e \in Entry : /\ sub[e].reader = "send"
                        /\ sub[e].close # "none" \/ clientGone \/ HasEmpty(e)
  /\ crashed = "nil dereference in Execute" =>
       \E e \in HasSubqueries : sub[e].got > 0 /\ sub[e].log[sub[e].got] = "null"

\* Which goroutines a subscription has: none before it is subscribed, and no
\* Listen or Close if that failed.
Started(e) == LET s == sub[e] IN
  /\ s.subscribed = "no" <=> s.closer = "none"
  /\ s.subscribed = "no" => s.reader = "none" /\ s.conn = "none" /\ s.read = 0
  /\ s.subscribed # "yes" => s.listen = "none"
  /\ s.subscribed = "yes" => s.reader # "none" /\ s.conn # "none"
  /\ s.close # "none" => s.listen # "none"

\* The deferred function of Listen goes through its steps after the handshake
\* with the goroutine that closes the connection, and each leaves its mark.
Stages(e) == LET s == sub[e] IN
  /\ s.listen \in {"lock", "closeCloseCh", "closeRespCh", "setClosed", "unlock", "done"}
       <=> s.closer \in {"close", "done"}
  /\ s.closeChOpen <=> s.listen \notin {"closeRespCh", "setClosed", "unlock", "done"}
  /\ s.respChOpen <=> s.listen \notin {"setClosed", "unlock", "done"}
  /\ s.isClosed <=> s.listen \in {"unlock", "done"}
  /\ s.close = "none" =>
       (s.locked <=> s.listen \in {"closeCloseCh", "closeRespCh", "setClosed", "unlock"})
  /\ s.listen \in {"closeCloseCh", "closeRespCh", "setClosed", "unlock"} /\ ~s.locked =>
       s.close \in {"send", "done"}
  /\ s.close \in {"readFlag", "unlockAndReturn", "unlockAndSend"} /\ ~s.locked =>
       s.listen = "done"

\* While Listen passes messages on, the reader is at most one ahead of it, the
\* connection closes by the service's end only, and all that Listen received is
\* with the client, but for the message it is answering.
Passing(e) == LET s == sub[e] IN
  /\ s.got <= s.read /\ s.read <= Len(s.log) /\ Len(s.delivered) <= s.got
  /\ s.reader = "read" => s.read = s.got
  /\ s.reader = "send" => s.read = s.got + 1
  /\ s.reader = "sendNil" /\ s.subscribed = "yes" /\ s.listen \in {"none", "select", "answer"} =>
       s.read = s.got + 1
  /\ s.closer = "wait" /\ s.conn = "closed" => s.reader \in {"sendNil", "done"}
  /\ s.listen = "none" => s.got = 0
  /\ s.listen = "answer" => s.got > 0
  /\ s.listen \in {"none", "select"} => s.delivered = [k \in 1 .. s.got |-> k]
  /\ s.listen = "answer" => s.delivered = [k \in 1 .. s.got - 1 |-> k]

\* Why Listen stops passing messages on: the reader has ended, or the
\* subscription is stopped, its client gone, or a message was without payload.
Stopping(e) ==
  sub[e].listen \notin {"none", "select", "answer"} =>
    sub[e].reader = "done" \/ sub[e].close # "none" \/ clientGone \/ HasEmpty(e)

EntryInv(e) == Started(e) /\ Stages(e) /\ Passing(e) /\ Stopping(e)

\* The inductive invariant.
IInv ==
  /\ TypeOK
  /\ \A e \in Entry : EntryInv(e)
  /\ CrashesOnlyBy

\* Stopping a subscription, whatever its goroutines are doing, does not bring
\* the process down: Close asks isClosed under a lock before it sends, and the
\* reader recovers from sends on a closed channel.
StopIsSafe ==
  crashed \in {"no", "nil dereference in Execute"}
    \/ clientGone
    \/ \E e \in Entry : \E k \in DOMAIN sub[e].log : sub[e].log[k] = "empty"
=============================================================================
