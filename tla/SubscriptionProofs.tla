------------------------- MODULE SubscriptionProofs -------------------------
(***************************************************************************)
(* Proofs about SubscriptionEntry for any number of subscriptions, any     *)
(* kinds of message and any number of them: what the goroutines of a       *)
(* subscription, its mutex and its channels may be at together, hence what  *)
(* it takes to bring the process down, and that every message is with the  *)
(* client before its end.                                                  *)
(*                                                                         *)
(* And about SubscriptionHandler for any number of ids, subscriptions and  *)
(* connection_init messages: what is in the dictionary is running and      *)
(* asked to close at most once, and what runs on behind a handler that has *)
(* returned was pushed out of the dictionary.                              *)
(***************************************************************************)
EXTENDS SubscriptionHandler, TLAPS

\* A step of one subscription, all of them but the client's leaving.
EntryStep(e) ==
  \/ Subscribe(e) \/ SubscribeFails(e) \/ StartListen(e) \/ StartClose(e)
  \/ Send(e) \/ Goroutines(e)

LEMMA InitIInv == Init => IInv
<1> SUFFICES ASSUME Init PROVE IInv
  OBVIOUS
<1>1. NewEntry \in EntryType
  BY DEF NewEntry, EntryType
<1>2. TypeOK
  BY <1>1 DEF Init, TypeOK
<1>3. \A e \in Entry : Started(e) /\ Stages(e) /\ Stopping(e)
  BY DEF Init, NewEntry, Started, Stages, Stopping
<1>4. \A e \in Entry : Passing(e)
  <2>1. SUFFICES ASSUME NEW e \in Entry PROVE Passing(e)
    OBVIOUS
  <2>2. sub[e] = NewEntry
    BY DEF Init
  <2>3. <<>> = [k \in 1 .. 0 |-> k]
    OBVIOUS
  <2>4. sub[e].got = 0 /\ sub[e].delivered = [k \in 1 .. sub[e].got |-> k]
    BY <2>2, <2>3 DEF NewEntry
  <2>5. sub[e].read = 0 /\ Len(sub[e].log) = 0 /\ Len(sub[e].delivered) = 0
    BY <2>2 DEF NewEntry
  <2>6. sub[e].reader = "none" /\ sub[e].closer = "none" /\ sub[e].listen = "none"
    BY <2>2 DEF NewEntry
  <2>7. QED
    BY <2>4, <2>5, <2>6 DEF Passing
<1>5. CrashesOnlyBy
  BY DEF Init, CrashesOnlyBy
<1>6. QED
  BY <1>2, <1>3, <1>4, <1>5 DEF IInv, EntryInv

\* A subscription that takes no step keeps its invariant; the client may go.
LEMMA OtherEntry ==
  ASSUME NEW d \in Entry, EntryInv(d), sub'[d] = sub[d], clientGone => clientGone'
  PROVE  EntryInv(d)'
  BY DEF EntryInv, Started, Stages, Passing, Stopping, HasEmpty

\* The handler's part, and the service's.
LEMMA EnvironmentStep ==
  ASSUME TypeOK, NEW e \in Entry, EntryInv(e), 
         Subscribe(e) \/ SubscribeFails(e) \/ StartListen(e) \/ StartClose(e) \/ Send(e)
  PROVE  TypeOK' /\ EntryInv(e)'
<1>a. sub \in [Entry -> EntryType] /\ sub[e] \in EntryType
  BY DEF TypeOK
<1>1. CASE Subscribe(e)
  <2>1. TypeOK'
    BY <1>1, <1>a DEF TypeOK, EntryType, Subscribe
  <2>2. EntryInv(e)'
    BY <1>1, <1>a DEF Subscribe, EntryType, EntryInv, Started, Stages, Passing, Stopping, HasEmpty
  <2>3. QED
    BY <2>1, <2>2
<1>2. CASE SubscribeFails(e)
  <2>1. TypeOK'
    BY <1>2, <1>a DEF TypeOK, EntryType, SubscribeFails
  <2>2. EntryInv(e)'
    BY <1>2, <1>a DEF SubscribeFails, EntryType, EntryInv, Started, Stages, Passing, Stopping, HasEmpty
  <2>3. QED
    BY <2>1, <2>2
<1>3. CASE StartListen(e)
  <2>1. TypeOK'
    BY <1>3, <1>a DEF TypeOK, EntryType, StartListen
  <2>2. EntryInv(e)'
    BY <1>3, <1>a DEF StartListen, EntryType, EntryInv, Started, Stages, Passing, Stopping, HasEmpty
  <2>3. QED
    BY <2>1, <2>2
<1>4. CASE StartClose(e)
  <2>1. TypeOK'
    BY <1>4, <1>a DEF TypeOK, EntryType, StartClose
  <2>2. EntryInv(e)'
    BY <1>4, <1>a DEF StartClose, EntryType, EntryInv, Started, Stages, Passing, Stopping, HasEmpty
  <2>3. QED
    BY <2>1, <2>2
<1>5. CASE Send(e)
  <2>1. PICK kind \in Kind : sub' = [sub EXCEPT ![e].log = Append(@, kind)]
    BY <1>5 DEF Send
  <2>2. Append(sub[e].log, kind) \in Seq(Kind)
    BY <1>a DEF EntryType
  <2>3. TypeOK'
    BY <1>5, <1>a, <2>1, <2>2 DEF TypeOK, EntryType, Send
  <2>4. /\ sub'[e] = [sub[e] EXCEPT !.log = Append(sub[e].log, kind)]
        /\ clientGone' = clientGone
    BY <1>5, <1>a, <2>1 DEF Send
  <2>a. sub[e].log \in Seq(Kind) /\ sub'[e].log = Append(sub[e].log, kind)
    BY <1>a, <2>4 DEF EntryType
  <2>b. \A k \in DOMAIN sub[e].log : k \in DOMAIN sub'[e].log /\ sub'[e].log[k] = sub[e].log[k]
    BY <2>a
  <2>5. /\ Len(Append(sub[e].log, kind)) = Len(sub[e].log) + 1
        /\ HasEmpty(e) => HasEmpty(e)'
    BY <2>a, <2>b DEF HasEmpty
  <2>6. Started(e)' /\ Stages(e)' /\ Passing(e)'
    BY <1>5, <1>a, <2>4, <2>5 DEF Send, EntryType, EntryInv, Started, Stages, Passing
  <2>7. Stopping(e)'
    BY <1>a, <2>4, <2>5 DEF EntryType, EntryInv, Stopping
  <2>8. QED
    BY <2>3, <2>6, <2>7 DEF EntryInv
<1>6. QED
  BY <1>1, <1>2, <1>3, <1>4, <1>5

\* The two goroutines of MultiOpQueryer.Subscribe.
LEMMA ReaderStep ==
  ASSUME TypeOK, NEW e \in Entry, EntryInv(e), Reader(e) \/ CloseConn(e)
  PROVE  TypeOK' /\ EntryInv(e)'
<1>a. sub \in [Entry -> EntryType] /\ sub[e] \in EntryType
  BY DEF TypeOK
<1>1. CASE Read(e)
  <2> DEFINE kind == sub[e].log[sub[e].read + 1]
  <2>a. sub[e].read + 1 \in Nat
    BY <1>a DEF EntryType
  <2>1. CASE kind = "end"
    <3>1. sub' = [sub EXCEPT ![e].read = @ + 1, ![e].reader = "sendNil", ![e].conn = "closed"]
      BY <1>1, <2>1 DEF Read
    <3>2. TypeOK'
      BY <1>1, <1>a, <2>a, <3>1 DEF TypeOK, EntryType, Read
    <3>3. EntryInv(e)'
      BY <1>1, <1>a, <3>1 DEF Read, EntryType, EntryInv, Started, Stages, Passing, Stopping, HasEmpty
    <3>4. QED
      BY <3>2, <3>3
  <2>2. CASE kind # "end"
    <3>1. sub' = [sub EXCEPT ![e].read = @ + 1, ![e].reader = "send"]
      BY <1>1, <2>2 DEF Read
    <3>2. TypeOK'
      BY <1>1, <1>a, <2>a, <3>1 DEF TypeOK, EntryType, Read
    <3>3. EntryInv(e)'
      BY <1>1, <1>a, <3>1 DEF Read, EntryType, EntryInv, Started, Stages, Passing, Stopping, HasEmpty
    <3>4. QED
      BY <3>2, <3>3
  <2>3. QED
    BY <2>1, <2>2
<1>2. CASE ReadFails(e)
  <2>1. TypeOK'
    BY <1>2, <1>a DEF TypeOK, EntryType, ReadFails
  <2>2. EntryInv(e)'
    BY <1>2, <1>a DEF ReadFails, EntryType, EntryInv, Started, Stages, Passing, Stopping, HasEmpty
  <2>3. QED
    BY <2>1, <2>2
<1>3. CASE SendPanics(e)
  BY <1>3, OtherEntry DEF SendPanics, Crash, TypeOK
<1>4. CASE SendNilRecovers(e)
  <2>1. TypeOK'
    BY <1>4, <1>a DEF TypeOK, EntryType, SendNilRecovers
  <2>2. EntryInv(e)'
    BY <1>4, <1>a DEF SendNilRecovers, EntryType, EntryInv, Started, Stages, Passing, Stopping, HasEmpty
  <2>3. QED
    BY <2>1, <2>2
<1>5. CASE CloseConn(e)
  <2>1. TypeOK'
    BY <1>5, <1>a DEF TypeOK, EntryType, CloseConn
  <2>2. EntryInv(e)'
    BY <1>5, <1>a DEF CloseConn, EntryType, EntryInv, Started, Stages, Passing, Stopping, HasEmpty
  <2>3. QED
    BY <2>1, <2>2
<1>6. QED
  BY <1>1, <1>2, <1>3, <1>4, <1>5 DEF Reader

\* Listen, its deferred function included.
LEMMA ListenStep ==
  ASSUME TypeOK, NEW e \in Entry, EntryInv(e), Listen(e)
  PROVE  TypeOK' /\ EntryInv(e)'
<1>a. sub \in [Entry -> EntryType] /\ sub[e] \in EntryType
  BY DEF TypeOK
<1>1. CASE Receive(e)
  <2>1. TypeOK'
    BY <1>1, <1>a DEF TypeOK, EntryType, Receive
  <2>2. EntryInv(e)'
    BY <1>1, <1>a DEF Receive, EntryType, EntryInv, Started, Stages, Passing, Stopping, HasEmpty
  <2>3. QED
    BY <2>1, <2>2
<1>2. CASE ReceiveNil(e)
  <2>1. TypeOK'
    BY <1>2, <1>a DEF TypeOK, EntryType, ReceiveNil
  <2>2. EntryInv(e)'
    BY <1>2, <1>a DEF ReceiveNil, EntryType, EntryInv, Started, Stages, Passing, Stopping, HasEmpty
  <2>3. QED
    BY <2>1, <2>2
<1>3. CASE ReceiveClose(e)
  <2>1. TypeOK'
    BY <1>3, <1>a DEF TypeOK, EntryType, ReceiveClose
  <2>2. EntryInv(e)'
    BY <1>3, <1>a DEF ReceiveClose, EntryType, EntryInv, Started, Stages, Passing, Stopping, HasEmpty
  <2>3. QED
    BY <2>1, <2>2
<1>4. CASE ExecutePanics(e)
  BY <1>4, OtherEntry DEF ExecutePanics, Crash, TypeOK
<1>5. CASE WriteAnswer(e)
  <2>1. Append(sub[e].delivered, sub[e].got) \in Seq(Nat)
    BY <1>a DEF EntryType
  <2>2. TypeOK'
    BY <1>5, <1>a, <2>1 DEF TypeOK, EntryType, WriteAnswer
  <2>3. EntryInv(e)'
    BY <1>5, <1>a DEF WriteAnswer, EntryType, EntryInv, Started, Stages, Passing, Stopping, HasEmpty
  <2>4. QED
    BY <2>2, <2>3
<1>6. CASE WriteFails(e)
  <2>1. TypeOK'
    BY <1>6, <1>a DEF TypeOK, EntryType, WriteFails
  <2>2. EntryInv(e)'
    BY <1>6, <1>a DEF WriteFails, EntryType, EntryInv, Started, Stages, Passing, Stopping, HasEmpty
  <2>3. QED
    BY <2>1, <2>2
<1>7. CASE Handshake(e)
  <2>1. TypeOK'
    BY <1>7, <1>a DEF TypeOK, EntryType, Handshake
  <2>2. EntryInv(e)'
    BY <1>7, <1>a DEF Handshake, EntryType, EntryInv, Started, Stages, Passing, Stopping, HasEmpty
  <2>3. QED
    BY <2>1, <2>2
<1>8. CASE Lock(e)
  <2>1. TypeOK'
    BY <1>8, <1>a DEF TypeOK, EntryType, Lock
  <2>2. EntryInv(e)'
    BY <1>8, <1>a DEF Lock, EntryType, EntryInv, Started, Stages, Passing, Stopping, HasEmpty
  <2>3. QED
    BY <2>1, <2>2
<1>9. CASE CloseCloseCh(e)
  <2>1. TypeOK'
    BY <1>9, <1>a DEF TypeOK, EntryType, CloseCloseCh
  <2>2. EntryInv(e)'
    BY <1>9, <1>a DEF CloseCloseCh, EntryType, EntryInv, Started, Stages, Passing, Stopping, HasEmpty
  <2>3. QED
    BY <2>1, <2>2
<1>10. CASE CloseRespCh(e)
  <2>1. TypeOK'
    BY <1>10, <1>a DEF TypeOK, EntryType, CloseRespCh
  <2>2. EntryInv(e)'
    BY <1>10, <1>a DEF CloseRespCh, EntryType, EntryInv, Started, Stages, Passing, Stopping, HasEmpty
  <2>3. QED
    BY <2>1, <2>2
<1>11. CASE SetClosed(e)
  <2>1. TypeOK'
    BY <1>11, <1>a DEF TypeOK, EntryType, SetClosed
  <2>2. EntryInv(e)'
    BY <1>11, <1>a DEF SetClosed, EntryType, EntryInv, Started, Stages, Passing, Stopping, HasEmpty
  <2>3. QED
    BY <2>1, <2>2
<1>12. CASE Unlock(e)
  <2>1. CASE sub[e].locked
    <3>1. sub' = [sub EXCEPT ![e].locked = FALSE, ![e].listen = "done"] /\ UNCHANGED <<clientGone, crashed>>
      BY <1>12, <2>1 DEF Unlock
    <3>2. TypeOK'
      BY <1>a, <3>1 DEF TypeOK, EntryType
    <3>3. EntryInv(e)'
      <4>1. sub[e].listen = "unlock"
        BY <1>12 DEF Unlock
      <4>2. QED
        BY <1>a, <3>1, <4>1 DEF EntryType, EntryInv, Started, Stages, Passing, Stopping, HasEmpty
    <3>4. QED
      BY <3>2, <3>3
  <2>2. CASE ~sub[e].locked
    BY <1>12, <2>2, OtherEntry DEF Unlock, Crash, TypeOK
  <2>3. QED
    BY <2>1, <2>2
<1>13. QED
  BY <1>1, <1>2, <1>3, <1>4, <1>5, <1>6, <1>7, <1>8, <1>9, <1>10, <1>11, <1>12 DEF Listen

\* Close.
LEMMA CloseStep ==
  ASSUME TypeOK, NEW e \in Entry, EntryInv(e), Close(e)
  PROVE  TypeOK' /\ EntryInv(e)'
<1>a. sub \in [Entry -> EntryType] /\ sub[e] \in EntryType
  BY DEF TypeOK
<1>1. CASE TryLock(e)
  <2>1. TypeOK'
    BY <1>1, <1>a DEF TypeOK, EntryType, TryLock
  <2>2. EntryInv(e)'
    BY <1>1, <1>a DEF TryLock, EntryType, EntryInv, Started, Stages, Passing, Stopping, HasEmpty
  <2>3. QED
    BY <2>1, <2>2
<1>2. CASE ReadFlag(e)
  <2>1. TypeOK'
    BY <1>2, <1>a DEF TypeOK, EntryType, ReadFlag
  <2>2. EntryInv(e)'
    BY <1>2, <1>a DEF ReadFlag, EntryType, EntryInv, Started, Stages, Passing, Stopping, HasEmpty
  <2>3. QED
    BY <2>1, <2>2
<1>3. CASE CloseUnlock(e)
  <2>1. CASE sub[e].locked
    <3>1. sub' = [sub EXCEPT ![e].locked = FALSE, ![e].close = IF @ = "unlockAndSend" THEN "send" ELSE "done"] /\ UNCHANGED <<clientGone, crashed>>
      BY <1>3, <2>1 DEF CloseUnlock
    <3>2. TypeOK'
      BY <1>a, <3>1 DEF TypeOK, EntryType
    <3>3. EntryInv(e)'
      <4>1. sub[e].close \in {"unlockAndReturn", "unlockAndSend"}
        BY <1>3 DEF CloseUnlock
      <4>2. QED
        BY <1>a, <3>1, <4>1 DEF EntryType, EntryInv, Started, Stages, Passing, Stopping, HasEmpty
    <3>4. QED
      BY <3>2, <3>3
  <2>2. CASE ~sub[e].locked
    BY <1>3, <2>2, OtherEntry DEF CloseUnlock, Crash, TypeOK
  <2>3. QED
    BY <2>1, <2>2
<1>4. CASE CloseSendPanics(e)
  BY <1>4, OtherEntry DEF CloseSendPanics, Crash, TypeOK
<1>5. QED
  BY <1>1, <1>2, <1>3, <1>4 DEF Close

\* The subscriptions share nothing: a step of one is a step of no other.
LEMMA EntryFrame ==
  ASSUME TypeOK, NEW e \in Entry, EntryStep(e)
  PROVE  /\ \A d \in Entry \ {e} : sub'[d] = sub[d]
         /\ clientGone' = clientGone
  BY DEF TypeOK, EntryStep, Subscribe, SubscribeFails, StartListen, StartClose, Send, Goroutines, Reader, Read, ReadFails,
              SendPanics, SendNilRecovers, CloseConn, Listen, Receive, ReceiveNil, ReceiveClose,
              ExecutePanics, WriteAnswer, WriteFails, Handshake, Lock, CloseCloseCh, CloseRespCh,
              SetClosed, Unlock, Close, TryLock, ReadFlag, CloseUnlock, CloseSendPanics, Crash

LEMMA EntryStepKeeps ==
  ASSUME TypeOK, \A d \in Entry : EntryInv(d), NEW e \in Entry, EntryStep(e)
  PROVE  TypeOK' /\ \A d \in Entry : EntryInv(d)'
<1>1. TypeOK' /\ EntryInv(e)'
  BY EnvironmentStep, ReaderStep, ListenStep, CloseStep DEF EntryStep, Goroutines
<1>2. ASSUME NEW d \in Entry \ {e} PROVE EntryInv(d)'
  BY EntryFrame, OtherEntry
<1>3. QED
  BY <1>1, <1>2

\* The client's leaving.
LEMMA LeavingKeeps ==
  ASSUME TypeOK, \A d \in Entry : EntryInv(d), ClientLeaves
  PROVE  TypeOK' /\ \A d \in Entry : EntryInv(d)'
<1>1. TypeOK'
  BY DEF ClientLeaves, TypeOK
<1>2. ASSUME NEW d \in Entry PROVE EntryInv(d)'
  BY OtherEntry DEF ClientLeaves
<1>3. QED
  BY <1>1, <1>2

\* What a process may die of, in the step in which it does.
LEMMA Deaths ==
  ASSUME TypeOK, \A d \in Entry : EntryInv(d), NEW e \in Entry, EntryStep(e), crashed = "no"
  PROVE  CrashesOnlyBy'
<1>a. sub[e] \in EntryType /\ EntryInv(e)
  BY DEF TypeOK
<1>1. CASE SendPanics(e)
  <2>1. /\ sub[e].reader = "send"
        /\ sub[e].close # "none" \/ clientGone \/ HasEmpty(e)
    BY <1>1, <1>a DEF SendPanics, EntryInv, Stages, Stopping
  <2>2. QED
    BY <1>1, <2>1 DEF SendPanics, Crash, CrashesOnlyBy, HasEmpty
<1>2. CASE ExecutePanics(e)
  <2>1. /\ e \in HasSubqueries
        /\ sub[e].got > 0
        /\ sub[e].log[sub[e].got] = "null"
    BY <1>2, <1>a DEF ExecutePanics, NothingToExecute, EntryInv, Passing
  <2>2. QED
    BY <1>2, <2>1 DEF ExecutePanics, Crash, CrashesOnlyBy
<1>3. CASE Unlock(e)
  <2>1. CASE sub[e].locked
    BY <1>3, <2>1 DEF Unlock, CrashesOnlyBy
  <2>2. CASE ~sub[e].locked
    <3>1. sub[e].close \in {"send", "done"} /\ sub[e].listen = "unlock"
      BY <1>3, <1>a, <2>2 DEF Unlock, EntryInv, Stages
    <3>2. QED
      BY <1>3, <2>2, <3>1 DEF Unlock, Crash, CrashesOnlyBy
  <2>3. QED
    BY <2>1, <2>2
<1>4. CASE CloseUnlock(e)
  <2>1. CASE sub[e].locked
    BY <1>4, <2>1 DEF CloseUnlock, CrashesOnlyBy
  <2>2. CASE ~sub[e].locked
    <3>1. sub[e].close \in {"unlockAndReturn", "unlockAndSend"} /\ sub[e].listen = "done"
      BY <1>4, <1>a, <2>2 DEF CloseUnlock, EntryInv, Stages
    <3>2. QED
      BY <1>4, <2>2, <3>1 DEF CloseUnlock, Crash, CrashesOnlyBy
  <2>3. QED
    BY <2>1, <2>2
<1>8. CASE CloseSendPanics(e)
  BY <1>8 DEF CloseSendPanics, Crash, CrashesOnlyBy
<1>5. CASE crashed' = "no"
  BY <1>5 DEF CrashesOnlyBy
<1>6. SendPanics(e) \/ ExecutePanics(e) \/ Unlock(e) \/ CloseUnlock(e) \/ CloseSendPanics(e) \/ crashed' = "no"
  BY DEF EntryStep, Subscribe, SubscribeFails, StartListen, StartClose, Send, Goroutines, Reader, Read,
         ReadFails, SendNilRecovers, CloseConn, Listen, Receive, ReceiveNil, ReceiveClose, WriteAnswer,
         WriteFails, Handshake, Lock, CloseCloseCh, CloseRespCh, SetClosed, Close, TryLock, ReadFlag
<1>7. QED
  BY <1>1, <1>2, <1>3, <1>4, <1>5, <1>6, <1>8

LEMMA NextIInv == IInv /\ [Next]_vars => IInv'
<1> SUFFICES ASSUME IInv, [Next]_vars PROVE IInv'
  OBVIOUS
<1>a. TypeOK /\ (\A e \in Entry : EntryInv(e)) /\ CrashesOnlyBy
  BY DEF IInv
<1>1. CASE \E e \in Entry : crashed = "no" /\ EntryStep(e)
  BY <1>1, <1>a, EntryStepKeeps, Deaths DEF IInv
<1>2. CASE crashed = "no" /\ ClientLeaves
  <2>1. CrashesOnlyBy'
    BY <1>2 DEF ClientLeaves, CrashesOnlyBy
  <2>2. QED
    BY <1>2, <1>a, <2>1, LeavingKeeps DEF IInv
<1>3. CASE UNCHANGED vars
  <2>1. TypeOK' /\ CrashesOnlyBy'
    BY <1>3, <1>a DEF vars, TypeOK, CrashesOnlyBy, HasEmpty
  <2>2. ASSUME NEW e \in Entry PROVE EntryInv(e)'
    BY <1>3, <1>a, OtherEntry DEF vars
  <2>3. QED
    BY <2>1, <2>2 DEF IInv
<1>4. QED
  BY <1>1, <1>2, <1>3 DEF Next, Environment, EntryStep
-----------------------------------------------------------------------------
\* The goroutines of every subscription stay where their channels and the mutex
\* put them together (subscription_entry.go, queryer/subscribe.go).
THEOREM Invariance == Spec => []IInv
  BY InitIInv, NextIInv, PTL DEF Spec

\* The mutex and closeCh bring the process down only when a stop meets Listen's
\* deferred function, respCh only after a stop, a client's leaving or a message
\* without a payload, and Execute only on a message without any insertion point
\* (Listen, Close and Subscribe).
THEOREM WhatEndsTheProcess == Spec => []CrashesOnlyBy
<1>1. IInv => CrashesOnlyBy
  BY DEF IInv
<1>2. QED
  BY <1>1, Invariance, PTL

\* Listen learns of the end of a subscription after it has written every message
\* before the end to the client, in order and once.
THEOREM MessagesBeforeEnd == Spec => DrainsBeforeEnd
<1>1. IInv =>
        \A e \in Entry :
          sub[e].listen = "select" /\ sub[e].reader = "sendNil" =>
            sub[e].delivered = [k \in 1 .. sub[e].read - 1 |-> k]
  <2>1. SUFFICES ASSUME IInv, NEW e \in Entry, sub[e].listen = "select", sub[e].reader = "sendNil"
                 PROVE  sub[e].delivered = [k \in 1 .. sub[e].read - 1 |-> k]
    OBVIOUS
  <2>2. sub[e] \in EntryType /\ EntryInv(e)
    BY <2>1 DEF IInv, TypeOK
  <2>3. sub[e].got = sub[e].read - 1
    BY <2>1, <2>2 DEF EntryType, EntryInv, Started, Passing
  <2>4. QED
    BY <2>1, <2>2, <2>3 DEF EntryInv, Passing
<1>2. IInv =>
        [\A e \in Entry :
           sub[e].listen = "select" /\ sub[e].reader = "sendNil" /\ sub'[e].reader = "done"
             => sub[e].delivered = [k \in 1 .. sub[e].read - 1 |-> k]]_vars
  BY <1>1
<1>3. QED
  BY <1>2, Invariance, PTL DEF DrainsBeforeEnd
-----------------------------------------------------------------------------
\* The handler.

\* What a step of a subscription's goroutines, or of its service, leaves alone.
LEMMA GoroutineFrame ==
  ASSUME TypeOK, NEW e \in Entry, Send(e) \/ Goroutines(e)
  PROVE  \A d \in Entry :
           /\ sub'[d].subscribed = sub[d].subscribed
           /\ sub'[d].listen = "none" <=> sub[d].listen = "none"
           /\ sub'[d].close = "none" <=> sub[d].close = "none"
           /\ Running(d)' => Running(d)
<1>a. sub \in [Entry -> EntryType] /\ sub[e] \in EntryType
  BY DEF TypeOK
<1>1. \A d \in Entry \ {e} : sub'[d] = sub[d]
  BY EntryFrame DEF EntryStep
<1>2. /\ sub'[e].subscribed = sub[e].subscribed
      /\ sub'[e].listen = "none" <=> sub[e].listen = "none"
      /\ sub'[e].close = "none" <=> sub[e].close = "none"
      /\ sub'[e].listen \in {"select", "answer"} => sub[e].listen \in {"select", "answer"}
  <2>1. CASE Send(e) \/ CloseConn(e)
    BY <1>a, <2>1 DEF EntryType, Send, CloseConn
  <2>2. CASE Read(e)
    BY <1>a, <2>2 DEF EntryType, Read
  <2>3. CASE ReadFails(e) \/ SendNilRecovers(e)
    BY <1>a, <2>3 DEF EntryType, ReadFails, SendNilRecovers
  <2>4. CASE Receive(e) \/ ReceiveNil(e) \/ ReceiveClose(e)
    BY <1>a, <2>4 DEF EntryType, Receive, ReceiveNil, ReceiveClose
  <2>5. CASE WriteAnswer(e) \/ WriteFails(e)
    BY <1>a, <2>5 DEF EntryType, WriteAnswer, WriteFails
  <2>6. CASE Handshake(e) \/ Lock(e) \/ CloseCloseCh(e) \/ CloseRespCh(e) \/ SetClosed(e)
    BY <1>a, <2>6 DEF EntryType, Handshake, Lock, CloseCloseCh, CloseRespCh, SetClosed
  <2>7. CASE Unlock(e)
    <3>1. sub' = sub \/ sub' = [sub EXCEPT ![e].locked = FALSE, ![e].listen = "done"]
      BY <2>7 DEF Unlock, Crash
    <3>2. sub[e].listen = "unlock"
      BY <2>7 DEF Unlock
    <3>3. QED
      BY <1>a, <3>1, <3>2 DEF EntryType
  <2>8. CASE TryLock(e) \/ ReadFlag(e)
    BY <1>a, <2>8 DEF EntryType, TryLock, ReadFlag
  <2>9. CASE CloseUnlock(e)
    <3>1. sub' = sub \/ sub' = [sub EXCEPT ![e].locked = FALSE, ![e].close = "send"]
                     \/ sub' = [sub EXCEPT ![e].locked = FALSE, ![e].close = "done"]
      BY <1>a, <2>9 DEF CloseUnlock, Crash
    <3>2. sub[e].close # "none"
      BY <2>9 DEF CloseUnlock
    <3>3. QED
      BY <1>a, <3>1, <3>2 DEF EntryType
  <2>10. CASE SendPanics(e) \/ ExecutePanics(e) \/ CloseSendPanics(e)
    BY <2>10 DEF SendPanics, ExecutePanics, CloseSendPanics, Crash
  <2>11. QED
    BY <2>1, <2>2, <2>3, <2>4, <2>5, <2>6, <2>7, <2>8, <2>9, <2>10 DEF Goroutines, Reader, Listen, Close
<1>3. QED
  BY <1>1, <1>2 DEF Running

LEMMA HandlerInitIInv == HandlerInit => HandlerIInv
<1> SUFFICES ASSUME HandlerInit PROVE HandlerIInv
  OBVIOUS
<1>1. IInv
  BY InitIInv DEF HandlerInit
<1>2. HandlerTypeOK
  <2>1. inits \in 0 .. MaxHeartbeats
    BY MaxHeartbeatsAssumption DEF HandlerInit
  <2>2. heartbeats \in [Heartbeat -> {"none", "wait", "write", "gone"}]
    BY DEF HandlerInit
  <2>3. QED
    BY <1>1, <2>1, <2>2 DEF HandlerInit, HandlerTypeOK, IInv, NoStart
<1>3. InDict = {}
  BY DEF HandlerInit, InDict, Range
<1>4. \A e \in Entry : sub[e].subscribed = "no" /\ sub[e].listen = "none"
  BY DEF HandlerInit, Init, NewEntry
<1>5. ClosesOnce /\ Registering /\ Tracked /\ Beating
  BY <1>3, <1>4 DEF HandlerInit, ClosesOnce, Registering, Tracked, Running, Beating
<1>6. QED
  BY <1>1, <1>2, <1>5 DEF HandlerIInv, IInv

\* Steps that leave the heartbeats alone, and go on with them only if they had
\* gone on.
LEMMA BeatingKeeps ==
  ASSUME Beating, UNCHANGED <<inits, heartbeats, cancelled>>, clientGone => clientGone',
         handler' \in {"read", "register"} => handler \in {"read", "register"},
         handler \in {"done", "cutShort"} => handler' = handler
  PROVE  Beating'
  BY DEF Beating

\* Close is started for the subscriptions under some ids, none of which has been
\* asked to close, and their keys are gone.
LEMMA CleanKeysKeeps ==
  ASSUME HandlerIInv, NEW ids \in SUBSET Id, CleanKeys(ids),
         clientGone' \in BOOLEAN, clientGone => clientGone', crashed' = crashed
  PROVE  /\ TypeOK' /\ \A e \in Entry : EntryInv(e)'
         /\ dict' \in [Id -> Entry \cup {NoEntry}]
         /\ InDict' \subseteq InDict
         /\ ClosesOnce'
         /\ \A e \in Entry : /\ sub'[e].subscribed = sub[e].subscribed
                             /\ sub'[e].listen = sub[e].listen
                             /\ Running(e)' => Running(e)
                             /\ Running(e)' /\ e \in InDict => e \in InDict'
<1> DEFINE gone == { dict[i] : i \in ids } \ {NoEntry}
<1>a. /\ TypeOK /\ sub \in [Entry -> EntryType]
      /\ dict \in [Id -> Entry \cup {NoEntry}]
      /\ \A e \in Entry : EntryInv(e)
      /\ ClosesOnce /\ Registering
  BY DEF HandlerIInv, HandlerTypeOK, TypeOK
<1>b. \A e : e \in InDict <=> e # NoEntry /\ \E i \in Id : dict[i] = e
  BY <1>a DEF InDict, Range
<1>1. /\ dict' = [i \in Id |-> IF i \in ids THEN NoEntry ELSE dict[i]]
      /\ \A e \in Entry \ gone : sub'[e] = sub[e]
      /\ \A e \in Entry \cap gone : sub'[e] = [sub[e] EXCEPT !.close = "tryLock"]
      /\ sub' = [e \in Entry |-> sub'[e]]
  BY DEF CleanKeys
<1>2. \A e \in gone : e \in Entry /\ e \in InDict
  BY <1>a, <1>b
<1>3. \A e \in gone : sub[e].close = "none" /\ sub[e].subscribed = "yes" /\ sub[e].listen # "none"
  BY <1>a, <1>2 DEF ClosesOnce, Registering
<1>4. TypeOK'
  <2>1. ASSUME NEW e \in Entry PROVE sub'[e] \in EntryType
    <3>1. sub[e] \in EntryType
      BY <1>a
    <3>2. [sub[e] EXCEPT !.close = "tryLock"] \in EntryType
      BY <3>1 DEF EntryType
    <3>3. QED
      BY <1>1, <3>1, <3>2
  <2>2. QED
    BY <1>a, <1>1, <2>1 DEF TypeOK
<1>5. ASSUME NEW e \in Entry PROVE EntryInv(e)'
  <2>1. CASE e \notin gone
    BY <1>a, <1>1, <2>1, OtherEntry
  <2>2. CASE e \in gone
    <3>1. sub[e] \in EntryType /\ EntryInv(e)
      BY <1>a
    <3>2. sub'[e] = [sub[e] EXCEPT !.close = "tryLock"]
      BY <1>1, <2>2
    <3>3. QED
      BY <1>3, <2>2, <3>1, <3>2 DEF EntryType, EntryInv, Started, Stages, Passing, Stopping
  <2>3. QED
    BY <2>1, <2>2
<1>6. dict' \in [Id -> Entry \cup {NoEntry}]
  BY <1>a, <1>1
<1>7. \A e : e \in InDict' <=> e # NoEntry /\ \E i \in Id \ ids : dict[i] = e
  BY <1>1 DEF InDict, Range
<1>8. InDict' \subseteq InDict
  BY <1>b, <1>7
<1>9. ASSUME NEW e \in Entry
      PROVE  /\ sub'[e].subscribed = sub[e].subscribed
             /\ sub'[e].listen = sub[e].listen
             /\ Running(e)' => e \notin gone /\ Running(e)
  <2>1. sub[e] \in EntryType /\ (sub'[e] = sub[e] \/ sub'[e] = [sub[e] EXCEPT !.close = "tryLock"])
        /\ (e \in gone => sub'[e] = [sub[e] EXCEPT !.close = "tryLock"])
    BY <1>a, <1>1
  <2>2. QED
    BY <2>1 DEF EntryType, Running
<1>10. ClosesOnce'
  <2>1. ASSUME NEW e \in InDict' PROVE sub'[e].subscribed = "yes" /\ sub'[e].close = "none"
    <3>1. e \in InDict /\ e \in Entry /\ e \notin gone
      BY <1>a, <1>b, <1>7 DEF ClosesOnce
    <3>2. QED
      BY <1>a, <1>1, <3>1 DEF ClosesOnce
  <2>2. \A i, j \in Id : dict'[i] = dict'[j] /\ dict'[i] # NoEntry => i = j
    BY <1>a, <1>1 DEF ClosesOnce
  <2>3. QED
    BY <2>1, <2>2 DEF ClosesOnce
<1>11. ASSUME NEW e \in Entry, Running(e)', e \in InDict
       PROVE  e \in InDict'
  BY <1>b, <1>7, <1>9, <1>11
<1>12. QED
  BY <1>4, <1>5, <1>6, <1>8, <1>9, <1>10, <1>11

LEMMA InDictType == dict \in [Id -> Entry \cup {NoEntry}] => InDict \subseteq Entry
  BY DEF InDict, Range

\* What does not touch the subscriptions, the dictionary or the registration.
LEMMA BareStepKeeps ==
  ASSUME HandlerIInv, sub' = sub, crashed' = "no", clientGone' \in BOOLEAN, clientGone => clientGone',
         UNCHANGED <<dict, started, replaced>>,
         inits' \in 0 .. MaxHeartbeats, cancelled' \in BOOLEAN,
         heartbeats' \in [Heartbeat -> {"none", "wait", "write", "gone"}], Beating',
         \/ handler # "register" /\ handler' \in {"read", "cleanup", "cutShort"}
         \/ UNCHANGED handler
  PROVE  HandlerIInv'
<1>a. /\ TypeOK /\ HandlerTypeOK /\ ClosesOnce /\ Registering /\ Tracked
      /\ \A e \in Entry : EntryInv(e)
  BY DEF HandlerIInv, HandlerTypeOK
<1>1. HandlerTypeOK'
  BY <1>a DEF HandlerTypeOK, TypeOK
<1>2. ASSUME NEW e \in Entry PROVE EntryInv(e)'
  BY <1>a, OtherEntry
<1>3. CrashesOnlyBy'
  BY DEF CrashesOnlyBy
<1>4. ClosesOnce'
  BY <1>a DEF ClosesOnce, InDict, Range
<1>5. Registering'
  BY <1>a DEF Registering, InDict, Range
<1>6. Tracked'
  BY <1>a DEF Tracked, Running, InDict, Range
<1>7. QED
  BY <1>1, <1>2, <1>3, <1>4, <1>5, <1>6 DEF HandlerIInv

\* start, as far as newSubscriptionEntry: the subscription is waiting to be
\* registered, or its connection has failed and the handler gives up.
LEMMA StartMsgKeeps ==
  ASSUME HandlerIInv, crashed = "no", NEW i \in Id, StartMsg(i)
  PROVE  HandlerIInv'
<1> DEFINE fresh == { x \in Entry : sub[x].subscribed = "no" }
           e == CHOOSE x \in fresh : TRUE
<1>a. /\ TypeOK /\ HandlerTypeOK /\ ClosesOnce /\ Registering /\ Tracked
      /\ \A d \in Entry : EntryInv(d)
      /\ handler = "read"
  BY DEF HandlerIInv, HandlerTypeOK, StartMsg
<1>1. e \in Entry /\ sub[e].subscribed = "no"
  BY DEF StartMsg
<1>2. \/ /\ Subscribe(e)
         /\ handler' = "register"
         /\ started' = [id |-> i, entry |-> e]
      \/ /\ SubscribeFails(e)
         /\ handler' = "cleanup"
         /\ started' = started
  BY DEF StartMsg
<1>3. UNCHANGED <<dict, inits, heartbeats, cancelled, replaced>> /\ InDict' = InDict
  BY DEF StartMsg, InDict
<1>4. /\ TypeOK' /\ \A d \in Entry : EntryInv(d)'
      /\ \A d \in Entry \ {e} : sub'[d] = sub[d]
  <2>1. EntryStep(e)
    BY <1>2 DEF EntryStep
  <2>2. QED
    BY <1>a, <1>1, <2>1, EntryStepKeeps, EntryFrame
<1>5. sub[e].listen = "none" /\ e \notin InDict
  BY <1>a, <1>1 DEF EntryInv, Started, ClosesOnce
<1>6. /\ sub'[e].listen = "none"
      /\ sub'[e].subscribed = "yes" <=> handler' = "register"
  BY <1>1, <1>2, <1>5, <1>a DEF Subscribe, SubscribeFails, TypeOK, EntryType
<1>7. HandlerTypeOK'
  BY <1>a, <1>1, <1>2, <1>3, <1>4 DEF HandlerTypeOK
<1>8. CrashesOnlyBy'
  BY <1>2 DEF Subscribe, SubscribeFails, CrashesOnlyBy
<1>9. ClosesOnce'
  <2>1. \A d \in InDict' : d \in Entry \ {e}
    BY <1>a, <1>3, <1>5, InDictType DEF HandlerTypeOK
  <2>2. QED
    BY <1>a, <1>3, <1>4, <2>1 DEF ClosesOnce
<1>10. Registering'
  <2>1. handler' = "register" => started' = [id |-> i, entry |-> e]
    BY <1>2
  <2>2. ASSUME NEW d \in Entry
        PROVE  sub'[d].subscribed = "yes" /\ sub'[d].listen = "none"
                 <=> handler' = "register" /\ started'.entry = d
    <3>1. CASE d = e
      BY <1>6, <2>1, <3>1
    <3>2. CASE d # e
      BY <1>a, <1>4, <2>1, <3>2 DEF Registering
    <3>3. QED
      BY <3>1, <3>2
  <2>3. \A d \in InDict' : sub'[d].listen # "none"
    BY <1>a, <1>3, <1>4, <1>5, InDictType DEF HandlerTypeOK, Registering
  <2>4. QED
    BY <1>1, <2>1, <2>2, <2>3 DEF Registering
<1>11. Tracked'
  <2>1. ASSUME NEW d \in Entry, Running(d)' PROVE d \in replaced' \cup InDict'
    BY <1>a, <1>3, <1>4, <1>6, <2>1 DEF Tracked, Running
  <2>2. QED
    BY <1>2, <2>1 DEF Tracked
<1>12. Beating'
  <2>1. clientGone' = clientGone /\ Beating
    BY <1>2 DEF HandlerIInv, Subscribe, SubscribeFails
  <2>2. QED
    BY <1>a, <1>3, <2>1, BeatingKeeps
<1>13. QED
  BY <1>4, <1>7, <1>8, <1>9, <1>10, <1>11, <1>12 DEF HandlerIInv

\* subDict[subMsg.ID] = subEntry; go subEntry.Listen(conn)
LEMMA RegisterKeeps ==
  ASSUME HandlerIInv, crashed = "no", Register
  PROVE  HandlerIInv'
<1> DEFINE e == started.entry
<1>a. /\ TypeOK /\ HandlerTypeOK /\ ClosesOnce /\ Registering /\ Tracked
      /\ \A d \in Entry : EntryInv(d)
      /\ handler = "register" /\ StartListen(e)
  BY DEF HandlerIInv, HandlerTypeOK, Register
<1>b. started \in [id : Id, entry : Entry] /\ e \in Entry /\ started.id \in Id
  BY <1>a DEF Registering
<1>c. InDict \subseteq Entry /\ dict \in [Id -> Entry \cup {NoEntry}]
  BY <1>a, InDictType DEF HandlerTypeOK
<1>1. /\ dict' = [dict EXCEPT ![started.id] = e]
      /\ replaced' = replaced \cup ({dict[started.id]} \ {NoEntry})
      /\ started' = NoStart /\ handler' = "read"
      /\ UNCHANGED <<inits, heartbeats, cancelled>>
  BY DEF Register
<1>2. /\ TypeOK' /\ \A d \in Entry : EntryInv(d)'
      /\ \A d \in Entry \ {e} : sub'[d] = sub[d]
  <2>1. EntryStep(e)
    BY <1>a DEF EntryStep
  <2>2. QED
    BY <1>a, <1>b, <2>1, EntryStepKeeps, EntryFrame
<1>3. /\ sub[e].subscribed = "yes" /\ sub[e].listen = "none"
      /\ sub'[e].subscribed = "yes" /\ sub'[e].listen = "select" /\ sub'[e].close = sub[e].close
  BY <1>a, <1>b DEF StartListen, TypeOK, EntryType
<1>4. sub[e].close = "none" /\ e \notin InDict
  BY <1>a, <1>b, <1>3 DEF EntryInv, Started, Registering
<1>5. \A d : d \in InDict <=> d # NoEntry /\ \E i \in Id : dict[i] = d
  BY <1>c DEF InDict, Range
<1>6. \A d : d \in InDict' <=> d = e \/ (d # NoEntry /\ \E i \in Id \ {started.id} : dict[i] = d)
  <2>1. \A i \in Id : dict'[i] = IF i = started.id THEN e ELSE dict[i]
    BY <1>b, <1>c, <1>1
  <2>2. DOMAIN dict' = Id
    BY <1>c, <1>1
  <2>3. \A d : d \in InDict' <=> d # NoEntry /\ \E i \in Id : dict'[i] = d
    BY <2>2 DEF InDict, Range
  <2>4. QED
    BY <1>b, <2>1, <2>3, NoEntryAssumption
<1>7. HandlerTypeOK'
  BY <1>a, <1>b, <1>c, <1>1, <1>2 DEF HandlerTypeOK, NoStart
<1>8. CrashesOnlyBy'
  BY <1>a DEF StartListen, CrashesOnlyBy
<1>9. ClosesOnce'
  <2>1. ASSUME NEW d \in InDict' PROVE sub'[d].subscribed = "yes" /\ sub'[d].close = "none"
    <3>1. CASE d = e
      BY <1>3, <1>4, <3>1
    <3>2. CASE d # e
      BY <1>a, <1>c, <1>2, <1>5, <1>6, <2>1, <3>2 DEF ClosesOnce
    <3>3. QED
      BY <3>1, <3>2
  <2>2. \A i \in Id : dict[i] # e
    BY <1>b, <1>4, <1>5, NoEntryAssumption
  <2>3. \A i, j \in Id : dict'[i] = dict'[j] /\ dict'[i] # NoEntry => i = j
    BY <1>a, <1>b, <1>c, <1>1, <2>2 DEF ClosesOnce
  <2>4. QED
    BY <2>1, <2>3 DEF ClosesOnce
<1>10. Registering'
  <2>1. ASSUME NEW d \in Entry
        PROVE  ~(sub'[d].subscribed = "yes" /\ sub'[d].listen = "none")
    BY <1>a, <1>2, <1>3, <2>1 DEF Registering
  <2>2. \A d \in InDict' : sub'[d].listen # "none"
    BY <1>a, <1>c, <1>2, <1>3, <1>5, <1>6 DEF Registering
  <2>3. QED
    BY <1>1, <2>1, <2>2 DEF Registering
<1>11. Tracked'
  <2>1. ASSUME NEW d \in Entry, Running(d)' PROVE d \in replaced' \cup InDict'
    <3>1. CASE d = e
      BY <1>6, <3>1
    <3>2. CASE d # e
      <4>1. d \in replaced \cup InDict
        BY <1>a, <1>2, <2>1, <3>2 DEF Tracked, Running
      <4>2. QED
        BY <1>1, <1>5, <1>6, <4>1
    <3>3. QED
      BY <3>1, <3>2
  <2>2. QED
    BY <1>1, <2>1 DEF Tracked
<1>12. Beating'
  BY <1>a, <1>1, BeatingKeeps DEF HandlerIInv, StartListen
<1>13. QED
  BY <1>2, <1>7, <1>8, <1>9, <1>10, <1>11, <1>12 DEF HandlerIInv

\* stop, connection_terminate and the deferred function: CleanKeys, and where the
\* handler goes.
LEMMA CleaningKeeps ==
  ASSUME HandlerIInv, NEW ids \in SUBSET Id, CleanKeys(ids), crashed = "no", crashed' = "no",
         clientGone' \in BOOLEAN, clientGone => clientGone',
         UNCHANGED <<started, inits, heartbeats, cancelled, replaced>>,
         handler \in {"read", "cleanup"}, handler' \in {handler, "cleanup", "done"},
         handler' = "done" => ids = Id
  PROVE  HandlerIInv'
<1>a. HandlerTypeOK /\ Registering /\ Tracked
  BY DEF HandlerIInv
<1>1. /\ TypeOK' /\ \A e \in Entry : EntryInv(e)'
      /\ dict' \in [Id -> Entry \cup {NoEntry}]
      /\ InDict' \subseteq InDict
      /\ ClosesOnce'
  BY CleanKeysKeeps
<1>2. ASSUME NEW e \in Entry
      PROVE  /\ sub'[e].subscribed = sub[e].subscribed
             /\ sub'[e].listen = sub[e].listen
             /\ Running(e)' => Running(e)
             /\ Running(e)' /\ e \in InDict => e \in InDict'
  BY CleanKeysKeeps
<1>3. HandlerTypeOK'
  BY <1>a, <1>1 DEF HandlerTypeOK
<1>4. CrashesOnlyBy'
  BY DEF CrashesOnlyBy
<1>5. Registering'
  <2>1. InDict \subseteq Entry
    BY <1>a, InDictType DEF HandlerTypeOK
  <2>2. QED
    BY <1>a, <1>1, <1>2, <2>1 DEF Registering
<1>b. Beating'
  BY BeatingKeeps DEF HandlerIInv
<1>6. Tracked'
  <2>1. handler' = "done" => InDict' = {}
    BY DEF CleanKeys, InDict, Range
  <2>2. ASSUME NEW e \in Entry, Running(e)' PROVE e \in replaced' \cup InDict'
    BY <1>a, <1>2, <2>2 DEF Tracked
  <2>3. QED
    BY <2>1, <2>2 DEF Tracked
<1>7. QED
  BY <1>b, <1>1, <1>3, <1>4, <1>5, <1>6 DEF HandlerIInv

\* A step of a subscription's goroutines, or of its service.
LEMMA SubscriptionsKeep ==
  ASSUME HandlerIInv, crashed = "no", NEW e \in Entry, Send(e) \/ Goroutines(e), UNCHANGED handlerVars
  PROVE  HandlerIInv'
<1>a. /\ TypeOK /\ HandlerTypeOK /\ ClosesOnce /\ Registering /\ Tracked
      /\ \A d \in Entry : EntryInv(d)
      /\ EntryStep(e)
  BY DEF HandlerIInv, HandlerTypeOK, EntryStep
<1>b. /\ UNCHANGED <<handler, dict, started, inits, heartbeats, cancelled, replaced>>
      /\ InDict' = InDict /\ InDict \subseteq Entry
  BY <1>a, InDictType DEF handlerVars, InDict, HandlerTypeOK
<1>1. TypeOK' /\ \A d \in Entry : EntryInv(d)'
  BY <1>a, EntryStepKeeps
<1>2. CrashesOnlyBy'
  BY <1>a, Deaths
<1>3. ASSUME NEW d \in Entry
      PROVE  /\ sub'[d].subscribed = sub[d].subscribed
             /\ sub'[d].listen = "none" <=> sub[d].listen = "none"
             /\ sub'[d].close = "none" <=> sub[d].close = "none"
             /\ Running(d)' => Running(d)
  BY <1>a, GoroutineFrame
<1>4. HandlerTypeOK'
  BY <1>a, <1>b, <1>1 DEF HandlerTypeOK
<1>5. ClosesOnce'
  BY <1>a, <1>b, <1>3 DEF ClosesOnce
<1>6. Registering'
  BY <1>a, <1>b, <1>3 DEF Registering
<1>7. Tracked'
  <2>1. ASSUME NEW d \in Entry, Running(d)' PROVE d \in replaced' \cup InDict'
    BY <1>a, <1>b, <1>3, <2>1 DEF Tracked
  <2>2. QED
    BY <1>a, <1>b, <2>1 DEF Tracked
<1>8. Beating'
  BY <1>a, <1>b, EntryFrame, BeatingKeeps DEF HandlerIInv
<1>9. QED
  BY <1>1, <1>2, <1>4, <1>5, <1>6, <1>7, <1>8 DEF HandlerIInv

LEMMA HandlerNextIInv == HandlerIInv /\ [HandlerNext]_allVars => HandlerIInv'
<1> SUFFICES ASSUME HandlerIInv, [HandlerNext]_allVars PROVE HandlerIInv'
  OBVIOUS
<1>a. /\ HandlerTypeOK /\ TypeOK /\ clientGone \in BOOLEAN
      /\ inits \in 0 .. MaxHeartbeats /\ cancelled \in BOOLEAN /\ Beating
      /\ heartbeats \in [Heartbeat -> {"none", "wait", "write", "gone"}]
  BY DEF HandlerIInv, HandlerTypeOK, TypeOK
<1>1. CASE crashed = "no" /\ InitMsg
  <2>1. /\ sub' = sub /\ crashed' = "no" /\ clientGone' = clientGone
        /\ UNCHANGED <<dict, started, cancelled, replaced>>
        /\ handler = "read" /\ handler' \in {"read", "cleanup"}
        /\ inits' = inits + 1 /\ inits < MaxHeartbeats /\ inits \in Nat
        /\ \/ heartbeats' = heartbeats /\ handler' = "cleanup"
           \/ heartbeats' = [heartbeats EXCEPT ![inits + 1] = "wait"]
    BY <1>1, <1>a, MaxHeartbeatsAssumption DEF InitMsg, vars, HandlerTypeOK
  <2>2. inits' \in 0 .. MaxHeartbeats
    BY <1>a, <2>1, MaxHeartbeatsAssumption
  <2>3. heartbeats' \in [Heartbeat -> {"none", "wait", "write", "gone"}]
    BY <1>a, <2>1
  <2>4. Beating'
    <3>1. \A h \in Heartbeat : h > inits' => heartbeats'[h] = "none"
      BY <1>a, <2>1, MaxHeartbeatsAssumption DEF Beating, Heartbeat
    <3>2. handler' = "read" => \A h \in 1 .. inits' : heartbeats'[h] # "none"
      BY <1>a, <2>1, MaxHeartbeatsAssumption DEF Beating, Heartbeat
    <3>3. \A h \in Heartbeat : heartbeats'[h] = "gone" => clientGone' \/ cancelled'
      BY <1>a, <2>1 DEF Beating
    <3>4. QED
      BY <1>a, <2>1, <3>1, <3>2, <3>3 DEF Beating
  <2>5. QED
    BY <1>a, <2>1, <2>2, <2>3, <2>4, BareStepKeeps
<1>2. CASE crashed = "no" /\ TerminateMsg
  BY <1>2, <1>a, CleaningKeeps DEF TerminateMsg
<1>3. CASE crashed = "no" /\ GiveUp
  BY <1>3, <1>a, BareStepKeeps, BeatingKeeps DEF GiveUp, vars
<1>4. CASE crashed = "no" /\ \E i \in Id : StartMsg(i)
  BY <1>4, StartMsgKeeps
<1>5. CASE crashed = "no" /\ \E i \in Id : StopMsg(i)
  BY <1>5, <1>a, CleaningKeeps DEF StopMsg
<1>6. CASE crashed = "no" /\ ClientLeaves /\ UNCHANGED handlerVars
  BY <1>6, <1>a, BareStepKeeps, BeatingKeeps DEF ClientLeaves, handlerVars
<1>7. CASE crashed = "no" /\ Register
  BY <1>7, RegisterKeeps
<1>8. CASE crashed = "no" /\ Cleanup
  BY <1>8, <1>a, CleaningKeeps DEF Cleanup
<1>9. CASE crashed = "no" /\ CleanupCutShort
  BY <1>9, <1>a, BareStepKeeps, BeatingKeeps DEF CleanupCutShort, vars
<1>13. CASE crashed = "no" /\ Cancel
  <2>1. Beating'
    BY <1>13, <1>a DEF Cancel, Beating, vars
  <2>2. QED
    BY <1>13, <1>a, <2>1, BareStepKeeps DEF Cancel, vars
<1>10. CASE crashed = "no" /\ \E h \in Heartbeat : SendHeartbeat(h)
  <2>1. PICK h \in Heartbeat, at \in {"wait", "write", "gone"} :
          /\ HeartbeatGoesTo(h, at) /\ heartbeats[h] # "none"
          /\ at = "gone" => clientGone \/ cancelled
    BY <1>10 DEF SendHeartbeat, Tick, WriteHeartbeat, WriteHeartbeatFails, ContextDone
  <2>2. /\ heartbeats' = [heartbeats EXCEPT ![h] = at]
        /\ UNCHANGED <<sub, clientGone, crashed, handler, dict, started, inits, cancelled, replaced>>
    BY <2>1 DEF HeartbeatGoesTo, vars
  <2>3. /\ heartbeats' \in [Heartbeat -> {"none", "wait", "write", "gone"}]
        /\ \A k \in Heartbeat : heartbeats'[k] = IF k = h THEN at ELSE heartbeats[k]
    BY <1>a, <2>2
  <2>4. Beating'
    <3>1. \A k \in 1 .. inits : k \in Heartbeat
      BY <1>a, MaxHeartbeatsAssumption DEF Heartbeat
    <3>2. QED
      BY <1>a, <2>1, <2>2, <2>3, <3>1 DEF Beating
  <2>5. QED
    BY <1>10, <1>a, <2>2, <2>3, <2>4, BareStepKeeps
<1>11. CASE crashed = "no" /\ Subscriptions
  BY <1>11, SubscriptionsKeep DEF Subscriptions
<1>12. CASE UNCHANGED allVars
  <2>1. /\ UNCHANGED <<sub, clientGone, crashed, handler, dict, started, inits, heartbeats, cancelled, replaced>>
        /\ InDict' = InDict
    BY <1>12 DEF allVars, vars, handlerVars, InDict
  <2>2. HandlerTypeOK' /\ CrashesOnlyBy'
    <3>1. HandlerTypeOK'
      BY <1>a, <2>1 DEF HandlerTypeOK, TypeOK
    <3>2. CrashesOnlyBy'
      BY <2>1 DEF HandlerIInv, CrashesOnlyBy, HasEmpty
    <3>3. QED
      BY <3>1, <3>2
  <2>3. ASSUME NEW e \in Entry PROVE EntryInv(e)'
    BY <2>1, OtherEntry DEF HandlerIInv
  <2>4. ClosesOnce' /\ Registering' /\ Tracked' /\ Beating'
    BY <2>1 DEF HandlerIInv, ClosesOnce, Registering, Tracked, Running, Beating
  <2>5. QED
    BY <2>2, <2>3, <2>4 DEF HandlerIInv
<1>14. QED
  BY <1>1, <1>2, <1>3, <1>4, <1>5, <1>6, <1>7, <1>8, <1>9, <1>10, <1>11, <1>12, <1>13
     DEF HandlerNext, Client, Handler
-----------------------------------------------------------------------------
\* The handler, its dictionary and its subscriptions stay in step
\* (subscription.go).
THEOREM HandlerInvariance == HandlerSpec => []HandlerIInv
  BY HandlerInitIInv, HandlerNextIInv, PTL DEF HandlerSpec

\* Close runs at most once for a subscription, and no subscription is under two
\* ids (subscriptionDict.Clean and CleanAll).
THEOREM NoSecondClose == HandlerSpec => []ClosesOnce
<1>1. HandlerIInv => ClosesOnce
  BY DEF HandlerIInv
<1>2. QED
  BY <1>1, HandlerInvariance, PTL

\* What runs on behind a handler that has returned had lost its id to another
\* subscription, or the close frame could not be written; and only a failed
\* Subscribe leaves a goroutine waiting (the deferred function of
\* subscriptionHandler).
THEOREM LeaksOnlyThen == HandlerSpec => []LeaksOnlyBy
<1>1. HandlerIInv => LeaksOnlyBy
  <2>1. SUFFICES ASSUME HandlerIInv, handler \in {"done", "cutShort"}, NEW e \in Entry
                 PROVE  /\ Running(e) => e \in replaced \/ handler = "cutShort"
                        /\ Abandoned(e) => sub[e].subscribed = "failed"
    BY DEF LeaksOnlyBy
  <2>2. Running(e) => e \in replaced \/ handler = "cutShort"
    BY <2>1 DEF HandlerIInv, Tracked
  <2>3. Abandoned(e) => sub[e].subscribed = "failed"
    <3>1. sub[e] \in EntryType /\ EntryInv(e)
      BY <2>1 DEF HandlerIInv, HandlerTypeOK, TypeOK
    <3>2. ~(sub[e].subscribed = "yes" /\ sub[e].listen = "none")
      BY <2>1 DEF HandlerIInv, Registering
    <3>3. QED
      BY <3>1, <3>2 DEF EntryType, EntryInv, Started, Stages, Abandoned
  <2>4. QED
    BY <2>2, <2>3
<1>2. QED
  BY <1>1, HandlerInvariance, PTL

\* And under a handler, which stops subscriptions from its loop and from its
\* deferred function, nothing else brings the process down (subscription.go).
THEOREM WhatEndsTheProcessUnderAHandler == HandlerSpec => []CrashesOnlyBy
<1>1. HandlerIInv => CrashesOnlyBy
  BY DEF HandlerIInv
<1>2. QED
  BY <1>1, HandlerInvariance, PTL
=============================================================================
