------------------------ MODULE SubscriptionHandler ------------------------
(***************************************************************************)
(* Gateway.subscriptionHandler (subscription.go): the goroutine that reads *)
(* one client's websocket, the dictionary of the subscriptions it started, *)
(* its deferred cleanup and the heartbeat goroutines, over the goroutines  *)
(* of those subscriptions (SubscriptionEntry).                             *)
(***************************************************************************)
EXTENDS SubscriptionEntry, Functions

CONSTANTS
  Id,               \* the ids a client gives its operations
  NoEntry,          \* no subscription under an id
  MaxHeartbeats     \* bound: connection_init messages of a client

ASSUME NoEntryAssumption == NoEntry \notin Entry
ASSUME MaxHeartbeatsAssumption == MaxHeartbeats \in Nat

VARIABLES
  handler,          \* where the handler stands
  dict,             \* subDict: [Id -> Entry or NoEntry]
  started,          \* the operation being started: its id and subscription
  inits,            \* connection_init messages handled
  heartbeats,       \* where each goroutine of sendHeartbeat stands
  cancelled,        \* their context is done
  replaced          \* history: subscriptions pushed out of dict by a new one

handlerVars == <<handler, dict, started, inits, heartbeats, cancelled, replaced>>
allVars == <<vars, handlerVars>>

Heartbeat == 1 .. MaxHeartbeats

NoStart == [id |-> NoEntry, entry |-> NoEntry]

HandlerInit ==
  /\ Init
  /\ handler = "read"
  /\ dict = [i \in Id |-> NoEntry]
  /\ started = NoStart
  /\ inits = 0
  /\ heartbeats = [h \in Heartbeat |-> "none"]
  /\ cancelled = FALSE
  /\ replaced = {}
-----------------------------------------------------------------------------
InDict == Range(dict) \ {NoEntry}

\* subscriptionDict.Clean on each key of ids: a goroutine runs Close, and the
\* key is gone.
CleanKeys(ids) ==
  LET gone == { dict[i] : i \in ids } \ {NoEntry}
  IN /\ sub' = [e \in Entry |-> IF e \in gone THEN [sub[e] EXCEPT !.close = "tryLock"]
                                              ELSE sub[e]]
     /\ dict' = [i \in Id |-> IF i \in ids THEN NoEntry ELSE dict[i]]

\* connection_init: an ack, and one more heartbeat.
InitMsg ==
  /\ handler = "read"
  /\ inits < MaxHeartbeats
  /\ inits' = inits + 1
  /\ \/ /\ heartbeats' = [heartbeats EXCEPT ![inits + 1] = "wait"]
        /\ handler' = handler
     \/ /\ clientGone
        /\ heartbeats' = heartbeats
        /\ handler' = "cleanup"
  /\ UNCHANGED <<vars, dict, started, cancelled, replaced>>

\* Mutant: what Subscribe returns is not looked at.
StartMsgGoesOn(i) ==
  LET e == CHOOSE x \in Entry : sub[x].subscribed = "no"
  IN
  /\ handler = "read"
  /\ \E x \in Entry : sub[x].subscribed = "no"
  /\ Subscribe(e) \/ SubscribeFails(e)
  /\ handler' = "register"
  /\ started' = [id |-> i, entry |-> e]
  /\ UNCHANGED <<dict, inits, heartbeats, cancelled, replaced>>

\* start, as far as newSubscriptionEntry.
StartMsg(i) ==
  LET fresh == { e \in Entry : sub[e].subscribed = "no" }
      e == CHOOSE x \in fresh : TRUE
  IN
  /\ handler = "read"
  /\ fresh # {}
  /\ \/ /\ Subscribe(e)
        /\ handler' = "register"
        /\ started' = [id |-> i, entry |-> e]
     \/ /\ SubscribeFails(e)
        /\ handler' = "cleanup"
        /\ started' = started
  /\ UNCHANGED <<dict, inits, heartbeats, cancelled, replaced>>

\* subDict[subMsg.ID] = subEntry; go subEntry.Listen(conn)
Register ==
  /\ handler = "register"
  /\ StartListen(started.entry)
  /\ dict' = [dict EXCEPT ![started.id] = started.entry]
  /\ replaced' = replaced \cup ({dict[started.id]} \ {NoEntry})
  /\ started' = NoStart
  /\ handler' = "read"
  /\ UNCHANGED <<inits, heartbeats, cancelled>>

\* Mutant: the key stays in the dictionary.
StopMsgKeepsKey(i) ==
  /\ handler = "read"
  /\ dict[i] # NoEntry
  /\ sub' = [sub EXCEPT ![dict[i]].close = "tryLock"]
  /\ UNCHANGED <<clientGone, crashed, handlerVars>>

StopMsg(i) ==
  /\ handler = "read"
  /\ dict[i] # NoEntry
  /\ CleanKeys({i})
  /\ UNCHANGED <<clientGone, crashed, handler, started, inits, heartbeats, cancelled, replaced>>

TerminateMsg ==
  /\ handler = "read"
  /\ CleanKeys(Id)
  /\ handler' = "cleanup"
  /\ UNCHANGED <<clientGone, crashed, started, inits, heartbeats, cancelled, replaced>>

\* The read fails, or the message is no JSON, of an unknown type, or a start
\* whose query does not validate, cannot be planned, or goes to a service that
\* cannot be reached.
GiveUp ==
  /\ handler = "read"
  /\ handler' = "cleanup"
  /\ UNCHANGED <<vars, dict, started, inits, heartbeats, cancelled, replaced>>
-----------------------------------------------------------------------------
\* Mutant: the subscriptions are left alone.
CleanupForgetsEntries ==
  /\ handler = "cleanup"
  /\ clientGone' = TRUE
  /\ handler' = "done"
  /\ UNCHANGED <<sub, crashed, dict, started, inits, heartbeats, cancelled, replaced>>

\* The deferred function: a close frame, conn.Close(), subDict.CleanAll().
Cleanup ==
  /\ handler = "cleanup"
  /\ CleanKeys(Id)
  /\ clientGone' = TRUE
  /\ handler' = "done"
  /\ UNCHANGED <<crashed, started, inits, heartbeats, cancelled, replaced>>

\* The close frame cannot be written: the deferred function returns there.
CleanupCutShort ==
  /\ handler = "cleanup"
  /\ clientGone
  /\ handler' = "cutShort"
  /\ UNCHANGED <<vars, dict, started, inits, heartbeats, cancelled, replaced>>

\* Mutant: cancel() is called at the end of the deferred function, behind its
\* returns.
CancelBehindCleanup ==
  /\ handler = "done"
  /\ ~cancelled
  /\ cancelled' = TRUE
  /\ UNCHANGED <<vars, handler, dict, started, inits, heartbeats, replaced>>

\* defer cancel(), the first of the deferred calls and so the last to run.
Cancel ==
  /\ handler \in {"done", "cutShort"}
  /\ ~cancelled
  /\ cancelled' = TRUE
  /\ UNCHANGED <<vars, handler, dict, started, inits, heartbeats, replaced>>
-----------------------------------------------------------------------------
\* sendHeartbeat.

HeartbeatGoesTo(h, at) ==
  /\ heartbeats' = [heartbeats EXCEPT ![h] = at]
  /\ UNCHANGED <<vars, handler, dict, started, inits, cancelled, replaced>>

\* <-timeTicker.C, which its select may pick although the context is done.
Tick(h) == heartbeats[h] = "wait" /\ HeartbeatGoesTo(h, "write")

\* The gateway has not closed the connection: a write may go through, also to a
\* client that has left.
WriteHeartbeat(h) ==
  heartbeats[h] = "write" /\ handler # "done" /\ HeartbeatGoesTo(h, "wait")

WriteHeartbeatFails(h) ==
  heartbeats[h] = "write" /\ clientGone /\ HeartbeatGoesTo(h, "gone")

\* <-ctx.Done()
ContextDone(h) == heartbeats[h] = "wait" /\ cancelled /\ HeartbeatGoesTo(h, "gone")

SendHeartbeat(h) ==
  Tick(h) \/ WriteHeartbeat(h) \/ WriteHeartbeatFails(h) \/ ContextDone(h)
-----------------------------------------------------------------------------
Client ==
  \/ InitMsg \/ TerminateMsg \/ GiveUp
  \/ \E i \in Id : StartMsg(i) \/ StopMsg(i)
  \/ ClientLeaves /\ UNCHANGED handlerVars

Handler == Register \/ Cleanup \/ CleanupCutShort \/ Cancel

Subscriptions ==
  \E e \in Entry : (Send(e) \/ Goroutines(e)) /\ UNCHANGED handlerVars

HandlerNext ==
  /\ crashed = "no"
  /\ Client \/ Handler \/ Subscriptions \/ \E h \in Heartbeat : SendHeartbeat(h)

\* The deferred calls run to their end, a heartbeat's write returns, and the
\* select of a heartbeat, which picks at random, does not pass the context over
\* for ever.  No client has to act, and no write to fail.  The subscriptions
\* are as fair as SubscriptionEntry says, which no property of the handler
\* needs.
HandlerFairness ==
  /\ WF_allVars(crashed = "no" /\ Handler)
  /\ \A h \in Heartbeat :
       /\ WF_allVars(crashed = "no" /\ (WriteHeartbeat(h) \/ WriteHeartbeatFails(h)))
       /\ SF_allVars(crashed = "no" /\ ContextDone(h))

HandlerSpec == HandlerInit /\ [][HandlerNext]_allVars /\ HandlerFairness
-----------------------------------------------------------------------------
HandlerTypeOK ==
  /\ TypeOK
  /\ handler \in {"read", "register", "cleanup", "done", "cutShort"}
  /\ dict \in [Id -> Entry \cup {NoEntry}]
  /\ started \in [id : Id \cup {NoEntry}, entry : Entry \cup {NoEntry}]
  /\ inits \in 0 .. MaxHeartbeats
  /\ heartbeats \in [Heartbeat -> {"none", "wait", "write", "gone"}]
  /\ cancelled \in BOOLEAN
  /\ replaced \subseteq Entry

\* What is in the dictionary has been started, is there under one id only, and
\* has not been asked to close: Close runs at most once for a subscription (a
\* second one would wait on closeCh for ever or panic).
ClosesOnce ==
  /\ \A e \in InDict : sub[e].subscribed = "yes" /\ sub[e].close = "none"
  /\ \A i, j \in Id : dict[i] = dict[j] /\ dict[i] # NoEntry => i = j

Running(e) == sub[e].listen \in {"select", "answer"} /\ sub[e].close = "none"

\* Subscribe's goroutine waits for a close that nobody can send.
Abandoned(e) == sub[e].closer = "wait" /\ sub[e].listen \in {"none", "done"}

\* "close all running handlers" (subscription.go:88), and what they have started:
\* a subscription runs on behind a handler that has returned only if its id was
\* used again for another one, or the close frame could not be written; and a
\* goroutine of Subscribe stays only if it could not write its first messages.
LeaksOnlyBy ==
  handler \in {"done", "cutShort"} =>
    \A e \in Entry :
      /\ Running(e) => e \in replaced \/ handler = "cutShort"
      /\ Abandoned(e) => sub[e].subscribed = "failed"

\* A subscription whose service is connected but whose Listen is not started is
\* the one the handler is about to register: none is lost between the two.
Registering ==
  /\ handler = "register" => started \in [id : Id, entry : Entry]
  /\ \A e \in Entry :
       sub[e].subscribed = "yes" /\ sub[e].listen = "none"
         <=> handler = "register" /\ started.entry = e
  /\ \A e \in InDict : sub[e].listen # "none"

\* A running subscription can be found in the dictionary, unless another one has
\* taken its place; and a handler that has cleaned up has emptied it.
Tracked ==
  /\ \A e \in Entry : Running(e) => e \in replaced \cup InDict
  /\ handler = "done" => InDict = {}

\* Every connection_init that is acknowledged has a heartbeat, which goes on
\* until the handler has returned, or the client has left and a write has failed.
Beating ==
  /\ \A h \in Heartbeat : h > inits => heartbeats[h] = "none"
  /\ handler \in {"read", "register"} => \A h \in 1 .. inits : heartbeats[h] # "none"
  /\ \A h \in Heartbeat : heartbeats[h] = "gone" => clientGone \/ cancelled
  /\ cancelled => handler \in {"done", "cutShort"}

\* The inductive invariant.
HandlerIInv ==
  /\ HandlerTypeOK
  /\ \A e \in Entry : EntryInv(e)
  /\ CrashesOnlyBy
  /\ ClosesOnce
  /\ Registering
  /\ Tracked
  /\ Beating

\* However the handler returns, with its cleanup cut short as well, every
\* heartbeat of its connection ends, whether or not a write fails.
HeartbeatsEnd ==
  handler \in {"done", "cutShort"} ~>
    \/ \A h \in Heartbeat : heartbeats[h] \in {"none", "gone"}
    \/ crashed # "no"
=============================================================================
