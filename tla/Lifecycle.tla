------------------------------- MODULE Lifecycle -------------------------------
(***************************************************************************)
(* The facade's lifecycle (src/index.js): what connect(), disconnect() and *)
(* the connection's events do to the channel pool, the exchange and the    *)
(* consumers.  Composes Connection: every step of the connection runs      *)
(* together with the facade's synchronous listeners for the events that    *)
(* step emits, and the facade calls the connection's operations.           *)
(*                                                                         *)
(* A restore (#doRestoreState) is a process with an await after each of    *)
(* its three stages; r names it and the channel pool it builds.  One       *)
(* consumer stands for all of them; subscribing is one step here.          *)
(***************************************************************************)
EXTENDS Connection

CONSTANTS
    Restores,     \* bound: the restores that can be started
    NoRestore,    \* JavaScript null, for a pool or a restore
    HasExchange,  \* is exchange.name configured?
    WaitTimeout,  \* is options.timeout given to connect()?
    SubscribeInRestore, \* may subscribe() be called while a restore is under way?
    Signals       \* the disconnect() calls made by enableGracefulShutdown()'s handlers

ASSUME RestoresAssumption == NoRestore \notin Restores
ASSUME OptionsAssumption ==
    /\ HasExchange \in BOOLEAN /\ WaitTimeout \in BOOLEAN /\ SubscribeInRestore \in BOOLEAN
    /\ Signals \subseteq Closers

VARIABLES
    channelPool,      \* #channelPool
    restorePromise,   \* #restorePromise
    restorePc,        \* where each restore is
    restoreConn,      \* the connection each restore builds its pool on
    restoreTarget,    \* the pool its recreateAll() is consuming on
    heard,            \* is a #handleReconnection() awaiting it?
    pools,            \* each restore's pool: "none", "open" or "closed"
    consumes,         \* how many times the consumer consumes on each pool
    subscribed,       \* is a consumer registered in activeConsumers?
    connectPc,        \* where the shared facade #doConnect() is
    connectOn,        \* the restore it awaits
    waitForConnection,\* its option
    disconnectPc,     \* where each disconnect() call is
    announced,        \* the events the facade emitted in the last step
    exited            \* has the process ended?

pool == <<channelPool, restorePromise, pools>>
restore == <<restorePc, restoreConn, restoreTarget, heard>>
consumers == <<consumes, subscribed>>
caller == <<connectPc, connectOn, waitForConnection>>
facadeVars == <<pool, restore, consumers, caller, disconnectPc, announced>>
vars == <<connVars, facadeVars, exited>>

\* The stages of a restore that still asks the broker for something.
InProgress == {"building", "opened", "ensuring", "recreating"}

LifecycleTypeOK ==
    /\ TypeOK
    /\ channelPool \in Restores \cup {NoRestore}
    /\ restorePromise \in Restores \cup {NoRestore}
    /\ restorePc \in [Restores -> InProgress \cup {"unused", "refused", "closing", "done"}]
    /\ restoreConn \in [Restores -> Conns \cup {NoConn}]
    /\ restoreTarget \in [Restores -> Restores \cup {NoRestore}]
    /\ heard \in [Restores -> BOOLEAN]
    /\ pools \in [Restores -> {"none", "open", "closed"}]
    /\ consumes \in [Restores -> Nat]
    /\ subscribed \in BOOLEAN
    /\ connectPc \in {"idle", "dialing", "resolved", "null", "restoring", "parked"}
    /\ connectOn \in Restores \cup {NoRestore}
    /\ waitForConnection \in BOOLEAN
    /\ disconnectPc \in [Closers -> {"idle", "disposing", "closingPool", "disconnecting"}]
    /\ announced \in SUBSET {"disconnected", "disconnecting", "reconnected",
                             "reconnectError", "reconnectFailed"}
    /\ exited \in BOOLEAN

LifecycleInit ==
    /\ Init
    /\ channelPool = NoRestore
    /\ restorePromise = NoRestore
    /\ restorePc = [r \in Restores |-> "unused"]
    /\ restoreConn = [r \in Restores |-> NoConn]
    /\ restoreTarget = [r \in Restores |-> NoRestore]
    /\ heard = [r \in Restores |-> FALSE]
    /\ pools = [r \in Restores |-> "none"]
    /\ consumes = [r \in Restores |-> 0]
    /\ subscribed = FALSE
    /\ connectPc = "idle"
    /\ connectOn = NoRestore
    /\ waitForConnection = FALSE
    /\ disconnectPc = [d \in Closers |-> "idle"]
    /\ announced = {}
    /\ exited = FALSE

-----------------------------------------------------------------------------
\* No promise continuation of the facade is due, so the event loop may go on.
ContinuationsDone ==
    /\ MicrotasksDone
    /\ connectPc \notin {"resolved", "null"}
    /\ \A r \in Restores : restorePc[r] \notin {"opened", "refused"}

NoConnectionStep == UNCHANGED <<state, dial, retry, broker, history>> /\ emitted' = {}

UsablePool(r) == pools[r] = "open" /\ amqp[restoreConn[r]] = "open"

-----------------------------------------------------------------------------
(* #restoreState() and #doRestoreState(). *)

\* Mutant of JoinsRestore: every caller starts a restore of its own.
JoinsNone(r) == FALSE

\* The single flight: a caller that finds #restorePromise set awaits that restore.
JoinsRestore(r) == restorePromise = r

\* Restores are interchangeable: they are named in the order they start in.
NextRestore == CHOOSE r \in Restores : restorePc[r] = "unused"

\* #restoreState() called: join the restore under way, or start r up to its first
\* await.  Without a connection it is rejected before it builds anything.
RestoreState(r) ==
    \/ /\ JoinsRestore(r)
       /\ UNCHANGED <<restorePromise, restorePc, restoreConn, pools>>
    \/ /\ \A s \in Restores : ~JoinsRestore(s)
       /\ restorePc[r] = "unused" /\ r = NextRestore
       /\ restorePromise' = r
       /\ restoreConn' = [restoreConn EXCEPT ![r] = connection]
       /\ IF connection = NoConn
            THEN restorePc' = [restorePc EXCEPT ![r] = "refused"] /\ UNCHANGED pools
            ELSE /\ restorePc' = [restorePc EXCEPT ![r] = "building"]
                 /\ pools' = [pools EXCEPT ![r] = "open"]

\* Mutant of SlotAfter: whichever restore finishes empties the slot.
SlotAfterAny(r) == NoRestore

\* The `finally` of a restore: it empties #restorePromise only if it still owns it.
SlotAfter(r) == IF restorePromise = r THEN NoRestore ELSE restorePromise

\* Restore r ends, and everyone who awaited it goes on: the facade's connect()
\* returns, and #handleReconnection() emits, which wakes a parked connect().
Finish(r, event) ==
    /\ restorePc' = [restorePc EXCEPT ![r] = "done"]
    /\ restorePromise' = SlotAfter(r)
    /\ announced' = IF heard[r] THEN {event} ELSE {}
    /\ IF connectOn = r \/ (connectPc = "parked" /\ heard[r])
         THEN connectPc' = "idle" /\ connectOn' = NoRestore
         ELSE UNCHANGED <<connectPc, connectOn>>
    /\ UNCHANGED waitForConnection

\* Every channel of the pool is open: initialize() will resolve.
PoolOpens(r) ==
    /\ ContinuationsDone
    /\ restorePc[r] = "building"
    /\ amqp[restoreConn[r]] = "open"
    /\ restorePc' = [restorePc EXCEPT ![r] = "opened"]
    /\ announced' = {}
    /\ NoConnectionStep
    /\ UNCHANGED <<pool, restoreConn, restoreTarget, heard, consumers, caller,
                   disconnectPc>>

\* A channel cannot be opened: initialize() closes what it opened and rejects.
PoolFails(r) ==
    /\ ContinuationsDone
    /\ restorePc[r] = "building"
    /\ IF amqp[restoreConn[r]] = "open"
         THEN faults < MaxFaults /\ faults' = faults + 1
         ELSE UNCHANGED faults
    /\ pools' = [pools EXCEPT ![r] = "closed"]
    /\ restorePc' = [restorePc EXCEPT ![r] = "closing"]
    /\ announced' = {}
    /\ emitted' = {}
    /\ UNCHANGED <<state, dial, retry, broker, wanted, calls, channelPool,
                   restorePromise, restoreConn, restoreTarget, heard, consumers,
                   caller, disconnectPc>>

\* recreateAll() starts: each consumer's setup takes the pool of this moment and
\* throws, into recreateAll()'s own catch, when there is none.
StartRecreate(r) ==
    IF subscribed /\ channelPool' # NoRestore
      THEN /\ restorePc' = [restorePc EXCEPT ![r] = "recreating"]
           /\ restoreTarget' = [restoreTarget EXCEPT ![r] = channelPool']
           /\ announced' = {}
           /\ UNCHANGED <<restorePromise, caller>>
      ELSE Finish(r, "reconnected") /\ UNCHANGED restoreTarget

\* initialize() has resolved.  A pool whose connection has turned over is closed
\* and the restore fails; otherwise the pool is installed.
PoolSettles(r) ==
    /\ restorePc[r] = "opened"
    /\ \/ /\ connection # restoreConn[r]
          /\ pools' = [pools EXCEPT ![r] = "closed"]
          /\ restorePc' = [restorePc EXCEPT ![r] = "closing"]
          /\ announced' = {}
          /\ UNCHANGED <<channelPool, restorePromise, restoreTarget, caller>>
       \/ /\ connection = restoreConn[r]
          /\ channelPool' = r
          /\ IF HasExchange
               THEN /\ restorePc' = [restorePc EXCEPT ![r] = "ensuring"]
                    /\ announced' = {}
                    /\ UNCHANGED <<restorePromise, restoreTarget, caller>>
               ELSE StartRecreate(r)
          /\ UNCHANGED pools
    /\ NoConnectionStep
    /\ UNCHANGED <<restoreConn, heard, consumers, disconnectPc>>

\* assertExchange() is answered.
ExchangeEnsured(r) ==
    /\ ContinuationsDone
    /\ restorePc[r] = "ensuring"
    /\ UsablePool(r)
    /\ UNCHANGED <<channelPool, pools>>
    /\ StartRecreate(r)
    /\ NoConnectionStep
    /\ UNCHANGED <<restoreConn, heard, consumers, disconnectPc>>

\* The failed restore's question before it tears a pool down.
OwnsPool(r) == channelPool = r

\* assertExchange() is refused, or its channel is gone: the restore takes down the
\* pool it installed, if that is still the one in place.
ExchangeFails(r) ==
    /\ ContinuationsDone
    /\ restorePc[r] = "ensuring"
    /\ IF UsablePool(r)
         THEN faults < MaxFaults /\ faults' = faults + 1
         ELSE UNCHANGED faults
    /\ IF OwnsPool(r)
         THEN /\ channelPool' = NoRestore
              /\ pools' = [pools EXCEPT ![r] = "closed"]
         ELSE UNCHANGED <<channelPool, pools>>
    /\ restorePc' = [restorePc EXCEPT ![r] = "closing"]
    /\ announced' = {}
    /\ emitted' = {}
    /\ UNCHANGED <<state, dial, retry, broker, wanted, calls, restorePromise,
                   restoreConn, restoreTarget, heard, consumers, caller,
                   disconnectPc>>

\* consume() is answered, or fails, which recreateAll() only logs.  Either way
\* the restore succeeds (and resets the circuit breaker).
ConsumerRecreated(r) ==
    /\ ContinuationsDone
    /\ restorePc[r] = "recreating"
    /\ UsablePool(restoreTarget[r])
    /\ consumes' = [consumes EXCEPT ![restoreTarget[r]] = @ + 1]
    /\ Finish(r, "reconnected")
    /\ NoConnectionStep
    /\ UNCHANGED <<channelPool, pools, restoreConn, restoreTarget, heard,
                   subscribed, disconnectPc>>

ConsumerNotRecreated(r) ==
    /\ ContinuationsDone
    /\ restorePc[r] = "recreating"
    /\ IF UsablePool(restoreTarget[r])
         THEN faults < MaxFaults /\ faults' = faults + 1
         ELSE UNCHANGED faults
    /\ Finish(r, "reconnected")
    /\ emitted' = {}
    /\ UNCHANGED <<state, dial, retry, broker, wanted, calls, channelPool, pools,
                   restoreConn, restoreTarget, heard, consumers, disconnectPc>>

\* A failed restore is rejected: at once when it was refused for want of a
\* connection, else once the pool it gave up is closed.
RestoreRejected(r) ==
    /\ \/ restorePc[r] = "refused"
       \/ restorePc[r] = "closing" /\ ContinuationsDone
    /\ Finish(r, "reconnectError")
    /\ NoConnectionStep
    /\ UNCHANGED <<channelPool, pools, restoreConn, restoreTarget, heard,
                   consumers, disconnectPc>>

-----------------------------------------------------------------------------
(* The facade's listeners: #handleDisconnection and the rest.  They run       *)
(* synchronously inside the step of the connection that emits.                *)

\* Mutant of LosePool: the pool of the dead connection stays in place.
LosePoolKept ==
    /\ pools' = [r \in Restores |-> IF r = channelPool THEN "closed" ELSE pools[r]]
    /\ restorePromise' = NoRestore
    /\ UNCHANGED channelPool

\* #handleDisconnection(): the restore in flight was for the connection that has
\* just died, and so was the pool.
LosePool ==
    /\ channelPool' = NoRestore
    /\ pools' = [r \in Restores |-> IF r = channelPool THEN "closed" ELSE pools[r]]
    /\ restorePromise' = NoRestore

\* Mutant of ConnectPcAfter: a parked connect() does not listen for reconnectFailed.
ConnectPcAfterDeaf ==
    CASE connectPc = "dialing" /\ "connected" \in emitted' -> "resolved"
      [] connectPc = "dialing" /\ connectPromise # "none" /\ connectPromise' = "none"
           /\ "connected" \notin emitted' -> "null"
      [] OTHER -> connectPc

\* What a facade connect() that awaits the dial, or is parked, makes of the step.
ConnectPcAfter ==
    CASE connectPc = "dialing" /\ "connected" \in emitted' -> "resolved"
      [] connectPc = "dialing" /\ connectPromise # "none" /\ connectPromise' = "none"
           /\ "connected" \notin emitted' -> "null"
      [] connectPc = "parked" /\ "reconnectFailed" \in emitted' -> "idle"
      [] OTHER -> connectPc

Hear ==
    /\ IF "disconnected" \in emitted' THEN LosePool ELSE UNCHANGED pool
    /\ connectPc' = ConnectPcAfter
    /\ announced' = emitted' \cap {"disconnected", "reconnectFailed"}
    /\ UNCHANGED <<restore, consumers, connectOn, waitForConnection>>

\* An event of the connection other than 'reconnected'.  A close frame may follow
\* the last channel-open answer in one read, ahead of that answer's continuation.
ConnectionStep ==
    /\ \/ /\ ContinuationsDone
          /\ \/ \E c \in Conns : DialInstalls(c) \/ DialOrphaned(c)
             \/ OrphanClosed
             \/ DialTriesNext
             \/ DialGivesUp
             \/ TimerFires
       \/ /\ connectPc \notin {"resolved", "null"}
          /\ \E c \in Conns : ConnectionCloses(c)
    /\ Hear
    /\ UNCHANGED disconnectPc

\* 'reconnected' from the connection: #handleReconnection() up to its await.
HandleReconnection(r) ==
    /\ AttemptResumes
    /\ RestoreState(r)
    /\ heard' = [heard EXCEPT ![r] = TRUE]
    /\ announced' = {}
    /\ UNCHANGED <<channelPool, restoreTarget, consumers, caller, disconnectPc>>

-----------------------------------------------------------------------------
(* connect(). *)

\* The application calls connect(); concurrent callers share one #doConnect().
FacadeConnect(wait) ==
    /\ calls < MaxCalls
    /\ Overlap \/ \A d \in Closers : disconnectPc[d] = "idle"
    /\ connectPc = "idle"
    /\ calls' = calls + 1
    /\ waitForConnection' = wait
    /\ Connect
    /\ connectPc' = IF connectPromise' = "none" THEN "resolved" ELSE "dialing"
    /\ announced' = {}
    /\ UNCHANGED <<pool, restore, consumers, connectOn, disconnectPc>>

\* #doConnect() resumes with a connection: without a pool, it restores.
ConnectRestores(r) ==
    /\ connectPc = "resolved"
    /\ channelPool = NoRestore
    /\ RestoreState(r)
    /\ connectPc' = "restoring"
    /\ connectOn' = r
    /\ announced' = {}
    /\ NoConnectionStep
    /\ UNCHANGED <<channelPool, restoreTarget, heard, consumers,
                   waitForConnection, disconnectPc>>

\* It returns: with the connection (there is a pool), with null (the caller did
\* not ask to wait), or by throwing (reconnection has already given up).
ConnectReturns ==
    /\ \/ connectPc = "resolved" /\ channelPool # NoRestore
       \/ connectPc = "null" /\ (~waitForConnection \/ connectionState = "failed")
    /\ connectPc' = "idle"
    /\ announced' = {}
    /\ NoConnectionStep
    /\ UNCHANGED <<pool, restore, consumers, connectOn, waitForConnection,
                   disconnectPc>>

\* It parks until the facade says reconnected, reconnectFailed, reconnectError or
\* disconnecting.
ConnectParks ==
    /\ connectPc = "null"
    /\ waitForConnection /\ connectionState # "failed"
    /\ connectPc' = "parked"
    /\ announced' = {}
    /\ NoConnectionStep
    /\ UNCHANGED <<pool, restore, consumers, connectOn, waitForConnection,
                   disconnectPc>>

WaitTimesOut ==
    /\ WaitTimeout
    /\ ContinuationsDone
    /\ connectPc = "parked"
    /\ connectPc' = "idle"
    /\ announced' = {}
    /\ NoConnectionStep
    /\ UNCHANGED <<pool, restore, consumers, connectOn, waitForConnection,
                   disconnectPc>>

\* subscribe() succeeds: a consumer on the pool in place.
Subscribe ==
    /\ ~subscribed
    /\ channelPool # NoRestore /\ UsablePool(channelPool)
    /\ \A d \in Closers : disconnectPc[d] = "idle"
    /\ SubscribeInRestore \/ restorePromise = NoRestore
    /\ subscribed' = TRUE
    /\ consumes' = [consumes EXCEPT ![channelPool] = @ + 1]
    /\ announced' = {}
    /\ NoConnectionStep
    /\ UNCHANGED <<pool, restore, caller, disconnectPc>>

-----------------------------------------------------------------------------
(* disconnect(). *)

\* disconnect() announces itself, which ends a parked connect(), settles the RPC
\* requests and awaits disposeAll().
FacadeDisconnect(d) ==
    /\ calls < MaxCalls
    /\ disconnectPc[d] = "idle"
    /\ calls' = calls + 1
    /\ disconnectPc' = [disconnectPc EXCEPT ![d] = "disposing"]
    /\ connectPc' = IF connectPc = "parked" THEN "idle" ELSE connectPc
    /\ announced' = {"disconnecting"}
    /\ emitted' = {}
    /\ UNCHANGED <<state, dial, retry, broker, wanted, faults, pool, restore,
                   consumers, connectOn, waitForConnection>>

\* The connection's disconnect(), and what follows it when it does not wait.
DisconnectConnection(d) ==
    /\ Disconnect(d)
    /\ UNCHANGED calls
    /\ IF closing'[d] # NoConn
         THEN /\ disconnectPc' = [disconnectPc EXCEPT ![d] = "disconnecting"]
              /\ announced' = {}
         ELSE /\ disconnectPc' = [disconnectPc EXCEPT ![d] = "idle"]
              /\ announced' = {"disconnected"}

\* disposeAll() is through: the consumers are forgotten, and the pool is closed
\* if there is one.
Disposed(d) ==
    /\ disconnectPc[d] = "disposing"
    /\ subscribed' = FALSE
    /\ IF channelPool # NoRestore
         THEN /\ pools' = [pools EXCEPT ![channelPool] = "closed"]
              /\ disconnectPc' = [disconnectPc EXCEPT ![d] = "closingPool"]
              /\ announced' = {}
              /\ NoConnectionStep
         ELSE DisconnectConnection(d) /\ UNCHANGED pools
    /\ UNCHANGED <<channelPool, restorePromise, restore, consumes, caller>>

PoolClosed(d) ==
    /\ ContinuationsDone
    /\ disconnectPc[d] = "closingPool"
    /\ channelPool' = NoRestore
    /\ DisconnectConnection(d)
    /\ UNCHANGED <<restorePromise, pools, restore, consumers, caller>>

FacadeCloseSettles(d) ==
    /\ ContinuationsDone
    /\ CloseSettles(d)
    /\ disconnectPc' = [disconnectPc EXCEPT ![d] = "idle"]
    /\ announced' = {"disconnected"}
    /\ UNCHANGED <<pool, restore, consumers, caller>>

-----------------------------------------------------------------------------
RestoreStep(r) ==
    \/ PoolOpens(r)
    \/ PoolFails(r)
    \/ PoolSettles(r)
    \/ ExchangeEnsured(r)
    \/ ExchangeFails(r)
    \/ ConsumerRecreated(r)
    \/ ConsumerNotRecreated(r)
    \/ RestoreRejected(r)

ConnectStep ==
    \/ \E r \in Restores : ConnectRestores(r)
    \/ ConnectReturns
    \/ ConnectParks

DisconnectStep(d) == Disposed(d) \/ PoolClosed(d) \/ FacadeCloseSettles(d)

\* Mutant of Exits: the handler does not await disconnect().
ExitsUnawaited == \E d \in Signals : disconnectPc'[d] # "idle"

\* gracefulShutdown() ends the process when its disconnect() has returned, which it
\* does without ever throwing.
Exits == \E d \in Signals : disconnectPc[d] # "idle" /\ disconnectPc'[d] = "idle"

\* A step of a process that has not ended.
Runs == ~exited /\ exited' = Exits

LifecycleNext ==
    \/ ConnectionStep /\ Runs
    \/ \E r \in Restores : (RestoreStep(r) \/ HandleReconnection(r)) /\ Runs
    \/ ConnectStep /\ Runs
    \/ WaitTimesOut /\ Runs
    \/ Subscribe /\ Runs
    \/ \E wait \in BOOLEAN : FacadeConnect(wait) /\ Runs
    \/ \E d \in Closers : (FacadeDisconnect(d) \/ DisconnectStep(d)) /\ Runs

LifecycleSpec == LifecycleInit /\ [][LifecycleNext]_vars

\* Every await settles, and every timer fires, as in Connection.
LifecycleFairness ==
    /\ WF_vars(ConnectionStep /\ DialSettles /\ Runs)
    /\ WF_vars(ConnectionStep /\ OrphanClosed /\ Runs)
    /\ WF_vars(ConnectionStep /\ TimerFires /\ Runs)
    /\ WF_vars(\E r \in Restores : HandleReconnection(r) /\ Runs)
    /\ WF_vars(ConnectStep /\ Runs)
    /\ \A r \in Restores : WF_vars(RestoreStep(r) /\ Runs)
    /\ \A d \in Closers : WF_vars(DisconnectStep(d) /\ Runs)

LifecycleFairSpec == LifecycleSpec /\ LifecycleFairness

-----------------------------------------------------------------------------
(* Properties. *)

\* The comment at index.js:221-240: whatever the order in which dials, timers,
\* connect() calls and late failures resume, no two restores work on the live
\* connection at once.
SingleRestore ==
    \A r, s \in Restores :
        /\ r # s
        /\ restorePc[r] \in InProgress /\ restorePc[s] \in InProgress
        /\ restoreConn[r] = connection /\ restoreConn[s] = connection
        => connection = NoConn

\* No message is delivered twice: the consumer consumes at most once, on at most
\* one live pool, over any sequence of losses, restores and manual connects.
SingleConsumer ==
    \A r, s \in Restores :
        UsablePool(r) /\ UsablePool(s) /\ consumes[r] > 0 /\ consumes[s] > 0
            => r = s /\ consumes[r] = 1

\* No channel pool is leaked on a live connection: an open one is #channelPool or
\* in the hands of the restore that is building it.
PoolOwned ==
    \A r \in Restores :
        UsablePool(r) => channelPool = r \/ restorePc[r] \in {"building", "opened"}

\* "pool present" means "state fully restored" (index.js:252): outside a
\* disconnect(), a pool left in place by a finished restore was built on the
\* connection in place.  connect() skips the restore when there is a pool, so a
\* stale one would never be replaced.
PoolMeansConnection ==
    /\ channelPool # NoRestore /\ restorePc[channelPool] = "done"
    /\ \A d \in Closers : disconnectPc[d] = "idle"
    => connection = restoreConn[channelPool]

\* Pools are neither leaked nor stale, however restores, losses and disconnects overlap.
PoolInPlace == PoolOwned /\ PoolMeansConnection

\* Is a disconnect() under way, or the last thing the connection was told, or the
\* process gone?
Leaving == exited \/ isShuttingDown \/ \E d \in Closers : disconnectPc[d] # "idle"

\* README: "pass waitForConnection: true to make the promise resolve only when the
\* connection is finally established (or reject ...)": no connect() hangs, and a
\* parked one is woken by whatever comes, a later disconnect() included.  (One that
\* has not parked when disconnect() announces itself may park for ever.)
ConnectSettles ==
    /\ connectPc # "idle" ~> connectPc \in {"idle", "parked"} \/ Leaving
    /\ connectPc = "parked" /\ ~Leaving ~> connectPc = "idle"

\* Nothing is left at the broker for the client to clean up.
NothingOpen ==
    /\ \A c \in Conns : amqp[c] # "open"
    /\ connection = NoConn
    /\ \A r \in Restores : ~UsablePool(r)

\* enableGracefulShutdown(): a signal ends the process, and only when nothing is open any
\* more, whatever dial, restore, reconnection or other disconnect() was under way when it
\* came; no stage waits for something that another process of the client has given up.
SignalExits == (\E d \in Signals : disconnectPc[d] # "idle") ~> exited /\ NothingOpen

\* README: when "State restore fails after a successful dial" (reconnectError) "the
\* reconnection cycle keeps running": the client does not stay connected without a
\* pool.
RestoreRetried ==
    "reconnectError" \in announced
        ~> connectionState # "connected" \/ channelPool # NoRestore

=============================================================================
