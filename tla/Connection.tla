------------------------------ MODULE Connection ------------------------------
(***************************************************************************)
(* RabbitMQConnection (src/connection/connection.js): the state machine    *)
(* that dials the broker's endpoints, retries with a timer, and shuts down.*)
(*                                                                         *)
(* One step is one run of JavaScript to its next await.  The steps that    *)
(* come from outside the class are the application's connect() and         *)
(* disconnect(), the reconnect timer, and amqplib: a dial that succeeds or *)
(* fails, a connection that closes, a close() that settles.  Endpoint      *)
(* strings, credentials, back-off delays and log lines are left out.       *)
(***************************************************************************)
EXTENDS Integers, FiniteSets

CONSTANTS
    Conns,                \* the AMQP connections amqp.connect() can return
    NoConn,               \* JavaScript null
    Closers,              \* disconnect() calls that may be under way at once
    EndpointCount,        \* options.endpoints.length
    MaxReconnectAttempts, \* options.maxReconnectAttempts
    Infinity,             \* its default
    Overlap,              \* may connect() be called while a close() is awaited?
    MaxFaults,            \* bound: failed dials and unexpected closes
    MaxCalls              \* bound: explicit connect() and disconnect() calls

ASSUME ConnsAssumption == NoConn \notin Conns
ASSUME EndpointAssumption == EndpointCount \in Nat \ {0}
\* What nonNegativeNumber() accepts for an option: zero is a value, not its absence.
NonNegativeNumbers == Nat \cup {Infinity}

ASSUME BudgetAssumption ==
    /\ Infinity \notin Nat
    /\ MaxReconnectAttempts \in NonNegativeNumbers
ASSUME OverlapAssumption == Overlap \in BOOLEAN
ASSUME BoundsAssumption == MaxFaults \in Nat /\ MaxCalls \in Nat

VARIABLES
    connectionState,      \* #connectionState
    connection,           \* #connection
    currentEndpointIndex, \* #currentEndpointIndex
    isShuttingDown,       \* #isShuttingDown
    isReconnecting,       \* #isReconnecting
    reconnectAttempt,     \* #reconnectAttempt
    reconnectTimeout,     \* is a #reconnectTimeout callback pending?
    connectPromise,       \* where the shared #doConnect() is, "none" if null
    dialAttempt,          \* its loop counter
    orphan,               \* the connection it is closing instead of installing
    waiting,              \* #attemptReconnect() calls awaiting #connectPromise
    resuming,             \* those whose await has a connection to resume with
    closing,              \* what each disconnect() call is awaiting the close of
    amqp,                 \* broker side: the state of each AMQP connection
    emitted,              \* the events the last step emitted
    tried,                \* history: endpoints the dial in progress has tried
    wanted,               \* history: the application's last explicit call
    faults,               \* bounded by MaxFaults
    calls                 \* bounded by MaxCalls

state == <<connectionState, isShuttingDown, isReconnecting>>
dial == <<connectPromise, dialAttempt, orphan, currentEndpointIndex, tried>>
retry == <<reconnectAttempt, reconnectTimeout, waiting, resuming>>
broker == <<connection, amqp, closing>>
history == <<wanted, calls, faults>>
connVars == <<state, dial, retry, broker, emitted, history>>

States == {"disconnected", "connecting", "connected", "reconnecting",
           "failed", "disconnecting"}
Events == {"connected", "disconnected", "reconnected", "reconnectFailed"}

TypeOK ==
    /\ connectionState \in States
    /\ connection \in Conns \cup {NoConn}
    /\ currentEndpointIndex \in 0 .. EndpointCount - 1
    /\ isShuttingDown \in BOOLEAN
    /\ isReconnecting \in BOOLEAN
    /\ reconnectAttempt \in Nat
    /\ reconnectTimeout \in BOOLEAN
    /\ connectPromise \in {"none", "dialing", "closingOrphan"}
    /\ dialAttempt \in 0 .. EndpointCount - 1
    /\ orphan \in Conns \cup {NoConn}
    /\ waiting \in Nat
    /\ resuming \in Nat
    /\ closing \in [Closers -> Conns \cup {NoConn}]
    /\ amqp \in [Conns -> {"unopened", "open", "closing", "closed"}]
    /\ emitted \in SUBSET Events
    /\ tried \in SUBSET (0 .. EndpointCount - 1)
    /\ wanted \in {"nothing", "connect", "disconnect"}
    /\ faults \in 0 .. MaxFaults
    /\ calls \in 0 .. MaxCalls

Init ==
    /\ connectionState = "disconnected"
    /\ connection = NoConn
    /\ currentEndpointIndex = 0
    /\ isShuttingDown = FALSE
    /\ isReconnecting = FALSE
    /\ reconnectAttempt = 0
    /\ reconnectTimeout = FALSE
    /\ connectPromise = "none"
    /\ dialAttempt = 0
    /\ orphan = NoConn
    /\ waiting = 0
    /\ resuming = 0
    /\ closing = [d \in Closers |-> NoConn]
    /\ amqp = [c \in Conns |-> "unopened"]
    /\ emitted = {}
    /\ tried = {}
    /\ wanted = "nothing"
    /\ faults = 0
    /\ calls = 0

-----------------------------------------------------------------------------
(* Reconnection: startReconnection() and #scheduleReconnect(). *)

\* Mutant of BudgetSpent: `>` where the code has `>=`.
BudgetSpentOffByOne ==
    MaxReconnectAttempts # Infinity /\ reconnectAttempt > MaxReconnectAttempts

BudgetSpent ==
    MaxReconnectAttempts # Infinity /\ reconnectAttempt >= MaxReconnectAttempts

\* Mutant of StartReconnection: a cycle that is already running is left to itself.
StartReconnectionOnce ==
    /\ IF isReconnecting
         THEN UNCHANGED <<isReconnecting, connectionState, reconnectTimeout>>
         ELSE /\ isReconnecting' = ~BudgetSpent
              /\ reconnectTimeout' = ~BudgetSpent
              /\ connectionState' = IF BudgetSpent THEN "failed" ELSE "reconnecting"
    /\ emitted' = (IF isReconnecting THEN {} ELSE {"disconnected"})
                    \cup (IF BudgetSpent THEN {"reconnectFailed"} ELSE {})

\* Called only when ~isShuttingDown.  The pending timer is cleared first, then
\* either the budget is spent (give up) or a new timer is armed.  A cycle that
\* is already running keeps its state ("connecting" after a failed dial).
StartReconnection ==
    /\ isReconnecting' = ~BudgetSpent
    /\ reconnectTimeout' = ~BudgetSpent
    /\ connectionState' = IF BudgetSpent THEN "failed"
                          ELSE IF isReconnecting THEN connectionState
                          ELSE "reconnecting"
    /\ emitted' = (IF isReconnecting THEN {} ELSE {"disconnected"})
                    \cup (IF BudgetSpent THEN {"reconnectFailed"} ELSE {})

-----------------------------------------------------------------------------
(* connect() and #doConnect(). *)

HasOpenConnection == connection # NoConn /\ amqp[connection] = "open"

AlreadyConnected == connectionState = "connected" /\ connection # NoConn

\* A promise continuation that is already due runs before the event loop takes
\* the next timer or I/O event.
MicrotasksDone == resuming = 0

\* connect() up to its first await: join the dial in flight, return the live
\* connection, or begin a dial.
CallConnect ==
    IF connectPromise # "none" \/ AlreadyConnected
      THEN UNCHANGED <<state, dial>>
      ELSE /\ isShuttingDown' = FALSE
           /\ connectionState' = "connecting"
           /\ connectPromise' = "dialing"
           /\ dialAttempt' = 0
           /\ tried' = {}
           /\ UNCHANGED <<isReconnecting, orphan, currentEndpointIndex>>

\* An explicit connect().
Connect ==
    /\ CallConnect
    /\ wanted' = "connect"
    /\ emitted' = {}
    /\ UNCHANGED <<retry, broker, faults>>

\* Connections are interchangeable, so the broker hands out the names in one order.
NextConn == CHOOSE c \in Conns : amqp[c] = "unopened"

\* Mutant of ShutdownSeen: the dial does not check back on its way in.
ShutdownNotSeen == FALSE

\* The check a dial makes after its await, before it installs the connection.
ShutdownSeen == isShuttingDown

\* amqp.connect() resolves with c and #doConnect() installs it.
DialInstalls(c) ==
    /\ MicrotasksDone
    /\ connectPromise = "dialing"
    /\ amqp[c] = "unopened" /\ c = NextConn
    /\ ~ShutdownSeen
    /\ amqp' = [amqp EXCEPT ![c] = "open"]
    /\ connection' = c
    /\ connectionState' = "connected"
    /\ isReconnecting' = FALSE
    /\ reconnectAttempt' = 0
    /\ reconnectTimeout' = FALSE
    /\ connectPromise' = "none"
    /\ dialAttempt' = 0
    /\ tried' = {}
    /\ resuming' = waiting
    /\ waiting' = 0
    /\ emitted' = {"connected"}
    /\ UNCHANGED <<isShuttingDown, orphan, currentEndpointIndex, closing,
                   history>>

\* amqp.connect() resolves after a disconnect(): the connection is not installed
\* but closed, and connect() will return null.
DialOrphaned(c) ==
    /\ MicrotasksDone
    /\ connectPromise = "dialing"
    /\ amqp[c] = "unopened" /\ c = NextConn
    /\ ShutdownSeen
    /\ amqp' = [amqp EXCEPT ![c] = "closing"]
    /\ orphan' = c
    /\ connectPromise' = "closingOrphan"
    /\ dialAttempt' = 0
    /\ tried' = {}
    /\ emitted' = {}
    /\ UNCHANGED <<state, currentEndpointIndex, retry, connection, closing,
                   history>>

\* The orphan's close() settles: 'disconnected', and null for every caller.
OrphanClosed ==
    /\ MicrotasksDone
    /\ connectPromise = "closingOrphan"
    /\ amqp' = [amqp EXCEPT ![orphan] = "closed"]
    /\ orphan' = NoConn
    /\ connectPromise' = "none"
    /\ connectionState' = "disconnected"
    /\ waiting' = 0
    /\ emitted' = {}
    /\ UNCHANGED <<isShuttingDown, isReconnecting, dialAttempt,
                   currentEndpointIndex, tried, reconnectAttempt,
                   reconnectTimeout, resuming, connection, closing, history>>

\* Mutant of Rotate: the endpoint index is advanced twice.
RotateTwice ==
    /\ currentEndpointIndex' = (currentEndpointIndex + 2) % EndpointCount
    /\ tried' = tried \cup {currentEndpointIndex}

\* amqp.connect() rejects: the next endpoint is up.  The rotation survives this
\* call, so the next dial starts where this one stopped.
Rotate ==
    /\ currentEndpointIndex' = (currentEndpointIndex + 1) % EndpointCount
    /\ tried' = tried \cup {currentEndpointIndex}

\* A failed endpoint that is not the last of the loop.
DialTriesNext ==
    /\ MicrotasksDone
    /\ connectPromise = "dialing"
    /\ faults < MaxFaults
    /\ dialAttempt + 1 < EndpointCount
    /\ Rotate
    /\ dialAttempt' = dialAttempt + 1
    /\ faults' = faults + 1
    /\ emitted' = {}
    /\ UNCHANGED <<state, connectPromise, orphan, retry, broker, wanted, calls>>

\* The last endpoint fails: connect() returns null, and either a reconnection
\* cycle is started (or continued) or a shutdown is completed.
DialGivesUp ==
    /\ MicrotasksDone
    /\ connectPromise = "dialing"
    /\ faults < MaxFaults
    /\ dialAttempt + 1 = EndpointCount
    /\ Rotate
    /\ dialAttempt' = 0
    /\ connectPromise' = "none"
    /\ connection' = NoConn
    /\ waiting' = 0
    /\ faults' = faults + 1
    /\ IF isShuttingDown
         THEN /\ connectionState' = "disconnected"
              /\ emitted' = {}
              /\ UNCHANGED <<isReconnecting, reconnectTimeout>>
         ELSE StartReconnection
    /\ UNCHANGED <<isShuttingDown, orphan, reconnectAttempt, resuming, closing,
                   amqp, wanted, calls>>

-----------------------------------------------------------------------------
(* The 'close' listener, the timer, and the attempt it starts. *)

\* An installed connection closes by itself.  disconnect() takes the listener
\* off the connection it closes, and an orphan never had one.  The handler does
\* not ask whether c is still #connection.
ConnectionCloses(c) ==
    /\ MicrotasksDone
    /\ faults < MaxFaults
    /\ amqp[c] = "open"
    /\ amqp' = [amqp EXCEPT ![c] = "closed"]
    /\ faults' = faults + 1
    /\ IF isShuttingDown
         THEN /\ emitted' = {}
              /\ UNCHANGED <<connection, connectionState, isReconnecting,
                             reconnectTimeout>>
         ELSE /\ connection' = NoConn
              /\ StartReconnection
    /\ UNCHANGED <<isShuttingDown, dial, reconnectAttempt, waiting, resuming,
                   closing, wanted, calls>>

\* The timer fires and #attemptReconnect() runs up to its await.
TimerFires ==
    /\ MicrotasksDone
    /\ reconnectTimeout
    /\ connectionState # "connected"
    /\ reconnectTimeout' = FALSE
    /\ reconnectAttempt' = reconnectAttempt + 1
    /\ CallConnect
    /\ waiting' = waiting + 1
    /\ emitted' = {}
    /\ UNCHANGED <<resuming, broker, history>>

\* #attemptReconnect() resumes with a connection.
AttemptResumes ==
    /\ resuming > 0
    /\ resuming' = resuming - 1
    /\ emitted' = {"reconnected"}
    /\ UNCHANGED <<state, dial, reconnectAttempt, reconnectTimeout, waiting,
                   broker, history>>

-----------------------------------------------------------------------------
(* disconnect(). *)

\* #clearReconnectTimeout(), called by disconnect().
ClearOnDisconnect == reconnectTimeout' = FALSE

\* Mutant of Disconnect: the connection is forgotten, not closed.
DisconnectUnclosed(d) ==
    /\ closing[d] = NoConn
    /\ isShuttingDown' = TRUE
    /\ isReconnecting' = FALSE
    /\ ClearOnDisconnect
    /\ connectionState' = "disconnected"
    /\ connection' = NoConn
    /\ wanted' = "disconnect"
    /\ emitted' = {}
    /\ UNCHANGED <<amqp, closing, dial, reconnectAttempt, waiting, resuming, faults>>

\* disconnect() up to its first await.  close() on a connection another
\* disconnect() is already closing rejects, and the `finally` forgets it.
Disconnect(d) ==
    /\ closing[d] = NoConn
    /\ isShuttingDown' = TRUE
    /\ isReconnecting' = FALSE
    /\ ClearOnDisconnect
    /\ \/ /\ connectionState = "disconnected"
          /\ UNCHANGED <<connectionState, broker>>
       \/ /\ connectionState # "disconnected"
          /\ HasOpenConnection
          /\ connectionState' = "disconnecting"
          /\ amqp' = [amqp EXCEPT ![connection] = "closing"]
          /\ closing' = [closing EXCEPT ![d] = connection]
          /\ UNCHANGED connection
       \/ /\ connectionState # "disconnected"
          /\ ~HasOpenConnection
          /\ connectionState' = "disconnected"
          /\ connection' = NoConn
          /\ UNCHANGED <<amqp, closing>>
    /\ wanted' = "disconnect"
    /\ emitted' = {}
    /\ UNCHANGED <<dial, reconnectAttempt, waiting, resuming, faults>>

\* The close() a disconnect() awaits settles; resolved or rejected, the
\* `finally` nulls #connection, whatever it holds by now.
CloseSettles(d) ==
    /\ MicrotasksDone
    /\ closing[d] # NoConn
    /\ amqp' = [amqp EXCEPT ![closing[d]] = "closed"]
    /\ closing' = [closing EXCEPT ![d] = NoConn]
    /\ connection' = NoConn
    /\ connectionState' = "disconnected"
    /\ emitted' = {}
    /\ UNCHANGED <<isShuttingDown, isReconnecting, dial, retry, history>>

-----------------------------------------------------------------------------
\* The application, which may call either operation at any time; whether it may
\* call connect() while the close() of a disconnect() is pending is Overlap.
AppConnect ==
    /\ calls < MaxCalls
    /\ Overlap \/ \A d \in Closers : closing[d] = NoConn
    /\ calls' = calls + 1
    /\ Connect

AppDisconnect(d) ==
    /\ calls < MaxCalls
    /\ calls' = calls + 1
    /\ Disconnect(d)

Next ==
    \/ AppConnect
    \/ \E c \in Conns : DialInstalls(c) \/ DialOrphaned(c) \/ ConnectionCloses(c)
    \/ OrphanClosed
    \/ DialTriesNext
    \/ DialGivesUp
    \/ TimerFires
    \/ AttemptResumes
    \/ \E d \in Closers : AppDisconnect(d) \/ CloseSettles(d)

\* The event loop runs what is due: a dial settles (and, MaxFaults being finite,
\* the broker is in the end reachable), an armed timer fires, a close() settles,
\* a resolved promise resumes its awaiters.  Nobody has to call anything, and
\* connections need not fail.
DialSettles == \/ \E c \in Conns : DialInstalls(c) \/ DialOrphaned(c)
               \/ DialTriesNext
               \/ DialGivesUp

Fairness ==
    /\ WF_connVars(DialSettles)
    /\ WF_connVars(OrphanClosed)
    /\ WF_connVars(TimerFires)
    /\ WF_connVars(AttemptResumes)
    /\ \A d \in Closers : WF_connVars(CloseSettles(d))

Spec == Init /\ [][Next]_connVars

FairSpec == Spec /\ Fairness

-----------------------------------------------------------------------------
(* Properties. *)

\* No AMQP connection is left behind: an open one is #connection, a closing one
\* is awaited by the disconnect() or by the dial that closes it.  (A second open
\* connection would live until the process ends: nothing refers to it.)
OwnedConnection ==
    \A c \in Conns :
        /\ amqp[c] = "open" => c = connection
        /\ amqp[c] = "closing" => c = orphan \/ \E d \in Closers : closing[d] = c

\* The state the class reports and the connection it holds agree: 'connected'
\* exactly when #connection is open at the broker.
ConnectedMeansLive ==
    (connectionState = "connected") <=> HasOpenConnection

\* While the class reports that it is connecting or reconnecting, a dial is in
\* flight or a retry is armed: a cycle never stops silently.
ReconnectionArmed ==
    connectionState \in {"connecting", "reconnecting"}
        => connectPromise = "dialing" \/ reconnectTimeout

\* maxReconnectAttempts bounds the automatic attempts: a retry is armed only while
\* one is left, and no more than that many are made between two connections.
BudgetRespected ==
    MaxReconnectAttempts # Infinity =>
        /\ reconnectAttempt <= MaxReconnectAttempts
        /\ reconnectTimeout => reconnectAttempt < MaxReconnectAttempts

\* Once the application's last word is disconnect(), neither a late dial, nor the
\* timer, nor a 'close' event brings the connection back.
DisconnectIsFinal ==
    wanted = "disconnect" =>
        /\ isShuttingDown
        /\ ~reconnectTimeout
        /\ connectionState \in {"disconnecting", "disconnected"}

\* A dial that gives up has tried every endpoint, wherever the rotation stood
\* when it began.
EveryEndpointTried ==
    [][connectPromise = "dialing" /\ connectPromise' = "none" /\ connectionState' # "connected"
         => tried' = 0 .. EndpointCount - 1]_connVars

\* A disconnect() the application does not take back ends with no connection
\* open or half-closed at the broker, those of late dials included.
ShutsDown ==
    wanted = "disconnect"
        ~> wanted = "connect" \/ \A c \in Conns : amqp[c] \in {"unopened", "closed"}

-----------------------------------------------------------------------------
(* What the state machine implements. *)

\* getConnectionState(), as the user of the link reads it.
Link ==
    IF connectionState = "connected" THEN "up"
    ELSE IF connectionState \in {"connecting", "reconnecting"} THEN "seeking"
    ELSE IF connectionState = "failed" THEN "gaveUp"
    ELSE "down"

Service == INSTANCE ConnectionService WITH link <- Link, want <- wanted

\* Dials, rotations, timers and their budget amount to the service: the link comes up
\* only while it is wanted, is never dropped without being sought again or given up, and
\* is not brought back by anything left over from before a disconnect().
ImplementsService == Service!Spec

=============================================================================
