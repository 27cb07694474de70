---------------------------- MODULE LifecycleProofs ----------------------------
(***************************************************************************)
(* Proofs about Connection, and about Lifecycle, the facade composed with  *)
(* it, for every number of endpoints, connections, restores, disconnect()  *)
(* calls, faults and calls, and every retry budget.  The second part uses  *)
(* what the first shows of the connection's own steps.                     *)
(***************************************************************************)
EXTENDS Lifecycle, TLAPS

-----------------------------------------------------------------------------
(* The connection. *)


\* disconnect() leaves nothing that could act on its own: #isShuttingDown holds
\* until a new dial begins, and while it does no cycle is running.
ShutdownQuiet ==
    isShuttingDown => /\ ~reconnectTimeout
                      /\ ~isReconnecting
                      /\ connectionState \in {"disconnecting", "disconnected"}

\* Where the shared dial is, what it holds and what the state can be meanwhile.
DialPhase ==
    /\ connectPromise # "none" => connectionState # "connected"
    /\ connectPromise = "closingOrphan" => isShuttingDown /\ orphan # NoConn
    /\ connectPromise # "closingOrphan" => orphan = NoConn

\* A cycle that is running has no connection.
CyclePhase == isReconnecting => connectionState # "connected"

\* The inductive invariant.
IInv ==
    /\ TypeOK
    /\ ShutdownQuiet
    /\ DialPhase
    /\ CyclePhase
    /\ BudgetRespected
    /\ DisconnectIsFinal
    /\ ReconnectionArmed
    /\ ConnectedMeansLive

\* What connections are owned by, when connect() does not overlap a disconnect().
CloserPhase == \A d \in Closers : closing[d] # NoConn => isShuttingDown

OInv == CloserPhase /\ OwnedConnection

-----------------------------------------------------------------------------
\* Rotating the endpoint index keeps it in range.
LEMMA RotationInRange ==
    ASSUME NEW i \in 0 .. EndpointCount - 1
    PROVE  (i + 1) % EndpointCount \in 0 .. EndpointCount - 1
BY EndpointAssumption

\* A step of the class itself: what the application's calls do once they are made, and
\* what may also happen around the class without touching it.  Who counts the calls and
\* the faults is left open, so that the facts below hold in a composition too.
Core ==
    \/ Connect
    \/ \E c \in Conns : DialInstalls(c) \/ DialOrphaned(c) \/ ConnectionCloses(c)
    \/ OrphanClosed
    \/ DialTriesNext
    \/ DialGivesUp
    \/ TimerFires
    \/ AttemptResumes
    \/ \E d \in Closers : Disconnect(d) \/ CloseSettles(d)
    \/ UNCHANGED <<state, dial, retry, broker, wanted>> /\ emitted' \in {emitted, {}}

\* Every step of Connection, a stutter included, has the shape Core that the lemmas below reason about.
LEMMA StepIsCore == [Next]_connVars => Core
BY DEF Next, Core, AppConnect, AppDisconnect, connVars, history

\* The counters of TypeOK, apart from the rest so that each half goes to the
\* prover that can do it.
Counters ==
    /\ currentEndpointIndex \in 0 .. EndpointCount - 1
    /\ dialAttempt \in 0 .. EndpointCount - 1
    /\ reconnectAttempt \in Nat
    /\ waiting \in Nat
    /\ resuming \in Nat

\* The types of the rest, but for the two bounds.
Places ==
    /\ connectionState \in States
    /\ connection \in Conns \cup {NoConn}
    /\ isShuttingDown \in BOOLEAN
    /\ isReconnecting \in BOOLEAN
    /\ reconnectTimeout \in BOOLEAN
    /\ connectPromise \in {"none", "dialing", "closingOrphan"}
    /\ orphan \in Conns \cup {NoConn}
    /\ closing \in [Closers -> Conns \cup {NoConn}]
    /\ amqp \in [Conns -> {"unopened", "open", "closing", "closed"}]
    /\ emitted \in SUBSET Events
    /\ tried \in SUBSET (0 .. EndpointCount - 1)
    /\ wanted \in {"nothing", "connect", "disconnect"}

Types == Counters /\ Places

\* The retry counter, the endpoint index and the attempt number of a dial stay in range.
LEMMA CountersStep == Counters /\ Core => Counters'
<1> SUFFICES ASSUME Counters, Core PROVE Counters'
  OBVIOUS
<1> USE EndpointAssumption DEF Counters, dial, retry
<1>1. CASE Connect
  BY <1>1 DEF Connect, CallConnect
<1>2. ASSUME NEW c \in Conns, DialInstalls(c) PROVE Counters'
  BY <1>2 DEF DialInstalls
<1>3. ASSUME NEW c \in Conns, DialOrphaned(c) PROVE Counters'
  BY <1>3 DEF DialOrphaned
<1>4. ASSUME NEW c \in Conns, ConnectionCloses(c) PROVE Counters'
  BY <1>4 DEF ConnectionCloses
<1>5. CASE OrphanClosed
  BY <1>5 DEF OrphanClosed
<1>6. CASE DialTriesNext
  BY <1>6, RotationInRange DEF DialTriesNext, Rotate
<1>7. CASE DialGivesUp
  BY <1>7, RotationInRange DEF DialGivesUp, Rotate
<1>8. CASE TimerFires
  BY <1>8 DEF TimerFires, CallConnect
<1>9. CASE AttemptResumes
  BY <1>9 DEF AttemptResumes
<1>10. ASSUME NEW d \in Closers, Disconnect(d) PROVE Counters'
  BY <1>10 DEF Disconnect, ClearOnDisconnect
<1>11. ASSUME NEW d \in Closers, CloseSettles(d) PROVE Counters'
  BY <1>11 DEF CloseSettles
<1>12. CASE UNCHANGED <<state, dial, retry, broker, wanted>> /\ emitted' \in {emitted, {}}
  BY <1>12
<1> QED
  BY <1>1, <1>2, <1>3, <1>4, <1>5, <1>6, <1>7, <1>8, <1>9, <1>10, <1>11, <1>12
     DEF Core

\* The types are inductive on their own.
LEMMA TypesInit == Init => Types
<1>1. Init => Counters
  BY EndpointAssumption DEF Init, Counters
<1>2. QED
  BY <1>1 DEF Init, Types, Places, States

\* Every step keeps the fields of the connection well typed.
LEMMA TypesStep == Types /\ Core => Types'
<1> SUFFICES ASSUME Counters, Places, Core PROVE Places'
  BY CountersStep DEF Types
<1> USE DEF Places, Counters, States, Events, state, dial, retry, broker, history
<1>1. CASE Connect
  BY <1>1 DEF Connect, CallConnect
<1>2. ASSUME NEW c \in Conns, DialInstalls(c) PROVE Places'
  BY <1>2 DEF DialInstalls
<1>3. ASSUME NEW c \in Conns, DialOrphaned(c) PROVE Places'
  BY <1>3 DEF DialOrphaned
<1>4. ASSUME NEW c \in Conns, ConnectionCloses(c) PROVE Places'
  BY <1>4 DEF ConnectionCloses, StartReconnection
<1>5. CASE OrphanClosed
  BY <1>5 DEF OrphanClosed
<1>6. CASE DialTriesNext
  BY <1>6 DEF DialTriesNext, Rotate
<1>7. CASE DialGivesUp
  BY <1>7 DEF DialGivesUp, Rotate, StartReconnection
<1>8. CASE TimerFires
  BY <1>8 DEF TimerFires, CallConnect
<1>9. CASE AttemptResumes
  BY <1>9 DEF AttemptResumes
<1>10. ASSUME NEW d \in Closers, Disconnect(d) PROVE Places'
  BY <1>10 DEF Disconnect, ClearOnDisconnect
<1>11. ASSUME NEW d \in Closers, CloseSettles(d) PROVE Places'
  BY <1>11 DEF CloseSettles
<1>12. CASE UNCHANGED <<state, dial, retry, broker, wanted>> /\ emitted' \in {emitted, {}}
  BY <1>12
<1> QED
  BY <1>1, <1>2, <1>3, <1>4, <1>5, <1>6, <1>7, <1>8, <1>9, <1>10, <1>11, <1>12
     DEF Core

\* The two bounds count up to their limits.
LEMMA BoundsStep ==
    faults \in 0 .. MaxFaults /\ calls \in 0 .. MaxCalls /\ [Next]_connVars
        => faults' \in 0 .. MaxFaults /\ calls' \in 0 .. MaxCalls
BY BoundsAssumption
   DEF Next, AppConnect, Connect, DialInstalls, DialOrphaned, ConnectionCloses, OrphanClosed,
       DialTriesNext, DialGivesUp, TimerFires, AttemptResumes, AppDisconnect, Disconnect,
       CloseSettles, connVars, history

\* A new connection is well typed.
LEMMA TypeInit == Init => TypeOK
<1>1. Init => faults \in 0 .. MaxFaults /\ calls \in 0 .. MaxCalls
  BY BoundsAssumption DEF Init
<1>2. QED
  BY <1>1, TypesInit DEF Types, Counters, Places, TypeOK

\* Every step of Connection keeps it well typed, bounds on faults and calls included.
LEMMA TypeStep == TypeOK /\ [Next]_connVars => TypeOK'
<1>1. TypeOK <=> Types /\ faults \in 0 .. MaxFaults /\ calls \in 0 .. MaxCalls
  BY DEF TypeOK, Types, Counters, Places
<1>2. (TypeOK <=> Types /\ faults \in 0 .. MaxFaults /\ calls \in 0 .. MaxCalls)'
  BY DEF TypeOK, Types, Counters, Places
<1> QED
  BY <1>1, <1>2, TypesStep, BoundsStep, StepIsCore

\* Type correctness of the connection's state machine.
THEOREM TypeCorrect == Spec => []TypeOK
<1>1. QED
  BY TypeInit, TypeStep, PTL DEF Spec

-----------------------------------------------------------------------------
\* The inductive invariant holds of a new connection.
LEMMA IInvInit == Init => IInv
<1>1. Init => TypeOK
  BY TypeInit
<1>2. Init => BudgetRespected
  BY BudgetAssumption DEF NonNegativeNumbers, Init, BudgetRespected
<1>3. QED
  BY <1>1, <1>2 DEF Init, IInv, ShutdownQuiet, DialPhase, CyclePhase,
     DisconnectIsFinal, ReconnectionArmed, ConnectedMeansLive, HasOpenConnection

\* The retry budget, the only arithmetic of the invariant.
LEMMA BudgetStep == Types /\ BudgetRespected /\ Core => BudgetRespected'
<1> SUFFICES ASSUME Types, BudgetRespected, Core,
                    MaxReconnectAttempts \in Nat
             PROVE  BudgetRespected'
  BY BudgetAssumption DEF NonNegativeNumbers, BudgetRespected
<1> USE BudgetAssumption DEF NonNegativeNumbers, Types, Counters, Places, BudgetRespected, retry
<1>1. CASE Connect
  BY <1>1 DEF Connect
<1>2. ASSUME NEW c \in Conns, DialInstalls(c) PROVE BudgetRespected'
  BY <1>2 DEF DialInstalls
<1>3. ASSUME NEW c \in Conns, DialOrphaned(c) PROVE BudgetRespected'
  BY <1>3 DEF DialOrphaned
<1>4. ASSUME NEW c \in Conns, ConnectionCloses(c) PROVE BudgetRespected'
  BY <1>4 DEF ConnectionCloses, StartReconnection, BudgetSpent
<1>5. CASE OrphanClosed
  BY <1>5 DEF OrphanClosed
<1>6. CASE DialTriesNext
  BY <1>6 DEF DialTriesNext
<1>7. CASE DialGivesUp
  BY <1>7 DEF DialGivesUp, StartReconnection, BudgetSpent
<1>8. CASE TimerFires
  BY <1>8 DEF TimerFires
<1>9. CASE AttemptResumes
  BY <1>9 DEF AttemptResumes
<1>10. ASSUME NEW d \in Closers, Disconnect(d) PROVE BudgetRespected'
  BY <1>10 DEF Disconnect, ClearOnDisconnect
<1>11. ASSUME NEW d \in Closers, CloseSettles(d) PROVE BudgetRespected'
  BY <1>11 DEF CloseSettles
<1>12. CASE UNCHANGED <<state, dial, retry, broker, wanted>> /\ emitted' \in {emitted, {}}
  BY <1>12
<1> QED
  BY <1>1, <1>2, <1>3, <1>4, <1>5, <1>6, <1>7, <1>8, <1>9, <1>10, <1>11, <1>12
     DEF Core

\* The rest of the invariant.
Phases ==
    /\ ShutdownQuiet
    /\ DialPhase
    /\ CyclePhase
    /\ DisconnectIsFinal
    /\ ReconnectionArmed
    /\ ConnectedMeansLive

\* Every step keeps the phases of dial, cycle and shutdown in agreement.
LEMMA PhasesStep == Types /\ Phases /\ Core => Phases'
<1> SUFFICES ASSUME Types, Phases, Core PROVE Phases'
  OBVIOUS
<1> USE ConnsAssumption
    DEF Types, Counters, Places, Phases, ShutdownQuiet, DialPhase, CyclePhase, DisconnectIsFinal,
        ReconnectionArmed, ConnectedMeansLive, HasOpenConnection,
        state, dial, retry, broker, history
<1>1. CASE Connect
  BY <1>1 DEF Connect, CallConnect, AlreadyConnected
<1>2. ASSUME NEW c \in Conns, DialInstalls(c) PROVE Phases'
  BY <1>2 DEF DialInstalls, ShutdownSeen
<1>3. ASSUME NEW c \in Conns, DialOrphaned(c) PROVE Phases'
  BY <1>3 DEF DialOrphaned, ShutdownSeen
<1>4. ASSUME NEW c \in Conns, ConnectionCloses(c) PROVE Phases'
  BY <1>4 DEF ConnectionCloses, StartReconnection
<1>5. CASE OrphanClosed
  BY <1>5 DEF OrphanClosed
<1>6. CASE DialTriesNext
  BY <1>6 DEF DialTriesNext
<1>7. CASE DialGivesUp
  BY <1>7 DEF DialGivesUp, StartReconnection
<1>8. CASE TimerFires
  BY <1>8 DEF TimerFires, CallConnect, AlreadyConnected
<1>9. CASE AttemptResumes
  BY <1>9 DEF AttemptResumes
<1>10. ASSUME NEW d \in Closers, Disconnect(d) PROVE Phases'
  BY <1>10 DEF Disconnect, ClearOnDisconnect
<1>11. ASSUME NEW d \in Closers, CloseSettles(d) PROVE Phases'
  BY <1>11 DEF CloseSettles
<1>12. CASE UNCHANGED <<state, dial, retry, broker, wanted>> /\ emitted' \in {emitted, {}}
  BY <1>12
<1> QED
  BY <1>1, <1>2, <1>3, <1>4, <1>5, <1>6, <1>7, <1>8, <1>9, <1>10, <1>11, <1>12
     DEF Core

\* Every step of Connection keeps the inductive invariant.
LEMMA IInvStep == IInv /\ [Next]_connVars => IInv'
<1>1. TypeOK => Types
  BY DEF TypeOK, Types, Counters, Places
<1> QED
  BY <1>1, StepIsCore, TypeStep, BudgetStep, PhasesStep DEF IInv, Phases

\* The inductive invariant holds in every reachable state.
THEOREM Invariance == Spec => []IInv
<1>1. IInv /\ [Next]_connVars => IInv'
  BY IInvStep
<1>2. QED
  BY IInvInit, <1>1, PTL DEF Spec

\* maxReconnectAttempts bounds the automatic attempts, for every budget.
THEOREM BudgetHolds == Spec => []BudgetRespected
<1>1. IInv => BudgetRespected
  BY DEF IInv
<1>2. QED
  BY <1>1, Invariance, PTL

\* After disconnect() nothing brings the connection back until connect() is
\* called again.
THEOREM DisconnectHolds == Spec => []DisconnectIsFinal
<1>1. IInv => DisconnectIsFinal
  BY DEF IInv
<1>2. QED
  BY <1>1, Invariance, PTL

\* A class that says it is connecting or reconnecting is doing so.
THEOREM ArmedHolds == Spec => []ReconnectionArmed
<1>1. IInv => ReconnectionArmed
  BY DEF IInv
<1>2. QED
  BY <1>1, Invariance, PTL

\* 'connected' is reported exactly while the broker has the connection open.
THEOREM LiveHolds == Spec => []ConnectedMeansLive
<1>1. IInv => ConnectedMeansLive
  BY DEF IInv
<1>2. QED
  BY <1>1, Invariance, PTL

-----------------------------------------------------------------------------
(* The rotation of the endpoints. *)

\* The n endpoints before i, counted round.
Behind(i, n) ==
    IF n <= i THEN (i - n) .. (i - 1)
              ELSE (0 .. (i - 1)) \cup ((EndpointCount + i - n) .. (EndpointCount - 1))

\* A dial has tried the endpoints it has rotated past, and no others.
TriedPart == connectPromise = "dialing" => tried = Behind(currentEndpointIndex, dialAttempt)

\* The remainder only matters at the last endpoint.
LEMMA RotationValue ==
    ASSUME NEW i \in 0 .. EndpointCount - 1
    PROVE  (i + 1) % EndpointCount = IF i + 1 = EndpointCount THEN 0 ELSE i + 1
BY EndpointAssumption

\* One endpoint further, the one just left is behind too; after as many as there are, all are.
LEMMA BehindNext ==
    ASSUME NEW i \in 0 .. EndpointCount - 1, NEW n \in 0 .. EndpointCount - 1
    PROVE  /\ Behind(i, 0) = {}
           /\ n + 1 < EndpointCount =>
                Behind((i + 1) % EndpointCount, n + 1) = Behind(i, n) \cup {i}
           /\ n + 1 = EndpointCount => Behind(i, n) \cup {i} = 0 .. EndpointCount - 1
<1>1. Behind(i, 0) = {}
  BY EndpointAssumption DEF Behind
<1>2. ASSUME n + 1 < EndpointCount
      PROVE  Behind((i + 1) % EndpointCount, n + 1) = Behind(i, n) \cup {i}
  <2>1. CASE i + 1 = EndpointCount
    BY <1>2, <2>1, RotationValue, EndpointAssumption DEF Behind
  <2>2. CASE i + 1 # EndpointCount
    BY <1>2, <2>2, RotationValue, EndpointAssumption DEF Behind
  <2> QED
    BY <2>1, <2>2
<1>3. ASSUME n + 1 = EndpointCount PROVE Behind(i, n) \cup {i} = 0 .. EndpointCount - 1
  BY <1>3, EndpointAssumption DEF Behind
<1> QED
  BY <1>1, <1>2, <1>3

\* What has been tried, after a step.
LEMMA TriedStep ==
    ASSUME Types, TriedPart, Core
    PROVE  TriedPart'
<1> USE DEF Types, Counters, Places, TriedPart, dial
<1>0. Behind(currentEndpointIndex, 0) = {}
  BY EndpointAssumption, BehindNext
<1>1. CASE Connect
  BY <1>0, <1>1 DEF Connect, CallConnect
<1>2. ASSUME NEW c \in Conns, DialInstalls(c) PROVE TriedPart'
  BY <1>2 DEF DialInstalls
<1>3. ASSUME NEW c \in Conns, DialOrphaned(c) PROVE TriedPart'
  BY <1>3 DEF DialOrphaned
<1>4. ASSUME NEW c \in Conns, ConnectionCloses(c) PROVE TriedPart'
  BY <1>4 DEF ConnectionCloses
<1>5. CASE OrphanClosed
  BY <1>5 DEF OrphanClosed
<1>6. CASE DialTriesNext
  BY <1>6, BehindNext DEF DialTriesNext, Rotate
<1>7. CASE DialGivesUp
  BY <1>7 DEF DialGivesUp
<1>8. CASE TimerFires
  BY <1>0, <1>8 DEF TimerFires, CallConnect
<1>9. CASE AttemptResumes
  BY <1>9 DEF AttemptResumes
<1>10. ASSUME NEW d \in Closers, Disconnect(d) PROVE TriedPart'
  BY <1>10 DEF Disconnect
<1>11. ASSUME NEW d \in Closers, CloseSettles(d) PROVE TriedPart'
  BY <1>11 DEF CloseSettles
<1>12. CASE UNCHANGED <<state, dial, retry, broker, wanted>> /\ emitted' \in {emitted, {}}
  BY <1>12
<1> QED
  BY <1>1, <1>2, <1>3, <1>4, <1>5, <1>6, <1>7, <1>8, <1>9, <1>10, <1>11, <1>12
     DEF Core

\* A dial that ends without a connection was at its last endpoint.
LEMMA GiveUpTried ==
    ASSUME Types, TriedPart, Core,
           connectPromise = "dialing", connectPromise' = "none", connectionState' # "connected"
    PROVE  tried' = 0 .. EndpointCount - 1
<1>1. DialGivesUp
  BY DEF Core, Connect, CallConnect, DialInstalls, DialOrphaned, ConnectionCloses, OrphanClosed,
         DialTriesNext, TimerFires, AttemptResumes, Disconnect, CloseSettles, dial
<1>2. tried' = Behind(currentEndpointIndex, dialAttempt) \cup {currentEndpointIndex}
  BY <1>1 DEF DialGivesUp, Rotate, TriedPart
<1>3. dialAttempt + 1 = EndpointCount
  BY <1>1 DEF DialGivesUp
<1> QED
  BY <1>2, <1>3, BehindNext DEF Types, Counters

\* A dial gives up only after every endpoint, for any number of them and wherever the
\* rotation stood when it began.
THEOREM EndpointsHold == Spec => EveryEndpointTried
<1>1. Init => TriedPart
  BY DEF Init, TriedPart
<1>2. IInv => Types
  BY DEF IInv, TypeOK, Types, Counters, Places
<1>3. IInv /\ TriedPart /\ [Next]_connVars => TriedPart'
  BY <1>2, StepIsCore, TriedStep
<1>4. IInv /\ TriedPart /\ [Next]_connVars =>
        [connectPromise = "dialing" /\ connectPromise' = "none" /\ connectionState' # "connected"
           => tried' = 0 .. EndpointCount - 1]_connVars
  BY <1>2, StepIsCore, GiveUpTried
<1> QED
  BY <1>1, <1>3, <1>4, Invariance, PTL DEF Spec, EveryEndpointTried

-----------------------------------------------------------------------------
\* Ownership: one step.  Overlapping calls are where it fails, so the lemma
\* assumes there are none.
LEMMA OInvStep ==
    ASSUME ~Overlap, IInv, OInv, [Next]_connVars
    PROVE  OInv'
<1> USE ConnsAssumption
    DEF TypeOK, IInv, OInv, CloserPhase, OwnedConnection, ShutdownQuiet, DialPhase,
        ConnectedMeansLive, HasOpenConnection, state, dial, retry, broker, history
<1>1. CASE AppConnect
  BY <1>1 DEF AppConnect, Connect, CallConnect
<1>2. ASSUME NEW c \in Conns, DialInstalls(c) PROVE OInv'
  BY <1>2 DEF DialInstalls, ShutdownSeen
<1>3. ASSUME NEW c \in Conns, DialOrphaned(c) PROVE OInv'
  BY <1>3 DEF DialOrphaned
<1>4. ASSUME NEW c \in Conns, ConnectionCloses(c) PROVE OInv'
  BY <1>4 DEF ConnectionCloses, StartReconnection
<1>5. CASE OrphanClosed
  BY <1>5 DEF OrphanClosed
<1>6. CASE DialTriesNext
  BY <1>6 DEF DialTriesNext
<1>7. CASE DialGivesUp
  BY <1>7 DEF DialGivesUp, StartReconnection
<1>8. CASE TimerFires
  BY <1>8 DEF TimerFires, CallConnect
<1>9. CASE AttemptResumes
  BY <1>9 DEF AttemptResumes
<1>10. ASSUME NEW d \in Closers, AppDisconnect(d) PROVE OInv'
  BY <1>10 DEF AppDisconnect, Disconnect
<1>11. ASSUME NEW d \in Closers, CloseSettles(d) PROVE OInv'
  BY <1>11 DEF CloseSettles
<1>12. CASE UNCHANGED connVars
  BY <1>12 DEF connVars
<1> QED
  BY <1>1, <1>2, <1>3, <1>4, <1>5, <1>6, <1>7, <1>8, <1>9, <1>10, <1>11, <1>12
     DEF Next

\* If connect() is never called while a disconnect() is closing the connection,
\* no AMQP connection is ever left without an owner.
THEOREM OwnershipHolds ==
    ASSUME ~Overlap
    PROVE  Spec => []OwnedConnection
<1>1. Init => OInv
  BY ConnsAssumption DEF Init, OInv, CloserPhase, OwnedConnection
<1>2. IInv /\ OInv /\ [Next]_connVars => OInv'
  BY OInvStep
<1>3. OInv => OwnedConnection
  BY DEF OInv
<1>4. QED
  BY <1>1, <1>2, <1>3, Invariance, PTL DEF Spec

-----------------------------------------------------------------------------
(* The state machine implements ConnectionService. *)

\* A dial that has not been doomed is what "connecting" means, and whatever is active was
\* asked for.
SeekPhase ==
    /\ connectPromise = "dialing" /\ ~isShuttingDown => connectionState = "connecting"
    /\ reconnectTimeout => connectionState \in {"connecting", "reconnecting"}
    /\ connectionState \notin {"disconnected", "disconnecting"} => wanted = "connect"

RInv == IInv /\ OInv /\ SeekPhase

\* Every step keeps what the user sees in agreement with what is under way and who asked for it.
LEMMA SeekStep ==
    ASSUME RInv, [Next]_connVars
    PROVE  SeekPhase'
<1> USE ConnsAssumption
    DEF TypeOK, States, RInv, IInv, OInv, SeekPhase, OwnedConnection, CloserPhase, ShutdownQuiet,
        DialPhase, CyclePhase, ConnectedMeansLive, HasOpenConnection, state, dial, retry, broker,
        history
<1>1. CASE AppConnect
  BY <1>1 DEF AppConnect, Connect, CallConnect, AlreadyConnected
<1>2. ASSUME NEW c \in Conns, DialInstalls(c) PROVE SeekPhase'
  BY <1>2 DEF DialInstalls, ShutdownSeen
<1>3. ASSUME NEW c \in Conns, DialOrphaned(c) PROVE SeekPhase'
  BY <1>3 DEF DialOrphaned
<1>4. ASSUME NEW c \in Conns, ConnectionCloses(c) PROVE SeekPhase'
  BY <1>4 DEF ConnectionCloses, StartReconnection
<1>5. CASE OrphanClosed
  BY <1>5 DEF OrphanClosed
<1>6. CASE DialTriesNext
  BY <1>6 DEF DialTriesNext
<1>7. CASE DialGivesUp
  BY <1>7 DEF DialGivesUp, StartReconnection
<1>8. CASE TimerFires
  BY <1>8 DEF TimerFires, CallConnect, AlreadyConnected
<1>9. CASE AttemptResumes
  BY <1>9 DEF AttemptResumes
<1>10. ASSUME NEW d \in Closers, AppDisconnect(d) PROVE SeekPhase'
  BY <1>10 DEF AppDisconnect, Disconnect, ClearOnDisconnect
<1>11. ASSUME NEW d \in Closers, CloseSettles(d) PROVE SeekPhase'
  BY <1>11 DEF CloseSettles
<1>12. CASE UNCHANGED connVars
  BY <1>12 DEF connVars
<1> QED
  BY <1>1, <1>2, <1>3, <1>4, <1>5, <1>6, <1>7, <1>8, <1>9, <1>10, <1>11, <1>12
     DEF Next

\* Every step of the state machine is one of the service, or changes nothing it shows.
LEMMA ServiceStep ==
    ASSUME RInv, [Next]_connVars
    PROVE  [Service!Next]_<<Link, wanted>>
<1> USE ConnsAssumption
    DEF TypeOK, States, RInv, IInv, OInv, SeekPhase, OwnedConnection, CloserPhase, ShutdownQuiet,
        DialPhase, CyclePhase, ConnectedMeansLive, HasOpenConnection, state, dial, retry, broker,
        history, Link, Service!Next, Service!Ask, Service!Establish, Service!Lose, Service!GiveUp,
        Service!Release
<1>1. CASE AppConnect
  BY <1>1 DEF AppConnect, Connect, CallConnect, AlreadyConnected
<1>2. ASSUME NEW c \in Conns, DialInstalls(c) PROVE Service!Establish
  BY <1>2 DEF DialInstalls, ShutdownSeen
<1>3. ASSUME NEW c \in Conns, DialOrphaned(c) PROVE UNCHANGED <<Link, wanted>>
  BY <1>3 DEF DialOrphaned
<1>4. ASSUME NEW c \in Conns, ConnectionCloses(c) PROVE [Service!Lose]_<<Link, wanted>>
  BY <1>4 DEF ConnectionCloses, StartReconnection
<1>5. CASE OrphanClosed
  BY <1>5 DEF OrphanClosed
<1>6. CASE DialTriesNext
  BY <1>6 DEF DialTriesNext
<1>7. CASE DialGivesUp
  BY <1>7 DEF DialGivesUp, StartReconnection
<1>8. CASE TimerFires
  BY <1>8 DEF TimerFires, CallConnect, AlreadyConnected
<1>9. CASE AttemptResumes
  BY <1>9 DEF AttemptResumes
<1>10. ASSUME NEW d \in Closers, AppDisconnect(d) PROVE Service!Release
  BY <1>10 DEF AppDisconnect, Disconnect
<1>11. ASSUME NEW d \in Closers, CloseSettles(d) PROVE UNCHANGED <<Link, wanted>>
  BY <1>11 DEF CloseSettles
<1>12. CASE UNCHANGED connVars
  BY <1>12 DEF connVars
<1> QED
  BY <1>1, <1>2, <1>3, <1>4, <1>5, <1>6, <1>7, <1>8, <1>9, <1>10, <1>11, <1>12
     DEF Next

\* If connect() is never called while a disconnect() is closing the connection, the state
\* machine is an implementation of the service, for every budget and number of endpoints.
THEOREM Refinement ==
    ASSUME ~Overlap
    PROVE  Spec => ImplementsService
<1>1. Init => RInv /\ Service!Init
  BY IInvInit, ConnsAssumption
     DEF Init, RInv, OInv, CloserPhase, OwnedConnection, SeekPhase, Link, Service!Init
<1>2. RInv /\ [Next]_connVars => RInv'
  BY OInvStep, SeekStep, IInvStep DEF RInv
<1>3. RInv /\ [Next]_connVars => [Service!Next]_<<Link, wanted>>
  BY ServiceStep
<1>4. QED
  BY <1>1, <1>2, <1>3, PTL DEF Spec, ImplementsService, Service!Spec

-----------------------------------------------------------------------------
(* The facade with its connection. *)


FacadeTypes ==
    /\ channelPool \in Restores \cup {NoRestore}
    /\ restorePromise \in Restores \cup {NoRestore}
    /\ restorePc \in [Restores -> InProgress \cup {"unused", "refused", "closing", "done"}]
    /\ restoreConn \in [Restores -> Conns \cup {NoConn}]
    /\ restoreTarget \in [Restores -> Restores \cup {NoRestore}]
    /\ heard \in [Restores -> BOOLEAN]
    /\ pools \in [Restores -> {"none", "open", "closed"}]
    /\ consumes \in [Restores -> Nat]
    /\ subscribed \in BOOLEAN
    /\ connectPc \in {"idle", "dialing", "resolved", "null", "restoring", "parked"}
    /\ connectOn \in Restores \cup {NoRestore}
    /\ waitForConnection \in BOOLEAN
    /\ disconnectPc \in [Closers -> {"idle", "disposing", "closingPool", "disconnecting"}]
    /\ announced \in SUBSET {"disconnected", "disconnecting", "reconnected",
                             "reconnectError", "reconnectFailed"}
    /\ exited \in BOOLEAN

\* A restore that still works on the live connection owns #restorePromise.
RestoreOwnsSlot ==
    \A r \in Restores :
        restorePc[r] \in InProgress /\ restoreConn[r] = connection /\ connection # NoConn
            => restorePromise = r

\* Connections are not reused: what is or was in place has been opened.
ConnectionUsed ==
    /\ connection # NoConn => amqp[connection] # "unopened"
    /\ \A r \in Restores :
         /\ restoreConn[r] # NoConn => amqp[restoreConn[r]] # "unopened"
         /\ restorePc[r] \in InProgress => restoreConn[r] # NoConn

\* The inductive invariant behind SingleRestore.
FInv == Types /\ Phases /\ FacadeTypes /\ RestoreOwnsSlot /\ ConnectionUsed

-----------------------------------------------------------------------------
\* The rest is about disconnects that do not overlap a connect().

\* The connection in place is open, or a disconnect() is awaiting its close().
CloserOwns ==
    /\ \A d \in Closers : closing[d] # NoConn => isShuttingDown /\ disconnectPc[d] = "disconnecting"
    /\ connection # NoConn /\ amqp[connection] # "open" => \E d \in Closers : closing[d] = connection

\* A restore has not installed its pool, or has taken it down again.
NotInstalled == {"unused", "building", "opened", "refused", "closing"}

\* What is in place was installed by its restore; a restore that has not installed its
\* pool yet finds none on the same connection; and the continuations that start restores
\* come before any of them is through.  A pool is open only once its restore has a
\* connection.
PoolPlace ==
    /\ channelPool \in Restores => /\ restorePc[channelPool] \notin NotInstalled
                                   /\ restoreConn[channelPool] # NoConn
    /\ \A r \in Restores :
         /\ restorePc[r] \in {"building", "opened"} /\ restoreConn[r] = connection
              /\ channelPool \in Restores
            => restoreConn[channelPool] # connection
         /\ resuming > 0 /\ connection # NoConn /\ restoreConn[r] = connection
            => restorePc[r] = "building"
         /\ pools[r] = "open" => restorePc[r] \notin {"unused", "refused"} /\ restoreConn[r] # NoConn

GInv == CloserOwns /\ OwnedConnection /\ PoolPlace /\ PoolOwned

\* With an exchange to ensure, a pool is only taken for restored while the connection it
\* was built on is in place.
PoolCurrent ==
    channelPool \in Restores /\ restorePc[channelPool] \in {"recreating", "done"} =>
        /\ ~isShuttingDown
        /\ (\A d \in Closers : disconnectPc[d] = "idle") => connection = restoreConn[channelPool]

\* A pool is consumed on once it is installed, and once.
ConsumedOnce ==
    \A r \in Restores :
        /\ restorePc[r] \in {"unused", "building", "opened", "refused"} => consumes[r] = 0
        /\ restorePc[r] = "recreating" => restoreTarget[r] = r
        /\ UsablePool(r) =>
             /\ consumes[r] <= 1
             /\ ~subscribed \/ restorePc[r] \in {"ensuring", "recreating"} => consumes[r] = 0
             /\ restorePc[r] = "recreating" => subscribed

-----------------------------------------------------------------------------
\* Whatever the facade does, the connection makes a step of its own or none.
LEMMA LifecycleIsCore == [LifecycleNext]_vars => Core
<1> SUFFICES ASSUME [LifecycleNext]_vars PROVE Core
  OBVIOUS
<1>1. CASE ConnectionStep
  BY <1>1 DEF ConnectionStep, Core
<1>2. ASSUME NEW r \in Restores, RestoreStep(r) PROVE Core
  BY <1>2 DEF RestoreStep, PoolOpens, PoolFails, PoolSettles, ExchangeEnsured, ExchangeFails,
              ConsumerRecreated, ConsumerNotRecreated, RestoreRejected, NoConnectionStep, history, Core
<1>3. ASSUME NEW r \in Restores, HandleReconnection(r) PROVE Core
  BY <1>3 DEF HandleReconnection, Core
<1>4. CASE ConnectStep \/ WaitTimesOut \/ Subscribe
  BY <1>4 DEF ConnectStep, ConnectRestores, ConnectReturns, ConnectParks, WaitTimesOut, Subscribe,
              NoConnectionStep, history, Core
<1>5. ASSUME NEW wait \in BOOLEAN, FacadeConnect(wait) PROVE Core
  BY <1>5 DEF FacadeConnect, Core
<1>6. ASSUME NEW d \in Closers, FacadeDisconnect(d) \/ DisconnectStep(d) PROVE Core
  BY <1>6 DEF FacadeDisconnect, DisconnectStep, Disposed, PoolClosed, FacadeCloseSettles,
              DisconnectConnection, NoConnectionStep, history, Core
<1>7. CASE UNCHANGED vars
  BY <1>7 DEF vars, connVars, history, Core
<1> QED
  BY <1>1, <1>2, <1>3, <1>4, <1>5, <1>6, <1>7 DEF LifecycleNext

\* The bounds of the composition.
LEMMA LifecycleBounds ==
    ASSUME faults \in 0 .. MaxFaults, calls \in 0 .. MaxCalls, [LifecycleNext]_vars
    PROVE  faults' \in 0 .. MaxFaults /\ calls' \in 0 .. MaxCalls
<1>1. faults' = faults \/ (faults < MaxFaults /\ faults' = faults + 1)
  <2>1. CASE ConnectionStep
    BY <2>1 DEF ConnectionStep, DialInstalls, DialOrphaned, ConnectionCloses, OrphanClosed,
                DialTriesNext, DialGivesUp, TimerFires, history
  <2>2. ASSUME NEW r \in Restores, RestoreStep(r) \/ HandleReconnection(r)
        PROVE  faults' = faults \/ (faults < MaxFaults /\ faults' = faults + 1)
    BY <2>2 DEF RestoreStep, PoolOpens, PoolFails, PoolSettles, ExchangeEnsured, ExchangeFails,
                ConsumerRecreated, ConsumerNotRecreated, RestoreRejected, NoConnectionStep, history,
                HandleReconnection, AttemptResumes
  <2>3. CASE ConnectStep \/ WaitTimesOut \/ Subscribe
    BY <2>3 DEF ConnectStep, ConnectRestores, ConnectReturns, ConnectParks, WaitTimesOut, Subscribe,
                NoConnectionStep, history
  <2>4. ASSUME NEW wait \in BOOLEAN, FacadeConnect(wait) PROVE faults' = faults
    BY <2>4 DEF FacadeConnect, Connect
  <2>5. ASSUME NEW d \in Closers, FacadeDisconnect(d) \/ DisconnectStep(d) PROVE faults' = faults
    BY <2>5 DEF FacadeDisconnect, DisconnectStep, Disposed, PoolClosed, FacadeCloseSettles,
                DisconnectConnection, Disconnect, CloseSettles, NoConnectionStep, history
  <2>6. CASE UNCHANGED vars
    BY <2>6 DEF vars, connVars, history
  <2> QED
    BY <2>1, <2>2, <2>3, <2>4, <2>5, <2>6 DEF LifecycleNext
<1>2. calls' = calls \/ (calls < MaxCalls /\ calls' = calls + 1)
  <2>1. CASE ConnectionStep
    BY <2>1 DEF ConnectionStep, DialInstalls, DialOrphaned, ConnectionCloses, OrphanClosed,
                DialTriesNext, DialGivesUp, TimerFires, history
  <2>2. ASSUME NEW r \in Restores, RestoreStep(r) \/ HandleReconnection(r) PROVE calls' = calls
    BY <2>2 DEF RestoreStep, PoolOpens, PoolFails, PoolSettles, ExchangeEnsured, ExchangeFails,
                ConsumerRecreated, ConsumerNotRecreated, RestoreRejected, NoConnectionStep, history,
                HandleReconnection, AttemptResumes
  <2>3. CASE ConnectStep \/ WaitTimesOut \/ Subscribe
    BY <2>3 DEF ConnectStep, ConnectRestores, ConnectReturns, ConnectParks, WaitTimesOut, Subscribe,
                NoConnectionStep, history
  <2>4. ASSUME NEW wait \in BOOLEAN, FacadeConnect(wait)
        PROVE  calls < MaxCalls /\ calls' = calls + 1
    BY <2>4 DEF FacadeConnect
  <2>5. ASSUME NEW d \in Closers, FacadeDisconnect(d) \/ DisconnectStep(d)
        PROVE  calls' = calls \/ (calls < MaxCalls /\ calls' = calls + 1)
    BY <2>5 DEF FacadeDisconnect, DisconnectStep, Disposed, PoolClosed, FacadeCloseSettles,
                DisconnectConnection, Disconnect, CloseSettles, NoConnectionStep, history
  <2>6. CASE UNCHANGED vars
    BY <2>6 DEF vars, connVars, history
  <2> QED
    BY <2>1, <2>2, <2>3, <2>4, <2>5, <2>6 DEF LifecycleNext
<1> QED
  BY <1>1, <1>2, BoundsAssumption

\* The facade's own types.
LEMMA FacadeTypesStep ==
    ASSUME Types, FacadeTypes, [LifecycleNext]_vars
    PROVE  FacadeTypes'
<1> USE RestoresAssumption
    DEF Types, Counters, Places, FacadeTypes, InProgress, pool, restore, consumers, caller
<1>0. exited' \in BOOLEAN
  BY DEF LifecycleNext, Runs, Exits, vars
<1>1. CASE ConnectionStep
  BY <1>0, <1>1 DEF ConnectionStep, Hear, LosePool, ConnectPcAfter
<1>2. ASSUME NEW r \in Restores, PoolOpens(r) PROVE FacadeTypes'
  BY <1>0, <1>2 DEF PoolOpens
<1>3. ASSUME NEW r \in Restores, PoolFails(r) PROVE FacadeTypes'
  BY <1>0, <1>3 DEF PoolFails
<1>4. ASSUME NEW r \in Restores, PoolSettles(r) PROVE FacadeTypes'
  BY <1>0, <1>4 DEF PoolSettles, StartRecreate, Finish, SlotAfter
<1>5. ASSUME NEW r \in Restores, ExchangeEnsured(r) PROVE FacadeTypes'
  BY <1>0, <1>5 DEF ExchangeEnsured, StartRecreate, Finish, SlotAfter
<1>6. ASSUME NEW r \in Restores, ExchangeFails(r) PROVE FacadeTypes'
  BY <1>0, <1>6 DEF ExchangeFails
<1>7. ASSUME NEW r \in Restores, ConsumerRecreated(r) \/ ConsumerNotRecreated(r) PROVE FacadeTypes'
  BY <1>0, <1>7 DEF ConsumerRecreated, ConsumerNotRecreated, Finish, SlotAfter
<1>8. ASSUME NEW r \in Restores, RestoreRejected(r) PROVE FacadeTypes'
  BY <1>0, <1>8 DEF RestoreRejected, Finish, SlotAfter
<1>9. ASSUME NEW r \in Restores, HandleReconnection(r) PROVE FacadeTypes'
  BY <1>0, <1>9 DEF HandleReconnection, RestoreState
<1>10. ASSUME NEW r \in Restores, ConnectRestores(r) PROVE FacadeTypes'
  BY <1>0, <1>10 DEF ConnectRestores, RestoreState
<1>11. CASE ConnectReturns \/ ConnectParks \/ WaitTimesOut
  BY <1>0, <1>11 DEF ConnectReturns, ConnectParks, WaitTimesOut
<1>12. CASE Subscribe
  BY <1>0, <1>12 DEF Subscribe
<1>13. ASSUME NEW wait \in BOOLEAN, FacadeConnect(wait) PROVE FacadeTypes'
  BY <1>0, <1>13 DEF FacadeConnect
<1>14. ASSUME NEW d \in Closers, FacadeDisconnect(d) PROVE FacadeTypes'
  BY <1>0, <1>14 DEF FacadeDisconnect
<1>15. ASSUME NEW d \in Closers, Disposed(d) PROVE FacadeTypes'
  BY <1>0, <1>15 DEF Disposed, DisconnectConnection
<1>16. ASSUME NEW d \in Closers, PoolClosed(d) PROVE FacadeTypes'
  BY <1>0, <1>16 DEF PoolClosed, DisconnectConnection
<1>17. ASSUME NEW d \in Closers, FacadeCloseSettles(d) PROVE FacadeTypes'
  BY <1>0, <1>17 DEF FacadeCloseSettles
<1>18. CASE UNCHANGED vars
  BY <1>18 DEF vars, facadeVars
<1> QED
  BY <1>1, <1>2, <1>3, <1>4, <1>5, <1>6, <1>7, <1>8, <1>9, <1>10, <1>11, <1>12, <1>13, <1>14, <1>15,
     <1>16, <1>17, <1>18 DEF LifecycleNext, RestoreStep, ConnectStep, DisconnectStep

\* Another connection in place is always a new one, and an opened one stays so.
LEMMA ConnectionEffects ==
    ASSUME Types, Core
    PROVE  /\ \/ connection' \in {connection, NoConn}
              \/ /\ connection' \in Conns /\ amqp[connection'] = "unopened"
                 /\ amqp' = [amqp EXCEPT ![connection'] = "open"]
           /\ \A c \in Conns : amqp[c] # "unopened" => amqp'[c] # "unopened"
<1> USE ConnsAssumption DEF Types, Places, broker
<1> QED
  BY DEF Core, Connect, DialInstalls, DialOrphaned, ConnectionCloses, OrphanClosed, DialTriesNext,
         DialGivesUp, TimerFires, AttemptResumes, Disconnect, CloseSettles

\* A pool is lost only together with the connection.
LEMMA LossEffects ==
    ASSUME ConnectionStep
    PROVE  "disconnected" \in emitted' => connection' = NoConn
BY DEF ConnectionStep, DialInstalls, DialOrphaned, ConnectionCloses, OrphanClosed, DialTriesNext,
       DialGivesUp, TimerFires

\* Connections that are or were in place stay used.
LEMMA ConnectionUsedStep ==
    ASSUME Types, FacadeTypes, ConnectionUsed, [LifecycleNext]_vars, FacadeTypes'
    PROVE  ConnectionUsed'
<1>1. Core
  BY LifecycleIsCore
<1>2. /\ connection' # NoConn => amqp'[connection'] # "unopened"
      /\ \A c \in Conns : amqp[c] # "unopened" => amqp'[c] # "unopened"
  BY <1>1, ConnectionEffects DEF Types, Places, ConnectionUsed
<1>3. ASSUME NEW r \in Restores
      PROVE  restoreConn'[r] = restoreConn[r] \/ restoreConn'[r] = connection
  BY DEF FacadeTypes, LifecycleNext, ConnectionStep, Hear, RestoreStep, PoolOpens, PoolFails, PoolSettles,
         ExchangeEnsured, ExchangeFails, ConsumerRecreated, ConsumerNotRecreated, RestoreRejected,
         HandleReconnection, RestoreState, ConnectStep, ConnectRestores, ConnectReturns, ConnectParks,
         WaitTimesOut, Subscribe, FacadeConnect, FacadeDisconnect, DisconnectStep, Disposed, PoolClosed,
         FacadeCloseSettles, restore, vars, facadeVars
<1>4. ASSUME NEW r \in Restores
      PROVE  restorePc'[r] \in InProgress =>
                \/ restorePc[r] \in InProgress /\ restoreConn'[r] = restoreConn[r]
                \/ restoreConn'[r] = connection /\ connection # NoConn
  BY DEF FacadeTypes, InProgress, LifecycleNext, ConnectionStep, Hear, RestoreStep, PoolOpens, PoolFails,
         PoolSettles, StartRecreate, Finish,
         ExchangeEnsured, ExchangeFails, ConsumerRecreated, ConsumerNotRecreated, RestoreRejected,
         HandleReconnection, RestoreState, ConnectStep, ConnectRestores, ConnectReturns, ConnectParks,
         WaitTimesOut, Subscribe, FacadeConnect, FacadeDisconnect, DisconnectStep, Disposed, PoolClosed,
         FacadeCloseSettles, restore, vars, facadeVars
<1>5. \A r \in Restores : restoreConn[r] \in Conns \cup {NoConn} /\ connection \in Conns \cup {NoConn}
  BY DEF FacadeTypes, Types, Places
<1> QED
  BY <1>2, <1>3, <1>4, <1>5, ConnsAssumption DEF ConnectionUsed

\* One restore at a time on the connection in place.
LEMMA RestoreOwnsSlotStep ==
    ASSUME Types, FacadeTypes, ConnectionUsed, RestoreOwnsSlot, [LifecycleNext]_vars
    PROVE  RestoreOwnsSlot'
<1> USE ConnsAssumption, RestoresAssumption
    DEF FacadeTypes, RestoreOwnsSlot, InProgress, pool, restore, broker
<1>0. \/ connection' \in {connection, NoConn}
      \/ connection' \in Conns /\ amqp[connection'] = "unopened"
  BY LifecycleIsCore, ConnectionEffects
<1>1. CASE ConnectionStep
  <2>1. UNCHANGED restore
    BY <1>1 DEF ConnectionStep, Hear
  <2>2. CASE "disconnected" \in emitted'
    BY <1>1, <2>2, LossEffects
  <2>3. CASE "disconnected" \notin emitted'
    <3>1. restorePromise' = restorePromise
      BY <1>1, <2>3 DEF ConnectionStep, Hear
    <3> QED
      BY <1>0, <2>1, <3>1 DEF ConnectionUsed
  <2> QED
    BY <2>2, <2>3
<1>2. ASSUME NEW r \in Restores, PoolOpens(r) PROVE RestoreOwnsSlot'
  BY <1>2 DEF PoolOpens, NoConnectionStep
<1>3. ASSUME NEW r \in Restores, PoolFails(r) PROVE RestoreOwnsSlot'
  BY <1>3 DEF PoolFails
<1>4. ASSUME NEW r \in Restores, PoolSettles(r) PROVE RestoreOwnsSlot'
  BY <1>4 DEF PoolSettles, StartRecreate, Finish, SlotAfter, NoConnectionStep
<1>5. ASSUME NEW r \in Restores, ExchangeEnsured(r) PROVE RestoreOwnsSlot'
  BY <1>5 DEF ExchangeEnsured, StartRecreate, Finish, SlotAfter, NoConnectionStep
<1>6. ASSUME NEW r \in Restores, ExchangeFails(r) PROVE RestoreOwnsSlot'
  BY <1>6 DEF ExchangeFails
<1>7. ASSUME NEW r \in Restores, ConsumerRecreated(r) \/ ConsumerNotRecreated(r) PROVE RestoreOwnsSlot'
  BY <1>7 DEF ConsumerRecreated, ConsumerNotRecreated, Finish, SlotAfter, NoConnectionStep
<1>8. ASSUME NEW r \in Restores, RestoreRejected(r) PROVE RestoreOwnsSlot'
  BY <1>8 DEF RestoreRejected, Finish, SlotAfter, NoConnectionStep
<1>9. ASSUME NEW r \in Restores, HandleReconnection(r) PROVE RestoreOwnsSlot'
  BY <1>9 DEF HandleReconnection, AttemptResumes, RestoreState, JoinsRestore
<1>10. ASSUME NEW r \in Restores, ConnectRestores(r) PROVE RestoreOwnsSlot'
  BY <1>10 DEF ConnectRestores, RestoreState, JoinsRestore, NoConnectionStep
<1>11. CASE ConnectReturns \/ ConnectParks \/ WaitTimesOut \/ Subscribe
  BY <1>11 DEF ConnectReturns, ConnectParks, WaitTimesOut, Subscribe, NoConnectionStep
<1>12. ASSUME NEW wait \in BOOLEAN, FacadeConnect(wait) PROVE RestoreOwnsSlot'
  BY <1>12 DEF FacadeConnect, Connect
<1>13. ASSUME NEW d \in Closers, FacadeDisconnect(d) PROVE RestoreOwnsSlot'
  BY <1>13 DEF FacadeDisconnect
<1>14. ASSUME NEW d \in Closers, Disposed(d) PROVE RestoreOwnsSlot'
  BY <1>14 DEF Disposed, DisconnectConnection, Disconnect, NoConnectionStep
<1>15. ASSUME NEW d \in Closers, PoolClosed(d) PROVE RestoreOwnsSlot'
  BY <1>15 DEF PoolClosed, DisconnectConnection, Disconnect
<1>16. ASSUME NEW d \in Closers, FacadeCloseSettles(d) PROVE RestoreOwnsSlot'
  BY <1>16 DEF FacadeCloseSettles, CloseSettles
<1>17. CASE UNCHANGED vars
  BY <1>17 DEF vars, facadeVars, connVars
<1> QED
  BY <1>1, <1>2, <1>3, <1>4, <1>5, <1>6, <1>7, <1>8, <1>9, <1>10, <1>11, <1>12, <1>13, <1>14, <1>15,
     <1>16, <1>17 DEF LifecycleNext, RestoreStep, ConnectStep, DisconnectStep

\* The invariant of every lifecycle, overlapping calls or not.
LEMMA FInvInit == LifecycleInit => FInv
<1> SUFFICES ASSUME LifecycleInit PROVE FInv
  OBVIOUS
<1>1. Types /\ Phases
  BY TypesInit, IInvInit DEF LifecycleInit, IInv, Phases
<1> QED
  BY <1>1, ConnsAssumption, RestoresAssumption
     DEF LifecycleInit, Init, FInv, FacadeTypes, InProgress, RestoreOwnsSlot, ConnectionUsed

\* Every step of the facade and its connection keeps FInv.
LEMMA FInvStep == FInv /\ [LifecycleNext]_vars => FInv'
<1> SUFFICES ASSUME FInv, [LifecycleNext]_vars PROVE FInv'
  OBVIOUS
<1>1. Types' /\ Phases'
  BY LifecycleIsCore, TypesStep, PhasesStep DEF FInv
<1>2. FacadeTypes'
  BY FacadeTypesStep DEF FInv
<1> QED
  BY <1>1, <1>2, ConnectionUsedStep, RestoreOwnsSlotStep DEF FInv

\* The composition keeps its types and the phases of the connection, and a restore on the
\* connection in place owns #restorePromise.
THEOREM LifecycleInvariance == LifecycleSpec => []FInv
BY FInvInit, FInvStep, PTL DEF LifecycleSpec

\* The types of the composition.
THEOREM LifecycleTypeCorrect == LifecycleSpec => []LifecycleTypeOK
<1> DEFINE B == faults \in 0 .. MaxFaults /\ calls \in 0 .. MaxCalls
<1>1. LifecycleInit => B
  BY BoundsAssumption DEF LifecycleInit, Init
<1>2. B /\ [LifecycleNext]_vars => B'
  BY LifecycleBounds
<1>3. FInv /\ B => LifecycleTypeOK
  BY DEF FInv, Types, Counters, Places, FacadeTypes, LifecycleTypeOK, TypeOK
<1> HIDE DEF B
<1> QED
  BY <1>1, <1>2, <1>3, LifecycleInvariance, PTL DEF LifecycleSpec

\* #restoreState()'s single flight: whatever dials, timers, connect() and disconnect()
\* calls and late failures interleave, overlapping or not, no two restores work on the
\* connection in place.
THEOREM SingleRestoreHolds == LifecycleSpec => []SingleRestore
<1>1. FInv => SingleRestore
  BY DEF FInv, RestoreOwnsSlot, SingleRestore
<1> QED
  BY <1>1, LifecycleInvariance, PTL


-----------------------------------------------------------------------------
\* Without overlapping calls, every connection at the broker has an owner, and the one in
\* place is open or awaited by the disconnect() that closes it.
LEMMA OwnersStep ==
    ASSUME ~Overlap, Types, Phases, FacadeTypes, CloserOwns, OwnedConnection, [LifecycleNext]_vars
    PROVE  CloserOwns' /\ OwnedConnection'
<1> USE ConnsAssumption
    DEF Types, Counters, Places, FacadeTypes, Phases, ShutdownQuiet, DialPhase, ConnectedMeansLive,
        HasOpenConnection, CloserOwns, OwnedConnection, state, dial, retry, broker, history
<1>1. CASE ConnectionStep
  <2>0. UNCHANGED disconnectPc
    BY <1>1 DEF ConnectionStep
  <2>1. ASSUME NEW c \in Conns, DialInstalls(c) PROVE CloserOwns' /\ OwnedConnection'
    BY <2>0, <2>1 DEF DialInstalls, ShutdownSeen
  <2>2. ASSUME NEW c \in Conns, DialOrphaned(c) PROVE CloserOwns' /\ OwnedConnection'
    BY <2>0, <2>2 DEF DialOrphaned, ShutdownSeen
  <2>3. CASE OrphanClosed
    BY <2>0, <2>3 DEF OrphanClosed
  <2>4. CASE DialTriesNext
    BY <2>0, <2>4 DEF DialTriesNext
  <2>5. CASE DialGivesUp
    BY <2>0, <2>5 DEF DialGivesUp
  <2>6. CASE TimerFires
    BY <2>0, <2>6 DEF TimerFires, CallConnect
  <2>7. ASSUME NEW c \in Conns, ConnectionCloses(c) PROVE CloserOwns' /\ OwnedConnection'
    BY <2>0, <2>7 DEF ConnectionCloses
  <2> QED
    BY <1>1, <2>1, <2>2, <2>3, <2>4, <2>5, <2>6, <2>7 DEF ConnectionStep
<1>2. ASSUME NEW r \in Restores, RestoreStep(r) PROVE CloserOwns' /\ OwnedConnection'
  <2>1. UNCHANGED <<state, dial, broker, disconnectPc>>
    BY <1>2 DEF RestoreStep, PoolOpens, PoolFails, PoolSettles, ExchangeEnsured, ExchangeFails,
                ConsumerRecreated, ConsumerNotRecreated, RestoreRejected, NoConnectionStep
  <2> QED
    BY <2>1
<1>3. ASSUME NEW r \in Restores, HandleReconnection(r) PROVE CloserOwns' /\ OwnedConnection'
  BY <1>3 DEF HandleReconnection, AttemptResumes
<1>4. CASE ConnectStep \/ WaitTimesOut \/ Subscribe
  BY <1>4 DEF ConnectStep, ConnectRestores, ConnectReturns, ConnectParks, WaitTimesOut, Subscribe,
              NoConnectionStep
<1>5. ASSUME NEW wait \in BOOLEAN, FacadeConnect(wait) PROVE CloserOwns' /\ OwnedConnection'
  BY <1>5 DEF FacadeConnect, Connect, CallConnect
<1>6. ASSUME NEW d \in Closers, FacadeDisconnect(d) PROVE CloserOwns' /\ OwnedConnection'
  BY <1>6 DEF FacadeDisconnect
<1>7. ASSUME NEW d \in Closers, DisconnectConnection(d), disconnectPc[d] # "disconnecting"
      PROVE  CloserOwns' /\ OwnedConnection'
  BY <1>7 DEF DisconnectConnection, Disconnect
<1>8. ASSUME NEW d \in Closers, Disposed(d) PROVE CloserOwns' /\ OwnedConnection'
  <2>1. CASE channelPool # NoRestore
    BY <1>8, <2>1 DEF Disposed, NoConnectionStep
  <2>2. CASE channelPool = NoRestore
    BY <1>7, <1>8, <2>2 DEF Disposed
  <2> QED
    BY <2>1, <2>2
<1>9. ASSUME NEW d \in Closers, PoolClosed(d) PROVE CloserOwns' /\ OwnedConnection'
  BY <1>7, <1>9 DEF PoolClosed
<1>10. ASSUME NEW d \in Closers, FacadeCloseSettles(d) PROVE CloserOwns' /\ OwnedConnection'
  BY <1>10 DEF FacadeCloseSettles, CloseSettles
<1>11. CASE UNCHANGED vars
  BY <1>11 DEF vars, facadeVars, connVars
<1> QED
  BY <1>1, <1>2, <1>3, <1>4, <1>5, <1>6, <1>8, <1>9, <1>10, <1>11 DEF LifecycleNext, DisconnectStep

\* Nothing is open once the connection has been told to shut down.
LEMMA NothingOpenOnShutdown ==
    ASSUME Types, Phases, OwnedConnection, isShuttingDown
    PROVE  \A c \in Conns : amqp[c] # "open"
BY ConnsAssumption
   DEF Types, Places, Phases, ShutdownQuiet, ConnectedMeansLive, HasOpenConnection, OwnedConnection

\* The same fact of the state after a step.
LEMMA NothingOpenAfterShutdown ==
    ASSUME Types', Phases', OwnedConnection', isShuttingDown'
    PROVE  \A c \in Conns : amqp'[c] # "open"
BY ConnsAssumption
   DEF Types, Places, Phases, ShutdownQuiet, ConnectedMeansLive, HasOpenConnection, OwnedConnection

\* Which restore's pool is in place.
LEMMA PoolPlaceStep ==
    ASSUME FInv, GInv, [LifecycleNext]_vars
    PROVE  PoolPlace'
<1> USE ConnsAssumption, RestoresAssumption
    DEF FInv, Types, Counters, FacadeTypes, GInv, PoolPlace, NotInstalled, RestoreOwnsSlot,
        InProgress, pool, restore, broker, retry
<1>0. /\ \/ connection' \in {connection, NoConn}
         \/ connection' \in Conns /\ amqp[connection'] = "unopened"
      /\ \A r \in Restores : restoreConn[r] # NoConn => amqp[restoreConn[r]] # "unopened"
  BY LifecycleIsCore, ConnectionEffects DEF ConnectionUsed
<1>1. CASE ConnectionStep
  <2>1. UNCHANGED restore
    BY <1>1 DEF ConnectionStep, Hear
  <2>2. /\ channelPool' \in {channelPool, NoRestore}
        /\ \A r \in Restores : pools'[r] \in {pools[r], "closed"}
    BY <1>1 DEF ConnectionStep, Hear, LosePool
  <2>3. resuming' = resuming \/ (connection' \in Conns /\ amqp[connection'] = "unopened")
    BY <1>1 DEF ConnectionStep, DialInstalls, DialOrphaned, OrphanClosed, DialTriesNext, DialGivesUp,
                TimerFires, ConnectionCloses
  <2> QED
    BY <1>0, <2>1, <2>2, <2>3
<1>2. ASSUME NEW r \in Restores, PoolOpens(r) PROVE PoolPlace'
  BY <1>2 DEF PoolOpens, NoConnectionStep, ContinuationsDone, MicrotasksDone
<1>3. ASSUME NEW r \in Restores, PoolFails(r) PROVE PoolPlace'
  BY <1>3 DEF PoolFails, ContinuationsDone, MicrotasksDone
<1>4. ASSUME NEW r \in Restores, PoolSettles(r) PROVE PoolPlace'
  BY <1>4 DEF PoolSettles, StartRecreate, Finish, NoConnectionStep, ConnectionUsed
<1>5. ASSUME NEW r \in Restores, ExchangeEnsured(r) PROVE PoolPlace'
  BY <1>5 DEF ExchangeEnsured, StartRecreate, Finish, NoConnectionStep, ContinuationsDone, MicrotasksDone
<1>6. ASSUME NEW r \in Restores, ExchangeFails(r) PROVE PoolPlace'
  BY <1>6 DEF ExchangeFails, OwnsPool, ContinuationsDone, MicrotasksDone
<1>7. ASSUME NEW r \in Restores, ConsumerRecreated(r) \/ ConsumerNotRecreated(r) PROVE PoolPlace'
  BY <1>7 DEF ConsumerRecreated, ConsumerNotRecreated, Finish, NoConnectionStep, ContinuationsDone,
              MicrotasksDone
<1>8. ASSUME NEW r \in Restores, RestoreRejected(r) PROVE PoolPlace'
  BY <1>8 DEF RestoreRejected, Finish, NoConnectionStep, ContinuationsDone, MicrotasksDone
<1>9. ASSUME NEW r \in Restores, HandleReconnection(r) PROVE PoolPlace'
  BY <1>9 DEF HandleReconnection, AttemptResumes, RestoreState, JoinsRestore
<1>10. ASSUME NEW r \in Restores, ConnectRestores(r) PROVE PoolPlace'
  BY <1>10 DEF ConnectRestores, RestoreState, JoinsRestore, NoConnectionStep
<1>11. CASE ConnectReturns \/ ConnectParks \/ WaitTimesOut \/ Subscribe
  BY <1>11 DEF ConnectReturns, ConnectParks, WaitTimesOut, Subscribe, NoConnectionStep
<1>12. ASSUME NEW wait \in BOOLEAN, FacadeConnect(wait) PROVE PoolPlace'
  BY <1>12 DEF FacadeConnect, Connect
<1>13. ASSUME NEW d \in Closers, FacadeDisconnect(d) PROVE PoolPlace'
  BY <1>13 DEF FacadeDisconnect
<1>14. ASSUME NEW d \in Closers, Disposed(d) PROVE PoolPlace'
  BY <1>14, <1>0 DEF Disposed, DisconnectConnection, Disconnect, NoConnectionStep
<1>15. ASSUME NEW d \in Closers, PoolClosed(d) PROVE PoolPlace'
  BY <1>15, <1>0 DEF PoolClosed, DisconnectConnection, Disconnect
<1>16. ASSUME NEW d \in Closers, FacadeCloseSettles(d) PROVE PoolPlace'
  BY <1>16 DEF FacadeCloseSettles, CloseSettles
<1>17. CASE UNCHANGED vars
  BY <1>17 DEF vars, facadeVars, connVars
<1> QED
  BY <1>1, <1>2, <1>3, <1>4, <1>5, <1>6, <1>7, <1>8, <1>9, <1>10, <1>11, <1>12, <1>13, <1>14, <1>15,
     <1>16, <1>17 DEF LifecycleNext, RestoreStep, ConnectStep, DisconnectStep

\* An open pool that is not in place any more, or not yet, is in its builder's hands.
LEMMA PoolOwnedStep ==
    ASSUME FInv, GInv, [LifecycleNext]_vars, FInv', OwnedConnection', PoolPlace'
    PROVE  PoolOwned'
<1> USE ConnsAssumption, RestoresAssumption
    DEF FInv, Types, Places, FacadeTypes, GInv, PoolPlace, NotInstalled, PoolOwned, UsablePool,
        InProgress, pool, restore, broker
<1>0. /\ \A c \in Conns : amqp'[c] = "open" =>
              amqp[c] = "open" \/ (amqp[c] = "unopened" /\ c = connection')
      /\ \A r \in Restores : restoreConn[r] # NoConn => amqp[restoreConn[r]] # "unopened"
  <2>1. Core
    BY LifecycleIsCore
  <2>2. ASSUME NEW c \in Conns, amqp'[c] = "open"
        PROVE  amqp[c] = "open" \/ (amqp[c] = "unopened" /\ c = connection')
    BY <2>1, <2>2 DEF Core, Connect, DialInstalls, DialOrphaned, ConnectionCloses, OrphanClosed,
          DialTriesNext, DialGivesUp, TimerFires, AttemptResumes, Disconnect, CloseSettles
  <2> QED
    BY <2>2 DEF ConnectionUsed
<1>1. CASE ConnectionStep
  <2>1. UNCHANGED restore
    BY <1>1 DEF ConnectionStep, Hear
  <2>2. CASE "disconnected" \in emitted'
    BY <1>1, <2>1, <2>2, LossEffects DEF OwnedConnection
  <2>3. CASE "disconnected" \notin emitted'
    <3>1. UNCHANGED pool
      BY <1>1, <2>3 DEF ConnectionStep, Hear
    <3> QED
      BY <1>0, <2>1, <3>1
  <2> QED
    BY <2>2, <2>3
<1>2. ASSUME NEW r \in Restores, PoolOpens(r) PROVE PoolOwned'
  BY <1>2 DEF PoolOpens, NoConnectionStep
<1>3. ASSUME NEW r \in Restores, PoolFails(r) PROVE PoolOwned'
  BY <1>3 DEF PoolFails
<1>4. ASSUME NEW r \in Restores, PoolSettles(r) PROVE PoolOwned'
  BY <1>4 DEF PoolSettles, StartRecreate, Finish, NoConnectionStep, OwnedConnection
<1>5. ASSUME NEW r \in Restores, ExchangeEnsured(r) PROVE PoolOwned'
  BY <1>5 DEF ExchangeEnsured, StartRecreate, Finish, NoConnectionStep
<1>6. ASSUME NEW r \in Restores, ExchangeFails(r) PROVE PoolOwned'
  BY <1>6 DEF ExchangeFails, OwnsPool
<1>7. ASSUME NEW r \in Restores, ConsumerRecreated(r) \/ ConsumerNotRecreated(r) PROVE PoolOwned'
  BY <1>7 DEF ConsumerRecreated, ConsumerNotRecreated, Finish, NoConnectionStep
<1>8. ASSUME NEW r \in Restores, RestoreRejected(r) PROVE PoolOwned'
  BY <1>8 DEF RestoreRejected, Finish, NoConnectionStep
<1>9. ASSUME NEW r \in Restores, HandleReconnection(r) PROVE PoolOwned'
  BY <1>9 DEF HandleReconnection, AttemptResumes, RestoreState, JoinsRestore
<1>10. ASSUME NEW r \in Restores, ConnectRestores(r) PROVE PoolOwned'
  BY <1>10 DEF ConnectRestores, RestoreState, JoinsRestore, NoConnectionStep
<1>11. CASE ConnectReturns \/ ConnectParks \/ WaitTimesOut \/ Subscribe
  BY <1>11 DEF ConnectReturns, ConnectParks, WaitTimesOut, Subscribe, NoConnectionStep
<1>12. ASSUME NEW wait \in BOOLEAN, FacadeConnect(wait) PROVE PoolOwned'
  BY <1>12 DEF FacadeConnect, Connect
<1>13. ASSUME NEW d \in Closers, FacadeDisconnect(d) PROVE PoolOwned'
  BY <1>13 DEF FacadeDisconnect
<1>14. ASSUME NEW d \in Closers, Disposed(d) PROVE PoolOwned'
  BY <1>14, <1>0 DEF Disposed, DisconnectConnection, Disconnect, NoConnectionStep
<1>15. ASSUME NEW d \in Closers, PoolClosed(d) PROVE PoolOwned'
  <2>1. isShuttingDown' /\ UNCHANGED <<restore, pools>>
    BY <1>15 DEF PoolClosed, DisconnectConnection, Disconnect
  <2> QED
    BY <2>1, NothingOpenAfterShutdown
<1>16. ASSUME NEW d \in Closers, FacadeCloseSettles(d) PROVE PoolOwned'
  BY <1>16, <1>0 DEF FacadeCloseSettles, CloseSettles
<1>17. CASE UNCHANGED vars
  BY <1>17 DEF vars, facadeVars, connVars
<1> QED
  BY <1>1, <1>2, <1>3, <1>4, <1>5, <1>6, <1>7, <1>8, <1>9, <1>10, <1>11, <1>12, <1>13, <1>14, <1>15,
     <1>16, <1>17 DEF LifecycleNext, RestoreStep, ConnectStep, DisconnectStep

\* Connections and pools have owners at the start and after every step.
LEMMA GInvInit == LifecycleInit => GInv
BY ConnsAssumption, RestoresAssumption
   DEF LifecycleInit, Init, GInv, CloserOwns, OwnedConnection, PoolPlace, PoolOwned, UsablePool

\* Every step keeps GInv, if no connect() overlaps with a disconnect().
LEMMA GInvStep ==
    ASSUME ~Overlap, FInv, GInv, [LifecycleNext]_vars, FInv'
    PROVE  GInv'
BY OwnersStep, PoolPlaceStep, PoolOwnedStep DEF FInv, GInv

\* A pool taken for restored is the live connection's.
LEMMA PoolCurrentStep ==
    ASSUME HasExchange, FInv, GInv, PoolCurrent, [LifecycleNext]_vars
    PROVE  PoolCurrent'
<1> USE ConnsAssumption, RestoresAssumption
    DEF FInv, Types, Places, FacadeTypes, GInv, PoolPlace, NotInstalled, PoolCurrent, InProgress,
        pool, restore, broker, state
<1>0. \/ isShuttingDown
      \/ \A c \in Conns : amqp[c] = "open" => connection = c /\ connectionState = "connected"
  BY DEF OwnedConnection, Phases, ConnectedMeansLive, HasOpenConnection
<1>1. CASE ConnectionStep
  <2>0. UNCHANGED <<restore, disconnectPc>> /\ channelPool' \in {channelPool, NoRestore}
    BY <1>1 DEF ConnectionStep, Hear, LosePool
  <2>1. isShuttingDown' \in {isShuttingDown, FALSE}
    BY <1>1 DEF ConnectionStep, DialInstalls, DialOrphaned, OrphanClosed, DialTriesNext, DialGivesUp,
                TimerFires, CallConnect, ConnectionCloses
  <2>2. CASE \E c \in Conns : ConnectionCloses(c)
    <3>1. PICK c \in Conns : ConnectionCloses(c)
      BY <2>2
    <3>2. CASE isShuttingDown
      BY <2>0, <3>1, <3>2 DEF ConnectionCloses
    <3>3. CASE ~isShuttingDown
      <4>1. "disconnected" \in emitted'
        BY <1>0, <3>1, <3>3 DEF ConnectionCloses, StartReconnection, Phases, CyclePhase
      <4> QED
        BY <1>1, <4>1 DEF ConnectionStep, Hear, LosePool
    <3> QED
      BY <3>2, <3>3
  <2>3. CASE (\E c \in Conns : DialInstalls(c)) \/ DialGivesUp
    <3>1. connectionState # "connected"
      BY <2>3 DEF DialInstalls, DialGivesUp, Phases, DialPhase
    <3>2. channelPool \in Restores /\ restorePc[channelPool] \in {"recreating", "done"}
              => \E d \in Closers : disconnectPc[d] # "idle"
      BY <3>1 DEF CloserOwns, Phases, ConnectedMeansLive, HasOpenConnection
    <3> QED
      BY <2>0, <2>1, <3>2
  <2>4. CASE UNCHANGED connection
    BY <2>0, <2>1, <2>4
  <2> QED
    BY <1>1, <2>2, <2>3, <2>4
       DEF ConnectionStep, DialOrphaned, OrphanClosed, DialTriesNext, TimerFires
<1>2. ASSUME NEW r \in Restores, PoolOpens(r) PROVE PoolCurrent'
  BY <1>2 DEF PoolOpens, NoConnectionStep
<1>3. ASSUME NEW r \in Restores, PoolFails(r) PROVE PoolCurrent'
  BY <1>3 DEF PoolFails
<1>4. ASSUME NEW r \in Restores, PoolSettles(r) PROVE PoolCurrent'
  BY <1>4 DEF PoolSettles, NoConnectionStep
<1>5. ASSUME NEW r \in Restores, ExchangeEnsured(r) PROVE PoolCurrent'
  <2>1. /\ UNCHANGED <<state, broker, channelPool, restoreConn, disconnectPc>>
        /\ \E p \in {"recreating", "done"} : restorePc' = [restorePc EXCEPT ![r] = p]
    BY <1>5 DEF ExchangeEnsured, StartRecreate, Finish, NoConnectionStep
  <2>2. channelPool = r /\ amqp[restoreConn[r]] = "open" /\ restoreConn[r] \in Conns
    BY <1>5 DEF ExchangeEnsured, UsablePool, PoolOwned
  <2>3. ~isShuttingDown
    BY <2>2, NothingOpenOnShutdown
  <2> QED
    BY <1>0, <2>1, <2>2, <2>3
<1>6. ASSUME NEW r \in Restores, ExchangeFails(r) PROVE PoolCurrent'
  BY <1>6 DEF ExchangeFails, OwnsPool
<1>7. ASSUME NEW r \in Restores, ConsumerRecreated(r) \/ ConsumerNotRecreated(r) PROVE PoolCurrent'
  BY <1>7 DEF ConsumerRecreated, ConsumerNotRecreated, Finish, NoConnectionStep
<1>8. ASSUME NEW r \in Restores, RestoreRejected(r) PROVE PoolCurrent'
  BY <1>8 DEF RestoreRejected, Finish, NoConnectionStep
<1>9. ASSUME NEW r \in Restores, HandleReconnection(r) PROVE PoolCurrent'
  BY <1>9 DEF HandleReconnection, AttemptResumes, RestoreState, JoinsRestore
<1>10. ASSUME NEW r \in Restores, ConnectRestores(r) PROVE PoolCurrent'
  BY <1>10 DEF ConnectRestores, RestoreState, JoinsRestore, NoConnectionStep
<1>11. CASE ConnectReturns \/ ConnectParks \/ WaitTimesOut \/ Subscribe
  BY <1>11 DEF ConnectReturns, ConnectParks, WaitTimesOut, Subscribe, NoConnectionStep
<1>12. ASSUME NEW wait \in BOOLEAN, FacadeConnect(wait) PROVE PoolCurrent'
  BY <1>12 DEF FacadeConnect, Connect, CallConnect
<1>13. ASSUME NEW d \in Closers, FacadeDisconnect(d) PROVE PoolCurrent'
  BY <1>13 DEF FacadeDisconnect
<1>14. ASSUME NEW d \in Closers, Disposed(d) PROVE PoolCurrent'
  BY <1>14 DEF Disposed, NoConnectionStep
<1>15. ASSUME NEW d \in Closers, PoolClosed(d) PROVE PoolCurrent'
  BY <1>15 DEF PoolClosed
<1>16. ASSUME NEW d \in Closers, FacadeCloseSettles(d) PROVE PoolCurrent'
  BY <1>16 DEF FacadeCloseSettles, CloseSettles, CloserOwns
<1>17. CASE UNCHANGED vars
  BY <1>17 DEF vars, facadeVars, connVars
<1> QED
  BY <1>1, <1>2, <1>3, <1>4, <1>5, <1>6, <1>7, <1>8, <1>9, <1>10, <1>11, <1>12, <1>13, <1>14, <1>15,
     <1>16, <1>17 DEF LifecycleNext, RestoreStep, ConnectStep, DisconnectStep

\* Pools are neither leaked nor stale: an open pool is in place or with its builder, and
\* a pool left in place by a finished restore is the live connection's.  connect() does
\* not overlap a disconnect(), and there is an exchange to ensure: without either, a late
\* restore can leave its pool behind.
THEOREM PoolInPlaceHolds ==
    ASSUME ~Overlap, HasExchange
    PROVE  LifecycleSpec => []PoolInPlace
<1>1. LifecycleInit => GInv /\ PoolCurrent
  BY GInvInit, RestoresAssumption DEF LifecycleInit, PoolCurrent
<1>2. FInv /\ GInv /\ PoolCurrent /\ [LifecycleNext]_vars /\ FInv' => GInv' /\ PoolCurrent'
  BY GInvStep, PoolCurrentStep
<1>3. FInv /\ GInv /\ PoolCurrent => PoolInPlace
  BY DEF FInv, FacadeTypes, GInv, PoolCurrent, PoolInPlace, PoolMeansConnection
<1> QED
  BY <1>1, <1>2, <1>3, LifecycleInvariance, PTL DEF LifecycleSpec

-----------------------------------------------------------------------------
\* How often a pool that still works has been consumed on.
LEMMA ConsumedOnceStep ==
    ASSUME ~SubscribeInRestore, FInv, GInv, ConsumedOnce, [LifecycleNext]_vars, FInv', GInv'
    PROVE  ConsumedOnce'
<1> USE ConnsAssumption, RestoresAssumption
    DEF FInv, Types, Places, FacadeTypes, GInv, PoolPlace, NotInstalled, PoolOwned, UsablePool,
        ConsumedOnce, InProgress, pool, restore, consumers, broker
<1>0. ASSUME NEW r \in Restores, UNCHANGED restoreConn, pools'[r] = pools[r]
      PROVE  UsablePool(r)' => UsablePool(r)
  <2>1. Core
    BY LifecycleIsCore
  <2>2. ASSUME NEW c \in Conns, amqp'[c] = "open" PROVE amqp[c] \in {"open", "unopened"}
    BY <2>1, <2>2 DEF Core, Connect, DialInstalls, DialOrphaned, ConnectionCloses, OrphanClosed,
          DialTriesNext, DialGivesUp, TimerFires, AttemptResumes, Disconnect, CloseSettles
  <2> QED
    BY <1>0, <2>2 DEF ConnectionUsed
<1>1. CASE ConnectionStep
  <2>1. UNCHANGED <<restore, consumers>> /\ \A r \in Restores : pools'[r] \in {pools[r], "closed"}
    BY <1>1 DEF ConnectionStep, Hear, LosePool
  <2> QED
    BY <1>0, <2>1
<1>2. ASSUME NEW r \in Restores, PoolOpens(r) PROVE ConsumedOnce'
  BY <1>2 DEF PoolOpens, NoConnectionStep
<1>3. ASSUME NEW r \in Restores, PoolFails(r) PROVE ConsumedOnce'
  BY <1>3 DEF PoolFails
<1>4. ASSUME NEW r \in Restores, PoolSettles(r) PROVE ConsumedOnce'
  BY <1>4 DEF PoolSettles, StartRecreate, Finish, NoConnectionStep
<1>5. ASSUME NEW r \in Restores, ExchangeEnsured(r) PROVE ConsumedOnce'
  BY <1>5 DEF ExchangeEnsured, StartRecreate, Finish, NoConnectionStep
<1>6. ASSUME NEW r \in Restores, ExchangeFails(r) PROVE ConsumedOnce'
  BY <1>6 DEF ExchangeFails, OwnsPool
<1>7. ASSUME NEW r \in Restores, ConsumerRecreated(r) PROVE ConsumedOnce'
  BY <1>7 DEF ConsumerRecreated, Finish, NoConnectionStep
<1>8. ASSUME NEW r \in Restores, ConsumerNotRecreated(r) \/ RestoreRejected(r) PROVE ConsumedOnce'
  BY <1>8 DEF ConsumerNotRecreated, RestoreRejected, Finish, NoConnectionStep
<1>9. ASSUME NEW r \in Restores, HandleReconnection(r) PROVE ConsumedOnce'
  BY <1>9 DEF HandleReconnection, AttemptResumes, RestoreState, JoinsRestore
<1>10. ASSUME NEW r \in Restores, ConnectRestores(r) PROVE ConsumedOnce'
  BY <1>10 DEF ConnectRestores, RestoreState, JoinsRestore, NoConnectionStep
<1>11. CASE ConnectReturns \/ ConnectParks \/ WaitTimesOut
  BY <1>11 DEF ConnectReturns, ConnectParks, WaitTimesOut, NoConnectionStep
<1>12. CASE Subscribe
  BY <1>12 DEF Subscribe, NoConnectionStep, RestoreOwnsSlot, OwnedConnection
<1>13. ASSUME NEW wait \in BOOLEAN, FacadeConnect(wait) PROVE ConsumedOnce'
  BY <1>13 DEF FacadeConnect, Connect
<1>14. ASSUME NEW d \in Closers, FacadeDisconnect(d) PROVE ConsumedOnce'
  BY <1>14 DEF FacadeDisconnect
<1>15. ASSUME NEW d \in Closers, Disposed(d) PROVE ConsumedOnce'
  <2>1. CASE channelPool # NoRestore
    BY <1>15, <2>1 DEF Disposed, NoConnectionStep
  <2>2. CASE channelPool = NoRestore
    <3>1. isShuttingDown' /\ UNCHANGED <<restore, pools, consumes>>
      BY <1>15, <2>2 DEF Disposed, DisconnectConnection, Disconnect
    <3> QED
      BY <3>1, NothingOpenAfterShutdown
  <2> QED
    BY <2>1, <2>2
<1>16. ASSUME NEW d \in Closers, PoolClosed(d) \/ FacadeCloseSettles(d) PROVE ConsumedOnce'
  <2>1. UNCHANGED <<restore, pools, consumers>>
    BY <1>16 DEF PoolClosed, FacadeCloseSettles
  <2> QED
    BY <1>0, <2>1
<1>17. CASE UNCHANGED vars
  BY <1>17 DEF vars, facadeVars, connVars
<1> QED
  BY <1>1, <1>2, <1>3, <1>4, <1>5, <1>6, <1>7, <1>8, <1>9, <1>10, <1>11, <1>12, <1>13, <1>14, <1>15,
     <1>16, <1>17 DEF LifecycleNext, RestoreStep, ConnectStep, DisconnectStep

\* No message is delivered twice: the consumer consumes at most once, on at most one live
\* pool.  connect() does not overlap a disconnect(), and subscribe() is not called while a
\* restore is under way: that restore would consume on the pool a second time.
THEOREM SingleConsumerHolds ==
    ASSUME ~Overlap, ~SubscribeInRestore
    PROVE  LifecycleSpec => []SingleConsumer
<1>1. LifecycleInit => GInv /\ ConsumedOnce
  BY GInvInit DEF LifecycleInit, ConsumedOnce, UsablePool
<1>2. FInv /\ GInv /\ ConsumedOnce /\ [LifecycleNext]_vars /\ FInv' => GInv' /\ ConsumedOnce'
  BY GInvStep, ConsumedOnceStep
<1>3. FInv /\ GInv /\ ConsumedOnce => SingleConsumer
  BY DEF FInv, FacadeTypes, GInv, PoolOwned, ConsumedOnce, SingleConsumer
<1> QED
  BY <1>1, <1>2, <1>3, LifecycleInvariance, PTL DEF LifecycleSpec
=============================================================================
