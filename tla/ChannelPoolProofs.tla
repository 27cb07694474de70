--------------------------- MODULE ChannelPoolProofs ---------------------------
(***************************************************************************)
(* Proofs about ChannelPool, and about DelayProbe, which takes its channels *)
(* from a pool, for every number of slots, owners, probes, channels and    *)
(* faults.                                                                 *)
(***************************************************************************)
EXTENDS DelayProbe, TLAPS

\* closed is set with close() and never before; a pool that has not been initialized
\* holds nothing.
PhasePart ==
    /\ closed <=> phase \in {"closing", "closed"}
    /\ phase = "new" => \A s \in Slots : channels[s] = NoChannel /\ slotPc[s] = "idle"

\* What a slot or the map holds was opened for that slot or id.
HomePart ==
    /\ \A s \in Slots : channels[s] # NoChannel =>
          home[channels[s]] = s /\ amqp[channels[s]] # "unopened"
    /\ \A i \in Ids : dedicated[i] # NoChannel =>
          home[dedicated[i]] = i /\ amqp[dedicated[i]] # "unopened"

\* An open channel of a slot is in that slot, and the pool is not closed.
SlotTracked ==
    \A c \in Channels : amqp[c] = "open" /\ home[c] \in Slots => ~closed /\ channels[home[c]] = c

\* The inductive invariant of the shared channels.
PInv == TypeOK /\ PhasePart /\ HomePart /\ SlotsAlive /\ SlotTracked

\* An open is in flight for an id only while the pool is up, the map has nothing for
\* the id, and its owner has not released it.
GettingPart ==
    /\ \A i \in Ids : getting[i] > 0 => dedicated[i] = NoChannel /\ phase = "ready"
    /\ \A i \in retired : dedicated[i] = NoChannel /\ getting[i] = 0

\* A dedicated channel that is open is in the map of an open pool; one that is closing is
\* still there, or its owner or the pool is gone.
KeyedPart ==
    \A c \in Channels : home[c] \in Ids =>
        /\ amqp[c] = "open" => ~closed /\ dedicated[home[c]] = c
        /\ amqp[c] = "closing" => dedicated[home[c]] = c \/ home[c] \in retired \/ closed

\* The inductive invariant of the dedicated channels, on top of PInv.
DInv == GettingPart /\ KeyedPart

\* A probe has at most one channel, opened under its id, and the map has none for its id
\* before it has one.
ProbePart ==
    /\ \A p \in Probes : \A c \in Channels : home[c] = p => probeOn[p] = c
    /\ \A p \in Probes : probeOn[p] # NoChannel =>
          home[probeOn[p]] = p /\ amqp[probeOn[p]] # "unopened"
    /\ \A p \in Probes : probe[p] \in {"idle", "opening"} =>
          probeOn[p] = NoChannel /\ dedicated[p] = NoChannel
    /\ \A p \in Probes : probe[p] \in Asking => probeOn[p] # NoChannel

\* The inductive invariant of the probes, on top of the pool's.
QInv == ProbeTypeOK /\ ProbePart /\ ProbesContained

-----------------------------------------------------------------------------
\* The round-robin index stays a slot.
LEMMA IndexInRange ==
    /\ 0 \in Slots
    /\ \A s \in Slots : NextIndex(s) \in Slots
BY SizeAssumption DEF Slots, NextIndex

\* A slot is not an id, and neither is the null that channels and homes start with.
LEMMA SlotsAndIds == Slots \cap Ids = {} /\ NoChannel \notin Ids /\ NoChannel \notin Channels
BY IdsAssumption, ChannelsAssumption DEF Slots

\* Channels that emit 'close' keep the state typed.
LEMMA LoseTypes ==
    ASSUME TypeOK, NEW lost \in SUBSET Channels, Lose(lost),
           connected' \in BOOLEAN, faults' \in 0 .. MaxFaults
    PROVE  TypeOK'
<1> USE DEF TypeOK, Lose, owner
<1>1. attempt' \in [Slots -> 0 .. MaxReplaceAttempts]
  BY LimitsAssumption
<1> QED
  BY <1>1

\* Type correctness of what the pool, the broker and the owner of the pool do.
LEMMA PoolTypes == TypeOK /\ PoolStep => TypeOK'
<1> SUFFICES ASSUME TypeOK, PoolStep PROVE TypeOK'
  OBVIOUS
<1> USE LimitsAssumption, IndexInRange DEF TypeOK, owner, shared, keyed, broker
<1>1. CASE Initialize
  BY <1>1 DEF Initialize
<1>2. CASE InitializeSettles
  BY <1>2 DEF InitializeSettles, BeginClose
<1>3. ASSUME NEW s \in Slots, NEW c \in Channels, SlotOpens(s, c) PROVE TypeOK'
  BY <1>3 DEF SlotOpens, Opens
<1>4. ASSUME NEW s \in Slots, SlotFails(s) PROVE TypeOK'
  BY <1>4 DEF SlotFails, Refused
<1>5. ASSUME NEW s \in Slots, ReplaceWakes(s) PROVE TypeOK'
  BY <1>5 DEF ReplaceWakes, MoreAttempts
<1>6. ASSUME NEW c \in Channels, ChannelDies(c) PROVE TypeOK'
  BY <1>6, LoseTypes DEF ChannelDies
<1>7. ASSUME NEW c \in Channels, ChannelCloses(c) PROVE TypeOK'
  BY <1>7, LoseTypes DEF ChannelCloses
<1>8. CASE ConnectionDies
  <2> DEFINE lost == {c \in Channels : amqp[c] \in {"open", "closing"}}
  <2>1. lost \in SUBSET Channels
    OBVIOUS
  <2>2. Lose(lost)
    BY <1>8 DEF ConnectionDies
  <2>3. faults' \in 0 .. MaxFaults
    BY <1>8 DEF ConnectionDies
  <2>4. connected' \in BOOLEAN
    BY <1>8 DEF ConnectionDies
  <2> HIDE DEF lost
  <2> QED
    BY <2>1, <2>2, <2>3, <2>4, LoseTypes
<1>9. CASE GetChannel
  BY <1>9 DEF GetChannel
<1>10. CASE Close
  BY <1>10 DEF Close, BeginClose
<1>11. CASE CloseSettles
  BY <1>11 DEF CloseSettles
<1> QED
  BY <1>1, <1>2, <1>3, <1>4, <1>5, <1>6, <1>7, <1>8, <1>9, <1>10, <1>11 DEF PoolStep

\* And of what the owner of a dedicated channel does.
LEMMA OwnerTypes == ASSUME TypeOK, NEW i \in Ids, OwnerStep(i) PROVE TypeOK'
<1> USE LimitsAssumption DEF TypeOK, owner, shared, keyed, broker
<1>1. CASE GetDedicated(i)
  BY <1>1 DEF GetDedicated
<1>2. ASSUME NEW c \in Channels, DedicatedOpens(i, c) PROVE TypeOK'
  BY <1>2 DEF DedicatedOpens, Opens
<1>3. CASE DedicatedFails(i)
  BY <1>3 DEF DedicatedFails, Refused
<1>4. CASE ReleaseDedicated(i)
  BY <1>4 DEF ReleaseDedicated
<1> QED
  BY <1>1, <1>2, <1>3, <1>4 DEF OwnerStep

-----------------------------------------------------------------------------
(* The shared channels. *)

\* Channels that emit 'close' leave no slot with a dead one.
LEMMA LoseKeeps ==
    ASSUME PInv, NEW lost \in SUBSET Channels, Lose(lost),
           \A c \in lost : amqp[c] # "unopened"
    PROVE  (PhasePart /\ HomePart /\ SlotsAlive /\ SlotTracked)'
<1> USE SlotsAndIds DEF PInv, TypeOK, Lose, SlotsLosing, owner
<1>1. PhasePart'
  BY DEF PhasePart
<1>2. HomePart'
  BY DEF HomePart
<1>3. SlotsAlive'
  BY DEF SlotsAlive, PhasePart
<1>4. SlotTracked'
  BY DEF SlotTracked
<1> QED
  BY <1>1, <1>2, <1>3, <1>4

\* close() leaves no channel of a slot open, whether initialize() or the owner calls it.
LEMMA BeginCloseKeeps ==
    ASSUME PInv, BeginClose, UNCHANGED <<channels, dedicated>>
    PROVE  (PhasePart /\ HomePart /\ SlotsAlive /\ SlotTracked)'
<1> USE SlotsAndIds DEF PInv, TypeOK, BeginClose
<1>1. PhasePart'
  BY DEF PhasePart
<1>2. HomePart'
  BY DEF HomePart
<1>3. SlotsAlive'
  BY DEF SlotsAlive
<1>4. SlotTracked'
  BY DEF SlotTracked, Held
<1> QED
  BY <1>1, <1>2, <1>3, <1>4

\* No step of the pool disturbs the shared channels.
LEMMA PoolKeeps == PInv /\ PoolStep => (PhasePart /\ HomePart /\ SlotsAlive /\ SlotTracked)'
<1> DEFINE Kept == PhasePart /\ HomePart /\ SlotsAlive /\ SlotTracked
<1> SUFFICES ASSUME PInv, PoolStep PROVE Kept'
  OBVIOUS
<1> USE DEF PInv, TypeOK, owner, shared, keyed, broker
<1>1. CASE Initialize
  BY <1>1 DEF Initialize, PhasePart, HomePart, SlotsAlive, SlotTracked
<1>2. CASE InitializeSettles
  <2>1. CASE BeginClose
    <3>1. UNCHANGED <<channels, dedicated>>
      BY <1>2 DEF InitializeSettles
    <3> HIDE DEF PInv
    <3> QED
      BY <2>1, <3>1, BeginCloseKeeps
  <2>2. CASE phase' = "ready" /\ UNCHANGED <<closed, slotPc, broker>>
    BY <1>2, <2>2 DEF InitializeSettles, PhasePart, HomePart, SlotsAlive, SlotTracked
  <2> QED
    BY <1>2, <2>1, <2>2 DEF InitializeSettles
<1>3. ASSUME NEW s \in Slots, NEW c \in Channels, SlotOpens(s, c) PROVE Kept'
  <2> USE <1>3, SlotsAndIds DEF SlotOpens, Opens, Claims
  <2>1. PhasePart'
    BY DEF PhasePart
  <2>2. HomePart'
    BY DEF HomePart
  <2>3. SlotsAlive'
    BY DEF SlotsAlive, HomePart
  <2>4. SlotTracked'
    BY DEF SlotTracked, SlotsAlive, HomePart
  <2> QED
    BY <2>1, <2>2, <2>3, <2>4
<1>4. ASSUME NEW s \in Slots, SlotFails(s) PROVE Kept'
  BY <1>4 DEF SlotFails, Refused, PhasePart, HomePart, SlotsAlive, SlotTracked
<1>5. ASSUME NEW s \in Slots, ReplaceWakes(s) PROVE Kept'
  BY <1>5, LimitsAssumption
     DEF ReplaceWakes, MoreAttempts, PhasePart, HomePart, SlotsAlive, SlotTracked
<1>6. ASSUME NEW c \in Channels, ChannelDies(c) \/ ChannelCloses(c) PROVE Kept'
  <2>1. Lose({c}) /\ amqp[c] # "unopened"
    BY <1>6 DEF ChannelDies, ChannelCloses
  <2> HIDE DEF PInv
  <2> QED
    BY <2>1, LoseKeeps
<1>7. CASE ConnectionDies
  <2> DEFINE lost == {c \in Channels : amqp[c] \in {"open", "closing"}}
  <2>1. lost \in SUBSET Channels /\ \A c \in lost : amqp[c] # "unopened"
    OBVIOUS
  <2>2. Lose(lost)
    BY <1>7 DEF ConnectionDies
  <2> HIDE DEF lost, PInv
  <2> QED
    BY <2>1, <2>2, LoseKeeps
<1>8. CASE GetChannel
  BY <1>8 DEF GetChannel, PhasePart, HomePart, SlotsAlive, SlotTracked
<1>9. CASE Close
  <2>1. BeginClose /\ UNCHANGED <<channels, dedicated>>
    BY <1>9 DEF Close
  <2> HIDE DEF PInv
  <2> QED
    BY <2>1, BeginCloseKeeps
<1>10. CASE CloseSettles
  BY <1>10 DEF CloseSettles, PhasePart, HomePart, SlotsAlive, SlotTracked
<1> QED
  BY <1>1, <1>2, <1>3, <1>4, <1>5, <1>6, <1>7, <1>8, <1>9, <1>10 DEF PoolStep

\* Nor does a step of the owner of a dedicated channel.
LEMMA OwnerKeeps ==
    ASSUME PInv, NEW i \in Ids, OwnerStep(i)
    PROVE  (PhasePart /\ HomePart /\ SlotsAlive /\ SlotTracked)'
<1> DEFINE Kept == PhasePart /\ HomePart /\ SlotsAlive /\ SlotTracked
<1> USE DEF PInv, TypeOK, owner, shared, keyed, broker
<1>1. CASE GetDedicated(i) \/ DedicatedFails(i)
  BY <1>1 DEF GetDedicated, DedicatedFails, Refused, PhasePart, HomePart, SlotsAlive,
     SlotTracked
<1>2. ASSUME NEW c \in Channels, DedicatedOpens(i, c) PROVE Kept'
  <2> USE <1>2, SlotsAndIds DEF DedicatedOpens, Opens
  <2>1. PhasePart'
    BY DEF PhasePart
  <2>2. HomePart'
    BY DEF HomePart
  <2>3. SlotsAlive'
    BY DEF SlotsAlive, HomePart
  <2>4. SlotTracked'
    BY DEF SlotTracked
  <2> QED
    BY <2>1, <2>2, <2>3, <2>4
<1>3. CASE ReleaseDedicated(i)
  <2> USE <1>3, SlotsAndIds DEF ReleaseDedicated
  <2>1. PhasePart'
    BY DEF PhasePart
  <2>2. HomePart'
    BY DEF HomePart
  <2>3. SlotsAlive'
    BY DEF SlotsAlive, HomePart
  <2>4. SlotTracked'
    BY DEF SlotTracked
  <2> QED
    BY <2>1, <2>2, <2>3, <2>4
<1> QED
  BY <1>1, <1>2, <1>3 DEF OwnerStep

\* Init establishes the invariant of the shared channels.
LEMMA PInvInit == Init => PInv
<1> SUFFICES ASSUME Init PROVE PInv
  OBVIOUS
<1> USE LimitsAssumption, IndexInRange DEF Init
<1>1. TypeOK
  <2>1. /\ attempt \in [Slots -> 0 .. MaxReplaceAttempts]
        /\ getting \in [Ids -> 0 .. MaxGets]
        /\ faults \in 0 .. MaxFaults
    OBVIOUS
  <2> QED
    BY <2>1 DEF TypeOK
<1>2. PhasePart /\ HomePart /\ SlotsAlive /\ SlotTracked
  BY DEF PhasePart, HomePart, SlotsAlive, SlotTracked
<1> QED
  BY <1>1, <1>2 DEF PInv

\* Every step preserves it.
LEMMA PInvStep == PInv /\ [Next]_vars => PInv'
<1> SUFFICES ASSUME PInv, [Next]_vars PROVE PInv'
  OBVIOUS
<1>1. CASE PoolStep
  BY <1>1, PoolTypes, PoolKeeps DEF PInv
<1>2. ASSUME NEW i \in Ids, OwnerStep(i) PROVE PInv'
  BY <1>2, OwnerTypes, OwnerKeeps DEF PInv
<1>3. CASE UNCHANGED vars
  BY <1>3 DEF vars, owner, shared, keyed, broker, PInv, TypeOK, PhasePart, HomePart, SlotsAlive,
     SlotTracked
<1> QED
  BY <1>1, <1>2, <1>3 DEF Next

\* The invariant of the shared channels holds in every reachable state.
THEOREM PoolInvariance == Spec => []PInv
BY PInvInit, PInvStep, PTL DEF Spec

\* Type correctness of the pool.
THEOREM TypeCorrect == Spec => []TypeOK
<1>1. PInv => TypeOK
  BY DEF PInv
<1> QED
  BY <1>1, PoolInvariance, PTL

\* The 'close' listeners and #replacePoolChannel(): no slot of an open pool keeps a dead
\* channel, and an empty one is being replaced or has been given up on.
THEOREM SlotsHold == Spec => []SlotsAlive
<1>1. PInv => SlotsAlive
  BY DEF PInv
<1> QED
  BY <1>1, PoolInvariance, PTL

\* close() against the opens in flight: none of the slots' channels outlives the pool,
\* not even one that a replacement loop opens after close() is through.
THEOREM ZombiesHold == Spec => []NoZombies
<1>1. PInv => NoZombies
  BY DEF PInv, PhasePart, SlotTracked, NoZombies
<1> QED
  BY <1>1, PoolInvariance, PTL

-----------------------------------------------------------------------------
(* The dedicated channels, when an owner has one open in flight at a time and none is   *)
(* in flight at close(): getDedicatedChannel() does not look again after its await, so  *)
(* without either a channel is lost.                                                    *)

\* Channels that emit 'close' take the entries of their ids with them, and no others.
LEMMA LoseKeyed ==
    ASSUME PInv, DInv, NEW lost \in SUBSET Channels, Lose(lost),
           \A c \in lost : amqp[c] \in {"open", "closing"}
    PROVE  DInv'
<1> USE SlotsAndIds DEF PInv, TypeOK, DInv, GettingPart, KeyedPart, Lose, IdsLosing, owner
<1>1. GettingPart'
  OBVIOUS
<1>2. KeyedPart'
  <2> SUFFICES ASSUME NEW c \in Channels, home[c] \in Ids, c \notin lost,
                      amqp[c] \in {"open", "closing"}
               PROVE  /\ amqp[c] = "open" => ~closed /\ dedicated'[home[c]] = c
                      /\ amqp[c] = "closing" =>
                            dedicated'[home[c]] = c \/ home[c] \in retired \/ closed
    OBVIOUS
  <2>1. CASE home[c] \in IdsLosing(lost)
    <3>1. PICK d \in lost : home[d] = home[c]
      BY <2>1
    <3> QED
      BY <3>1, <2>1
  <2>2. CASE home[c] \notin IdsLosing(lost)
    BY <2>2
  <2> QED
    BY <2>1, <2>2
<1> QED
  BY <1>1, <1>2

\* close() with no open in flight leaves none of the map's channels open.
LEMMA BeginCloseKeyed ==
    ASSUME PInv, DInv, BeginClose, UNCHANGED <<dedicated, getting, retired>>,
           \A i \in Ids : getting[i] = 0
    PROVE  DInv'
BY SlotsAndIds DEF PInv, TypeOK, DInv, GettingPart, KeyedPart, BeginClose, Held

\* No step of the pool loses a dedicated channel.
LEMMA PoolKeyed ==
    ASSUME MaxGets <= 1, ~GetInClose, PInv, DInv, PoolStep
    PROVE  DInv'
<1> USE DEF PInv, TypeOK, DInv, owner, shared, keyed, broker
<1>1. CASE Initialize
  BY <1>1 DEF Initialize, GettingPart, KeyedPart
<1>2. CASE InitializeSettles
  <2>1. CASE BeginClose
    <3>1. UNCHANGED <<dedicated, getting, retired>> /\ \A i \in Ids : getting[i] = 0
      BY <1>2 DEF InitializeSettles, GettingPart
    <3> HIDE DEF PInv, DInv
    <3> QED
      BY <2>1, <3>1, BeginCloseKeyed
  <2>2. CASE phase' = "ready" /\ UNCHANGED <<closed, broker>>
    BY <1>2, <2>2 DEF InitializeSettles, GettingPart, KeyedPart
  <2> QED
    BY <1>2, <2>1, <2>2 DEF InitializeSettles
<1>3. ASSUME NEW s \in Slots, NEW c \in Channels, SlotOpens(s, c) PROVE DInv'
  BY <1>3, SlotsAndIds DEF SlotOpens, Opens, GettingPart, KeyedPart
<1>4. ASSUME NEW s \in Slots, SlotFails(s) \/ ReplaceWakes(s) PROVE DInv'
  BY <1>4 DEF SlotFails, Refused, ReplaceWakes, GettingPart, KeyedPart
<1>5. ASSUME NEW c \in Channels, ChannelDies(c) \/ ChannelCloses(c) PROVE DInv'
  <2>1. Lose({c}) /\ amqp[c] \in {"open", "closing"}
    BY <1>5 DEF ChannelDies, ChannelCloses
  <2> HIDE DEF PInv, DInv
  <2> QED
    BY <2>1, LoseKeyed
<1>6. CASE ConnectionDies
  <2> DEFINE lost == {c \in Channels : amqp[c] \in {"open", "closing"}}
  <2>1. lost \in SUBSET Channels /\ \A c \in lost : amqp[c] \in {"open", "closing"}
    OBVIOUS
  <2>2. Lose(lost)
    BY <1>6 DEF ConnectionDies
  <2> HIDE DEF lost, PInv, DInv
  <2> QED
    BY <2>1, <2>2, LoseKeyed
<1>7. CASE GetChannel
  BY <1>7 DEF GetChannel, GettingPart, KeyedPart
<1>8. CASE Close
  <2>1. BeginClose /\ UNCHANGED <<dedicated, getting, retired>> /\ \A i \in Ids : getting[i] = 0
    BY <1>8 DEF Close
  <2> HIDE DEF PInv, DInv
  <2> QED
    BY <2>1, BeginCloseKeyed
<1>9. CASE CloseSettles
  BY <1>9 DEF CloseSettles, PhasePart, GettingPart, KeyedPart
<1> QED
  BY <1>1, <1>2, <1>3, <1>4, <1>5, <1>6, <1>7, <1>8, <1>9 DEF PoolStep

\* Nor does a step of an owner.
LEMMA OwnerKeyed ==
    ASSUME MaxGets <= 1, ~GetInClose, PInv, DInv, NEW i \in Ids, OwnerStep(i)
    PROVE  DInv'
<1> USE LimitsAssumption, SlotsAndIds
    DEF PInv, TypeOK, DInv, GettingPart, KeyedPart, owner, shared, keyed, broker
<1>1. CASE GetDedicated(i)
  BY <1>1 DEF GetDedicated
<1>2. ASSUME NEW c \in Channels, DedicatedOpens(i, c) PROVE DInv'
  <2>1. getting[i] = 1 /\ dedicated[i] = NoChannel /\ ~closed /\ i \notin retired
    BY <1>2 DEF DedicatedOpens, PhasePart
  <2>2. GettingPart'
    BY <1>2, <2>1 DEF DedicatedOpens
  <2>3. KeyedPart'
    BY <1>2, <2>1 DEF DedicatedOpens, Opens
  <2> QED
    BY <2>2, <2>3
<1>3. CASE DedicatedFails(i)
  BY <1>3 DEF DedicatedFails, Refused
<1>4. CASE ReleaseDedicated(i)
  <2>1. GettingPart'
    BY <1>4 DEF ReleaseDedicated
  <2>2. KeyedPart'
    BY <1>4 DEF ReleaseDedicated, HomePart
  <2> QED
    BY <2>1, <2>2
<1> QED
  BY <1>1, <1>2, <1>3, <1>4 DEF OwnerStep

\* A pool with nothing open satisfies the invariant of the dedicated channels.
LEMMA DInvInit == Init => DInv
BY SlotsAndIds DEF Init, DInv, GettingPart, KeyedPart

\* releaseDedicatedChannel(), close() and the 'close' listeners: no channel gets out of
\* reach of the pool that opened it.
THEOREM LostHold ==
    ASSUME MaxGets <= 1, ~GetInClose
    PROVE  Spec => []NoLostChannel
<1>1. PInv /\ DInv /\ [Next]_vars => DInv'
  <2> SUFFICES ASSUME PInv, DInv, [Next]_vars PROVE DInv'
    OBVIOUS
  <2>1. CASE PoolStep
    BY <2>1, PoolKeyed
  <2>2. ASSUME NEW i \in Ids, OwnerStep(i) PROVE DInv'
    BY <2>2, OwnerKeyed
  <2>3. CASE UNCHANGED vars
    BY <2>3 DEF vars, owner, keyed, broker, DInv, GettingPart, KeyedPart
  <2> QED
    BY <2>1, <2>2, <2>3 DEF Next
<1>2. PInv /\ DInv => NoLostChannel
  BY DEF PInv, DInv, PhasePart, SlotTracked, KeyedPart, NoLostChannel, NoZombies,
     DedicatedTracked
<1> QED
  BY <1>1, <1>2, DInvInit, PoolInvariance, PTL DEF Spec

-----------------------------------------------------------------------------
(* The probes.  Their pool keeps its invariants, and only a probe's own steps touch     *)
(* what is filed under its id.                                                          *)

\* A channel that closes under a probe's assertion, and setupDelayExchange()'s, closes
\* like any other; everything else a probe does to the pool is a step of its owner.
LEMMA ProbeOnPool ==
    ASSUME QInv, NEW p \in Probes, ProbeStep(p)
    PROVE  \/ OwnerStep(p)
           \/ UNCHANGED vars
           \/ /\ probeOn[p] \in Channels /\ amqp[probeOn[p]] = "open"
              /\ Lose({probeOn[p]}) /\ UNCHANGED <<connected, faults>>
<1> USE DEF ProbeId, OwnerStep
<1>1. CASE ProbeStarts(p)
  BY <1>1 DEF ProbeStarts
<1>2. CASE ProbeOpens(p)
  BY <1>2 DEF ProbeOpens
<1>3. CASE ProbeOpenFails(p)
  BY <1>3 DEF ProbeOpenFails
<1>4. CASE Asserted(p)
  BY <1>4 DEF Asserted
<1>5. CASE Deleted(p) \/ ProbeCut(p)
  BY <1>5 DEF Deleted, ProbeCut, Release
<1>6. CASE AssertRefused(p)
  <2>1. probeOn[p] \in Channels
    BY <1>6 DEF AssertRefused, QInv, ProbePart, ProbeTypeOK, Asking
  <2> QED
    BY <1>6, <2>1 DEF AssertRefused
<1> QED
  BY <1>1, <1>2, <1>3, <1>4, <1>5, <1>6 DEF ProbeStep

\* The pool's invariants survive every step of the composition.
LEMMA PoolUnderProbes ==
    ASSUME MaxGets <= 1, ~GetInClose, PInv, DInv, QInv, [ProbeNext]_allVars
    PROVE  PInv' /\ DInv'
<1>1. CASE PoolStep
  BY <1>1, PoolTypes, PoolKeeps, PoolKeyed DEF PInv
<1>2. ASSUME NEW i \in Ids, OwnerStep(i) PROVE PInv' /\ DInv'
  BY <1>2, OwnerTypes, OwnerKeeps, OwnerKeyed DEF PInv
<1>3. ASSUME NEW c \in Channels, amqp[c] = "open", Lose({c}),
             connected' \in BOOLEAN, faults' \in 0 .. MaxFaults
      PROVE  PInv' /\ DInv'
  <2>1. TypeOK'
    BY <1>3, LoseTypes DEF PInv
  <2>2. (PhasePart /\ HomePart /\ SlotsAlive /\ SlotTracked)'
    BY <1>3, LoseKeeps
  <2>3. DInv'
    BY <1>3, LoseKeyed
  <2> QED
    BY <2>1, <2>2, <2>3 DEF PInv
<1>4. CASE UNCHANGED vars
  BY <1>4 DEF vars, owner, shared, keyed, broker, PInv, DInv, TypeOK, PhasePart, HomePart,
     SlotsAlive, SlotTracked, GettingPart, KeyedPart
<1>5. ASSUME NEW p \in Probes, ProbeStep(p) PROVE PInv' /\ DInv'
  <2>1. p \in Ids
    BY ProbesAssumption
  <2>2. CASE /\ probeOn[p] \in Channels /\ amqp[probeOn[p]] = "open"
             /\ Lose({probeOn[p]}) /\ UNCHANGED <<connected, faults>>
    BY <2>2, <1>3 DEF PInv, TypeOK
  <2> QED
    BY <1>2, <1>4, <1>5, <2>1, <2>2, ProbeOnPool
<1>6. ASSUME NEW s \in Slots, DelayExchangeRefused(s) PROVE PInv' /\ DInv'
  <2>1. channels[s] \in Channels /\ amqp[channels[s]] = "open" /\ Lose({channels[s]})
    BY <1>6 DEF DelayExchangeRefused, PInv, TypeOK
  <2>2. faults' \in 0 .. MaxFaults
    BY <1>6, LimitsAssumption DEF DelayExchangeRefused, PInv, TypeOK
  <2>3. connected' \in BOOLEAN
    BY <1>6 DEF DelayExchangeRefused, PInv, TypeOK
  <2> QED
    BY <1>3, <2>1, <2>2, <2>3
<1> QED
  BY <1>1, <1>2, <1>4, <1>5, <1>6 DEF ProbeNext, allVars

\* What the pool and the other owners do not do to the probes: they open nothing under a
\* probe's id, and while the pool is open they close nothing of a probe's.
LEMMA ProbesApart ==
    ASSUME PInv, QInv, NEW p \in Probes,
           \/ PoolStep
           \/ \E i \in Ids \ {p} : OwnerStep(i)
           \/ \E c \in Channels : amqp[c] = "open" /\ Lose({c})
    PROVE  /\ \A c \in Channels : home'[c] = p <=> home[c] = p
           /\ dedicated'[p] \in {dedicated[p], NoChannel}
           /\ \A c \in Channels : home[c] = p /\ amqp[c] # "unopened" =>
                 /\ amqp'[c] # "unopened"
                 /\ amqp'[c] = "open" => amqp[c] = "open"
                 /\ amqp'[c] = "closing" => amqp[c] = "closing" \/ closed'
           /\ closed => closed'
<1> USE SlotsAndIds, ProbesAssumption DEF PInv, TypeOK, owner, shared, keyed, broker
<1> DEFINE Goal == /\ \A c \in Channels : home'[c] = p <=> home[c] = p
                   /\ dedicated'[p] \in {dedicated[p], NoChannel}
                   /\ \A c \in Channels : home[c] = p /\ amqp[c] # "unopened" =>
                         /\ amqp'[c] # "unopened"
                         /\ amqp'[c] = "open" => amqp[c] = "open"
                         /\ amqp'[c] = "closing" => amqp[c] = "closing" \/ closed'
                   /\ closed => closed'
<1>0. \A c \in Channels : home[c] = p => amqp[c] # "unopened"
  BY DEF QInv, ProbePart
<1>1. ASSUME NEW lost, Lose(lost) PROVE Goal
  BY <1>1 DEF Lose
<1>2. CASE BeginClose /\ UNCHANGED dedicated
  BY <1>2 DEF BeginClose
<1>3. CASE UNCHANGED <<dedicated, home, amqp, closed>>
  BY <1>3
<1>4. CASE CloseSettles
  BY <1>4 DEF CloseSettles
<1>5. ASSUME NEW s \in Slots, NEW c \in Channels, SlotOpens(s, c) PROVE Goal
  BY <1>0, <1>5 DEF SlotOpens, Opens
<1>6. CASE PoolStep
  BY <1>6, <1>1, <1>2, <1>3, <1>4, <1>5
     DEF PoolStep, Initialize, InitializeSettles, SlotFails, Refused, ReplaceWakes, ChannelDies,
         ChannelCloses, ConnectionDies, GetChannel, Close
<1>7. ASSUME NEW i \in Ids \ {p}, OwnerStep(i) PROVE Goal
  <2>1. CASE GetDedicated(i) \/ DedicatedFails(i)
    BY <2>1 DEF GetDedicated, DedicatedFails, Refused
  <2>2. ASSUME NEW c \in Channels, DedicatedOpens(i, c) PROVE Goal
    BY <1>0, <1>7, <2>2 DEF DedicatedOpens, Opens
  <2>3. CASE ReleaseDedicated(i)
    BY <1>7, <2>3 DEF ReleaseDedicated, HomePart
  <2> QED
    BY <1>7, <2>1, <2>2, <2>3 DEF OwnerStep
<1> QED
  BY <1>1, <1>6, <1>7

\* QInv for one probe.
ProbeInv(p) ==
    /\ \A c \in Channels : home[c] = p => probeOn[p] = c
    /\ probeOn[p] # NoChannel => home[probeOn[p]] = p /\ amqp[probeOn[p]] # "unopened"
    /\ probe[p] \in {"idle", "opening"} => probeOn[p] = NoChannel /\ dedicated[p] = NoChannel
    /\ probe[p] \in Asking => probeOn[p] # NoChannel
    /\ probe[p] \in Asking /\ ~closed => amqp[probeOn[p]] # "closing"
    /\ probe[p] \in Answered /\ probeOn[p] # NoChannel => amqp[probeOn[p]] # "open"

\* QInv is the type invariant and ProbeInv of every probe.
LEMMA QInvParts == QInv <=> ProbeTypeOK /\ \A p \in Probes : ProbeInv(p)
BY DEF QInv, ProbePart, ProbesContained, ProbesUndisturbed, ProbesLeaveNothing, ProbeInv

\* What does not touch a probe's state and keeps apart from it keeps its invariant.
LEMMA ApartKeeps ==
    ASSUME PInv, QInv, NEW p \in Probes,
           \/ PoolStep
           \/ \E i \in Ids \ {p} : OwnerStep(i)
           \/ \E c \in Channels : amqp[c] = "open" /\ Lose({c}),
           probe'[p] = probe[p], probeOn'[p] = probeOn[p]
    PROVE  ProbeInv(p)'
<1> DEFINE ch == probeOn[p]
<1>1. ProbeInv(p) /\ ch \in Channels \cup {NoChannel}
  BY QInvParts DEF ProbeTypeOK
<1>2. /\ \A c \in Channels : home'[c] = p <=> home[c] = p
      /\ dedicated'[p] \in {dedicated[p], NoChannel}
      /\ \A c \in Channels : home[c] = p /\ amqp[c] # "unopened" =>
            /\ amqp'[c] # "unopened"
            /\ amqp'[c] = "open" => amqp[c] = "open"
            /\ amqp'[c] = "closing" => amqp[c] = "closing" \/ closed'
      /\ closed => closed'
  BY ProbesApart
<1> QED
  BY <1>1, <1>2 DEF ProbeInv

\* A probe's own step keeps its invariant: it waits on the only channel ever opened for
\* it, which is in the map as long as it is open, and releases that one.
LEMMA ProbeKeeps ==
    ASSUME MaxGets <= 1, ~GetInClose, PInv, DInv, QInv, NEW p \in Probes, ProbeStep(p)
    PROVE  ProbeInv(p)'
<1>1. /\ ProbeInv(p) /\ p \in Ids /\ probeOn[p] \in Channels \cup {NoChannel}
      /\ probe[p] \in {"idle", "opening"} \cup Asking \cup Answered
      /\ probe \in [Probes -> {"idle", "opening"} \cup Asking \cup Answered]
      /\ probeOn \in [Probes -> Channels \cup {NoChannel}]
  BY QInvParts, ProbesAssumption DEF ProbeTypeOK
<1> USE <1>1, SlotsAndIds DEF ProbeInv, ProbeId, Goes, Asking, Answered, PInv, TypeOK
<1>2. probe[p] \in Asking /\ amqp[probeOn[p]] = "open" => dedicated[p] = probeOn[p]
  BY DEF DInv, KeyedPart
<1>3. CASE ProbeStarts(p)
  BY <1>3 DEF ProbeStarts, GetDedicated, owner, shared, broker, vars, keyed
<1>4. CASE ProbeOpens(p)
  <2>1. PICK c \in Channels : DedicatedOpens(p, c) /\ probeOn' = [probeOn EXCEPT ![p] = c]
    BY <1>4 DEF ProbeOpens
  <2>2. probe'[p] = "asserting" /\ probeOn'[p] = c /\ probeOn[p] = NoChannel
    BY <1>4, <2>1 DEF ProbeOpens
  <2>3. home'[c] = p /\ amqp'[c] = "open" /\ \A d \in Channels : home'[d] = p => d = c
    BY <2>1, <2>2 DEF DedicatedOpens, Opens
  <2> QED
    BY <2>2, <2>3
<1>5. CASE ProbeOpenFails(p)
  BY <1>5 DEF ProbeOpenFails, DedicatedFails, Refused, broker, owner, shared
<1>6. CASE Asserted(p)
  BY <1>6 DEF Asserted, vars, owner, shared, keyed, broker
<1>7. CASE Deleted(p) \/ ProbeCut(p)
  <2>1. probe[p] \in Asking /\ probe'[p] \in Answered /\ probeOn'[p] = probeOn[p] /\ Release(p)
    BY <1>7 DEF Deleted, ProbeCut
  <2>2. amqp[probeOn[p]] = "open" => dedicated[p] = probeOn[p]
    BY <1>2, <2>1
  <2>3. CASE ReleaseDedicated(p)
    BY <2>1, <2>2, <2>3 DEF ReleaseDedicated
  <2>4. CASE dedicated[p] = NoChannel /\ UNCHANGED vars
    BY <2>1, <2>2, <2>4 DEF vars, owner, shared, keyed, broker
  <2> QED
    BY <2>1, <2>3, <2>4 DEF Release
<1>8. CASE AssertRefused(p)
  BY <1>8 DEF AssertRefused, Lose, owner
<1> QED
  BY <1>3, <1>4, <1>5, <1>6, <1>7, <1>8 DEF ProbeStep

\* Type correctness of the probes.
LEMMA ProbeTypes ==
    ASSUME QInv, PInv, TypeOK', [ProbeNext]_allVars
    PROVE  ProbeTypeOK'
<1> SUFFICES /\ probe' \in [Probes -> {"idle", "opening"} \cup Asking \cup Answered]
             /\ probeOn' \in [Probes -> Channels \cup {NoChannel}]
  BY DEF ProbeTypeOK
<1> USE DEF QInv, ProbeTypeOK, Goes, Asking, Answered
<1>1. CASE UNCHANGED probeVars
  BY <1>1 DEF probeVars
<1>2. ASSUME NEW p \in Probes, ProbeStep(p)
      PROVE  /\ probe' \in [Probes -> {"idle", "opening"} \cup Asking \cup Answered]
             /\ probeOn' \in [Probes -> Channels \cup {NoChannel}]
  <2>1. dedicated[ProbeId(p)] \in Channels \cup {NoChannel}
    BY ProbesAssumption DEF ProbeId, PInv, TypeOK
  <2> QED
    BY <1>2, <2>1 DEF ProbeStep, ProbeStarts, ProbeOpens, ProbeOpenFails, Asserted, Deleted,
       AssertRefused, ProbeCut
<1> QED
  BY <1>1, <1>2 DEF ProbeNext, DelayExchangeRefused, allVars

\* A step of another probe, of another owner or of the pool leaves a probe as it is.
LEMMA OthersKeep ==
    ASSUME MaxGets <= 1, ~GetInClose, PInv, DInv, QInv, ProbeNext, NEW p \in Probes,
           ~ProbeStep(p)
    PROVE  ProbeInv(p)'
<1> USE ProbesAssumption
<1>1. CASE PoolStep /\ UNCHANGED probeVars
  BY <1>1, ApartKeeps DEF probeVars
<1>2. ASSUME NEW i \in Ids \ Probes, OwnerStep(i), UNCHANGED probeVars PROVE ProbeInv(p)'
  BY <1>2, ApartKeeps DEF probeVars
<1>3. ASSUME NEW q \in Probes, ProbeStep(q) PROVE ProbeInv(p)'
  <2>1. q # p /\ q \in Ids
    BY <1>3
  <2>2. probe'[p] = probe[p] /\ probeOn'[p] = probeOn[p]
    BY <1>3, <2>1 DEF QInv, ProbeTypeOK, ProbeStep, Goes, ProbeStarts, ProbeOpens,
       ProbeOpenFails, Asserted, Deleted, AssertRefused, ProbeCut
  <2>3. CASE UNCHANGED vars
    BY <2>2, <2>3, QInvParts DEF ProbeInv, vars, owner, shared, keyed, broker
  <2> QED
    BY <1>3, <2>1, <2>2, <2>3, ProbeOnPool, ApartKeeps
<1>4. ASSUME NEW s \in Slots, DelayExchangeRefused(s) PROVE ProbeInv(p)'
  <2>1. channels[s] \in Channels /\ amqp[channels[s]] = "open" /\ Lose({channels[s]})
    BY <1>4 DEF DelayExchangeRefused, PInv, TypeOK
  <2>2. probe'[p] = probe[p] /\ probeOn'[p] = probeOn[p]
    BY <1>4 DEF DelayExchangeRefused, probeVars
  <2> QED
    BY <2>1, <2>2, ApartKeeps
<1> QED
  BY <1>1, <1>2, <1>3, <1>4 DEF ProbeNext

\* A fresh pool and idle probes satisfy the invariants.
LEMMA QInvInit == ProbeInit => PInv /\ DInv /\ QInv
<1> SUFFICES ASSUME ProbeInit PROVE QInv
  BY PInvInit, DInvInit DEF ProbeInit
<1>1. TypeOK
  BY PInvInit DEF ProbeInit, PInv
<1>2. ProbeTypeOK
  BY <1>1 DEF ProbeInit, ProbeTypeOK
<1>3. ASSUME NEW p \in Probes PROVE ProbeInv(p)
  BY ProbesAssumption, SlotsAndIds DEF ProbeInit, Init, ProbeInv, Asking, Answered
<1> QED
  BY <1>2, <1>3, QInvParts

\* isDelayPluginEnabled() and #probeChannel(): whatever other probes, owners, deaths and
\* closes happen meanwhile, a probe's channel is neither taken away from it nor left open
\* behind it.
THEOREM ProbesHold ==
    ASSUME MaxGets <= 1, ~GetInClose
    PROVE  ProbeSpec => []ProbesContained
<1> DEFINE Inv == PInv /\ DInv /\ QInv
<1>1. Inv /\ [ProbeNext]_allVars => Inv'
  <2> SUFFICES ASSUME PInv, DInv, QInv, [ProbeNext]_allVars PROVE QInv'
    BY PoolUnderProbes
  <2>1. ProbeTypeOK'
    BY PoolUnderProbes, ProbeTypes DEF PInv
  <2>2. ASSUME NEW p \in Probes PROVE ProbeInv(p)'
    <3>1. CASE UNCHANGED allVars
      BY <3>1, QInvParts
         DEF ProbeInv, allVars, probeVars, vars, owner, shared, keyed, broker
    <3> QED
      BY <3>1, ProbeKeeps, OthersKeep
  <2>3. (\A p \in Probes : ProbeInv(p))'
    BY <2>2
  <2> QED
    BY <2>1, <2>3, QInvParts, PTL
<1>2. Inv => ProbesContained
  BY DEF QInv
<1> QED
  BY <1>1, <1>2, QInvInit, PTL DEF ProbeSpec

=============================================================================
