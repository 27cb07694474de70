------------------------------ MODULE ChannelPool ------------------------------
(***************************************************************************)
(* ChannelPool (src/connection/channel-pool.js): a fixed number of shared  *)
(* channels handed out in turn, each replaced when it dies, and a map of   *)
(* dedicated channels keyed by their owner.  One instance serves one       *)
(* connection: initialize() runs once and close() ends it.                 *)
(*                                                                         *)
(* A channel's listeners close over the slot or the id it was opened for;  *)
(* `home` remembers that.                                                  *)
(***************************************************************************)
EXTENDS Integers, FiniteSets

CONSTANTS
    Channels,           \* bound: the channels the connection can open
    NoChannel,          \* JavaScript null
    Size,               \* options.size
    Ids,                \* owners of dedicated channels
    MaxReplaceAttempts, \* MAX_REPLACE_ATTEMPTS
    MaxFaults,          \* bound: channels that die or cannot be opened
    MaxGets,            \* getDedicatedChannel() calls in flight for one id
    GetInClose          \* may one be in flight when the pool is closed?

ASSUME ChannelsAssumption == NoChannel \notin Channels
ASSUME SizeAssumption == Size \in Nat \ {0}
ASSUME IdsAssumption == Ids \cap (0 .. Size - 1) = {} /\ NoChannel \notin Ids
ASSUME LimitsAssumption ==
    /\ MaxReplaceAttempts \in Nat \ {0}
    /\ MaxFaults \in Nat
    /\ MaxGets \in Nat
    /\ GetInClose \in BOOLEAN

Slots == 0 .. Size - 1

VARIABLES
    phase,     \* of the owner's initialize() and close() calls
    closed,    \* closed
    channels,  \* channels: what each slot holds
    index,     \* index
    slotPc,    \* what is under way for each slot
    attempt,   \* the replacement loop's counter
    dedicated, \* dedicatedChannels
    getting,   \* getDedicatedChannel() calls in flight, for each id
    retired,   \* ids whose owner has released its channel
    amqp,      \* broker side: the state of each channel
    home,      \* the slot or the id each channel was opened for
    connected, \* is the connection the pool was built on up?
    faults

owner == <<phase, retired>>
shared == <<channels, index, slotPc, attempt>>
keyed == <<dedicated, getting>>
broker == <<amqp, home, connected>>
vars == <<owner, closed, shared, keyed, broker, faults>>

Held(f, S) == {f[x] : x \in S} \ {NoChannel}

TypeOK ==
    /\ phase \in {"new", "initializing", "ready", "closing", "closed"}
    /\ closed \in BOOLEAN
    /\ channels \in [Slots -> Channels \cup {NoChannel}]
    /\ index \in Slots
    /\ slotPc \in [Slots -> {"idle", "initial", "failed", "replacing", "sleeping"}]
    /\ attempt \in [Slots -> 0 .. MaxReplaceAttempts]
    /\ dedicated \in [Ids -> Channels \cup {NoChannel}]
    /\ getting \in [Ids -> 0 .. MaxGets]
    /\ retired \in SUBSET Ids
    /\ amqp \in [Channels -> {"unopened", "open", "closing", "closed"}]
    /\ home \in [Channels -> Slots \cup Ids \cup {NoChannel}]
    /\ connected \in BOOLEAN
    /\ faults \in 0 .. MaxFaults

Init ==
    /\ phase = "new"
    /\ closed = FALSE
    /\ channels = [s \in Slots |-> NoChannel]
    /\ index = 0
    /\ slotPc = [s \in Slots |-> "idle"]
    /\ attempt = [s \in Slots |-> 0]
    /\ dedicated = [i \in Ids |-> NoChannel]
    /\ getting = [i \in Ids |-> 0]
    /\ retired = {}
    /\ amqp = [c \in Channels |-> "unopened"]
    /\ home = [c \in Channels |-> NoChannel]
    /\ connected = TRUE
    /\ faults = 0

-----------------------------------------------------------------------------
(* createConfirmChannel(): the connection answers, or refuses, an open. *)

\* Channels are interchangeable, so the broker hands out the names in one order.
NextChannel == CHOOSE c \in Channels : amqp[c] = "unopened"

Opens(c, for, to) ==
    /\ connected
    /\ amqp[c] = "unopened" /\ c = NextChannel
    /\ amqp' = [amqp EXCEPT ![c] = to]
    /\ home' = [home EXCEPT ![c] = for]
    /\ UNCHANGED connected

Refused ==
    /\ IF connected
         THEN faults < MaxFaults /\ faults' = faults + 1
         ELSE UNCHANGED faults
    /\ UNCHANGED broker

-----------------------------------------------------------------------------
(* initialize(). *)

\* Every slot's channel is asked for at once.
Initialize ==
    /\ phase = "new"
    /\ phase' = "initializing"
    /\ slotPc' = [s \in Slots |-> "initial"]
    /\ UNCHANGED <<retired, closed, channels, index, attempt, keyed, broker, faults>>

\* Mutant of Claims: the slot is written to whether or not the pool is closed.
ClaimsAlways == TRUE

\* #createPoolChannel()'s question after its await.
Claims == ~closed

\* #createPoolChannel() resumes with c.  An open pool claims it for its slot; a
\* replacement that arrives at a closed pool is closed again.
SlotOpens(s, c) ==
    /\ slotPc[s] \in {"initial", "replacing"}
    /\ Opens(c, s, IF Claims THEN "open" ELSE "closing")
    /\ channels' = IF Claims THEN [channels EXCEPT ![s] = c] ELSE channels
    /\ slotPc' = [slotPc EXCEPT ![s] = "idle"]
    /\ attempt' = [attempt EXCEPT ![s] = 0]
    /\ UNCHANGED <<owner, closed, index, keyed, faults>>

\* The first open of a slot fails, or an attempt of its replacement loop does.
SlotFails(s) ==
    /\ slotPc[s] \in {"initial", "replacing"}
    /\ slotPc' = [slotPc EXCEPT ![s] = IF @ = "initial" THEN "failed" ELSE "sleeping"]
    /\ Refused
    /\ UNCHANGED <<owner, closed, channels, index, attempt, keyed>>

\* close(): everything the pool holds is closed at once.
BeginClose ==
    /\ closed' = TRUE
    /\ phase' = "closing"
    /\ amqp' = [c \in Channels |->
                  IF c \in Held(channels, Slots) \cup Held(dedicated, Ids) /\ amqp[c] = "open"
                    THEN "closing" ELSE amqp[c]]
    /\ UNCHANGED <<home, connected>>

\* Promise.allSettled: no first open is outstanding.
AllSettled == \A s \in Slots : slotPc[s] # "initial"

\* initialize() resolves when every slot was opened, and closes the pool (then
\* rejects) when one was not.
InitializeSettles ==
    /\ phase = "initializing"
    /\ AllSettled
    /\ IF \E s \in Slots : slotPc[s] = "failed"
         THEN /\ BeginClose
              /\ slotPc' = [s \in Slots |-> IF slotPc[s] = "failed" THEN "idle" ELSE slotPc[s]]
         ELSE /\ phase' = "ready"
              /\ UNCHANGED <<closed, slotPc, broker>>
    /\ UNCHANGED <<retired, channels, index, attempt, keyed, faults>>

-----------------------------------------------------------------------------
(* The 'close' listeners and #replacePoolChannel(). *)

\* Mutant of SlotsLosing: the listener's guard is the wrong way round.
SlotsLosingClosed(lost) == {s \in Slots : closed /\ channels[s] \in lost}

\* The slots whose channel is among `lost`, if their listener still recognises it.
SlotsLosing(lost) == {s \in Slots : ~closed /\ channels[s] \in lost}

\* The ids whose entry a 'close' deletes: the listener does not compare channels.
IdsLosing(lost) == {i \in Ids : \E c \in lost : home[c] = i}

\* The channels in `lost` emit 'close': their slots are emptied and each starts a
\* replacement loop; dedicated ones leave the map.
Lose(lost) ==
    /\ amqp' = [c \in Channels |-> IF c \in lost THEN "closed" ELSE amqp[c]]
    /\ channels' = [s \in Slots |-> IF s \in SlotsLosing(lost) THEN NoChannel ELSE channels[s]]
    /\ slotPc' = [s \in Slots |-> IF s \in SlotsLosing(lost) THEN "replacing" ELSE slotPc[s]]
    /\ attempt' = [s \in Slots |-> IF s \in SlotsLosing(lost) THEN 1 ELSE attempt[s]]
    /\ dedicated' = [i \in Ids |-> IF i \in IdsLosing(lost) THEN NoChannel ELSE dedicated[i]]
    /\ UNCHANGED <<home, owner, closed, index, getting>>

\* A channel dies on its own.
ChannelDies(c) ==
    /\ faults < MaxFaults
    /\ amqp[c] = "open"
    /\ Lose({c})
    /\ faults' = faults + 1
    /\ UNCHANGED connected

\* A channel the pool closes is closed.
ChannelCloses(c) ==
    /\ amqp[c] = "closing"
    /\ Lose({c})
    /\ UNCHANGED <<connected, faults>>

\* The connection dies, and every channel with it.
ConnectionDies ==
    /\ faults < MaxFaults
    /\ connected
    /\ connected' = FALSE
    /\ Lose({c \in Channels : amqp[c] \in {"open", "closing"}})
    /\ faults' = faults + 1

\* Mutant of MoreAttempts: the first failure ends the loop.
MoreAttemptsNever(s) == FALSE

\* The loop condition, evaluated after each back-off.
MoreAttempts(s) == attempt[s] < MaxReplaceAttempts /\ ~closed

\* The back-off ends: try again, or give up and leave the slot out of rotation.
ReplaceWakes(s) ==
    /\ slotPc[s] = "sleeping"
    /\ IF MoreAttempts(s)
         THEN /\ slotPc' = [slotPc EXCEPT ![s] = "replacing"]
              /\ attempt' = [attempt EXCEPT ![s] = @ + 1]
         ELSE /\ slotPc' = [slotPc EXCEPT ![s] = "idle"]
              /\ UNCHANGED attempt
    /\ UNCHANGED <<owner, closed, channels, index, keyed, broker, faults>>

-----------------------------------------------------------------------------
(* The owner's operations. *)

\* The slots getChannel() would pass over before it reaches s.
PassedOver(s) == {t \in Slots : (t - index) % Size < (s - index) % Size}

NextIndex(s) == (s + 1) % Size

\* getChannel(): the first usable slot from index on, which moves past it; with no
\* usable slot it throws (index has gone full circle).
GetChannel ==
    /\ phase \in {"ready", "closing"}
    /\ \E s \in Slots :
         /\ channels[s] # NoChannel
         /\ \A t \in PassedOver(s) : channels[t] = NoChannel
         /\ index' = NextIndex(s)
    /\ UNCHANGED <<owner, closed, channels, slotPc, attempt, keyed, broker, faults>>

\* getDedicatedChannel() with no channel in the map: up to its await.  (With one,
\* it just returns it.)
GetDedicated(i) ==
    /\ phase = "ready" /\ i \notin retired
    /\ dedicated[i] = NoChannel
    /\ getting[i] < MaxGets
    /\ getting' = [getting EXCEPT ![i] = @ + 1]
    /\ UNCHANGED <<owner, closed, shared, dedicated, broker, faults>>

\* It resumes with c and enters it in the map, whatever has happened meanwhile.
DedicatedOpens(i, c) ==
    /\ getting[i] > 0
    /\ Opens(c, i, "open")
    /\ getting' = [getting EXCEPT ![i] = @ - 1]
    /\ dedicated' = [dedicated EXCEPT ![i] = c]
    /\ UNCHANGED <<owner, closed, shared, faults>>

DedicatedFails(i) ==
    /\ getting[i] > 0
    /\ getting' = [getting EXCEPT ![i] = @ - 1]
    /\ Refused
    /\ UNCHANGED <<owner, closed, shared, dedicated>>

\* releaseDedicatedChannel(): the owner is gone, and does not come back.
ReleaseDedicated(i) ==
    /\ dedicated[i] # NoChannel
    /\ dedicated' = [dedicated EXCEPT ![i] = NoChannel]
    /\ amqp' = [amqp EXCEPT ![dedicated[i]] = "closing"]
    /\ retired' = retired \cup {i}
    /\ UNCHANGED <<phase, closed, shared, getting, home, connected, faults>>

\* The owner calls close(): after a failed restore, a lost connection or a
\* disconnect().
Close ==
    /\ phase = "ready"
    /\ GetInClose \/ \A i \in Ids : getting[i] = 0
    /\ BeginClose
    /\ UNCHANGED <<retired, shared, keyed, faults>>

\* Every close() it awaits has settled.
CloseSettles ==
    /\ phase = "closing"
    /\ \A c \in Held(channels, Slots) \cup Held(dedicated, Ids) : amqp[c] # "closing"
    /\ phase' = "closed"
    /\ channels' = [s \in Slots |-> NoChannel]
    /\ index' = 0
    /\ dedicated' = [i \in Ids |-> NoChannel]
    /\ UNCHANGED <<retired, closed, slotPc, attempt, getting, broker, faults>>

-----------------------------------------------------------------------------
\* What the pool, the broker and the owner of the whole pool do.
PoolStep ==
    \/ Initialize
    \/ InitializeSettles
    \/ \E s \in Slots : \/ \E c \in Channels : SlotOpens(s, c)
                        \/ SlotFails(s)
                        \/ ReplaceWakes(s)
    \/ \E c \in Channels : ChannelDies(c) \/ ChannelCloses(c)
    \/ ConnectionDies
    \/ GetChannel
    \/ Close
    \/ CloseSettles

\* What the owner of a dedicated channel does.
OwnerStep(i) ==
    \/ GetDedicated(i)
    \/ \E c \in Channels : DedicatedOpens(i, c)
    \/ DedicatedFails(i)
    \/ ReleaseDedicated(i)

Next == PoolStep \/ \E i \in Ids : OwnerStep(i)

Spec == Init /\ [][Next]_vars

\* Opens are answered, back-offs end and closes settle.
Fairness ==
    /\ \A s \in Slots : WF_vars((\E c \in Channels : SlotOpens(s, c)) \/ SlotFails(s))
    /\ \A s \in Slots : WF_vars(ReplaceWakes(s))
    /\ \A c \in Channels : WF_vars(ChannelCloses(c))
    /\ WF_vars(InitializeSettles)
    /\ WF_vars(CloseSettles)

FairSpec == Spec /\ Fairness

-----------------------------------------------------------------------------
(* Properties. *)

\* "a dead channel must never keep being handed out by getChannel()": a slot of an
\* open pool holds an open channel, or nothing and then it is being replaced, has
\* been given up on, or has not been opened yet.
SlotsAlive ==
    ~closed => \A s \in Slots :
        /\ channels[s] # NoChannel => amqp[channels[s]] = "open" /\ slotPc[s] = "idle"
        /\ channels[s] = NoChannel /\ slotPc[s] = "idle" /\ phase # "new"
             => attempt[s] = MaxReplaceAttempts

\* The channels a pool was built from do not outlive it: once close() is through
\* and no open is outstanding, none of the slots' channels is open.
NoZombies ==
    phase = "closed" /\ (\A s \in Slots : slotPc[s] \in {"idle", "sleeping"})
        => \A c \in Channels : amqp[c] = "open" => home[c] \notin Slots

\* A dedicated channel can always be found by its owner's id, to be released with
\* it or closed with the pool.
DedicatedTracked ==
    \A c \in Channels : home[c] \in Ids /\ amqp[c] = "open" => dedicated[home[c]] = c

\* No channel gets out of reach of the pool that opened it, whatever opens late, dies or
\* is released: those would eat the connection's channels until channel_max.
NoLostChannel == NoZombies /\ DedicatedTracked

\* While the connection lives, an emptied slot is filled again, given up on after
\* MAX_REPLACE_ATTEMPTS, or the pool is closed.
SlotRecovers ==
    \A s \in Slots :
        phase = "ready" /\ channels[s] = NoChannel /\ slotPc[s] = "replacing"
            ~> \/ channels[s] # NoChannel \/ closed
               \/ slotPc[s] = "idle" /\ attempt[s] = MaxReplaceAttempts

=============================================================================
