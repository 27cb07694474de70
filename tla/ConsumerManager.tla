---------------------------- MODULE ConsumerManager ----------------------------
(***************************************************************************)
(* The consumers of src/consumers/consumer-manager.js: registration, the   *)
(* setup that opens a dedicated channel and consumes on it, the recovery   *)
(* of a consumer the broker cancelled or whose channel closed, the         *)
(* recreation of every consumer on a new channel pool, unsubscribe() with  *)
(* its drain, and disposeAll().                                            *)
(*                                                                         *)
(* A setup, a recovery loop and an unsubscribe() are processes with an     *)
(* await between their steps; several of them may work on one consumer.    *)
(* A consume is named by the tag the broker gives it.  What one delivery   *)
(* goes through is Delivery's subject: here a handler is only in flight.   *)
(***************************************************************************)
EXTENDS Integers, FiniteSets

CONSTANTS
    Consumers,    \* bound: the consumers that can be registered
    MaxPools,     \* bound: the channel pools the facade installs
    MaxChannels,  \* bound: the dedicated channels opened
    MaxTags,      \* bound: the consumes the broker accepts
    MaxFaults,    \* bound: channel closes, broker cancels and spells of refusal
    MaxInFlight,  \* bound: handlers in flight at once
    MaxAttempts,  \* maxAttempts of handleConsumerLoss()
    Races,        \* are two races let happen that the code does not fence?
    SubscribeInRestore  \* may subscribe() be called while a restore is under way?

ASSUME BoundsAssumption ==
    /\ {MaxChannels, MaxTags, MaxFaults, MaxInFlight} \subseteq Nat
    /\ {MaxPools, MaxAttempts} \subseteq Nat \ {0}
    /\ Consumers # {} /\ {Races, SubscribeInRestore} \subseteq BOOLEAN

VARIABLES
    pool,      \* getChannelPool(): the number of the pool, 0 for null
    pools,     \* how many pools there have been
    restoring, \* a pool is installed and recreateAll() has not run on it yet
    info,      \* activeConsumers: each consumer's record
    tagged,    \* the keys of consumersByTag; the value is the consume's consumer
    workers,   \* each consumer's worker pool
    proc,      \* where each process of each consumer is
    disposing, \* disposeAll() awaits the worker pools
    chan,      \* the dedicated channels: owner and state
    dedicated, \* the pool's dedicatedChannels entry of each consumer, or 0
    consume,   \* the consumes the broker accepted, in order: consumer and channel
    serving,   \* the tags the broker delivers to
    running,   \* the tags with a handler in flight
    refusing,  \* the broker refuses new channels and consumes (channel_max, permissions)
    faults, forsaken, expired, cut, wronged  \* bound and history

manager == <<info, tagged, workers>>
facade == <<pool, pools, restoring>>
broker == <<chan, dedicated, consume, serving>>
outage == <<refusing, faults>>
drops == <<expired, cut, wronged>>
history == <<forsaken, drops>>
vars == <<facade, manager, proc, disposing, broker, running, outage, history>>

Loops == {"loop1", "loop2"}
Setups == Loops \cup {"subscribe", "recreate"}
Procs == Setups \cup {"unsubscribe"}
Idle == [pc |-> "idle", home |-> 0, chan |-> 0, tag |-> 0, epoch |-> 0, tries |-> 0]

TypeOK ==
    /\ pool \in 0..MaxPools /\ pools \in 0..MaxPools /\ restoring \in BOOLEAN
    /\ info \in [Consumers -> [status : {"unused", "active", "gone", "disposed"}, cancelled : BOOLEAN,
                               epoch : Nat, tag : 0..MaxTags]]
    /\ tagged \subseteq 1..MaxTags
    /\ workers \in [Consumers -> {"none", "spawned", "owned", "terminated"}]
    /\ proc \in [Consumers -> [Procs ->
         [pc : {"idle", "sleeping", "opening", "consuming", "consumed", "revoking",
                "cancelling", "draining", "terminating"},
          home : 0..MaxPools, chan : 0..MaxChannels, tag : 0..MaxTags,
          epoch : Nat, tries : 0..MaxAttempts]]]
    /\ disposing \in BOOLEAN
    /\ chan \in [1..MaxChannels -> [owner : Consumers, state : {"none", "open", "closed"}]]
    /\ dedicated \in [Consumers -> 0..MaxChannels]
    /\ consume \in [1..MaxTags -> [by : Consumers, on : 0..MaxChannels]]
    /\ serving \subseteq 1..MaxTags /\ running \subseteq 1..MaxTags
    /\ refusing \in BOOLEAN /\ faults \in 0..MaxFaults
    /\ {forsaken, expired, wronged} \subseteq SUBSET Consumers /\ cut \subseteq 1..MaxTags

AnyConsumer == CHOOSE c \in Consumers : TRUE

Init ==
    /\ pool = 1 /\ pools = 1 /\ restoring = FALSE /\ disposing = FALSE
    /\ info = [c \in Consumers |->
                 [status |-> "unused", cancelled |-> FALSE, epoch |-> 0, tag |-> 0]]
    /\ workers = [c \in Consumers |-> "none"]
    /\ proc = [c \in Consumers |-> [p \in Procs |-> Idle]]
    /\ chan = [k \in 1..MaxChannels |-> [owner |-> AnyConsumer, state |-> "none"]]
    /\ dedicated = [c \in Consumers |-> 0]
    /\ consume = [t \in 1..MaxTags |-> [by |-> AnyConsumer, on |-> 0]]
    /\ tagged = {} /\ serving = {} /\ running = {} /\ refusing = FALSE /\ faults = 0
    /\ forsaken = {} /\ expired = {} /\ cut = {} /\ wronged = {}

-----------------------------------------------------------------------------
Active(c) == info[c].status = "active"

\* consumerInfo.channel: set together with the tag, so it is that consume's channel.
ChannelOf(c) == IF info[c].tag = 0 THEN 0 ELSE consume[info[c].tag].on

IsOpen(k) == k # 0 /\ chan[k].state = "open"
InFlight(c) == {t \in running : consume[t].by = c}
Serving(c) == {t \in serving : consume[t].by = c}

Fault == faults < MaxFaults /\ faults' = faults + 1

\* The process record of c's p becomes r.
Becomes(c, p, r) == proc' = [proc EXCEPT ![c][p] = r]

\* A dedicated channel closes: amqplib drops its consumes and the pool's own
\* listener drops the entry of the consumer it was opened for.
CloseChannel(k) ==
    /\ chan' = [chan EXCEPT ![k].state = "closed"]
    /\ dedicated' = [dedicated EXCEPT ![chan[k].owner] = 0]
    /\ serving' = {t \in serving : consume[t].on # k}
    /\ UNCHANGED consume

\* Mutant of StillOurs: the loop does not look at the pool.
StillOursAnyPool(c, p) == Active(c) /\ ~info[c].cancelled

\* stillOurs(): the consumer is registered, not cancelled, and on the loop's own pool.
StillOurs(c, p) == Active(c) /\ ~info[c].cancelled /\ pool = proc[c][p].home

\* A wake-up of this loop would find one of its fences closed for good.
Doomed(c, p) ==
    /\ proc[c][p].pc = "sleeping"
    /\ ~StillOurs(c, p) \/ info[c].epoch # proc[c][p].epoch

FreeLoops(c) == {p \in Loops : proc[c][p].pc = "idle" \/ Doomed(c, p)}

\* handleConsumerLoss() up to its first sleep: nothing for a consumer that is gone or
\* cancelled, otherwise a loop that remembers the pool and the epoch of this moment.
LoopStarts(c) ==
    IF Active(c) /\ ~info[c].cancelled
      THEN /\ FreeLoops(c) # {}
           /\ Becomes(c, CHOOSE p \in FreeLoops(c) : TRUE,
                      [Idle EXCEPT !.pc = "sleeping", !.home = pool,
                                   !.epoch = info[c].epoch, !.tries = 1])
      ELSE UNCHANGED proc

-----------------------------------------------------------------------------
(* The setup closure of #subscribeCore().  prefetch() and consume() are two round   *)
(* trips with nothing between them and are one await here.                          *)

\* Mutant of AfterFailure: the give-up is not fenced.
GivesUpUnfenced(c, p) ==
    LET r == proc[c][p]
    IN  IF p \in Loops /\ r.tries = MaxAttempts THEN [r EXCEPT !.pc = "draining"]
        ELSE IF p \in Loops THEN [r EXCEPT !.pc = "sleeping", !.tries = @ + 1]
        ELSE IF p = "subscribe" THEN [r EXCEPT !.pc = "draining"] ELSE Idle

\* What the caller of a setup does when it throws: subscribe() drops the consumer,
\* recreateAll() only logs, a loop sleeps again or, after its last attempt and if the
\* consumer is still its own, drops it.
AfterFailure(c, p) ==
    LET r == proc[c][p]
    IN  CASE p = "subscribe" -> [r EXCEPT !.pc = "draining"]
          [] p = "recreate" -> Idle
          [] p \in Loops /\ r.tries < MaxAttempts ->
               [r EXCEPT !.pc = "sleeping", !.tries = @ + 1]
          [] p \in Loops /\ r.tries = MaxAttempts ->
               IF StillOurs(c, p) THEN [r EXCEPT !.pc = "draining"] ELSE Idle

\* The setup of p throws.  A recreation that fails on a healthy pool leaves its
\* consumer registered, silent and with nobody to recover it.
SetupFails(c, p) ==
    /\ Becomes(c, p, AfterFailure(c, p))
    /\ forsaken' = IF p = "recreate" /\ pool = proc[c][p].home /\ ~info[c].cancelled
                     THEN forsaken \cup {c} ELSE forsaken

\* The record of a process whose setup has just been called, by getDedicatedChannel():
\* a cached channel is used at once, otherwise one is opened.
SetupCalled(c, r) ==
    IF dedicated[c] # 0 THEN [r EXCEPT !.pc = "consuming", !.chan = dedicated[c]]
                        ELSE [r EXCEPT !.pc = "opening", !.chan = 0]

NextChannel == CHOOSE k \in 0..MaxChannels :
    /\ k = 0 => \A j \in 1..MaxChannels : chan[j].state # "none"
    /\ k # 0 => chan[k].state = "none" /\ \A j \in 1..(k - 1) : chan[j].state # "none"

\* Mutant of AbandonsEarly: nothing is re-checked once the channel is open.
AbandonsNever(c) == FALSE

\* The check made once the channel is open: was the consumer dropped or cancelled?
AbandonsEarly(c) == ~Active(c) \/ info[c].cancelled

\* The channel is open.  For a consumer that is gone it is closed again; for one being
\* unsubscribed it is left to #dropConsumer(); both throw.
ChannelOpened(c, p) ==
    /\ proc[c][p].pc = "opening" /\ proc[c][p].home = pool
    /\ ~refusing /\ NextChannel # 0
    /\ LET k == NextChannel IN
       IF AbandonsEarly(c)
         THEN /\ SetupFails(c, p)
              /\ chan' = [chan EXCEPT ![k] = [owner |-> c, state |-> IF Active(c) THEN "open" ELSE "closed"]]
              /\ dedicated' = [dedicated EXCEPT ![c] = IF Active(c) THEN k ELSE 0]
         ELSE /\ Becomes(c, p, [proc[c][p] EXCEPT !.pc = "consuming", !.chan = k])
              /\ chan' = [chan EXCEPT ![k] = [owner |-> c, state |-> "open"]]
              /\ dedicated' = [dedicated EXCEPT ![c] = k]
              /\ UNCHANGED forsaken
    /\ UNCHANGED <<facade, manager, disposing, consume, serving, running, outage, drops>>

\* The pool is no longer the one that was asked, or the broker refuses a channel.
ChannelRefused(c, p) ==
    /\ proc[c][p].pc = "opening"
    /\ refusing \/ proc[c][p].home # pool
    /\ SetupFails(c, p)
    /\ UNCHANGED <<facade, manager, disposing, broker, running, outage, drops>>

NextTag == Cardinality({t \in 1..MaxTags : consume[t].on # 0}) + 1

\* consume-ok: the broker starts delivering, and the closure's continuation is due.
ConsumeAnswered(c, p) ==
    /\ proc[c][p].pc = "consuming" /\ IsOpen(proc[c][p].chan)
    /\ NextTag <= MaxTags
    /\ consume' = [consume EXCEPT ![NextTag] = [by |-> c, on |-> proc[c][p].chan]]
    /\ serving' = serving \cup {NextTag}
    /\ Becomes(c, p, [proc[c][p] EXCEPT !.pc = "consumed", !.tag = NextTag])
    /\ UNCHANGED <<facade, manager, disposing, chan, dedicated, running, outage, history>>

\* The channel closed under prefetch() or consume().
ConsumeFails(c, p) ==
    /\ proc[c][p].pc = "consuming" /\ ~IsOpen(proc[c][p].chan)
    /\ SetupFails(c, p)
    /\ UNCHANGED <<facade, manager, disposing, broker, running, outage, drops>>

\* The second fence, after consume-ok.
AbandonsConsume(c) == ~Active(c) \/ info[c].cancelled

\* The new tag is the current one; those the consumer had before stay valid handles.
TrackConsumerTag(c, t) ==
    /\ info' = [info EXCEPT ![c].tag = t]
    /\ tagged' = tagged \cup {t}

\* The end of the setup: the consume is revoked when its consumer has gone meanwhile,
\* otherwise it is tracked and its channel watched.  A channel that closed in between
\* is watched too late.
SetupSettles(c, p) ==
    /\ proc[c][p].pc = "consumed"
    /\ IF AbandonsConsume(c)
         THEN /\ Becomes(c, p, [proc[c][p] EXCEPT !.pc = "revoking"])
              /\ UNCHANGED <<info, tagged, workers, forsaken>>
         ELSE LET t == proc[c][p].tag IN
              /\ TrackConsumerTag(c, t)
              /\ workers' = IF p = "subscribe" /\ workers[c] = "spawned"
                              THEN [workers EXCEPT ![c] = "owned"] ELSE workers
              /\ forsaken' = IF IsOpen(consume[t].on) \/ pool # proc[c][p].home
                               THEN forsaken ELSE forsaken \cup {c}
              /\ Becomes(c, p, Idle)
    /\ UNCHANGED <<facade, disposing, broker, running, outage, drops>>

\* The broker confirms the cancel of a revoked consume, or its channel is gone; the
\* setup throws.
ConsumeRevoked(c, p) ==
    /\ proc[c][p].pc = "revoking"
    /\ serving' = serving \ {proc[c][p].tag}
    /\ SetupFails(c, p)
    /\ UNCHANGED <<facade, manager, disposing, chan, dedicated, consume, running, outage,
                   drops>>

-----------------------------------------------------------------------------
(* Calls, timers and events.  Continuations run before the event loop goes on to any *)
(* of them; only frames of the chunk being read come between a reply and its own.    *)
ContinuationsDone ==
    \A c \in Consumers : \A p \in Procs :
        /\ proc[c][p].pc # "consumed"
        /\ proc[c][p].pc = "opening" => proc[c][p].home = pool
        /\ proc[c][p].pc = "consuming" => IsOpen(proc[c][p].chan)
        /\ proc[c][p].pc = "draining" => InFlight(c) # {}

\* runSetup(): the epoch is stamped before the setup starts.
Stamped(c) == [info[c] EXCEPT !.epoch = @ + 1]

\* subscribe(), subscribeSequential() or, with a worker pool, subscribeParallel().
\* Consumers are registered in order.  The code accepts a call as soon as the pool is
\* installed; SubscribeInRestore says whether the application makes one before
\* recreateAll() has run.
Subscribe(c, parallel) ==
    /\ ContinuationsDone
    /\ info[c].status = "unused"
    /\ c = CHOOSE d \in Consumers : info[d].status = "unused"
    /\ restoring => SubscribeInRestore
    /\ disposing => Races
    /\ info' = [info EXCEPT ![c] = [Stamped(c) EXCEPT !.status = "active"]]
    /\ workers' = [workers EXCEPT ![c] = IF parallel THEN "spawned" ELSE "none"]
    /\ Becomes(c, "subscribe",
               IF pool = 0 THEN [Idle EXCEPT !.pc = "draining"]
                           ELSE SetupCalled(c, [Idle EXCEPT !.home = pool]))
    /\ UNCHANGED <<facade, tagged, disposing, broker, running, outage, history>>

\* The fences a loop passes after each sleep: ownership, and that nobody else has
\* recreated the consumer meanwhile.
LoopContinues(c, p) == StillOurs(c, p) /\ info[c].epoch = proc[c][p].epoch

\* While a loop that gave up drains, the races of this module are held back.
GivingUp(c) == \E p \in Loops : proc[c][p].pc = "draining"

\* A recovery loop wakes: it returns, or makes an attempt whose epoch it takes as its own.
LoopWakes(c, p) ==
    /\ ContinuationsDone
    /\ p \in Loops /\ proc[c][p].pc = "sleeping"
    /\ Races \/ ~GivingUp(c)
    /\ IF LoopContinues(c, p)
         THEN /\ info' = [info EXCEPT ![c] = Stamped(c)]
              /\ Becomes(c, p, SetupCalled(c, [proc[c][p] EXCEPT !.epoch = info'[c].epoch, !.home = pool]))
         ELSE Becomes(c, p, Idle) /\ UNCHANGED info
    /\ UNCHANGED <<facade, tagged, workers, disposing, broker, running, outage, history>>

\* findConsumerIdByTag(), for a tag that is tracked.
OwnerOf(t) == consume[t].by

\* unsubscribe() with any tag the consumer ever had: the current consume is cancelled.
Unsubscribe(t) ==
    LET c == OwnerOf(t) IN
    /\ ContinuationsDone
    /\ t \in tagged /\ proc[c]["unsubscribe"].pc = "idle"
    /\ info' = [info EXCEPT ![c].cancelled = TRUE]
    /\ Becomes(c, "unsubscribe", [Idle EXCEPT !.pc = "cancelling", !.tag = info[c].tag])
    /\ UNCHANGED <<facade, tagged, workers, disposing, broker, running, outage, history>>

\* The cancel is confirmed, or fails because the channel is gone.
CancelAnswered(c) ==
    /\ proc[c]["unsubscribe"].pc = "cancelling"
    /\ serving' = serving \ {proc[c]["unsubscribe"].tag}
    /\ Becomes(c, "unsubscribe", [proc[c]["unsubscribe"] EXCEPT !.pc = "draining"])
    /\ UNCHANGED <<facade, manager, disposing, chan, dedicated, consume, running, outage,
                   history>>

-----------------------------------------------------------------------------
(* #dropConsumer(). *)

\* Mutant of MayDrop: nobody waits for the handlers in flight.
MayDropNow(c) == TRUE

\* #drainInFlight() resolves by itself once the counter is zero.
MayDrop(c) == InFlight(c) = {}

\* History: a recovery loop drops a consumer that is being served.
NoteWronged(c, p) ==
    wronged' = IF p \in Loops /\ Active(c) /\ Serving(c) # {} THEN wronged \cup {c} ELSE wronged

\* The end of the drop: the dedicated channel of the pool of this moment is closed,
\* which cuts off the handlers still running on it.
ReleaseChannel(c) ==
    IF dedicated[c] # 0
      THEN /\ CloseChannel(dedicated[c])
           /\ cut' = cut \cup {t \in InFlight(c) : consume[t].on = dedicated[c]}
      ELSE UNCHANGED <<broker, cut>>

\* Every tag the consumer ever answered to goes with it.
TagsSwept(c) == {t \in tagged : consume[t].by # c}

\* workerPools has an entry for the consumer, so its drop terminates it and awaits that.
OwnsWorkers(c, p) == workers[c] = "owned"

\* The drain is over: the tags, the registration, the worker pool and the channel go.
\* After a subscribe() that failed, subscribeParallel() terminates the pool itself.
Drop(c, p) ==
    /\ info' = [info EXCEPT ![c].status = "gone"]
    /\ tagged' = TagsSwept(c)
    /\ NoteWronged(c, p)
    /\ IF OwnsWorkers(c, p)
         THEN /\ workers' = [workers EXCEPT ![c] = "terminated"]
              /\ Becomes(c, p, [proc[c][p] EXCEPT !.pc = "terminating"])
              /\ UNCHANGED <<broker, cut>>
         ELSE /\ workers' = IF p = "subscribe" /\ workers[c] = "spawned"
                              THEN [workers EXCEPT ![c] = "terminated"] ELSE workers
              /\ Becomes(c, p, Idle)
              /\ ReleaseChannel(c)
    /\ UNCHANGED <<facade, disposing, running, outage, forsaken>>

Drained(c, p) ==
    /\ proc[c][p].pc = "draining" /\ MayDrop(c)
    /\ Drop(c, p)
    /\ UNCHANGED expired

\* Mutant of DrainTimesOut: the drain has no limit.
DrainUnbounded(c, p) == FALSE

\* drainTimeout passes with handlers still running: the consumer is dropped anyway.
DrainTimesOut(c, p) ==
    /\ ContinuationsDone
    /\ proc[c][p].pc = "draining" /\ InFlight(c) # {}
    /\ Drop(c, p)
    /\ expired' = expired \cup {c}

\* The worker pool has ended, and the drop goes on to the channel.
WorkersEnded(c, p) ==
    /\ proc[c][p].pc = "terminating"
    /\ ReleaseChannel(c)
    /\ Becomes(c, p, Idle)
    /\ UNCHANGED <<facade, manager, disposing, running, outage, forsaken, expired, wronged>>

-----------------------------------------------------------------------------
(* Deliveries, losses and the facade. *)

Deliver(t) ==
    /\ t \in serving \ running /\ Cardinality(running) < MaxInFlight
    /\ running' = running \cup {t}
    /\ UNCHANGED <<facade, manager, proc, disposing, broker, outage, history>>

\* The handler settles its message, or fails to; the counter goes down.
HandlerEnds(t) ==
    /\ t \in running
    /\ running' = running \ {t}
    /\ UNCHANGED <<facade, manager, proc, disposing, broker, outage, history>>

\* basic.cancel from the broker: amqplib delivers null, handleBrokerCancel() runs.
BrokerCancels(t) ==
    /\ t \in serving /\ Fault
    /\ serving' = serving \ {t}
    /\ LoopStarts(consume[t].by)
    /\ UNCHANGED <<facade, manager, disposing, chan, dedicated, consume, running, refusing,
                   history>>

\* Mutant of Watched: a channel that closes by itself is not noticed.
WatchedNever(k) == FALSE

\* The check of #watchChannelLoss() a microtask after the close: it is the channel its
\* consumer still uses.
Watched(k) == ChannelOf(chan[k].owner) = k

\* A dedicated channel closes by itself while the connection lives on.
ChannelCloses(k) ==
    /\ IsOpen(k) /\ Fault
    /\ CloseChannel(k)
    /\ IF Watched(k) THEN LoopStarts(chan[k].owner) ELSE UNCHANGED proc
    /\ UNCHANGED <<facade, manager, disposing, running, refusing, history>>

\* The broker starts refusing channels, and may stop doing so.
RefusalChanges ==
    /\ IF refusing THEN UNCHANGED faults ELSE Fault
    /\ refusing' = ~refusing
    /\ UNCHANGED <<facade, manager, proc, disposing, broker, running, history>>

\* The connection goes: every channel closes and, in the same stack, the pool is nulled,
\* so the watchers' microtasks find none.
ConnectionDrops ==
    /\ pool # 0
    /\ Races \/ \A c \in Consumers : ~GivingUp(c)
    /\ pool' = 0
    /\ chan' = [k \in 1..MaxChannels |->
                  IF chan[k].state = "open" THEN [chan[k] EXCEPT !.state = "closed"] ELSE chan[k]]
    /\ dedicated' = [c \in Consumers |-> 0]
    /\ serving' = {}
    /\ UNCHANGED <<pools, restoring, manager, proc, disposing, consume, running, outage,
                   history>>

\* A restore installs a new pool; recreateAll() follows after an await.
PoolInstalled ==
    /\ ContinuationsDone
    /\ pool = 0 /\ pools < MaxPools /\ ~restoring
    /\ \A c \in Consumers : proc[c]["recreate"].pc = "idle"
    /\ pool' = pools + 1 /\ pools' = pools + 1 /\ restoring' = TRUE
    /\ UNCHANGED <<manager, proc, disposing, broker, running, outage, history>>

\* recreateAll(): the setup of every registered consumer, cancelled ones included.
RecreateAll ==
    /\ ContinuationsDone
    /\ restoring /\ restoring' = FALSE
    /\ info' = [c \in Consumers |-> IF Active(c) THEN Stamped(c) ELSE info[c]]
    /\ proc' = [c \in Consumers |->
                  IF Active(c) /\ pool # 0
                    THEN [proc[c] EXCEPT !["recreate"] = SetupCalled(c, [Idle EXCEPT !.home = pool])]
                    ELSE proc[c]]
    /\ forsaken' = {}
    /\ UNCHANGED <<pool, pools, tagged, workers, disposing, broker, running, outage, drops>>

\* The end of disposeAll(): every registration goes.
Disposed ==
    /\ info' = [c \in Consumers |-> IF Active(c)
                  THEN [info[c] EXCEPT !.cancelled = TRUE, !.status = "disposed"] ELSE info[c]]
    /\ tagged' = {}

\* disposeAll(), by disconnect(): the worker pools of this moment are terminated first,
\* which takes time if there are any.
DisposeAll ==
    /\ ContinuationsDone /\ ~disposing
    /\ Races \/ \A c \in Consumers : proc[c]["subscribe"].pc = "idle"
    /\ disposing' = \E c \in Consumers : workers[c] = "owned"
    /\ workers' = [c \in Consumers |-> IF workers[c] = "owned" THEN "terminated" ELSE workers[c]]
    /\ IF disposing' THEN UNCHANGED <<info, tagged>> ELSE Disposed
    /\ UNCHANGED <<facade, proc, broker, running, outage, history>>

DisposeEnds ==
    /\ ContinuationsDone /\ disposing
    /\ disposing' = FALSE
    /\ Disposed
    /\ UNCHANGED <<facade, workers, proc, broker, running, outage, history>>

SetupStep(c, p) ==
    \/ ChannelOpened(c, p) \/ ChannelRefused(c, p)
    \/ ConsumeAnswered(c, p) \/ ConsumeFails(c, p)
    \/ SetupSettles(c, p) \/ ConsumeRevoked(c, p) \/ LoopWakes(c, p)

DropStep(c, p) == Drained(c, p) \/ DrainTimesOut(c, p) \/ WorkersEnded(c, p)

Next ==
    \/ \E c \in Consumers, parallel \in BOOLEAN : Subscribe(c, parallel)
    \/ \E c \in Consumers : \E p \in Setups : SetupStep(c, p)
    \/ \E c \in Consumers : \E p \in Procs : DropStep(c, p)
    \/ \E c \in Consumers : CancelAnswered(c)
    \/ \E t \in 1..MaxTags :
         Unsubscribe(t) \/ Deliver(t) \/ HandlerEnds(t) \/ BrokerCancels(t)
    \/ \E k \in 1..MaxChannels : ChannelCloses(k)
    \/ RefusalChanges \/ ConnectionDrops \/ PoolInstalled \/ RecreateAll \/ DisposeAll \/ DisposeEnds

Spec == Init /\ [][Next]_vars

\* What the broker, the timers and the continuations owe a process that waits for them.
ProcessStep ==
    \/ \E c \in Consumers : \E p \in Setups : SetupStep(c, p)
    \/ \E c \in Consumers : \E p \in Procs : DropStep(c, p)
    \/ \E c \in Consumers : CancelAnswered(c)
    \/ RecreateAll

\* Handlers may hang; calls, deliveries and losses owe nothing.
FairSpec == Spec /\ WF_vars(ProcessStep)

-----------------------------------------------------------------------------
Working(c, pcs) == \E p \in Procs : proc[c][p].pc \in pcs

\* A registered consumer nobody delivers to, though the pool is there.
Silent(c) ==
    /\ Active(c) /\ ~info[c].cancelled /\ c \notin forsaken
    /\ pool # 0 /\ ~restoring /\ Serving(c) = {}

\* One queue subscription is never consumed twice: recovery loops, recreateAll() and
\* the first setup may all be at work, and the epoch and pool fences let one consume.
\* A first setup begun between the installation of a pool and recreateAll() is fenced by
\* neither, so this needs SubscribeInRestore to be FALSE.
NoDoubleConsume == \A c \in Consumers : Cardinality(Serving(c)) <= 1

\* A tag that unsubscribe() and findQueueNameByTag() still know is of a registered
\* consumer: neither ever dereferences undefined.
TagsResolve == \A t \in tagged : Active(OwnerOf(t))

\* A dropped consumer leaves no open channel behind.
NoLeakedChannel ==
    \A k \in 1..MaxChannels : IsOpen(k) =>
        LET c == chan[k].owner IN
        \/ dedicated[c] = k /\ (Active(c) \/ Working(c, {"terminating"}))
        \/ info[c].status = "disposed"

\* A drop never closes the channel under a handler that runs on a tracked consume,
\* unless the grace period has passed.
DrainProtects == \A t \in cut : consume[t].by \in expired \/ t \notin {info[c].tag : c \in Consumers}

\* A worker pool does not outlive its consumer.
WorkersReaped ==
    \A c \in Consumers :
        info[c].status \in {"gone", "disposed"} /\ proc[c]["subscribe"].pc = "idle"
          => workers[c] \in {"none", "terminated"}

\* Dropping a consumer is complete, whichever of its processes does it and whatever the
\* others have under way: no tag, channel or worker thread outlives it.
NothingOutlives == TagsResolve /\ NoLeakedChannel /\ WorkersReaped

\* Recovery gives up only on a consumer that nothing serves.
GiveUpOnlyOnLost == wronged = {}

\* unsubscribe() ends, however its handlers behave and whatever recovers or recreates the
\* consumer meanwhile, with nothing left at the broker.
Stops ==
    \A c \in Consumers : proc[c]["unsubscribe"].pc # "idle" ~>
        /\ ~Active(c) /\ Serving(c) = {}
        /\ \A k \in 1..MaxChannels : IsOpen(k) => chan[k].owner # c

\* A consumer that lost its channel or was cancelled by the broker does not stay silent:
\* it is consuming again, dropped, or handed to the next restore.
Recovers == \A c \in Consumers : Silent(c) ~> ~Silent(c)
====
