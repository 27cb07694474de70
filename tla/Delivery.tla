------------------------------- MODULE Delivery -------------------------------
(***************************************************************************)
(* What becomes of a message: the queue and its dead letter queue          *)
(* (src/messaging/topology.js), the codec (src/messaging/message-codec.js) *)
(* and the consume pipeline with its retry policies, settlements and       *)
(* prefetch optimizer (src/consumers/consumer-manager.js).                 *)
(*                                                                         *)
(* There is one consumer on the queue, with the subscription options in    *)
(* `config`, and one on its dead letter queue.  Both consume on the        *)
(* channel `channel`, which may be lost and is then recreated; how that    *)
(* happens is ConsumerManager's subject.  A delivery is <<message, n>>:    *)
(* the n-th time the message is handed out.                                *)
(***************************************************************************)
EXTENDS Integers, FiniteSets

CONSTANTS
    Messages,      \* bound: the messages published
    Attempts,      \* the budget of an { attempts: N } policy
    DeadPolicies,  \* the retryPolicy options processDeadLetterQueue() is called with
    InitialPrefetch, MinPrefetch, MaxPrefetch, \* the optimizer's options
    MaxDeliveries, \* bound: deliveries of a message
    MaxChannels,   \* bound: channels of the consumer
    MaxFaults      \* bound: steps of createQueue() that fail, manual requeues

Policies == {"none", "once", "attempts"}

\* The subscriptions looked at: acknowledged ones with each retry policy, on either queue
\* type and with each policy for the dead letter queue, one whose prefetch is optimized,
\* and one without acknowledgements.
Subscriptions ==
    [policy : Policies, dead : DeadPolicies, quorum : BOOLEAN, noAck : {FALSE}, optimized : {FALSE}]
    \cup [policy : {"none"}, dead : {"none"}, quorum : {FALSE}, noAck : {FALSE}, optimized : {TRUE}]
    \cup [policy : {"none"}, dead : {"none"}, quorum : {FALSE}, noAck : {TRUE}, optimized : {FALSE}]

ASSUME BoundsAssumption ==
    /\ {Attempts, MinPrefetch, MaxPrefetch, MaxDeliveries, MaxChannels} \subseteq Nat \ {0} /\ MaxFaults \in Nat
    /\ InitialPrefetch \in MinPrefetch..MaxPrefetch /\ DeadPolicies \subseteq Policies

VARIABLES
    config,      \* the subscription's options
    topology,    \* what the broker has: dlx, queue, dlq, bound
    creating,    \* createQueue(): the step it is at
    compression, \* codec.useCompression
    msg,         \* each message, as the broker keeps it, and its history
    handler,     \* each delivery in the pipeline
    channel,     \* the consumer's channel, or 0
    channels,    \* channels opened
    epoch,       \* consumerInfo.epoch
    prefetch,    \* the optimizer's closure and the channel's real prefetch
    faults,
    refused      \* history: who sent a settlement that the broker refused

vars == <<config, topology, creating, compression, msg, handler, channel, channels, epoch, prefetch,
          faults, refused>>
setup == <<topology, creating, compression>>
opened == <<channels, epoch>>
session == <<channel, opened>>

Deliveries == Messages \X (1..MaxDeliveries)
Idle == [pc |-> "none", ch |-> 0, settled |-> FALSE, redelivered |-> FALSE, count |-> 0]

Unpublished ==
    [place |-> "none", q |-> "main", redelivered |-> FALSE, count |-> 0, packed |-> FALSE, flag |-> FALSE,
     deliveries |-> 0, tries |-> 0, retries |-> 0, spent |-> {},
     early |-> FALSE, garbled |-> FALSE]

TypeOK ==
    /\ config \in Subscriptions /\ topology \subseteq {"dlx", "queue", "dlq", "bound"}
    /\ creating \in {"idle", "queue", "dlq", "bind", "done", "failed"} /\ compression \in BOOLEAN
    /\ msg \in [Messages ->
         [place : {"none", "queue", "held", "acked", "discarded", "lost"}, q : {"main", "dlq"},
          redelivered : BOOLEAN, count : Nat, packed : BOOLEAN, flag : BOOLEAN,
          deliveries : 0..MaxDeliveries, tries : Nat, retries : Nat, spent : SUBSET {"main", "dlq"},
          early : BOOLEAN, garbled : BOOLEAN]]
    /\ handler \in [Deliveries ->
         [pc : {"none", "running", "broken", "returned"}, ch : 0..MaxChannels, settled : BOOLEAN,
          redelivered : BOOLEAN, count : Nat]]
    /\ channel \in 0..MaxChannels /\ channels \in 0..MaxChannels /\ epoch \in Nat
    /\ prefetch \in [current : MinPrefetch..MaxPrefetch, known : Nat,
                     applied : MinPrefetch..MaxPrefetch]
    /\ faults \in 0..MaxFaults /\ refused \subseteq {"handler", "pipeline"}

Init ==
    /\ config \in Subscriptions
    /\ topology = {} /\ creating = "idle" /\ compression = FALSE
    /\ msg = [m \in Messages |-> Unpublished]
    /\ handler = [d \in Deliveries |-> Idle]
    /\ channel = 1 /\ channels = 1 /\ epoch = 1
    /\ prefetch = [current |-> InitialPrefetch, known |-> 1, applied |-> InitialPrefetch]
    /\ faults = 0 /\ refused = {}

Fault == faults < MaxFaults /\ faults' = faults + 1

-----------------------------------------------------------------------------
(* Topology: three awaited steps, each of which may be the last. *)

SetupDeadLetterExchange ==
    /\ topology' = topology \cup {"dlx"}
    /\ UNCHANGED <<config, creating, compression, msg, handler, session, prefetch, faults, refused>>

\* createQueue(); a call that failed may be made again.
CreateQueue ==
    /\ creating \in {"idle", "failed"}
    /\ creating' = "queue"
    /\ UNCHANGED <<config, topology, compression, msg, handler, session, prefetch, faults, refused>>

AfterStep(step) == CASE step = "queue" -> "dlq" [] step = "dlq" -> "bind" [] step = "bind" -> "done"

\* The broker answers a step.  To bind, the dead letter exchange must be there.
CreateQueueStep ==
    /\ creating \in {"queue", "dlq", "bind"}
    /\ IF creating = "bind" /\ "dlx" \notin topology
         THEN creating' = "failed" /\ UNCHANGED topology
         ELSE /\ creating' = AfterStep(creating)
              /\ topology' = topology \cup {IF creating = "bind" THEN "bound" ELSE creating}
    /\ UNCHANGED <<config, compression, msg, handler, session, prefetch, faults, refused>>

CreateQueueFails ==
    /\ creating \in {"queue", "dlq", "bind"} /\ Fault
    /\ creating' = "failed"
    /\ UNCHANGED <<config, topology, compression, msg, handler, session, prefetch, refused>>

-----------------------------------------------------------------------------
(* The codec. *)

SetCompression ==
    /\ compression' = ~compression
    /\ UNCHANGED <<config, topology, creating, msg, handler, session, prefetch, faults, refused>>

\* What is published: an object, a text, or a text that is also the serialized form of a
\* value, here of a number.
Payloads == {"object", "text", "numeral"}

\* fromBuffer() undoes toBuffer() but for such a text, which the deserializer accepts.
FromBuffer(payload) == IF payload = "numeral" THEN "number" ELSE payload

\* decode() of a payload that was compressed or not.
Decode(payload, compressed, isCompressed) ==
    IF isCompressed = compressed THEN FromBuffer(payload) ELSE "garbage"

\* buildOptions(): the x-compressed header is the publisher's own, whatever the caller's
\* headers say.
BuildOptions(given, compressed) == compressed

\* encode(): a message above the threshold is compressed, if gzip does not fail.
PublishMessage(m, packed, given) ==
    /\ msg[m].place = "none" /\ "queue" \in topology /\ (packed => compression)
    /\ msg' = [msg EXCEPT ![m] = [@ EXCEPT !.place = "queue", !.packed = packed,
                                           !.flag = BuildOptions(given, packed)]]
    /\ UNCHANGED <<config, setup, handler, session, prefetch, faults, refused>>

\* Mutant of IsCompressed: the consumer asks its own setting instead of the header.
IsCompressedBySetting(r) == compression

IsCompressed(r) == r.flag

-----------------------------------------------------------------------------
(* Deliveries and their settlement. *)

\* The broker hands a message out.  Without acknowledgements it forgets it at once.
\* decode() throws if what the header says is compressed cannot be inflated (corrupt).
Deliver(m, corrupt) ==
    LET r == msg[m] IN
    /\ r.place = "queue" /\ channel # 0 /\ r.deliveries < MaxDeliveries
    /\ corrupt => IsCompressed(r)
    /\ msg' = [msg EXCEPT ![m] = [r EXCEPT !.place = IF config.noAck THEN "acked" ELSE "held",
                                           !.deliveries = @ + 1, !.tries = @ + 1,
                                           !.garbled = \E p \in Payloads \ {"numeral"} :
                                                          Decode(p, r.packed, IsCompressed(r)) # p]]
    /\ handler' = [handler EXCEPT ![<<m, r.deliveries + 1>>] =
                     [pc |-> IF corrupt THEN "broken" ELSE "running", ch |-> channel,
                      settled |-> FALSE, redelivered |-> r.redelivered, count |-> r.count]]
    /\ UNCHANGED <<config, setup, session, prefetch, faults, refused>>

\* createQueue() declares the dead letter queue with no type, so it is a classic one.
Counts(q) == config.quorum /\ q = "main"

\* A message that goes back to its queue.  Only a quorum queue counts.
Requeued(r) ==
    [r EXCEPT !.place = "queue", !.redelivered = TRUE, !.count = IF Counts(r.q) THEN @ + 1 ELSE @]

\* A message that is rejected without requeue: to the dead letter queue if it is bound,
\* to nowhere if not.  A dead letter queue has no dead letter exchange of its own.
DeadLettered(r) ==
    IF r.q = "dlq" THEN [r EXCEPT !.place = "discarded"]
    ELSE IF "bound" \in topology
           THEN [r EXCEPT !.place = "queue", !.q = "dlq", !.redelivered = FALSE, !.count = 0,
                          !.tries = 0, !.retries = 0]
           ELSE [r EXCEPT !.place = "lost", !.early = creating # "done"]

SettlementChannel(d) == handler[d].ch

\* Mutant of MaySettle: a delivery is settled as often as somebody asks.
MaySettleAgain(d) == TRUE

\* __ackSettled
MaySettle(d) == ~handler[d].settled

\* The delivery that a message in the consumer's hands belongs to: the last one.
Holds(d) == msg[d[1]].place = "held" /\ msg[d[1]].deliveries = d[2] /\ handler[d].ch = channel

\* The channel closes: what was held on it goes back to its queue; handlers run on.
ChannelCloses ==
    /\ channels < MaxChannels
    /\ channel' = 0
    /\ msg' = [m \in Messages |-> IF msg[m].place = "held" THEN Requeued(msg[m]) ELSE msg[m]]

\* The settlement of d that `by` asks for, with h as the delivery's record after it and r
\* as the message's.  On a closed channel amqplib throws and nothing is sent; a tag the
\* channel does not know makes the broker close it.
Settle(d, h, r, by) ==
    LET sent == MaySettle(d) /\ channel # 0 /\ SettlementChannel(d) = channel IN
    /\ handler' = [handler EXCEPT ![d] = IF sent /\ h.pc # "none" THEN [h EXCEPT !.settled = TRUE] ELSE h]
    /\ IF sent /\ ~Holds(d)
         THEN ChannelCloses /\ refused' = refused \cup {by}
         ELSE /\ msg' = [msg EXCEPT ![d[1]] = IF sent THEN r ELSE @]
              /\ UNCHANGED <<channel, refused>>

\* ackMessage() and nackMessage(), called by the handler while it runs.  They go out for a
\* subscription without acknowledgements too, whose tags the broker does not keep.
AckMessage(d) ==
    /\ handler[d].pc = "running"
    /\ Settle(d, handler[d], [msg[d[1]] EXCEPT !.place = "acked"], "handler")
    /\ UNCHANGED <<config, setup, opened, prefetch, faults>>

NackMessage(d, requeue) ==
    /\ handler[d].pc = "running" /\ Fault
    /\ Settle(d, handler[d], IF requeue THEN Requeued(msg[d[1]]) ELSE DeadLettered(msg[d[1]]), "handler")
    /\ UNCHANGED <<config, setup, opened, prefetch>>

-----------------------------------------------------------------------------
(* The retry policy. *)

\* The retryPolicy of subscribe(), and the one handed to processDeadLetterQueue().
Policy(q) == IF q = "dlq" THEN config.dead ELSE config.policy

\* Mutant of ShouldRequeue: the budget counts the retries, not the deliveries.
ShouldRequeueOneMore(h, q, retryable) ==
    CASE Policy(q) = "none" \/ ~retryable -> FALSE
      [] Policy(q) = "once" /\ retryable -> ~h.redelivered
      [] Policy(q) = "attempts" /\ retryable ->
           IF h.count > 0 THEN h.count < Attempts ELSE ~h.redelivered /\ Attempts > 1

\* #shouldRequeue(): the header of a quorum queue is absent on the first delivery.
ShouldRequeue(h, q, retryable) ==
    CASE Policy(q) = "none" \/ ~retryable -> FALSE
      [] Policy(q) = "once" /\ retryable -> ~h.redelivered
      [] Policy(q) = "attempts" /\ retryable ->
           IF h.count > 0 THEN h.count + 1 < Attempts ELSE ~h.redelivered /\ Attempts > 1

\* Mutant of Described: .message is read of what was thrown, and null has none.
DescribedMessage(isError) == isError

\* describeError(): can the catch block go on with what the handler threw?  It makes a
\* text of anything.
Described(isError) == TRUE

\* The message after its handler failed; untouched if the catch block itself throws.
FailedOutcome(d, retryable, isError) ==
    LET r == msg[d[1]] IN
    IF ~Described(isError) THEN r
    ELSE IF ShouldRequeue(handler[d], r.q, retryable) THEN Requeued([r EXCEPT !.retries = @ + 1])
    ELSE DeadLettered([r EXCEPT !.spent = IF retryable THEN @ \cup {r.q} ELSE @])

\* The handler, or the decoding, failed.
HandlerFails(d, retryable, isError) ==
    /\ handler[d].pc \in {"running", "broken"}
    /\ IF config.noAck
         THEN handler' = [handler EXCEPT ![d] = Idle] /\ UNCHANGED <<msg, channel, refused>>
         ELSE Settle(d, Idle, FailedOutcome(d, retryable, isError), "pipeline")
    /\ UNCHANGED <<config, setup, opened, prefetch, faults>>

SuccessOutcome(r) == [r EXCEPT !.place = "acked"]

-----------------------------------------------------------------------------
(* The prefetch optimizer, which runs between the handler and the ack. *)

Clamp(p) == IF p < MinPrefetch THEN MinPrefetch ELSE IF p > MaxPrefetch THEN MaxPrefetch ELSE p

\* Factors 1.5 and 0.75, rounded down; `fair` stands for a processing time in between, or
\* an interval that is not over.
NextPrefetch(p, pace) ==
    CASE pace = "fast" /\ p < MaxPrefetch -> Clamp((p * 3) \div 2)
      [] pace = "slow" /\ p > MinPrefetch -> Clamp((p * 3) \div 4)
      [] OTHER -> p

\* A recreated channel starts at the initial prefetch, so the optimized one is applied
\* again; then the new one, if it differs.  consumerInfo.channel is the last one that
\* was set up: when it is closed, applying fails and is only logged.
Optimized(pace) ==
    LET next == NextPrefetch(prefetch.current, pace)
        apply == channel # 0 /\ \/ next # prefetch.current
                                \/ epoch # prefetch.known /\ prefetch.current # InitialPrefetch
    IN  [current |-> next, known |-> epoch, applied |-> IF apply THEN next ELSE prefetch.applied]

HandlerReturns(d, pace) ==
    /\ handler[d].pc = "running"
    /\ CASE config.optimized ->
              /\ handler' = [handler EXCEPT ![d].pc = "returned"]
              /\ prefetch' = Optimized(pace)
              /\ UNCHANGED <<msg, channel, refused>>
         [] ~config.optimized /\ ~config.noAck ->
              /\ Settle(d, Idle, SuccessOutcome(msg[d[1]]), "pipeline")
              /\ UNCHANGED prefetch
         [] config.noAck ->
              handler' = [handler EXCEPT ![d] = Idle] /\ UNCHANGED <<msg, channel, refused, prefetch>>
    /\ UNCHANGED <<config, setup, opened, faults>>

HandlerAcks(d) ==
    /\ handler[d].pc = "returned"
    /\ Settle(d, Idle, SuccessOutcome(msg[d[1]]), "pipeline")
    /\ UNCHANGED <<config, setup, opened, prefetch, faults>>

-----------------------------------------------------------------------------
(* The consumer's channel. *)

\* The channel is lost, alone or with its connection.
ChannelLost ==
    /\ channel # 0 /\ ChannelCloses
    /\ UNCHANGED <<config, setup, handler, opened, prefetch, faults, refused>>

\* runSetup() counts the epoch before the channel is there.
RecreationStarts ==
    /\ channel = 0 /\ epoch = channels
    /\ epoch' = epoch + 1
    /\ UNCHANGED <<config, setup, msg, handler, channel, channels, prefetch, faults, refused>>

Recreated ==
    /\ channel = 0 /\ epoch > channels
    /\ channels' = channels + 1 /\ channel' = channels'
    /\ prefetch' = [prefetch EXCEPT !.applied = InitialPrefetch]
    /\ UNCHANGED <<config, setup, msg, handler, epoch, faults, refused>>

-----------------------------------------------------------------------------
HandlerStep(d) ==
    \/ \E retryable, isError \in BOOLEAN : HandlerFails(d, retryable, isError)
    \/ \E pace \in {"fast", "fair", "slow"} : HandlerReturns(d, pace)
    \/ HandlerAcks(d)

Progress ==
    \/ \E m \in Messages, corrupt \in BOOLEAN : Deliver(m, corrupt)
    \/ \E d \in Deliveries : HandlerStep(d)
    \/ RecreationStarts \/ Recreated

Next ==
    \/ SetupDeadLetterExchange \/ CreateQueue \/ CreateQueueStep \/ CreateQueueFails \/ SetCompression
    \/ \E m \in Messages, packed, given \in BOOLEAN : PublishMessage(m, packed, given)
    \/ \E d \in Deliveries : AckMessage(d) \/ \E requeue \in BOOLEAN : NackMessage(d, requeue)
    \/ ChannelLost
    \/ Progress

Spec == Init /\ [][Next]_vars

\* The broker delivers, handlers end, and a lost channel is recreated.
FairSpec == Spec /\ WF_vars(Progress)

-----------------------------------------------------------------------------
\* The pipeline never sends a settlement that the broker refuses, which would close the
\* channel under every other delivery: each goes out once, on the channel that delivered the
\* message, whatever the handler has settled itself.  Nor does a handler, in a subscription
\* with acknowledgements; one without them has nothing that could be settled.
SettledOnce == refused \subseteq (IF config.noAck THEN {"handler"} ELSE {})

Budget(q) == CASE Policy(q) = "none" -> 1
               [] Policy(q) = "once" -> 2
               [] Policy(q) = "attempts" -> IF Counts(q) \/ Attempts < 2 THEN Attempts ELSE 2

\* The retry policy is a ceiling for the retries and a promise of deliveries, in the queue
\* and in its dead letter queue: whatever else sends a message back (a lost channel, a nack
\* of the handler), it is given up for its failures only after as many deliveries as it was
\* promised there.
RetryBudget ==
    \A m \in Messages : LET r == msg[m] IN
        /\ r.retries < Budget(r.q)
        /\ "main" \in r.spent => r.deliveries >= Budget("main")
        /\ "dlq" \in r.spent => r.tries >= Budget("dlq")

\* A consumer reads the object or the text that was published, whatever compression is set
\* to by then.
DecodedAsPublished == \A m \in Messages : ~msg[m].garbled

\* "So reality matches what this closure believes": a live channel that the optimizer has
\* seen has the prefetch the optimizer takes it to have.
PrefetchMatches ==
    config.optimized /\ channel # 0 /\ prefetch.known = epoch => prefetch.applied = prefetch.current

\* No message goes round for ever or sits unacknowledged for good, whatever its handlers
\* do or throw, and none is lost: it ends acknowledged or is rejected once more from the
\* dead letter queue.  (One rejected before createQueue() had succeeded may be lost.)
EveryMessageEnds ==
    \A m \in Messages :
        msg[m].place = "queue"
            ~> \/ msg[m].place \in {"acked", "discarded"}
               \/ msg[m].place = "lost" /\ msg[m].early
====
