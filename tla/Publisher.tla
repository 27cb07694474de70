------------------------------- MODULE Publisher -------------------------------
(***************************************************************************)
(* Publishing: src/messaging/publisher.js, the return watch of             *)
(* src/messaging/routable-publish.js, the circuit breaker adapter of       *)
(* src/resilience/circuit-breaker.js and publishWithCache() of             *)
(* src/index.js.                                                           *)
(*                                                                         *)
(* A call goes through preflight, then through attempts under the breaker  *)
(* with a back-off between them.  Its messages are numbered; a call that   *)
(* takes one message is a batch of one.  All pool channels are one channel *)
(* that closes and is replaced.                                            *)
(***************************************************************************)
EXTENDS Integers, FiniteSets

CONSTANTS
    Calls,            \* bound: the publishing calls made
    Rich,             \* bound: the calls that may be mandatory, a batch or fire-and-forget
    Batch,            \* bound: messages of a batch
    MaxRetries,       \* options.maxRetries
    FailureThreshold, \* options.circuitBreaker.failureThreshold
    SuccessThreshold, \* options.circuitBreaker.successThreshold
    MaxChannels,      \* bound: channels opened
    MaxResets,        \* bound: circuitBreaker.reset() calls
    MaxFaults,        \* bound: nacks, refusals of the serializer, full buffers
    NoCall            \* no call's message: an empty cache entry

ASSUME BoundsAssumption ==
    /\ Rich \subseteq Calls /\ Batch \in Nat \ {0} /\ MaxRetries \in Int
    /\ FailureThreshold \in Nat \ {0} /\ SuccessThreshold \in Nat \ {0}
    /\ MaxChannels \in Nat \ {0} /\ MaxResets \in Nat /\ MaxFaults \in Nat
    /\ NoCall \notin Calls

VARIABLES
    channel,     \* the open channel getChannel() would give, or 0
    channels,    \* how many channels have been opened
    call,        \* each call: operation, options, where it is
    unconfirmed, \* each call's messages not yet confirmed (or not yet written)
    sent,        \* messages written on the attempt's channel and not yet settled
    taken,       \* of these, what the broker has routed to a queue
    returned,    \* of these, the registry entries marked returned
    registry,    \* the return tokens registered on the open channel: <<call, message>>
    breaker,     \* each generation of the breaker's policy
    policy,      \* #policy: the current generation
    cache,       \* the cache entry of the one routing key
    faults,
    accepted,    \* history: messages the broker routed to a queue
    known,       \* history: messages whose confirm reached the caller
    resent,      \* history: was a message written again although known?
    staleRefusal \* history: was a call refused by a breaker that has been replaced?

wire == <<unconfirmed, sent, taken, returned, registry>>
history == <<accepted, known, resent, staleRefusal>>
progress == <<unconfirmed, taken, returned, known, accepted>>
vars == <<channel, channels, call, wire, breaker, policy, cache, faults, history>>

Messages == 1..Batch
Policies == 1..(MaxResets + 1)
Kinds == {"confirmed", "cached", "async", "move"}
Done == {"resolved", "rejected"}
New == [kind |-> "confirmed", mandatory |-> FALSE, pc |-> "idle", chan |-> 0, tries |-> 0, policy |-> 1,
        size |-> 0]

TypeOK ==
    /\ channel \in 0..MaxChannels /\ channels \in 0..MaxChannels
    /\ call \in [Calls ->
         [kind : Kinds, mandatory : BOOLEAN,
          pc : {"idle", "generating", "limiting", "encoding", "awaiting",
                "writing", "full", "backoff"} \cup Done,
          chan : 0..MaxChannels, tries : {0, 1} \cup 1..MaxRetries, policy : Policies, size : 0..Batch]]
    /\ {unconfirmed, sent, taken, returned} \subseteq [Calls -> SUBSET Messages]
    /\ registry \subseteq Calls \X Messages
    /\ breaker \in [Policies -> [state : {"closed", "open", "half"}, failures : Nat,
                                 successes : Nat, probes : Nat]]
    /\ policy \in Policies /\ cache \in Calls \cup {NoCall} /\ faults \in 0..MaxFaults
    /\ {accepted, known} \subseteq [Calls -> SUBSET Messages]
    /\ resent \in BOOLEAN /\ staleRefusal \in BOOLEAN

Closed == [state |-> "closed", failures |-> 0, successes |-> 0, probes |-> 0]

Nothing == [c \in Calls |-> {}]

Init ==
    /\ channel = 1 /\ channels = 1
    /\ call = [c \in Calls |-> New]
    /\ unconfirmed = Nothing /\ sent = Nothing /\ taken = Nothing /\ returned = Nothing
    /\ accepted = Nothing /\ known = Nothing
    /\ registry = {}
    /\ breaker = [g \in Policies |-> Closed]
    /\ policy = 1 /\ cache = NoCall /\ faults = 0
    /\ resent = FALSE /\ staleRefusal = FALSE

-----------------------------------------------------------------------------
(* Calls and preflight(). *)

\* The call's record with these fields changed; calls are made in order.
Set(c, r) == call' = [call EXCEPT ![c] = r]
Fresh(c) == call[c].pc = "idle" /\ c = CHOOSE d \in Calls : call[d].pc = "idle"

Fault == faults < MaxFaults /\ faults' = faults + 1

\* The call rejects, and nothing of it is left.
Reject(c) ==
    /\ Set(c, [New EXCEPT !.pc = "rejected"])
    /\ unconfirmed' = [unconfirmed EXCEPT ![c] = {}]
    /\ taken' = [taken EXCEPT ![c] = {}] /\ returned' = [returned EXCEPT ![c] = {}]
    /\ known' = [known EXCEPT ![c] = {}] /\ accepted' = [accepted EXCEPT ![c] = {}]

\* notConnectedError(): nothing is published while there is no channel.
NotConnected == channel = 0

\* preflight(): arguments, then the probe for a channel, then the rate limiter, which
\* is awaited.
Preflight(valid) == IF valid /\ ~NotConnected THEN "limiting" ELSE "rejected"

Start(c, kind, mandatory, size, pc) ==
    /\ Fresh(c)
    /\ IF pc = "rejected"
         THEN Set(c, [New EXCEPT !.pc = pc]) /\ UNCHANGED unconfirmed
         ELSE /\ Set(c, [New EXCEPT !.kind = kind, !.mandatory = mandatory, !.size = size,
                                    !.pc = pc, !.chan = IF pc = "encoding" THEN channel ELSE 0])
              /\ unconfirmed' = [unconfirmed EXCEPT ![c] = 1..size]
    /\ UNCHANGED <<channel, channels, sent, taken, returned, registry, breaker, policy, cache,
                   faults, history>>

Publish(c, mandatory, valid) == Start(c, "confirmed", mandatory, 1, Preflight(valid))

\* An empty batch is refused.
PublishBatch(c, mandatory, size, valid) ==
    Start(c, "confirmed", mandatory, size, Preflight(valid /\ size # 0))

\* A delay that is not a non-negative number is refused; the rest is publish() on
\* another exchange.
PublishDelayed(c, mandatory, valid) == Start(c, "confirmed", mandatory, 1, Preflight(valid))

\* Fire-and-forget refuses `mandatory`, whose outcome it could not report.
PublishAsync(c, mandatory, valid) ==
    Start(c, "async", mandatory, 1, Preflight(valid /\ ~mandatory))

PublishAsyncBatch(c, mandatory, size, valid) ==
    Start(c, "async", mandatory, size, Preflight(valid /\ ~mandatory /\ size # 0))

\* A cached message is returned and nothing is published; otherwise the generator runs.
PublishWithCache(c) ==
    IF cache # NoCall THEN Start(c, "cached", FALSE, 0, "resolved")
                      ELSE Start(c, "cached", FALSE, 1, "generating")

\* Topology.moveToDeadLetter(): one mandatory publish to the dead letter exchange, outside
\* of limiter, retries and breaker.
MoveToDeadLetter(c) == Start(c, "move", TRUE, 1, IF NotConnected THEN "rejected" ELSE "encoding")

\* The generator, which is the caller's, returns a message to publish, or throws, and the call
\* with it.
GeneratorEnds(c, throws) ==
    /\ call[c].pc = "generating"
    /\ IF throws \/ Preflight(TRUE) = "rejected"
         THEN Reject(c)
         ELSE Set(c, [call[c] EXCEPT !.pc = "limiting"]) /\ UNCHANGED progress
    /\ UNCHANGED <<channel, channels, sent, registry, breaker, policy, cache, faults, resent,
                   staleRefusal>>

-----------------------------------------------------------------------------
(* The resilience pipeline. *)

\* retry() makes at least one attempt; the operations without a retry policy make one.
Attempts(kind) == IF kind \in {"async", "move"} \/ MaxRetries < 1 THEN 1 ELSE MaxRetries

\* breakwater's circuit breaker after an outcome: consecutive failures open it, a
\* majority of the 2 * SuccessThreshold - 1 probes decides whether it closes again.
Outcome(b, ok) ==
    CASE b.state = "closed" /\ ok -> Closed
      [] b.state = "closed" /\ ~ok ->
           [b EXCEPT !.failures = @ + 1,
                     !.state = IF b.failures + 1 >= FailureThreshold THEN "open" ELSE "closed"]
      [] b.state = "half" /\ ok ->
           IF b.successes + 1 >= SuccessThreshold THEN Closed ELSE [b EXCEPT !.successes = @ + 1]
      [] b.state = "half" /\ ~ok ->
           [b EXCEPT !.failures = @ + 1,
                     !.state = IF b.failures + 1 >= SuccessThreshold THEN "open" ELSE "half"]
      [] b.state = "open" -> b

\* The breakers after an attempt of a call in state r; a move is not under the breaker.
Counted(r, ok) ==
    IF r.kind = "move" THEN breaker ELSE [breaker EXCEPT ![r.policy] = Outcome(@, ok)]

Admits(b) == b.state = "closed" \/ (b.state = "half" /\ b.probes < 2 * SuccessThreshold - 1)

\* halfOpenAfter has passed.
BreakerCools(g) ==
    /\ breaker[g].state = "open"
    /\ breaker' = [breaker EXCEPT ![g] = [Closed EXCEPT !.state = "half"]]
    /\ UNCHANGED <<channel, channels, call, wire, policy, cache, faults, history>>

\* publishWithCache() stores the message once its publish has succeeded.
CacheAfter(c, ok) == IF call[c].kind = "cached" /\ ok THEN c ELSE cache

\* The attempt of a call in state r failed: its breaker counts it, and the call backs
\* off or, after its last attempt, rejects with the error.
AttemptFails(c, r) ==
    /\ breaker' = Counted(r, FALSE)
    /\ cache' = CacheAfter(c, FALSE)
    /\ IF r.tries < Attempts(r.kind)
         THEN Set(c, [r EXCEPT !.chan = 0, !.pc = "backoff"]) /\ UNCHANGED progress
         ELSE Reject(c)

\* The attempt succeeded: the call resolves.
AttemptSucceeds(c) ==
    /\ breaker' = Counted(call[c], TRUE)
    /\ Set(c, [call[c] EXCEPT !.pc = "resolved", !.chan = 0, !.tries = 0, !.policy = 1])
    /\ cache' = CacheAfter(c, TRUE)
    /\ UNCHANGED progress

\* An attempt begins in state r.  A breaker that refuses ends the call, its error is not
\* retried; otherwise the attempt takes the channel of this moment, or fails.
AttemptStarts(c, r) ==
    LET b == breaker[r.policy] IN
    /\ CASE ~Admits(b) -> Reject(c) /\ UNCHANGED <<breaker, cache>>
         [] Admits(b) /\ NotConnected -> AttemptFails(c, r)
         [] Admits(b) /\ ~NotConnected ->
              /\ Set(c, [r EXCEPT !.pc = "encoding", !.chan = channel])
              /\ breaker' = [breaker EXCEPT ![r.policy].probes = IF b.state = "half" THEN @ + 1 ELSE @]
              /\ UNCHANGED <<cache, progress>>
    /\ staleRefusal' = (staleRefusal \/ (~Admits(b) /\ r.policy # policy))
    /\ UNCHANGED <<channel, channels, sent, registry, policy, faults, resent>>

\* The rate limiter lets the call pass or not.  publishPolicy() then takes the breaker's
\* policy of this moment for all attempts of the call.
RateLimited(c, allowed) ==
    /\ call[c].pc = "limiting"
    /\ IF allowed
         THEN AttemptStarts(c, [call[c] EXCEPT !.tries = 1, !.policy = policy])
         ELSE /\ Reject(c)
              /\ UNCHANGED <<channel, channels, sent, registry, breaker, policy, cache, faults, resent,
                             staleRefusal>>

BackoffEnds(c) ==
    /\ call[c].pc = "backoff"
    /\ AttemptStarts(c, [call[c] EXCEPT !.tries = @ + 1])

-----------------------------------------------------------------------------
(* One attempt. *)

Tokens(c, ms) == {c} \X ms

\* Mutant of ToWrite: a retry sends the whole batch again.
ToWriteAll(c) == 1..call[c].size

\* What an attempt writes: the messages the broker has not confirmed yet.
ToWrite(c) == unconfirmed[c]

\* The payloads are encoded.  A confirmed attempt writes them all at once, each
\* mandatory one under a token of its own; a channel that closed during the encoding
\* refuses every write.  A fire-and-forget attempt writes one by one.
Encoded(c) ==
    /\ call[c].pc = "encoding"
    /\ CASE call[c].kind = "async" ->
              /\ Set(c, [call[c] EXCEPT !.pc = "writing"])
              /\ UNCHANGED <<sent, registry, resent, breaker, cache, progress>>
         [] call[c].kind # "async" /\ call[c].chan # channel ->
              AttemptFails(c, call[c]) /\ UNCHANGED <<sent, registry, resent>>
         [] call[c].kind # "async" /\ call[c].chan = channel ->
              /\ Set(c, [call[c] EXCEPT !.pc = "awaiting"])
              /\ sent' = [sent EXCEPT ![c] = ToWrite(c)]
              /\ registry' = registry \cup IF call[c].mandatory THEN Tokens(c, ToWrite(c)) ELSE {}
              /\ taken' = [taken EXCEPT ![c] = {}] /\ returned' = [returned EXCEPT ![c] = {}]
              /\ resent' = (resent \/ ToWrite(c) \cap known[c] # {})
              /\ UNCHANGED <<breaker, cache, unconfirmed, known, accepted>>
    /\ UNCHANGED <<channel, channels, policy, faults, staleRefusal>>

\* The user's serializer throws.
EncodeFails(c) ==
    /\ call[c].pc = "encoding" /\ call[c].kind # "move" /\ Fault
    /\ AttemptFails(c, call[c])
    /\ UNCHANGED <<channel, channels, sent, registry, policy, resent, staleRefusal>>

\* The broker routes a mandatory message to a queue; of the others nobody learns whether
\* they were routed.
BrokerRoutes(c, m) ==
    /\ call[c].mandatory /\ m \in sent[c] \ (taken[c] \cup returned[c])
    /\ taken' = [taken EXCEPT ![c] = @ \cup {m}]
    /\ accepted' = [accepted EXCEPT ![c] = @ \cup {m}]
    /\ UNCHANGED <<channel, channels, call, unconfirmed, sent, returned, registry, breaker, policy,
                   cache, faults, known, resent, staleRefusal>>

\* Mutant of Marked: the return is matched by routing key, which all calls share.
MarkedByKey(c, m) == registry

\* The registry entries a basic.return marks: the one with its token.
Marked(c, m) == registry \cap Tokens(c, {m})

\* No queue is bound for a mandatory message: the broker hands it back, before the confirm.
BrokerReturns(c, m) ==
    /\ call[c].mandatory /\ m \in sent[c] \ (taken[c] \cup returned[c])
    /\ returned' = [d \in Calls |-> returned[d] \cup {n \in Messages : <<d, n>> \in Marked(c, m)}]
    /\ UNCHANGED <<channel, channels, call, unconfirmed, sent, taken, registry, breaker, policy,
                   cache, faults, history>>

\* The tokens left once the publishes with tokens ts have settled, well or not.
Unwatched(ts, ok) == registry \ ts

\* The confirm of a message arrives.  A message that was returned failed all the same.
BrokerConfirms(c, m) ==
    /\ m \in sent[c] /\ (call[c].mandatory => m \in taken[c] \cup returned[c])
    /\ sent' = [sent EXCEPT ![c] = @ \ {m}]
    /\ registry' = Unwatched(Tokens(c, {m}), TRUE)
    /\ LET ok == m \notin returned[c] IN
         /\ unconfirmed' = [unconfirmed EXCEPT ![c] = IF ok THEN @ \ {m} ELSE @]
         /\ known' = [known EXCEPT ![c] = IF ok THEN @ \cup {m} ELSE @]
    /\ UNCHANGED <<channel, channels, call, taken, returned, breaker, policy, cache, faults,
                   accepted, resent, staleRefusal>>

\* Mutant of Kept: the error the confirm callback is given is ignored.
KeptNever(c, ms) == unconfirmed[c] \ ms

\* What is unconfirmed after the confirm callbacks of ms were given an error.
Kept(c, ms) == unconfirmed[c]

BrokerNacks(c, m) ==
    /\ m \in sent[c] \ (taken[c] \cup returned[c]) /\ Fault
    /\ sent' = [sent EXCEPT ![c] = @ \ {m}]
    /\ registry' = Unwatched(Tokens(c, {m}), FALSE)
    /\ unconfirmed' = [unconfirmed EXCEPT ![c] = Kept(c, {m})]
    /\ UNCHANGED <<channel, channels, call, taken, returned, breaker, policy, cache, history>>

AllConfirmed(c) == unconfirmed[c] = {}

\* Promise.allSettled: every publish of the attempt has settled, and one failure fails it.
AttemptSettles(c) ==
    /\ call[c].pc = "awaiting" /\ sent[c] = {}
    /\ IF AllConfirmed(c) THEN AttemptSucceeds(c) ELSE AttemptFails(c, call[c])
    /\ UNCHANGED <<channel, channels, sent, registry, policy, faults, resent, staleRefusal>>

\* A fire-and-forget write; when the buffer is full the call waits for 'drain'.
WriteNext(c, full) ==
    /\ call[c].pc = "writing" /\ call[c].chan = channel /\ unconfirmed[c] # {}
    /\ IF full THEN Fault ELSE UNCHANGED faults
    /\ unconfirmed' = [unconfirmed EXCEPT ![c] = @ \ {CHOOSE m \in @ : \A n \in @ : m <= n}]
    /\ Set(c, [call[c] EXCEPT !.pc = IF full THEN "full" ELSE "writing"])
    /\ UNCHANGED <<channel, channels, sent, taken, returned, registry, breaker, policy, cache, history>>

Drains(c) ==
    /\ call[c].pc = "full" /\ call[c].chan = channel
    /\ Set(c, [call[c] EXCEPT !.pc = "writing"])
    /\ UNCHANGED <<channel, channels, wire, breaker, policy, cache, faults, history>>

\* Mutant of WriteFails: a call that waits for 'drain' does not hear the channel close.
WriteFailsWriting(c) ==
    /\ call[c].pc = "writing" /\ call[c].chan # channel /\ unconfirmed[c] # {}
    /\ AttemptFails(c, call[c])
    /\ UNCHANGED <<channel, channels, sent, registry, policy, faults, resent, staleRefusal>>

\* The channel is closed: the next write throws, and a wait for 'drain' rejects.
WriteFails(c) ==
    /\ \/ call[c].pc = "writing" /\ unconfirmed[c] # {}
       \/ call[c].pc = "full"
    /\ call[c].chan # channel
    /\ AttemptFails(c, call[c])
    /\ UNCHANGED <<channel, channels, sent, registry, policy, faults, resent, staleRefusal>>

WritesDone(c) ==
    /\ call[c].pc = "writing" /\ unconfirmed[c] = {}
    /\ AttemptSucceeds(c)
    /\ UNCHANGED <<channel, channels, sent, registry, policy, faults, resent, staleRefusal>>

-----------------------------------------------------------------------------
(* The channel and the cache under the calls. *)

\* The channel closes: amqplib gives every unconfirmed publish an error.
ChannelCloses ==
    /\ channel # 0
    /\ channel' = 0
    /\ unconfirmed' = [c \in Calls |-> IF sent[c] = {} THEN unconfirmed[c] ELSE Kept(c, sent[c])]
    /\ sent' = Nothing
    /\ registry' = Unwatched(registry, FALSE)
    /\ UNCHANGED <<channels, call, taken, returned, breaker, policy, cache, faults, history>>

\* The pool opens another channel, or a reconnection restored everything, which also
\* resets the circuit breaker: calls under way keep the policy they took.
ChannelOpens(restored) ==
    /\ channel = 0 /\ channels < MaxChannels
    /\ channels' = channels + 1 /\ channel' = channels'
    /\ IF restored THEN policy <= MaxResets /\ policy' = policy + 1 ELSE UNCHANGED policy
    /\ UNCHANGED <<call, wire, breaker, cache, faults, history>>

\* invalidateCache(), clearCache() or the end of the entry's time to live.
InvalidateCache ==
    /\ cache # NoCall
    /\ cache' = NoCall
    /\ UNCHANGED <<channel, channels, call, wire, breaker, policy, faults, history>>

-----------------------------------------------------------------------------
Starts(c) ==
    \/ \E valid \in BOOLEAN : Publish(c, FALSE, valid) \/ PublishDelayed(c, FALSE, valid)
    \/ PublishWithCache(c) \/ MoveToDeadLetter(c)
    \/ /\ c \in Rich
       /\ \E mandatory \in BOOLEAN :
            \/ Publish(c, mandatory, TRUE) \/ PublishAsync(c, mandatory, TRUE)
            \/ \E size \in {0, Batch} :
                 PublishBatch(c, mandatory, size, TRUE) \/ PublishAsyncBatch(c, mandatory, size, TRUE)

CallStep(c) ==
    \/ \E throws \in BOOLEAN : GeneratorEnds(c, throws)
    \/ \E allowed \in BOOLEAN : RateLimited(c, allowed)
    \/ BackoffEnds(c)
    \/ Encoded(c) \/ EncodeFails(c) \/ AttemptSettles(c)
    \/ \E full \in BOOLEAN : WriteNext(c, full)
    \/ WritesDone(c) \/ Drains(c) \/ WriteFails(c)

BrokerStep(c, m) ==
    BrokerRoutes(c, m) \/ BrokerReturns(c, m) \/ BrokerConfirms(c, m) \/ BrokerNacks(c, m)

Progress == \E c \in Calls : CallStep(c) \/ \E m \in Messages : BrokerStep(c, m)

Next ==
    \/ \E c \in Calls : Starts(c)
    \/ Progress
    \/ \E g \in Policies : BreakerCools(g)
    \/ ChannelCloses \/ \E restored \in BOOLEAN : ChannelOpens(restored)
    \/ InvalidateCache

Spec == Init /\ [][Next]_vars

\* The broker answers what is on an open channel, and what a call waits for by itself
\* (the limiter, the caller's generator, the encoder, a timer, a drain) comes.  Every call
\* makes finitely many of these steps, so that they go on at all is enough.
FairSpec == Spec /\ WF_vars(Progress)

-----------------------------------------------------------------------------
\* A call that resolved has had every message of its own confirmed, over however many
\* attempts and channels, and a mandatory one is in a queue.
ResolvedMeansDelivered ==
    \A c \in Calls : call[c].pc = "resolved" /\ call[c].kind # "async" =>
        /\ 1..call[c].size \subseteq known[c]
        /\ call[c].mandatory => 1..call[c].size \subseteq accepted[c]

\* "Retries republish ONLY what the broker has not confirmed": no message whose confirm
\* was seen is written again.
NoRepublish == ~resent

\* One publish's return never fails another one on the same channel, and no token
\* outlives its publish.
ReturnsMatched ==
    /\ \A c \in Calls : taken[c] \cap returned[c] = {}
    /\ registry = UNION {Tokens(c, sent[c]) : c \in {d \in Calls : call[d].mandatory}}

\* Every call settles, whatever closes, refuses or is full.
EverySettles == \A c \in Calls : call[c].pc # "idle" ~> call[c].pc \in Done

\* The circuit breaker "resets to CLOSED on a successful reconnection": no call is then
\* refused for the failures of the connection before.
ResetIsEffective == ~staleRefusal
====
