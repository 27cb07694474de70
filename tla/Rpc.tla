---------------------------------- MODULE Rpc ----------------------------------
(***************************************************************************)
(* Rpc (src/messaging/rpc.js): request() over RabbitMQ's direct reply-to,  *)
(* with the facade's connection loss and restore, and a responder          *)
(* (respond()) on the other side of the broker.                            *)
(*                                                                         *)
(* All requests share one reply channel, set up lazily by the first of     *)
(* them.  A channel is numbered in the order of creation; opened[c] is the *)
(* connection epoch it was opened in.                                      *)
(***************************************************************************)
EXTENDS Naturals, FiniteSets

CONSTANTS
    Requests,     \* calls of request()
    MaxChannels,  \* bound: reply channels opened in a run
    MaxLosses,    \* bound: connection losses in a run
    MaxAnswers    \* bound: how often a responder may answer one request

ASSUME BoundsAssumption ==
    MaxChannels \in Nat /\ MaxLosses \in Nat /\ MaxAnswers \in Nat

None == 0            \* null, for channels
Channels == 1 .. MaxChannels

VARIABLES
    pc,               \* where each request() is
    channelOf,        \* the reply channel it holds
    pendingRequests,  \* pendingRequests: the registered requests
    timers,           \* the requests whose timeout is armed
    publishing,       \* the requests whose publish is not confirmed yet
    decoding,         \* the requests whose reply is being decoded
    calls,            \* history: how often each promise was resolved or rejected
    timedOut,         \* the requests whose deadline has passed
    replyChannel,     \* replyChannel
    listeners,        \* the channel replyListeners refers to
    attached,         \* how many pairs of listeners each channel carries
    connectionEpoch,  \* connectionEpoch
    setup,            \* where #setupReplyConsumer() is; "none": no promise
    setupEpoch,       \* its epoch
    setupChannel,     \* its channel
    pool,             \* is there a channel pool?
    created,          \* how many reply channels have been opened
    opened,           \* the epoch a channel was opened in
    open,             \* the channels that are open
    consumers,        \* the channels consuming the reply pseudo-queue
    dedicated,        \* the pool's channel for 'rpc-reply'
    queued,           \* the requests in the responder's queue
    replies,          \* replies on their way, for each request
    answers           \* how often each request was answered

requests == <<pc, channelOf, pendingRequests, timers, publishing, decoding, calls, timedOut>>
reply == <<replyChannel, listeners, attached, connectionEpoch>>
setups == <<setup, setupEpoch, setupChannel>>
channels == <<pool, created, opened, open, consumers, dedicated>>
broker == <<queued, replies, answers>>
vars == <<requests, reply, setups, channels, broker>>

\* joining: awaits the setup; sent: registered and published.
States == {"new", "preflight", "joining", "encoding", "sent", "settled"}

TypeOK ==
    /\ pc \in [Requests -> States]
    /\ channelOf \in [Requests -> Channels \cup {None}]
    /\ pendingRequests \in SUBSET Requests
    /\ timers \in SUBSET Requests
    /\ publishing \in SUBSET Requests
    /\ decoding \in SUBSET Requests
    /\ calls \in [Requests -> Nat]
    /\ timedOut \in SUBSET Requests
    /\ replyChannel \in Channels \cup {None}
    /\ listeners \in Channels \cup {None}
    /\ attached \in [Channels -> Nat]
    /\ connectionEpoch \in 0 .. MaxLosses
    /\ setup \in {"none", "opening", "consuming", "consumed"}
    /\ setupEpoch \in 0 .. MaxLosses
    /\ setupChannel \in Channels \cup {None}
    /\ pool \in BOOLEAN
    /\ created \in 0 .. MaxChannels
    /\ opened \in [Channels -> 0 .. MaxLosses]
    /\ open \in SUBSET Channels
    /\ consumers \in SUBSET open
    /\ dedicated \in open \cup {None}
    /\ queued \in SUBSET Requests
    /\ replies \in [Requests -> 0 .. MaxAnswers]
    /\ answers \in [Requests -> 0 .. MaxAnswers]

Init ==
    /\ pc = [r \in Requests |-> "new"]
    /\ channelOf = [r \in Requests |-> None]
    /\ pendingRequests = {} /\ timers = {} /\ publishing = {} /\ decoding = {}
    /\ calls = [r \in Requests |-> 0]
    /\ timedOut = {}
    /\ replyChannel = None /\ listeners = None
    /\ attached = [c \in Channels |-> 0]
    /\ connectionEpoch = 0
    /\ setup = "none" /\ setupEpoch = 0 /\ setupChannel = None
    /\ pool = TRUE
    /\ created = 0
    /\ opened = [c \in Channels |-> 0]
    /\ open = {} /\ consumers = {} /\ dedicated = None
    /\ queued = {}
    /\ replies = [r \in Requests |-> 0]
    /\ answers = [r \in Requests |-> 0]

-----------------------------------------------------------------------------
(* Settling requests. *)

\* The promises of rs are settled (one call of resolve or reject each).
Settled(rs) ==
    /\ pc' = [r \in Requests |-> IF r \in rs THEN "settled" ELSE pc[r]]
    /\ calls' = [r \in Requests |-> IF r \in rs THEN calls[r] + 1 ELSE calls[r]]

\* Mutant of Forget: an entry outlives the settlement it is for.
ForgetTimer(rs) == timers' = timers \ rs /\ UNCHANGED pendingRequests

\* Entries leave the map with their timers cleared.
Forget(rs) == pendingRequests' = pendingRequests \ rs /\ timers' = timers \ rs

\* #settlePending(): only a request that is still registered.
SettlePending(r) ==
    LET rs == {r} \cap pendingRequests
    IN  Forget(rs) /\ Settled(rs)

\* Mutant of RejectAllPending: the map is cleared and nobody is told.
RejectAllSilently == Forget(pendingRequests) /\ UNCHANGED <<pc, calls>>

\* rejectAllPending().
RejectAllPending == Forget(pendingRequests) /\ Settled(pendingRequests)

\* #detachReplyListeners().
Detach ==
    /\ listeners' = None
    /\ attached' = [c \in Channels |-> IF c = listeners THEN attached[c] - 1 ELSE attached[c]]

\* #invalidateReplyChannel(c), reached from the broker's cancel or from onClose.
Invalidate(c) ==
    \/ /\ replyChannel = c
       /\ Detach
       /\ replyChannel' = None
       /\ RejectAllPending
       /\ UNCHANGED connectionEpoch
    \/ /\ replyChannel # c
       /\ UNCHANGED <<reply, pc, calls, pendingRequests, timers>>

-----------------------------------------------------------------------------
(* request(). *)

\* Requests are interchangeable: they are named in the order of their calls.
NextRequest == CHOOSE r \in Requests : pc[r] = "new"

\* preflight() passes: there is a connection and a quota.
Request(r) ==
    /\ pc[r] = "new" /\ r = NextRequest /\ pool
    /\ pc' = [pc EXCEPT ![r] = "preflight"]
    /\ UNCHANGED <<channelOf, pendingRequests, timers, publishing, decoding, calls, timedOut,
                   reply, setups, channels, broker>>

\* Is there a setup to share?
SetupRunning == setup # "none"

\* #ensureReplyConsumer(): use the channel that is there, join the setup that is
\* under way, or start one; without a pool it throws.
EnsureReplyConsumer(r) ==
    /\ pc[r] = "preflight"
    /\ \/ /\ replyChannel # None
          /\ pc' = [pc EXCEPT ![r] = "encoding"]
          /\ channelOf' = [channelOf EXCEPT ![r] = replyChannel]
          /\ UNCHANGED <<calls, setups>>
       \/ /\ replyChannel = None /\ SetupRunning
          /\ pc' = [pc EXCEPT ![r] = "joining"]
          /\ UNCHANGED <<channelOf, calls, setups>>
       \/ /\ replyChannel = None /\ ~SetupRunning /\ pool
          /\ pc' = [pc EXCEPT ![r] = "joining"]
          /\ setup' = "opening"
          /\ setupEpoch' = connectionEpoch
          /\ setupChannel' = None
          /\ UNCHANGED <<channelOf, calls>>
       \/ /\ replyChannel = None /\ ~SetupRunning /\ ~pool
          /\ Settled({r})
          /\ UNCHANGED <<channelOf, setups>>
    /\ UNCHANGED <<pendingRequests, timers, publishing, decoding, timedOut,
                   reply, channels, broker>>

\* The message is encoded: the request is registered, its timer armed, and the
\* publish started on the channel it holds.  Without
\* a reply consumer on that channel the broker takes nothing.
Publish(r) ==
    /\ pc[r] = "encoding"
    /\ pc' = [pc EXCEPT ![r] = "sent"]
    /\ pendingRequests' = pendingRequests \cup {r}
    /\ timers' = timers \cup {r}
    /\ publishing' = publishing \cup {r}
    /\ queued' = IF channelOf[r] \in consumers THEN queued \cup {r} ELSE queued
    /\ UNCHANGED <<channelOf, decoding, calls, timedOut, reply, setups, channels, replies, answers>>

\* The broker confirms the publish.
PublishConfirmed(r) ==
    /\ r \in publishing /\ channelOf[r] \in open
    /\ publishing' = publishing \ {r}
    /\ UNCHANGED <<pc, channelOf, pendingRequests, timers, decoding, calls, timedOut,
                   reply, setups, channels, broker>>

\* It fails: nacked, the channel closed, or the circuit open.
PublishFails(r) ==
    /\ r \in publishing
    /\ publishing' = publishing \ {r}
    /\ SettlePending(r)
    /\ UNCHANGED <<channelOf, decoding, timedOut, reply, setups, channels, broker>>

\* onReturn: nothing is bound to the routing key.
Returned(r) ==
    /\ r \in queued /\ answers[r] = 0 /\ channelOf[r] \in open
    /\ queued' = queued \ {r}
    /\ \/ /\ attached[channelOf[r]] > 0
          /\ SettlePending(r)
       \/ /\ attached[channelOf[r]] = 0
          /\ UNCHANGED <<pc, calls, pendingRequests, timers>>
    /\ UNCHANGED <<channelOf, publishing, decoding, timedOut, reply, setups, channels, replies, answers>>

\* The timer fires.
Timeout(r) ==
    /\ r \in timers
    /\ timedOut' = timedOut \cup {r}
    /\ Forget({r})
    /\ Settled({r})
    /\ UNCHANGED <<channelOf, publishing, decoding, reply, setups, channels, broker>>

\* A reply comes in on the channel of the request.  #handleReply() discards it when
\* the request is no longer registered; otherwise its entry and timer go at once.
HandleReply(r) ==
    /\ replies[r] > 0 /\ channelOf[r] \in consumers
    /\ replies' = [replies EXCEPT ![r] = @ - 1]
    /\ \/ /\ r \in pendingRequests
          /\ Forget({r})
          /\ decoding' = decoding \cup {r}
       \/ /\ r \notin pendingRequests
          /\ UNCHANGED <<pendingRequests, timers, decoding>>
    /\ UNCHANGED <<pc, channelOf, publishing, calls, timedOut, reply, setups, channels, queued, answers>>

\* The reply is decoded: the request is resolved, or rejected with the responder's
\* error or the codec's.
ReplyDecoded(r) ==
    /\ r \in decoding
    /\ decoding' = decoding \ {r}
    /\ Settled({r})
    /\ UNCHANGED <<channelOf, pendingRequests, timers, publishing, timedOut,
                   reply, setups, channels, broker>>

-----------------------------------------------------------------------------
(* #setupReplyConsumer(). *)

Joining == {r \in Requests : pc[r] = "joining"}

\* Mutant of Current: the epoch is not compared.
CurrentAlways == TRUE

\* The epoch fence: is this still the connection the setup started on?
Current == setupEpoch = connectionEpoch

\* getDedicatedChannel('rpc-reply') resolves, with the channel the pool has or with
\* a new one.
SetupOpened ==
    /\ setup = "opening" /\ setupEpoch = connectionEpoch /\ pool
    /\ setup' = "consuming"
    /\ \/ /\ dedicated # None
          /\ setupChannel' = dedicated
          /\ UNCHANGED <<created, opened, open, dedicated>>
       \/ /\ dedicated = None /\ created < MaxChannels
          /\ setupChannel' = created + 1
          /\ created' = created + 1
          /\ opened' = [opened EXCEPT ![created + 1] = connectionEpoch]
          /\ open' = open \cup {created + 1}
          /\ dedicated' = created + 1
    /\ UNCHANGED <<requests, reply, setupEpoch, pool, consumers, broker>>

\* The broker answers the consume.  The promise resolves in a later turn.
SetupConsumed ==
    /\ setup = "consuming" /\ setupChannel \in open
    /\ setup' = "consumed"
    /\ consumers' = consumers \cup {setupChannel}
    /\ UNCHANGED <<requests, reply, setupEpoch, setupChannel, pool, created, opened, open,
                   dedicated, broker>>

\* The setup rejects, and so do the requests that share it.
SetupFails ==
    /\ setup \in {"opening", "consuming"}
    /\ setup' = "none"
    /\ Settled(Joining)
    /\ UNCHANGED <<channelOf, pendingRequests, timers, publishing, decoding, timedOut,
                   reply, setupEpoch, setupChannel, channels, broker>>

\* The setup ends: listeners are attached, and the channel is installed unless the
\* connection turned over meanwhile.
SetupEnds ==
    /\ setup = "consumed"
    /\ setup' = "none"
    /\ \/ /\ Current
          /\ replyChannel' = setupChannel
          /\ listeners' = setupChannel
          /\ attached' = [attached EXCEPT ![setupChannel] = @ + 1]
          /\ pc' = [r \in Requests |-> IF r \in Joining THEN "encoding" ELSE pc[r]]
          /\ channelOf' = [r \in Requests |-> IF r \in Joining THEN setupChannel ELSE channelOf[r]]
          /\ UNCHANGED calls
       \/ /\ ~Current
          /\ listeners' = None
          /\ Settled(Joining)
          /\ UNCHANGED <<replyChannel, attached, channelOf>>
    /\ UNCHANGED <<pendingRequests, timers, publishing, decoding, timedOut, connectionEpoch,
                   setupEpoch, setupChannel, channels, broker>>

-----------------------------------------------------------------------------
(* The connection and the broker. *)

\* The pool forgets a dedicated channel when it closes.
DedicatedWithout(cs) == IF dedicated \in cs THEN None ELSE dedicated

\* The broker cancels the reply consumer: the channel stays open.
ConsumerCancelled(c) ==
    /\ c \in consumers
    /\ consumers' = consumers \ {c}
    /\ Invalidate(c)
    /\ UNCHANGED <<channelOf, publishing, decoding, timedOut, setups, pool, created, opened,
                   open, dedicated, broker>>

\* A channel closes; onClose runs if it is attached.
ChannelCloses(c) ==
    /\ c \in open
    /\ open' = open \ {c}
    /\ consumers' = consumers \ {c}
    /\ dedicated' = DedicatedWithout({c})
    /\ \/ /\ attached[c] > 0
          /\ Invalidate(c)
       \/ /\ attached[c] = 0
          /\ UNCHANGED <<reply, pc, calls, pendingRequests, timers>>
    /\ UNCHANGED <<channelOf, publishing, decoding, timedOut, setups, pool, created, opened, broker>>

\* The connection is lost or disconnected: handleConnectionLoss(), and the facade
\* drops the pool.
ConnectionLost ==
    /\ pool /\ connectionEpoch < MaxLosses
    /\ pool' = FALSE
    /\ connectionEpoch' = connectionEpoch + 1
    /\ Detach
    /\ replyChannel' = None
    /\ RejectAllPending
    /\ open' = {} /\ consumers' = {} /\ dedicated' = None
    /\ UNCHANGED <<channelOf, publishing, decoding, timedOut, setups, created, opened, broker>>

\* The state is restored with a new pool.  That takes a dial, and amqplib fails the
\* calls that were under way as soon as a connection closes, so no setup of the
\* lost connection is left by then.
Restored ==
    /\ ~pool
    /\ setup = "none"
    /\ pool' = TRUE
    /\ UNCHANGED <<requests, reply, setups, created, opened, open, consumers, dedicated, broker>>

\* respond(): a request past its deadline is dropped; otherwise the handler runs and
\* its result, or an error envelope, is published; a handler that fails without
\* replyOnError, or two publishes that fail, leave the requester to its timeout.
\* The broker may deliver a request again when the responder dies before the ack.
Respond(r) ==
    /\ r \in queued
    /\ answers[r] < MaxAnswers
    /\ answers' = [answers EXCEPT ![r] = @ + 1]
    /\ \/ /\ r \notin timedOut
          /\ replies' = [replies EXCEPT ![r] = @ + 1]
          /\ queued' \in {queued, queued \ {r}}
       \/ /\ queued' = queued \ {r}
          /\ UNCHANGED replies
    /\ UNCHANGED <<requests, reply, setups, channels>>

-----------------------------------------------------------------------------
Setup == SetupOpened \/ SetupConsumed \/ SetupFails \/ SetupEnds

Advance(r) == EnsureReplyConsumer(r) \/ Publish(r) \/ ReplyDecoded(r)

Next ==
    \/ \E r \in Requests : \/ Request(r) \/ Advance(r)
                           \/ PublishConfirmed(r) \/ PublishFails(r) \/ Returned(r)
                           \/ Timeout(r) \/ HandleReply(r) \/ Respond(r)
    \/ Setup
    \/ \E c \in Channels : ConsumerCancelled(c) \/ ChannelCloses(c)
    \/ ConnectionLost
    \/ Restored

Spec == Init /\ [][Next]_vars

\* Promises resume, the codec answers, timers fire, amqplib settles its calls.
FairSpec ==
    /\ Spec
    /\ \A r \in Requests : WF_vars(Advance(r)) /\ WF_vars(Timeout(r))
    /\ WF_vars(Setup)

-----------------------------------------------------------------------------
(* What request() promises. *)

\* The reply channel belongs to the current connection and carries the listeners: a
\* setup that outlives its connection installs nothing.  No other channel carries
\* listeners, which nobody could detach, and none carries two pairs, although a channel
\* is set up again after a broker cancel.
ReplyRoute ==
    /\ replyChannel # None => opened[replyChannel] = connectionEpoch /\ listeners = replyChannel
    /\ \A c \in Channels : attached[c] = IF c = listeners THEN 1 ELSE 0

\* "The response promise is the single settlement authority": reply, return, publish
\* failure, timeout and connection loss race, and one of them settles a request.
SettledOnce == \A r \in Requests : calls[r] =< 1

\* Every request is settled: none is lost between the sweep of a connection loss and
\* a setup or an encoding that was under way.
EverySettles == \A r \in Requests : (pc[r] = "preflight") ~> (pc[r] = "settled")
=============================================================================
