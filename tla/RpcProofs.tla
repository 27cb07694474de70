------------------------------- MODULE RpcProofs -------------------------------
(***************************************************************************)
(* Proofs about Rpc, for every number of requests, reply channels,         *)
(* connection losses and answers.                                          *)
(***************************************************************************)
EXTENDS Rpc, TLAPS

\* The reply channel and its listeners come and go together, and a setup is under way
\* only while there is none.
RoutePhase ==
    /\ listeners = replyChannel
    /\ setup # "none" => replyChannel = None

\* A setup's epoch is never ahead, the pool's reply channel is of the current
\* connection, and so is what a setup that is still current has been given.
EpochPhase ==
    /\ setupEpoch <= connectionEpoch
    /\ dedicated # None => opened[dedicated] = connectionEpoch
    /\ setup \in {"consuming", "consumed"} =>
         /\ setupChannel # None
         /\ setupEpoch = connectionEpoch => opened[setupChannel] = connectionEpoch

\* A promise has been settled exactly if its request is in its last state; who may
\* still settle it, the map entry with its timer or the decoder, is at most one of them.
SettlePhase ==
    /\ \A r \in Requests : calls[r] = IF pc[r] = "settled" THEN 1 ELSE 0
    /\ \A r \in pendingRequests \cup decoding : pc[r] = "sent"
    /\ timers = pendingRequests
    /\ pendingRequests \cap decoding = {}

\* A reply on its way was counted as an answer.
AnswerPhase == \A r \in Requests : replies[r] <= answers[r]

\* The inductive invariant.
IInv ==
    /\ TypeOK
    /\ RoutePhase
    /\ EpochPhase
    /\ SettlePhase
    /\ AnswerPhase
    /\ ReplyRoute

-----------------------------------------------------------------------------
\* TypeOK in four parts, one per group of variables.
RequestTypes ==
    /\ pc \in [Requests -> States]
    /\ channelOf \in [Requests -> Channels \cup {None}]
    /\ pendingRequests \in SUBSET Requests
    /\ timers \in SUBSET Requests
    /\ publishing \in SUBSET Requests
    /\ decoding \in SUBSET Requests
    /\ calls \in [Requests -> Nat]
    /\ timedOut \in SUBSET Requests

RouteTypes ==
    /\ replyChannel \in Channels \cup {None}
    /\ listeners \in Channels \cup {None}
    /\ attached \in [Channels -> Nat]
    /\ connectionEpoch \in 0 .. MaxLosses
    /\ setup \in {"none", "opening", "consuming", "consumed"}
    /\ setupEpoch \in 0 .. MaxLosses
    /\ setupChannel \in Channels \cup {None}

ChannelTypes ==
    /\ pool \in BOOLEAN
    /\ created \in 0 .. MaxChannels
    /\ opened \in [Channels -> 0 .. MaxLosses]
    /\ open \in SUBSET Channels
    /\ consumers \in SUBSET open
    /\ dedicated \in open \cup {None}

BrokerTypes ==
    /\ queued \in SUBSET Requests
    /\ replies \in [Requests -> 0 .. MaxAnswers]
    /\ answers \in [Requests -> 0 .. MaxAnswers]

\* The four parts make up TypeOK.
LEMMA TypeParts == TypeOK <=> RequestTypes /\ RouteTypes /\ ChannelTypes /\ BrokerTypes
BY DEF TypeOK, RequestTypes, RouteTypes, ChannelTypes, BrokerTypes

\* Settling promises keeps the request's state and the count of its settlements typed.
LEMMA SettledTypes ==
    ASSUME RequestTypes, NEW rs, Settled(rs)
    PROVE  pc' \in [Requests -> States] /\ calls' \in [Requests -> Nat]
BY DEF RequestTypes, Settled, States

\* A detached pair of listeners leaves no channel with any.
LEMMA DetachTypes ==
    ASSUME RouteTypes, ReplyRoute, Detach
    PROVE  /\ listeners' = None
           /\ attached' \in [Channels -> Nat]
           /\ \A c \in Channels : attached'[c] = 0
BY DEF RouteTypes, ReplyRoute, Detach, None, Channels

\* What #invalidateReplyChannel() does to the route and to the requests.
LEMMA InvalidateTypes ==
    ASSUME IInv, NEW c \in Channels, Invalidate(c)
    PROVE  /\ pc' \in [Requests -> States] /\ calls' \in [Requests -> Nat]
           /\ pendingRequests' \in SUBSET Requests
           /\ timers' \in SUBSET Requests
           /\ replyChannel' \in Channels \cup {None}
           /\ listeners' \in Channels \cup {None}
           /\ attached' \in [Channels -> Nat]
           /\ connectionEpoch' = connectionEpoch
<1> USE TypeParts DEF IInv
<1>1. CASE /\ replyChannel = c /\ Detach /\ replyChannel' = None
           /\ RejectAllPending /\ UNCHANGED connectionEpoch
  BY <1>1, SettledTypes, DetachTypes DEF RejectAllPending, Forget, RequestTypes
<1>2. CASE UNCHANGED <<reply, pc, calls, pendingRequests, timers>>
  BY <1>2 DEF reply, RequestTypes, RouteTypes
<1> QED
  BY <1>1, <1>2 DEF Invalidate

\* It leaves either the route as it was or none at all.
LEMMA InvalidateRoute ==
    ASSUME IInv, NEW c \in Channels, Invalidate(c)
    PROVE  /\ replyChannel' \in {replyChannel, None}
           /\ listeners' = replyChannel'
           /\ \A d \in Channels : attached'[d] = IF d = listeners' THEN 1 ELSE 0
           /\ connectionEpoch' = connectionEpoch
<1>1. RouteTypes
  BY TypeParts DEF IInv
<1>2. CASE /\ replyChannel = c /\ Detach /\ replyChannel' = None
           /\ UNCHANGED connectionEpoch
  <2>1. listeners' = None /\ \A d \in Channels : attached'[d] = 0
    BY <1>1, <1>2, DetachTypes DEF IInv
  <2> QED
    BY <1>2, <2>1 DEF None, Channels
<1>3. CASE UNCHANGED reply
  BY <1>3 DEF reply, IInv, RoutePhase, ReplyRoute
<1> QED
  BY <1>2, <1>3 DEF Invalidate

\* Settling registered requests and dropping their entries and timers keeps who may
\* settle a request.
LEMMA SettlingRegistered ==
    ASSUME RequestTypes, SettlePhase, NEW rs \in SUBSET pendingRequests,
           Forget(rs), Settled(rs), UNCHANGED decoding
    PROVE  SettlePhase'
BY DEF RequestTypes, SettlePhase, Forget, Settled

\* So does #invalidateReplyChannel().
LEMMA InvalidateSettles ==
    ASSUME RequestTypes, SettlePhase, NEW c, Invalidate(c), UNCHANGED decoding
    PROVE  SettlePhase'
<1>1. CASE RejectAllPending
  BY <1>1, SettlingRegistered DEF RejectAllPending
<1>2. CASE UNCHANGED <<pc, calls, pendingRequests, timers>>
  BY <1>2 DEF SettlePhase
<1> QED
  BY <1>1, <1>2 DEF Invalidate

\* Every step keeps the requests typed.
LEMMA RequestTypesStep == IInv /\ [Next]_vars => RequestTypes'
<1> SUFFICES ASSUME IInv, [Next]_vars, RequestTypes, RouteTypes, ChannelTypes, BrokerTypes
             PROVE  RequestTypes'
  BY TypeParts DEF IInv
<1> USE DEF IInv, RequestTypes, RouteTypes, States, requests
<1>1. ASSUME NEW r \in Requests, Request(r) PROVE RequestTypes'
  BY <1>1 DEF Request
<1>2. ASSUME NEW r \in Requests, EnsureReplyConsumer(r) PROVE RequestTypes'
  BY <1>2, SettledTypes DEF EnsureReplyConsumer
<1>3. ASSUME NEW r \in Requests, Publish(r) PROVE RequestTypes'
  BY <1>3 DEF Publish
<1>4. ASSUME NEW r \in Requests, ReplyDecoded(r) PROVE RequestTypes'
  BY <1>4, SettledTypes DEF ReplyDecoded
<1>5. ASSUME NEW r \in Requests, PublishConfirmed(r) PROVE RequestTypes'
  BY <1>5 DEF PublishConfirmed
<1>6. ASSUME NEW r \in Requests, PublishFails(r) PROVE RequestTypes'
  BY <1>6, SettledTypes DEF PublishFails, SettlePending, Forget
<1>7. ASSUME NEW r \in Requests, Returned(r) PROVE RequestTypes'
  BY <1>7, SettledTypes DEF Returned, SettlePending, Forget
<1>8. ASSUME NEW r \in Requests, Timeout(r) PROVE RequestTypes'
  BY <1>8, SettledTypes DEF Timeout, Forget
<1>9. ASSUME NEW r \in Requests, HandleReply(r) PROVE RequestTypes'
  BY <1>9 DEF HandleReply, Forget
<1>10. ASSUME NEW r \in Requests, Respond(r) PROVE RequestTypes'
  BY <1>10 DEF Respond
<1>11. CASE SetupFails
  BY <1>11, SettledTypes DEF SetupFails
<1>12. CASE SetupEnds
  BY <1>12, SettledTypes DEF SetupEnds
<1>13. CASE ConnectionLost
  BY <1>13, SettledTypes DEF ConnectionLost, RejectAllPending, Forget
<1>14. CASE SetupOpened \/ SetupConsumed \/ Restored
  BY <1>14 DEF SetupOpened, SetupConsumed, Restored
<1>15. ASSUME NEW c \in Channels, ConsumerCancelled(c) PROVE RequestTypes'
  BY <1>15, InvalidateTypes DEF ConsumerCancelled
<1>16. ASSUME NEW c \in Channels, ChannelCloses(c) PROVE RequestTypes'
  BY <1>16, InvalidateTypes DEF ChannelCloses
<1>17. CASE UNCHANGED vars
  BY <1>17 DEF vars
<1> QED
  BY <1>1, <1>2, <1>3, <1>4, <1>5, <1>6, <1>7, <1>8, <1>9, <1>10, <1>11, <1>12, <1>13,
     <1>14, <1>15, <1>16, <1>17 DEF Next, Advance, Setup

\* Every step keeps the reply channel's state and its setup typed.
LEMMA RouteTypesStep == IInv /\ [Next]_vars => RouteTypes'
<1> SUFFICES ASSUME IInv, [Next]_vars, RequestTypes, RouteTypes, ChannelTypes, BrokerTypes
             PROVE  RouteTypes'
  BY TypeParts DEF IInv
<1> USE BoundsAssumption DEF IInv, RouteTypes, ChannelTypes, EpochPhase, None,
   Channels, reply, setups
<1>1. ASSUME NEW r \in Requests, EnsureReplyConsumer(r) PROVE RouteTypes'
  BY <1>1 DEF EnsureReplyConsumer
<1>2. ASSUME NEW r \in Requests,
             \/ Request(r) \/ Publish(r) \/ ReplyDecoded(r) \/ PublishConfirmed(r)
             \/ PublishFails(r) \/ Returned(r) \/ Timeout(r) \/ HandleReply(r)
             \/ Respond(r)
      PROVE  RouteTypes'
  BY <1>2 DEF Request, Publish, ReplyDecoded, PublishConfirmed, PublishFails,
     Returned, Timeout, HandleReply, Respond
<1>3. CASE SetupOpened
  BY <1>3 DEF SetupOpened
<1>4. CASE SetupConsumed
  BY <1>4 DEF SetupConsumed
<1>5. CASE SetupEnds
  <2>1. setupChannel \in Channels
    BY <1>5 DEF SetupEnds
  <2>2. CASE Current
    <3>1. /\ replyChannel' = setupChannel /\ listeners' = setupChannel /\ setup' = "none"
          /\ attached' = [attached EXCEPT ![setupChannel] = attached[setupChannel] + 1]
          /\ UNCHANGED <<connectionEpoch, setupEpoch, setupChannel>>
      BY <1>5, <2>2 DEF SetupEnds
    <3> QED
      BY <2>1, <3>1
  <2>3. CASE ~Current
    BY <1>5, <2>3 DEF SetupEnds
  <2> QED
    BY <2>2, <2>3
<1>6. CASE ConnectionLost
  BY <1>6, DetachTypes DEF ConnectionLost
<1>7. CASE SetupFails \/ Restored
  BY <1>7 DEF SetupFails, Restored
<1>8. ASSUME NEW c \in Channels, ConsumerCancelled(c) PROVE RouteTypes'
  BY <1>8, InvalidateTypes DEF ConsumerCancelled
<1>9. ASSUME NEW c \in Channels, ChannelCloses(c) PROVE RouteTypes'
  BY <1>9, InvalidateTypes DEF ChannelCloses
<1>10. CASE UNCHANGED vars
  BY <1>10 DEF vars
<1> QED
  BY <1>1, <1>2, <1>3, <1>4, <1>5, <1>6, <1>7, <1>8, <1>9, <1>10 DEF Next, Advance,
     Setup

\* Every step keeps the channels typed.
LEMMA ChannelTypesStep == IInv /\ [Next]_vars => ChannelTypes'
<1> SUFFICES ASSUME IInv, [Next]_vars, RequestTypes, RouteTypes, ChannelTypes, BrokerTypes
             PROVE  ChannelTypes'
  BY TypeParts DEF IInv
<1> USE BoundsAssumption DEF IInv, ChannelTypes, RouteTypes, None, Channels, channels
<1>1. ASSUME NEW r \in Requests,
             \/ Request(r) \/ EnsureReplyConsumer(r) \/ Publish(r) \/ ReplyDecoded(r)
             \/ PublishConfirmed(r) \/ PublishFails(r) \/ Returned(r) \/ Timeout(r)
             \/ HandleReply(r) \/ Respond(r)
      PROVE  ChannelTypes'
  BY <1>1 DEF Request, EnsureReplyConsumer, Publish, ReplyDecoded, PublishConfirmed,
     PublishFails, Returned, Timeout, HandleReply, Respond
<1>2. CASE SetupOpened
  <2>1. CASE UNCHANGED <<created, opened, open, dedicated>>
    BY <1>2, <2>1 DEF SetupOpened
  <2>2. CASE /\ created < MaxChannels
             /\ created' = created + 1
             /\ opened' = [opened EXCEPT ![created + 1] = connectionEpoch]
             /\ open' = open \cup {created + 1}
             /\ dedicated' = created + 1
    <3>1. created' \in 0 .. MaxChannels /\ created + 1 \in Channels
      BY <2>2
    <3>2. UNCHANGED <<pool, consumers>>
      BY <1>2 DEF SetupOpened
    <3>3. opened' \in [Channels -> 0 .. MaxLosses]
      BY <2>2
    <3> QED
      BY <2>2, <3>1, <3>2, <3>3
  <2> QED
    BY <1>2, <2>1, <2>2 DEF SetupOpened
<1>3. CASE SetupConsumed
  BY <1>3 DEF SetupConsumed
<1>4. CASE ConnectionLost
  BY <1>4 DEF ConnectionLost
<1>5. CASE Restored
  BY <1>5 DEF Restored
<1>6. CASE SetupFails \/ SetupEnds
  BY <1>6 DEF SetupFails, SetupEnds
<1>7. ASSUME NEW c \in Channels, ConsumerCancelled(c) PROVE ChannelTypes'
  BY <1>7 DEF ConsumerCancelled
<1>8. ASSUME NEW c \in Channels, ChannelCloses(c) PROVE ChannelTypes'
  BY <1>8 DEF ChannelCloses, DedicatedWithout
<1>9. CASE UNCHANGED vars
  BY <1>9 DEF vars
<1> QED
  BY <1>1, <1>2, <1>3, <1>4, <1>5, <1>6, <1>7, <1>8, <1>9 DEF Next, Advance, Setup

\* Every step keeps the broker's side typed.
LEMMA BrokerTypesStep == IInv /\ [Next]_vars => BrokerTypes'
<1> SUFFICES ASSUME IInv, [Next]_vars, RequestTypes, RouteTypes, ChannelTypes, BrokerTypes
             PROVE  BrokerTypes'
  BY TypeParts DEF IInv
<1> USE BoundsAssumption DEF IInv, BrokerTypes, AnswerPhase, broker
<1>1. ASSUME NEW r \in Requests, Publish(r) PROVE BrokerTypes'
  BY <1>1 DEF Publish
<1>2. ASSUME NEW r \in Requests, Returned(r) PROVE BrokerTypes'
  BY <1>2 DEF Returned
<1>3. ASSUME NEW r \in Requests, HandleReply(r) PROVE BrokerTypes'
  BY <1>3 DEF HandleReply
<1>4. ASSUME NEW r \in Requests, Respond(r) PROVE BrokerTypes'
  BY <1>4 DEF Respond
<1>5. ASSUME NEW r \in Requests,
             \/ Request(r) \/ EnsureReplyConsumer(r) \/ ReplyDecoded(r)
             \/ PublishConfirmed(r) \/ PublishFails(r) \/ Timeout(r)
      PROVE  BrokerTypes'
  BY <1>5 DEF Request, EnsureReplyConsumer, ReplyDecoded, PublishConfirmed,
     PublishFails, Timeout
<1>6. CASE SetupOpened \/ SetupConsumed \/ SetupFails \/ SetupEnds \/ ConnectionLost
   \/ Restored
  BY <1>6 DEF SetupOpened, SetupConsumed, SetupFails, SetupEnds, ConnectionLost,
     Restored
<1>7. ASSUME NEW c \in Channels,
             \/ ConsumerCancelled(c) \/ ChannelCloses(c)
      PROVE  BrokerTypes'
  BY <1>7 DEF ConsumerCancelled, ChannelCloses
<1>8. CASE UNCHANGED vars
  BY <1>8 DEF vars
<1> QED
  BY <1>1, <1>2, <1>3, <1>4, <1>5, <1>6, <1>7, <1>8 DEF Next, Advance, Setup

\* Every step keeps the route: see ReplyRoute.
LEMMA RouteStep == IInv /\ [Next]_vars => (RoutePhase /\ ReplyRoute)'
<1> SUFFICES ASSUME IInv, [Next]_vars, RequestTypes, RouteTypes, ChannelTypes, BrokerTypes
             PROVE  (RoutePhase /\ ReplyRoute)'
  BY TypeParts DEF IInv
<1> USE BoundsAssumption DEF IInv, RoutePhase, EpochPhase, ReplyRoute, RouteTypes,
   ChannelTypes, None, Channels, reply, setups, channels
<1>1. ASSUME NEW r \in Requests,
             \/ EnsureReplyConsumer(r)
      PROVE  (RoutePhase /\ ReplyRoute)'
  BY <1>1 DEF EnsureReplyConsumer, SetupRunning
<1>2. ASSUME NEW r \in Requests,
             \/ Request(r) \/ Publish(r) \/ ReplyDecoded(r) \/ PublishConfirmed(r)
             \/ PublishFails(r) \/ Returned(r) \/ Timeout(r) \/ HandleReply(r)
             \/ Respond(r)
      PROVE  (RoutePhase /\ ReplyRoute)'
  BY <1>2 DEF Request, Publish, ReplyDecoded, PublishConfirmed, PublishFails,
     Returned, Timeout, HandleReply, Respond
<1>3. CASE SetupOpened
  BY <1>3 DEF SetupOpened
<1>4. CASE SetupConsumed
  BY <1>4 DEF SetupConsumed
<1>5. CASE SetupFails
  BY <1>5 DEF SetupFails
<1>6. CASE SetupEnds
  BY <1>6 DEF SetupEnds, Current
<1>7. CASE ConnectionLost
  BY <1>7, DetachTypes DEF ConnectionLost
<1>8. CASE Restored
  BY <1>8 DEF Restored
<1>9. ASSUME NEW c \in Channels, ConsumerCancelled(c) PROVE (RoutePhase /\ ReplyRoute)'
  BY <1>9, InvalidateRoute DEF ConsumerCancelled
<1>10. ASSUME NEW c \in Channels, ChannelCloses(c) PROVE (RoutePhase /\ ReplyRoute)'
  BY <1>10, InvalidateRoute DEF ChannelCloses
<1>11. CASE UNCHANGED vars
  BY <1>11 DEF vars
<1> QED
  BY <1>1, <1>2, <1>3, <1>4, <1>5, <1>6, <1>7, <1>8, <1>9, <1>10, <1>11 DEF Next,
     Advance, Setup

\* Every step keeps the epochs in order.
LEMMA EpochStep == IInv /\ [Next]_vars => EpochPhase'
<1> SUFFICES ASSUME IInv, [Next]_vars, RequestTypes, RouteTypes, ChannelTypes, BrokerTypes
             PROVE  EpochPhase'
  BY TypeParts DEF IInv
<1> USE BoundsAssumption DEF IInv, RoutePhase, EpochPhase, RouteTypes, ChannelTypes,
   None, Channels, reply, setups, channels
<1>1. ASSUME NEW r \in Requests, EnsureReplyConsumer(r) PROVE EpochPhase'
  BY <1>1 DEF EnsureReplyConsumer
<1>2. ASSUME NEW r \in Requests,
             \/ Request(r) \/ Publish(r) \/ ReplyDecoded(r) \/ PublishConfirmed(r)
             \/ PublishFails(r) \/ Returned(r) \/ Timeout(r) \/ HandleReply(r)
             \/ Respond(r)
      PROVE  EpochPhase'
  BY <1>2 DEF Request, Publish, ReplyDecoded, PublishConfirmed, PublishFails,
     Returned, Timeout, HandleReply, Respond
<1>3. CASE SetupOpened
  BY <1>3 DEF SetupOpened
<1>4. CASE SetupConsumed
  BY <1>4 DEF SetupConsumed
<1>5. CASE SetupFails
  BY <1>5 DEF SetupFails
<1>6. CASE SetupEnds
  BY <1>6 DEF SetupEnds, Current
<1>7. CASE ConnectionLost
  BY <1>7 DEF ConnectionLost
<1>8. CASE Restored
  BY <1>8 DEF Restored
<1>9. ASSUME NEW c \in Channels, ConsumerCancelled(c) PROVE EpochPhase'
  BY <1>9, InvalidateTypes DEF ConsumerCancelled
<1>10. ASSUME NEW c \in Channels, ChannelCloses(c) PROVE EpochPhase'
  BY <1>10, InvalidateTypes DEF ChannelCloses, DedicatedWithout
<1>11. CASE UNCHANGED vars
  BY <1>11 DEF vars
<1> QED
  BY <1>1, <1>2, <1>3, <1>4, <1>5, <1>6, <1>7, <1>8, <1>9, <1>10, <1>11 DEF Next,
     Advance, Setup

\* Every step keeps who may settle a request.
LEMMA SettleStep == IInv /\ [Next]_vars => SettlePhase'
<1> SUFFICES ASSUME IInv, [Next]_vars, RequestTypes, RouteTypes, ChannelTypes, BrokerTypes
             PROVE  SettlePhase'
  BY TypeParts DEF IInv
<1> USE DEF IInv, SettlePhase, RequestTypes, States, requests
<1>1. ASSUME NEW r \in Requests, Request(r) PROVE SettlePhase'
  BY <1>1 DEF Request
<1>2. ASSUME NEW r \in Requests, EnsureReplyConsumer(r) PROVE SettlePhase'
  BY <1>2 DEF EnsureReplyConsumer, SetupRunning, Settled
<1>3. ASSUME NEW r \in Requests, Publish(r) PROVE SettlePhase'
  BY <1>3 DEF Publish
<1>4. ASSUME NEW r \in Requests, ReplyDecoded(r) PROVE SettlePhase'
  BY <1>4 DEF ReplyDecoded, Settled
<1>5. ASSUME NEW r \in Requests, PublishConfirmed(r) PROVE SettlePhase'
  BY <1>5 DEF PublishConfirmed
<1>6. ASSUME NEW r \in Requests, PublishFails(r) PROVE SettlePhase'
  <2> HIDE DEF SettlePhase, RequestTypes
  <2> QED
    BY <1>6, SettlingRegistered DEF PublishFails, SettlePending
<1>7. ASSUME NEW r \in Requests, Returned(r) PROVE SettlePhase'
  <2>1. CASE SettlePending(r) /\ UNCHANGED decoding
    <3> HIDE DEF SettlePhase, RequestTypes
    <3> QED
      BY <2>1, SettlingRegistered DEF SettlePending
  <2>2. CASE UNCHANGED <<pc, calls, pendingRequests, timers, decoding>>
    BY <2>2
  <2> QED
    BY <1>7, <2>1, <2>2 DEF Returned
<1>8. ASSUME NEW r \in Requests, Timeout(r) PROVE SettlePhase'
  BY <1>8 DEF Timeout, Forget, Settled
<1>9. ASSUME NEW r \in Requests, HandleReply(r) PROVE SettlePhase'
  BY <1>9 DEF HandleReply, Forget
<1>10. ASSUME NEW r \in Requests, Respond(r) PROVE SettlePhase'
  BY <1>10 DEF Respond
<1>11. CASE SetupFails
  BY <1>11 DEF SetupFails, Settled, Joining
<1>12. CASE SetupEnds
  BY <1>12 DEF SetupEnds, Settled, Joining, Current
<1>13. CASE ConnectionLost
  <2> HIDE DEF SettlePhase, RequestTypes
  <2> QED
    BY <1>13, SettlingRegistered DEF ConnectionLost, RejectAllPending
<1>14. CASE SetupOpened \/ SetupConsumed \/ Restored
  BY <1>14 DEF SetupOpened, SetupConsumed, Restored
<1>15. ASSUME NEW c \in Channels, ConsumerCancelled(c) PROVE SettlePhase'
  <2> HIDE DEF SettlePhase, RequestTypes
  <2> QED
    BY <1>15, InvalidateSettles DEF ConsumerCancelled
<1>16. ASSUME NEW c \in Channels, ChannelCloses(c) PROVE SettlePhase'
  <2>1. CASE Invalidate(c) /\ UNCHANGED decoding
    <3> HIDE DEF SettlePhase, RequestTypes
    <3> QED
      BY <2>1, InvalidateSettles
  <2>2. CASE UNCHANGED <<pc, calls, pendingRequests, timers, decoding>>
    BY <2>2
  <2> QED
    BY <1>16, <2>1, <2>2 DEF ChannelCloses
<1>17. CASE UNCHANGED vars
  BY <1>17 DEF vars
<1> QED
  BY <1>1, <1>2, <1>3, <1>4, <1>5, <1>6, <1>7, <1>8, <1>9, <1>10, <1>11, <1>12, <1>13,
     <1>14, <1>15, <1>16, <1>17 DEF Next, Advance, Setup

\* Every step keeps the count of the answers.
LEMMA AnswerStep == IInv /\ [Next]_vars => AnswerPhase'
<1> SUFFICES ASSUME IInv, [Next]_vars, RequestTypes, RouteTypes, ChannelTypes, BrokerTypes
             PROVE  AnswerPhase'
  BY TypeParts DEF IInv
<1> USE BoundsAssumption DEF IInv, BrokerTypes, AnswerPhase, broker
<1>1. ASSUME NEW r \in Requests, Publish(r) PROVE AnswerPhase'
  BY <1>1 DEF Publish
<1>2. ASSUME NEW r \in Requests, Returned(r) PROVE AnswerPhase'
  BY <1>2 DEF Returned
<1>3. ASSUME NEW r \in Requests, HandleReply(r) PROVE AnswerPhase'
  BY <1>3 DEF HandleReply
<1>4. ASSUME NEW r \in Requests, Respond(r) PROVE AnswerPhase'
  BY <1>4 DEF Respond
<1>5. ASSUME NEW r \in Requests,
             \/ Request(r) \/ EnsureReplyConsumer(r) \/ ReplyDecoded(r)
             \/ PublishConfirmed(r) \/ PublishFails(r) \/ Timeout(r)
      PROVE  AnswerPhase'
  BY <1>5 DEF Request, EnsureReplyConsumer, ReplyDecoded, PublishConfirmed,
     PublishFails, Timeout
<1>6. CASE SetupOpened \/ SetupConsumed \/ SetupFails \/ SetupEnds \/ ConnectionLost
   \/ Restored
  BY <1>6 DEF SetupOpened, SetupConsumed, SetupFails, SetupEnds, ConnectionLost,
     Restored
<1>7. ASSUME NEW c \in Channels,
             \/ ConsumerCancelled(c) \/ ChannelCloses(c)
      PROVE  AnswerPhase'
  BY <1>7 DEF ConsumerCancelled, ChannelCloses
<1>8. CASE UNCHANGED vars
  BY <1>8 DEF vars
<1> QED
  BY <1>1, <1>2, <1>3, <1>4, <1>5, <1>6, <1>7, <1>8 DEF Next, Advance, Setup

-----------------------------------------------------------------------------
\* Init establishes the invariant.
LEMMA IInvInit == Init => IInv
<1> SUFFICES ASSUME Init PROVE IInv
  OBVIOUS
<1> USE BoundsAssumption DEF Init
<1>1. TypeOK
  BY DEF TypeOK, States, Channels, None
<1>2. RoutePhase /\ EpochPhase /\ SettlePhase /\ AnswerPhase /\ ReplyRoute
  BY DEF RoutePhase, EpochPhase, SettlePhase, AnswerPhase, ReplyRoute, Channels, None
<1> QED
  BY <1>1, <1>2 DEF IInv

\* Every step preserves it.
LEMMA IInvStep == IInv /\ [Next]_vars => IInv'
BY TypeParts, RequestTypesStep, RouteTypesStep, ChannelTypesStep, BrokerTypesStep,
   RouteStep, EpochStep, SettleStep, AnswerStep DEF IInv, TypeOK, RequestTypes, RouteTypes,
   ChannelTypes, BrokerTypes

\* The invariant holds in every reachable state.
THEOREM Invariance == Spec => []IInv
BY IInvInit, IInvStep, PTL DEF Spec

\* Type correctness: no counter leaves its range, although attached counts down on every
\* detach and replies on every delivery.
THEOREM TypeCorrect == Spec => []TypeOK
<1>1. IInv => TypeOK
  BY DEF IInv
<1> QED
  BY <1>1, Invariance, PTL

\* #setupReplyConsumer() and #invalidateReplyChannel(): whatever losses, cancels and
\* closes overlap a setup, the installed channel is of the current connection and the
\* only one with listeners, and it has one pair of them.
THEOREM RouteHolds == Spec => []ReplyRoute
<1>1. IInv => ReplyRoute
  BY DEF IInv
<1> QED
  BY <1>1, Invariance, PTL

\* #settlePending(), #handleReply(), the timer and rejectAllPending(): however they
\* race, they settle the promise of a request once.
THEOREM OnceHolds == Spec => []SettledOnce
<1>1. IInv => SettledOnce
  BY DEF IInv, TypeOK, SettlePhase, SettledOnce
<1> QED
  BY <1>1, Invariance, PTL

\* Nothing is left of a settled request in pendingRequests, the timers or the decoder,
\* whichever of them settled it: the map does not grow with the requests made.
THEOREM NothingLeaks == Spec => [](\A r \in Requests : pc[r] = "settled" =>
                                      r \notin pendingRequests \cup timers \cup decoding)
<1>1. IInv => \A r \in Requests : pc[r] = "settled" =>
                 r \notin pendingRequests \cup timers \cup decoding
  BY DEF IInv, SettlePhase
<1> QED
  BY <1>1, Invariance, PTL
=============================================================================
