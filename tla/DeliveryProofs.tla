----------------------------- MODULE DeliveryProofs -----------------------------
(***************************************************************************)
(* Proofs about Delivery, for every number of messages, deliveries,        *)
(* channels and faults, every retry budget and every range of prefetch.    *)
(***************************************************************************)
EXTENDS Delivery, TLAPS

\* The deliveries whose pipeline has not ended.
Active(d) == handler[d].pc # "none"

\* A delivery that may still be settled on the live channel is the last one of a message
\* the broker takes to be held; its record is what the broker sent with it.
HoldPart ==
    \A d \in Deliveries :
        /\ handler[d].ch <= channels
        /\ handler[d].pc = "returned" => config.optimized
        /\ Active(d) /\ ~handler[d].settled /\ ~config.noAck /\ channel # 0
             /\ handler[d].ch = channel
           => /\ msg[d[1]].place = "held" /\ msg[d[1]].deliveries = d[2]
              /\ handler[d].redelivered = msg[d[1]].redelivered
              /\ handler[d].count = msg[d[1]].count

\* The live channel is the last one opened.
ChannelPart == channels >= 1 /\ channel \in {0, channels} /\ (channel = 0 => channels < MaxChannels)

\* Every return to a queue follows a delivery from it, and the broker notes it as
\* redelivered and, on a quorum queue, counts it; a retry is such a return.  A message is
\* given up on the dead letter queue for good.  Without acknowledgements none is held.
Counted(r) ==
    LET handed == IF r.place = "held" THEN 1 ELSE 0
    IN  /\ r.count + handed <= r.tries /\ r.tries <= r.deliveries
        /\ r.redelivered => 1 + handed <= r.tries
        /\ Counts(r.q) /\ r.redelivered => r.count > 0
        /\ r.retries > 0 => r.redelivered
        /\ Counts(r.q) => r.retries <= r.count
        /\ ~Counts(r.q) => r.count = 0
        /\ r.retries < Budget(r.q)
        /\ "main" \in r.spent => r.deliveries >= Budget("main")
        /\ "dlq" \in r.spent => r.place = "discarded" /\ r.tries >= Budget("dlq")
        /\ config.noAck => r.place # "held"

CountPart == \A m \in Messages : Counted(msg[m])

\* The header says what encode() did, and so what a consumer read was what was published.
Readable(r) == r.flag = r.packed /\ ~r.garbled

CodecPart == \A m \in Messages : Readable(msg[m])

\* The inductive invariant.
IInv == TypeOK /\ ChannelPart /\ HoldPart /\ CountPart /\ CodecPart /\ SettledOnce

-----------------------------------------------------------------------------
\* The subscriptions without acknowledgements are neither optimized nor retried.
LEMMA ConfigTypes ==
    ASSUME config \in Subscriptions
    PROVE  /\ config.policy \in Policies /\ config.dead \in Policies
           /\ config.quorum \in BOOLEAN /\ config.noAck \in BOOLEAN /\ config.optimized \in BOOLEAN
           /\ config.optimized => ~config.noAck
BY BoundsAssumption DEF Subscriptions, Policies

\* The records of messages and of deliveries.
MsgRecord ==
    [place : {"none", "queue", "held", "acked", "discarded", "lost"}, q : {"main", "dlq"},
     redelivered : BOOLEAN, count : Nat, packed : BOOLEAN, flag : BOOLEAN,
     deliveries : 0..MaxDeliveries, tries : Nat, retries : Nat, spent : SUBSET {"main", "dlq"},
     early : BOOLEAN, garbled : BOOLEAN]

HandlerRecord ==
    [pc : {"none", "running", "broken", "returned"}, ch : 0..MaxChannels, settled : BOOLEAN,
     redelivered : BOOLEAN, count : Nat]

\* The optimizer never leaves its range.
LEMMA PrefetchInRange ==
    ASSUME NEW p \in MinPrefetch..MaxPrefetch, NEW pace
    PROVE  NextPrefetch(p, pace) \in MinPrefetch..MaxPrefetch
<1>0. MinPrefetch \in Nat /\ MaxPrefetch \in Nat /\ p \in Int
  BY BoundsAssumption
<1>1. (p * 3) \div 2 \in Int /\ (p * 3) \div 4 \in Int
  BY <1>0
<1>2. ASSUME NEW n \in Int PROVE Clamp(n) \in MinPrefetch..MaxPrefetch
  BY <1>0 DEF Clamp
<1> QED
  BY <1>0, <1>1, <1>2 DEF NextPrefetch

\* What a requeue and a dead-lettering make of a message is a message.
LEMMA OutcomeTypes ==
    ASSUME NEW r \in MsgRecord, config \in Subscriptions
    PROVE  Requeued(r) \in MsgRecord /\ DeadLettered(r) \in MsgRecord
           /\ SuccessOutcome(r) \in MsgRecord
<1>1. SuccessOutcome(r) \in MsgRecord
  BY DEF MsgRecord, SuccessOutcome
<1>2. Requeued(r) \in MsgRecord
  <2>1. /\ r.count \in Nat /\ r.count + 1 \in Nat
        /\ TRUE \in BOOLEAN /\ "queue" \in {"none", "queue", "held", "acked", "discarded", "lost"}
    BY DEF MsgRecord
  <2>2. CASE Counts(r.q)
    BY <2>1, <2>2 DEF MsgRecord, Requeued
  <2>3. CASE ~Counts(r.q)
    BY <2>1, <2>3 DEF MsgRecord, Requeued
  <2> QED
    BY <2>2, <2>3
<1>3. DeadLettered(r) \in MsgRecord
  BY DEF MsgRecord, DeadLettered
<1> QED
  BY <1>1, <1>2, <1>3

\* The budget of a policy, which is at least the first delivery.
LEMMA BudgetPositive ==
    ASSUME config \in Subscriptions, NEW q
    PROVE  Budget(q) \in Nat /\ Budget(q) >= 1 /\ Policy(q) \in Policies /\ Counts(q) \in BOOLEAN
<1>1. Policy(q) \in Policies /\ Counts(q) \in BOOLEAN
  BY ConfigTypes DEF Policy, Counts
<1> QED
  BY <1>1, BoundsAssumption DEF Budget, Policies

\* A message in the consumer's hands that is acknowledged, requeued or rejected.
LEMMA PlainOutcomes ==
    ASSUME config \in Subscriptions, NEW r \in MsgRecord, r.place = "held", Counted(r), Readable(r)
    PROVE  /\ Counted(SuccessOutcome(r)) /\ Readable(SuccessOutcome(r))
           /\ Counted(Requeued(r)) /\ Readable(Requeued(r))
           /\ Counted(DeadLettered(r)) /\ Readable(DeadLettered(r))
<1>1. /\ Budget("main") \in Nat /\ Budget("main") >= 1 /\ Budget("dlq") \in Nat /\ Budget("dlq") >= 1
      /\ Counts(r.q) \in BOOLEAN /\ ~Counts("dlq") /\ r.q \in {"main", "dlq"}
  BY BudgetPositive DEF Counts, MsgRecord
<1>2. Readable(SuccessOutcome(r)) /\ Readable(Requeued(r)) /\ Readable(DeadLettered(r))
  BY DEF MsgRecord, Readable, SuccessOutcome, Requeued, DeadLettered
<1>3. Counted(SuccessOutcome(r))
  BY <1>1 DEF SuccessOutcome, MsgRecord, Counted
<1>4. Counted(Requeued(r))
  BY <1>1 DEF Requeued, MsgRecord, Counted
<1>5. Counted(DeadLettered(r))
  BY <1>1 DEF DeadLettered, MsgRecord, Counted
<1> QED
  BY <1>2, <1>3, <1>4, <1>5

\* The arithmetic of the budget: `count` returns of a message that was handed out
\* `deliveries` times, of which `retries` were retries; `quorum` queues count them.
LEMMA RetryArithmetic ==
    ASSUME NEW count \in Nat, NEW retries \in Nat, NEW deliveries \in Nat, NEW limit \in Nat,
           NEW redelivered \in BOOLEAN, NEW quorum \in BOOLEAN,
           count + 1 <= deliveries, redelivered => 2 <= deliveries,
           quorum /\ redelivered => count > 0, retries > 0 => redelivered,
           quorum => retries <= count, ~quorum => count = 0
    PROVE  /\ ~redelivered => retries + 1 < 2
           /\ redelivered => deliveries >= 2
           /\ quorum => IF IF count > 0 THEN count + 1 < limit ELSE ~redelivered /\ limit > 1
                          THEN retries + 1 < limit
                          ELSE deliveries >= limit
OBVIOUS

\* #shouldRequeue() against the budget: a retry stays below it, and a message is given up
\* for its failures only when its deliveries have used it up.
LEMMA RetryWithinBudget ==
    ASSUME config \in Subscriptions, NEW r \in MsgRecord, r.place = "held", Counted(r),
           NEW h \in HandlerRecord, h.count = r.count, h.redelivered = r.redelivered,
           NEW retryable \in BOOLEAN
    PROVE  /\ ShouldRequeue(h, r.q, retryable) => retryable /\ r.retries + 1 < Budget(r.q)
           /\ ~ShouldRequeue(h, r.q, retryable) /\ retryable => r.tries >= Budget(r.q)
<1> DEFINE counts == Counts(r.q)
<1>1. /\ Attempts \in Nat /\ Attempts >= 1
      /\ r.count \in Nat /\ r.retries \in Nat /\ r.tries \in Nat
      /\ r.redelivered \in BOOLEAN /\ Policy(r.q) \in {"none", "once", "attempts"}
      /\ counts \in BOOLEAN
  BY BudgetPositive, BoundsAssumption DEF MsgRecord, Policies
<1>0. /\ r.count + 1 <= r.tries
      /\ r.redelivered => 2 <= r.tries
      /\ counts /\ r.redelivered => r.count > 0
      /\ r.retries > 0 => r.redelivered
      /\ counts => r.retries <= r.count
      /\ ~counts => r.count = 0
  BY <1>1 DEF Counted
<1> HIDE DEF counts
<1>2. CASE ~retryable \/ Policy(r.q) = "none"
  <2>1. ~ShouldRequeue(h, r.q, retryable)
    BY <1>2 DEF ShouldRequeue
  <2>2. retryable => Budget(r.q) = 1
    BY <1>2 DEF Budget
  <2>3. r.tries >= 1
    BY <1>0, <1>1
  <2> QED
    BY <2>1, <2>2, <2>3
<1>3. CASE retryable /\ Policy(r.q) = "once"
  <2>1. ShouldRequeue(h, r.q, retryable) <=> ~r.redelivered
    BY <1>3 DEF ShouldRequeue
  <2>2. Budget(r.q) = 2
    BY <1>3 DEF Budget
  <2>3. /\ ~r.redelivered => r.retries + 1 < 2
        /\ r.redelivered => r.tries >= 2
    BY <1>0, <1>1, RetryArithmetic
  <2> QED
    BY <1>1, <1>3, <2>1, <2>2, <2>3, Zenon
<1>4. CASE retryable /\ Policy(r.q) = "attempts"
  <2>1. ShouldRequeue(h, r.q, retryable) <=>
          IF r.count > 0 THEN r.count + 1 < Attempts ELSE ~r.redelivered /\ Attempts > 1
    BY <1>4 DEF ShouldRequeue
  <2>2. Budget(r.q) = IF counts \/ Attempts < 2 THEN Attempts ELSE 2
    BY <1>4 DEF Budget, counts
  <2>3. CASE counts
    <3>1. IF IF r.count > 0 THEN r.count + 1 < Attempts ELSE ~r.redelivered /\ Attempts > 1
            THEN r.retries + 1 < Attempts
            ELSE r.tries >= Attempts
      BY <1>0, <1>1, <2>3, RetryArithmetic
    <3>2. Budget(r.q) = Attempts
      BY <2>2, <2>3
    <3> QED
      BY <1>4, <2>1, <3>1, <3>2
  <2>4. CASE ~counts
    <3>1. IF ~r.redelivered /\ Attempts > 1
            THEN r.retries + 1 < 2
            ELSE (Attempts < 2 /\ r.tries >= Attempts) \/ r.tries >= 2
      BY <1>0, <1>1, <2>4
    <3>2. Budget(r.q) = IF Attempts < 2 THEN Attempts ELSE 2
      BY <2>2, <2>4
    <3>3. ShouldRequeue(h, r.q, retryable) <=> ~r.redelivered /\ Attempts > 1
      <4>1. ~(r.count > 0)
        BY <1>0, <1>1, <2>4
      <4> QED
        BY <2>1, <4>1
    <3>4. CASE Attempts < 2
      <4>1. ~(Attempts > 1) /\ Budget(r.q) = Attempts
        BY <1>1, <3>2, <3>4
      <4>2. r.tries >= Attempts
        BY <1>0, <1>1, <3>4
      <4> QED
        BY <3>3, <4>1, <4>2, Zenon
    <3>5. CASE ~(Attempts < 2)
      <4>1. Budget(r.q) = 2
        BY <3>2, <3>5
      <4>2. ~r.redelivered /\ Attempts > 1 => r.retries + 1 < 2
        BY <3>1
      <4>3. ~(~r.redelivered /\ Attempts > 1) => r.tries >= 2
        BY <1>1, <3>1, <3>5
      <4> QED
        BY <1>4, <3>3, <4>1, <4>2, <4>3, Zenon
    <3> QED
      BY <3>4, <3>5
  <2> QED
    BY <1>1, <2>3, <2>4
<1> QED
  BY <1>1, <1>2, <1>3, <1>4

\* A message whose handler failed.
LEMMA FailureOutcome ==
    ASSUME IInv, NEW d \in Deliveries, Holds(d),
           handler[d].count = msg[d[1]].count, handler[d].redelivered = msg[d[1]].redelivered,
           NEW retryable \in BOOLEAN, NEW isError
    PROVE  LET r == FailedOutcome(d, retryable, isError)
           IN  r \in MsgRecord /\ Counted(r) /\ Readable(r)
<1> DEFINE r == msg[d[1]]
           retried == [r EXCEPT !.retries = @ + 1]
           given == [r EXCEPT !.spent = IF retryable THEN @ \cup {r.q} ELSE @]
<1>1. /\ config \in Subscriptions /\ r \in MsgRecord /\ handler[d] \in HandlerRecord
      /\ r.place = "held" /\ Counted(r) /\ Readable(r)
  BY DEF IInv, TypeOK, MsgRecord, HandlerRecord, CountPart, CodecPart, Deliveries, Holds
<1>2. /\ Budget("main") \in Nat /\ Budget("main") >= 1 /\ Budget("dlq") \in Nat /\ Budget("dlq") >= 1
      /\ Counts(r.q) \in BOOLEAN /\ ~Counts("dlq") /\ r.q \in {"main", "dlq"}
  BY <1>1, BudgetPositive DEF Counts, MsgRecord
<1>3. CASE ShouldRequeue(handler[d], r.q, retryable)
  <2>1. r.retries + 1 < Budget(r.q)
    BY <1>1, <1>3, RetryWithinBudget
  <2>2. retried \in MsgRecord /\ Requeued(retried) \in MsgRecord
    BY <1>1, OutcomeTypes DEF MsgRecord
  <2>3. Readable(Requeued(retried))
    BY <1>1 DEF MsgRecord, Readable, Requeued
  <2>4. Counted(Requeued(retried))
    BY <1>1, <1>2, <2>1 DEF MsgRecord, Counted, Requeued
  <2> QED
    BY <1>3, <2>2, <2>3, <2>4 DEF FailedOutcome, Described
<1>4. CASE ~ShouldRequeue(handler[d], r.q, retryable)
  <2>1. retryable => r.tries >= Budget(r.q)
    BY <1>1, <1>4, RetryWithinBudget
  <2>2. given \in MsgRecord
    <3>1. r.spent \cup {r.q} \in SUBSET {"main", "dlq"}
      BY <1>1 DEF MsgRecord
    <3> QED
      BY <1>1, <3>1 DEF MsgRecord
  <2>3. DeadLettered(given) \in MsgRecord
    BY <1>1, <2>2, OutcomeTypes
  <2>4. Readable(DeadLettered(given))
    BY <1>1, <2>2 DEF MsgRecord, Readable, DeadLettered
  <2>5. Counted(DeadLettered(given))
    <3>1. /\ given.place = "held" /\ given.q = r.q /\ given.tries = r.tries
          /\ given.deliveries = r.deliveries /\ given.retries = r.retries /\ given.count = r.count
          /\ given.redelivered = r.redelivered
          /\ "main" \in given.spent => "main" \in r.spent \/ (retryable /\ r.q = "main")
          /\ "dlq" \in given.spent => retryable /\ r.q = "dlq"
      BY <1>1 DEF MsgRecord, Counted
    <3>2. "main" \in given.spent => given.deliveries >= Budget("main")
      <4>1. r.tries \in Nat /\ r.deliveries \in Nat /\ r.tries <= r.deliveries
        BY <1>1, BoundsAssumption DEF MsgRecord, Counted
      <4>2. "main" \in r.spent => r.deliveries >= Budget("main")
        BY <1>1 DEF Counted
      <4> QED
        BY <1>2, <2>1, <3>1, <4>1, <4>2
    <3>3. "dlq" \in given.spent => given.tries >= Budget("dlq")
      BY <2>1, <3>1
    <3> HIDE DEF given
    <3>4. CASE r.q = "dlq"
      <4>1. DeadLettered(given) = [given EXCEPT !.place = "discarded"]
        BY <3>1, <3>4 DEF DeadLettered
      <4> QED
        BY <1>1, <1>2, <2>2, <3>1, <3>2, <3>3, <3>4, <4>1 DEF MsgRecord, Counted
    <3>5. CASE r.q = "main"
      BY <1>1, <1>2, <2>2, <3>1, <3>2, <3>5 DEF MsgRecord, Counted, DeadLettered
    <3> QED
      BY <1>2, <3>4, <3>5
  <2> QED
    BY <1>4, <2>3, <2>4, <2>5 DEF FailedOutcome, Described
<1> QED
  BY <1>3, <1>4

-----------------------------------------------------------------------------
\* What the invariant says of the records, in the form the steps need it.
LEMMA Records ==
    ASSUME IInv
    PROVE  /\ config \in Subscriptions /\ config.noAck \in BOOLEAN /\ config.optimized \in BOOLEAN
           /\ config.optimized => ~config.noAck
           /\ msg \in [Messages -> MsgRecord] /\ handler \in [Deliveries -> HandlerRecord]
           /\ channel \in Nat /\ channels \in Nat /\ MaxChannels \in Nat /\ MaxDeliveries \in Nat
           /\ \A d \in Deliveries : /\ d = <<d[1], d[2]>> /\ d[1] \in Messages
                                    /\ d[2] \in Nat
           /\ Idle \in HandlerRecord
<1>1. config \in Subscriptions /\ msg \in [Messages -> MsgRecord] /\ handler \in [Deliveries -> HandlerRecord]
  BY DEF IInv, TypeOK, MsgRecord, HandlerRecord
<1>2. channel \in Nat /\ channels \in Nat /\ MaxChannels \in Nat /\ MaxDeliveries \in Nat
  BY BoundsAssumption DEF IInv, TypeOK
<1>3. \A d \in Deliveries : d = <<d[1], d[2]>> /\ d[1] \in Messages /\ d[2] \in Nat
  BY <1>2 DEF Deliveries
<1>4. Idle \in HandlerRecord
  BY <1>2 DEF Idle, HandlerRecord
<1> QED
  BY <1>1, <1>2, <1>3, <1>4, ConfigTypes

\* A settlement that goes out is never refused: the delivery it is for is held by the
\* consumer, and no other delivery of the message can be settled any more.
LEMMA SettleKeeps ==
    ASSUME IInv, NEW d \in Deliveries, NEW h \in HandlerRecord, NEW r \in MsgRecord,
           Active(d), ~config.noAck, h = handler[d] \/ h = Idle,
           ~handler[d].settled /\ channel # 0 /\ Holds(d) => Counted(r) /\ Readable(r),
           NEW by, Settle(d, h, r, by), UNCHANGED <<config, channels>>
    PROVE  /\ UNCHANGED <<channel, refused>>
           /\ msg' \in [Messages -> MsgRecord] /\ handler' \in [Deliveries -> HandlerRecord]
           /\ HoldPart' /\ CountPart' /\ CodecPart' /\ SettledOnce'
<1> DEFINE sent == ~handler[d].settled /\ channel # 0 /\ handler[d].ch = channel
           h1 == IF sent /\ h.pc # "none" THEN [h EXCEPT !.settled = TRUE] ELSE h
<1>1. /\ msg \in [Messages -> MsgRecord] /\ handler \in [Deliveries -> HandlerRecord]
      /\ \A e \in Deliveries : e = <<e[1], e[2]>> /\ e[1] \in Messages /\ e[2] \in Nat
      /\ channels \in Nat
  BY Records
<1>2. /\ handler' = [handler EXCEPT ![d] = h1]
      /\ ~(sent /\ ~Holds(d)) => /\ msg' = [msg EXCEPT ![d[1]] = IF sent THEN r ELSE @]
                                  /\ UNCHANGED <<channel, refused>>
  BY DEF Settle, MaySettle, SettlementChannel
<1>3. sent => Holds(d)
  BY DEF IInv, HoldPart, Holds
<1>5. msg' = [msg EXCEPT ![d[1]] = IF sent THEN r ELSE @] /\ UNCHANGED <<channel, refused>>
  BY <1>2, <1>3
<1>4. SettledOnce'
  BY <1>5 DEF IInv, SettledOnce
<1>6. h1 \in HandlerRecord
  BY DEF HandlerRecord
<1>7. msg' \in [Messages -> MsgRecord] /\ handler' \in [Deliveries -> HandlerRecord]
  BY <1>1, <1>2, <1>5, <1>6
<1>8. /\ h1.ch <= channels /\ (h1.pc = "returned" => config.optimized)
      /\ h1.pc # "none" => h = handler[d] /\ (~sent => h1 = handler[d]) /\ (sent => h1.settled)
  BY <1>1 DEF IInv, HoldPart, Idle, HandlerRecord
<1>9. /\ handler'[d] = h1
      /\ \A e \in Deliveries : e # d => handler'[e] = handler[e]
      /\ \A m \in Messages : m # d[1] \/ ~sent => msg'[m] = msg[m]
      /\ sent => msg'[d[1]] = r /\ Counted(r) /\ Readable(r)
  <2>1. sent => Counted(r) /\ Readable(r)
    BY <1>3
  <2>2. d[1] \in Messages
    BY <1>1
  <2> QED
    BY <1>1, <1>2, <1>5, <2>1, <2>2
<1> HIDE DEF sent, h1
<1>10. HoldPart'
  <2> SUFFICES ASSUME NEW e \in Deliveries
               PROVE  /\ handler'[e].ch <= channels
                      /\ handler'[e].pc = "returned" => config.optimized
                      /\ handler'[e].pc # "none" /\ ~handler'[e].settled /\ ~config.noAck
                           /\ channel # 0 /\ handler'[e].ch = channel
                         => /\ msg'[e[1]].place = "held" /\ msg'[e[1]].deliveries = e[2]
                            /\ handler'[e].redelivered = msg'[e[1]].redelivered
                            /\ handler'[e].count = msg'[e[1]].count
    BY <1>5 DEF HoldPart, Active
  <2>1. CASE e = d
    <3>1. CASE h1.pc = "none" \/ sent
      BY <1>8, <1>9, <2>1, <3>1
    <3>2. CASE h1.pc # "none" /\ ~sent
      <4>1. handler'[e] = handler[e] /\ msg'[e[1]] = msg[e[1]]
        BY <1>1, <1>8, <1>9, <2>1, <3>2
      <4> QED
        BY <4>1 DEF IInv, HoldPart, Active
    <3> QED
      BY <3>1, <3>2
  <2>2. CASE e # d
    <3>1. handler'[e] = handler[e]
      BY <1>9, <2>2
    <3>2. CASE e[1] = d[1] /\ sent
      <4>1. msg[e[1]].deliveries = d[2]
        BY <1>3, <3>2 DEF Holds
      <4>2. d[2] # e[2]
        BY <1>1, <2>2, <3>2
      <4> QED
        BY <3>1, <4>1, <4>2 DEF IInv, HoldPart, Active
    <3>3. CASE e[1] # d[1] \/ ~sent
      <4>1. msg'[e[1]] = msg[e[1]]
        BY <1>1, <1>9, <3>3
      <4> QED
        BY <3>1, <4>1 DEF IInv, HoldPart, Active
    <3> QED
      BY <3>2, <3>3
  <2> QED
    BY <2>1, <2>2
<1>11. CountPart' /\ CodecPart'
  <2>1. \A m \in Messages : Counted(msg'[m]) /\ Readable(msg'[m])
    BY <1>9 DEF IInv, CountPart, CodecPart
  <2>2. \A m \in Messages : Readable(msg[m])'
    BY <2>1 DEF Readable
  <2>3. ASSUME NEW m \in Messages PROVE Counted(msg[m])'
    BY <2>1 DEF Counted, Budget, Policy, Counts
  <2> QED
    BY <2>2, <2>3 DEF CountPart, CodecPart
<1> QED
  BY <1>4, <1>5, <1>7, <1>10, <1>11

\* A step that leaves the messages, the deliveries and the channel alone keeps all that
\* is said of them.
LEMMA FrameKeeps ==
    ASSUME IInv, UNCHANGED <<config, msg, handler, channel, channels, refused>>
    PROVE  ChannelPart' /\ HoldPart' /\ CountPart' /\ CodecPart' /\ SettledOnce'
<1>1. ChannelPart' /\ SettledOnce' /\ CodecPart'
  BY DEF IInv, ChannelPart, SettledOnce, CodecPart, Readable
<1>2. HoldPart'
  BY DEF IInv, HoldPart, Active
<1>3. CountPart'
  BY DEF IInv, CountPart, Counted, Budget, Policy, Counts
<1> QED
  BY <1>1, <1>2, <1>3

\* The pipeline of a delivery without acknowledgements ends: nothing is settled.
LEMMA EndUnacknowledged ==
    ASSUME IInv, NEW d \in Deliveries, config.noAck, handler' = [handler EXCEPT ![d] = Idle],
           UNCHANGED <<config, msg, channel, channels, refused>>
    PROVE  /\ handler' \in [Deliveries -> HandlerRecord]
           /\ ChannelPart' /\ HoldPart' /\ CountPart' /\ CodecPart' /\ SettledOnce'
<1>1. handler' \in [Deliveries -> HandlerRecord]
  BY Records
<1>2. ChannelPart' /\ SettledOnce' /\ CodecPart'
  BY DEF IInv, ChannelPart, SettledOnce, CodecPart, Readable
<1>3. HoldPart'
  <2>1. /\ \A e \in Deliveries : handler'[e] = handler[e] \/ handler'[e] = Idle
        /\ channels \in Nat
    BY Records
  <2>2. Idle.ch = 0 /\ Idle.pc = "none"
    BY DEF Idle
  <2> HIDE DEF Idle
  <2> QED
    BY <2>1, <2>2 DEF IInv, HoldPart, Active
<1>4. CountPart'
  BY DEF IInv, CountPart, Counted, Budget, Policy, Counts
<1> QED
  BY <1>1, <1>2, <1>3, <1>4

\* A message that is published.
LEMMA PublishKeeps ==
    ASSUME IInv, NEW m \in Messages, NEW packed \in BOOLEAN, NEW given \in BOOLEAN,
           PublishMessage(m, packed, given)
    PROVE  IInv'
<1> DEFINE r == [msg[m] EXCEPT !.place = "queue", !.packed = packed, !.flag = packed]
<1>1. /\ msg \in [Messages -> MsgRecord] /\ config \in Subscriptions
      /\ \A e \in Deliveries : e[1] \in Messages
  BY Records
<1>2. /\ msg[m].place = "none" /\ msg' = [msg EXCEPT ![m] = r]
      /\ UNCHANGED <<config, setup, handler, session, prefetch, faults, refused>>
  BY DEF PublishMessage, BuildOptions
<1>3. r \in MsgRecord /\ Counted(r) /\ Readable(r) /\ r.place = "queue"
  <2>1. Counted(msg[m]) /\ Readable(msg[m]) /\ msg[m] \in MsgRecord
    BY <1>1 DEF IInv, CountPart, CodecPart
  <2>2. r \in MsgRecord /\ r.place = "queue" /\ Readable(r)
    BY <2>1 DEF MsgRecord, Readable
  <2>3. Counted(r)
    BY <1>2, <2>1 DEF Counted, MsgRecord
  <2> QED
    BY <2>2, <2>3
<1> HIDE DEF r
<1>4. msg' \in [Messages -> MsgRecord]
  BY <1>1, <1>2, <1>3
<1>5. TypeOK'
  BY <1>2, <1>4 DEF IInv, TypeOK, MsgRecord, setup, session, opened
<1>6. ChannelPart' /\ SettledOnce'
  BY <1>2 DEF IInv, ChannelPart, SettledOnce, session, opened
<1>7. HoldPart'
  BY <1>1, <1>2, <1>3 DEF IInv, HoldPart, Active, session, opened
<1>8. \A n \in Messages : Counted(msg'[n]) /\ Readable(msg'[n])
  BY <1>1, <1>2, <1>3 DEF IInv, CountPart, CodecPart
<1>9. CountPart' /\ CodecPart'
  <2>1. \A n \in Messages : Readable(msg[n])'
    BY <1>8 DEF Readable
  <2>2. ASSUME NEW n \in Messages PROVE Counted(msg[n])'
    BY <1>2, <1>8 DEF Counted, Budget, Policy, Counts
  <2> QED
    BY <2>1, <2>2 DEF CountPart, CodecPart
<1> QED
  BY <1>5, <1>6, <1>7, <1>9 DEF IInv

\* A message that is delivered: what decode() makes of it is what was published, since
\* the header says what encode() did.
LEMMA DeliverKeeps ==
    ASSUME IInv, NEW m \in Messages, NEW corrupt \in BOOLEAN, Deliver(m, corrupt)
    PROVE  IInv'
<1> DEFINE garbled == \E p \in Payloads \ {"numeral"} :
                         Decode(p, msg[m].packed, IsCompressed(msg[m])) # p
           r == [msg[m] EXCEPT !.place = IF config.noAck THEN "acked" ELSE "held",
                               !.deliveries = @ + 1, !.tries = @ + 1, !.garbled = garbled]
           d == <<m, msg[m].deliveries + 1>>
           h == [pc |-> IF corrupt THEN "broken" ELSE "running", ch |-> channel,
                 settled |-> FALSE, redelivered |-> msg[m].redelivered, count |-> msg[m].count]
<1>1. /\ msg \in [Messages -> MsgRecord] /\ handler \in [Deliveries -> HandlerRecord]
      /\ config \in Subscriptions /\ config.noAck \in BOOLEAN
      /\ \A e \in Deliveries : e = <<e[1], e[2]>> /\ e[1] \in Messages
      /\ channel \in 0..MaxChannels /\ channel <= channels /\ MaxDeliveries \in Nat
      /\ channels \in Nat
  <2>1. channel \in 0..MaxChannels /\ channel <= channels
    BY Records DEF IInv, TypeOK, ChannelPart
  <2> QED
    BY <2>1, Records
<1>2. /\ msg[m].place = "queue" /\ msg[m].deliveries < MaxDeliveries
      /\ msg' = [msg EXCEPT ![m] = r] /\ handler' = [handler EXCEPT ![d] = h]
      /\ UNCHANGED <<config, setup, session, prefetch, faults, refused>>
  BY DEF Deliver
<1>3. ~garbled
  <2>1. msg[m].packed = msg[m].flag
    BY DEF IInv, CodecPart, Readable
  <2> QED
    BY <2>1 DEF Payloads, Decode, IsCompressed, FromBuffer
<1>4. garbled = FALSE
  BY <1>3
<1> HIDE DEF garbled
<1>5. d \in Deliveries /\ h \in HandlerRecord
  <2>1. msg[m].deliveries \in 0..MaxDeliveries /\ msg[m].redelivered \in BOOLEAN /\ msg[m].count \in Nat
    BY <1>1 DEF MsgRecord
  <2>2. msg[m].deliveries + 1 \in 1..MaxDeliveries
    BY <1>1, <1>2, <2>1
  <2> QED
    BY <1>1, <2>1, <2>2 DEF Deliveries, HandlerRecord
<1>6. /\ r \in MsgRecord /\ r.place \in {"acked", "held"} /\ (~config.noAck => r.place = "held")
      /\ r.deliveries = msg[m].deliveries + 1 /\ r.redelivered = msg[m].redelivered
      /\ r.count = msg[m].count
  <2>1. msg[m].deliveries + 1 \in 0..MaxDeliveries
    BY <1>1, <1>2 DEF MsgRecord
  <2>2. garbled \in BOOLEAN
    BY <1>4
  <2>3. ASSUME NEW s \in MsgRecord, NEW p \in {"acked", "held"}, NEW n \in 0..MaxDeliveries,
               NEW k \in Nat, NEW g \in BOOLEAN
        PROVE  [s EXCEPT !.place = p, !.deliveries = n, !.tries = k, !.garbled = g] \in MsgRecord
    BY DEF MsgRecord
  <2>4. r \in MsgRecord
    <3>1. msg[m].tries + 1 \in Nat
      BY <1>1 DEF MsgRecord
    <3> QED
      BY <1>1, <2>1, <2>2, <2>3, <3>1
  <2> QED
    BY <1>1, <2>4 DEF MsgRecord
<1>7. Counted(r) /\ Readable(r)
  <2>1. Counted(msg[m]) /\ Readable(msg[m]) /\ Budget("main") \in Nat /\ msg[m] \in MsgRecord
    BY <1>1, BudgetPositive DEF IInv, CountPart, CodecPart
  <2>2. Readable(r)
    BY <1>4, <2>1 DEF Readable, MsgRecord
  <2>3. Counted(r)
    BY <1>1, <1>2, <2>1 DEF Counted, MsgRecord
  <2> QED
    BY <2>2, <2>3
<1>8. TypeOK'
  <2>1. msg' \in [Messages -> MsgRecord] /\ handler' \in [Deliveries -> HandlerRecord]
    BY <1>1, <1>2, <1>5, <1>6
  <2> QED
    BY <1>2, <2>1 DEF IInv, TypeOK, MsgRecord, HandlerRecord, setup, session, opened
<1>9. ChannelPart' /\ SettledOnce'
  BY <1>2 DEF IInv, ChannelPart, SettledOnce, session, opened
<1>10. HoldPart'
  <2>1. h.ch = channel /\ h.pc # "returned" /\ h.redelivered = msg[m].redelivered /\ h.count = msg[m].count
    OBVIOUS
  <2>2. d[1] = m /\ d[2] = msg[m].deliveries + 1
    OBVIOUS
  <2> HIDE DEF h, d, r
  <2> SUFFICES ASSUME NEW e \in Deliveries
               PROVE  /\ handler'[e].ch <= channels
                      /\ handler'[e].pc = "returned" => config.optimized
                      /\ handler'[e].pc # "none" /\ ~handler'[e].settled /\ ~config.noAck
                           /\ channel # 0 /\ handler'[e].ch = channel
                         => /\ msg'[e[1]].place = "held" /\ msg'[e[1]].deliveries = e[2]
                            /\ handler'[e].redelivered = msg'[e[1]].redelivered
                            /\ handler'[e].count = msg'[e[1]].count
    BY <1>2 DEF HoldPart, Active, session, opened
  <2>3. CASE e = d
    BY <1>1, <1>2, <1>5, <1>6, <2>1, <2>2, <2>3
  <2>4. CASE e # d
    <3>1. handler'[e] = handler[e]
      BY <1>1, <1>2, <1>5, <2>4
    <3>2. e[1] # m => msg'[e[1]] = msg[e[1]]
      BY <1>1, <1>2
    <3> QED
      BY <1>2, <3>1, <3>2 DEF IInv, HoldPart, Active
  <2> QED
    BY <2>3, <2>4
<1>11. CountPart' /\ CodecPart'
  <2> HIDE DEF r
  <2>1. \A n \in Messages : Counted(msg'[n]) /\ Readable(msg'[n])
    BY <1>1, <1>2, <1>7 DEF IInv, CountPart, CodecPart
  <2>2. \A n \in Messages : Readable(msg[n])'
    BY <2>1 DEF Readable
  <2>3. ASSUME NEW n \in Messages PROVE Counted(msg[n])'
    BY <1>2, <2>1 DEF Counted, Budget, Policy, Counts
  <2> QED
    BY <2>2, <2>3 DEF CountPart, CodecPart
<1> QED
  BY <1>8, <1>9, <1>10, <1>11 DEF IInv

\* Whatever becomes of a delivery that is settled, the whole invariant is kept.
LEMMA SettlementKeeps ==
    ASSUME IInv, NEW d \in Deliveries, NEW h \in HandlerRecord, NEW r \in MsgRecord,
           Active(d), ~config.noAck, h = handler[d] \/ h = Idle,
           ~handler[d].settled /\ channel # 0 /\ Holds(d) => Counted(r) /\ Readable(r),
           NEW by, Settle(d, h, r, by), UNCHANGED <<config, setup, opened, prefetch>>,
           faults' \in 0..MaxFaults
    PROVE  IInv'
<1>1. UNCHANGED <<config, channels>>
  BY DEF opened
<1>2. /\ UNCHANGED <<channel, refused>>
      /\ msg' \in [Messages -> MsgRecord] /\ handler' \in [Deliveries -> HandlerRecord]
      /\ HoldPart' /\ CountPart' /\ CodecPart' /\ SettledOnce'
  BY <1>1, SettleKeeps
<1>3. ChannelPart'
  BY <1>2 DEF IInv, ChannelPart, opened
<1>5. TypeOK'
  BY <1>2 DEF IInv, TypeOK, MsgRecord, HandlerRecord, setup, opened
<1> QED
  BY <1>2, <1>3, <1>5 DEF IInv

\* ackMessage(), and the ack that ends a pipeline.
LEMMA AckKeeps ==
    ASSUME IInv, NEW d \in Deliveries, Active(d), ~config.noAck,
           NEW h \in HandlerRecord, h = handler[d] \/ h = Idle,
           NEW by, Settle(d, h, SuccessOutcome(msg[d[1]]), by),
           UNCHANGED <<config, setup, opened, prefetch, faults>>
    PROVE  IInv'
<1>1. /\ config \in Subscriptions /\ msg[d[1]] \in MsgRecord
      /\ Counted(msg[d[1]]) /\ Readable(msg[d[1]])
  BY Records DEF IInv, CountPart, CodecPart
<1>2. SuccessOutcome(msg[d[1]]) \in MsgRecord
  BY <1>1, OutcomeTypes
<1>3. Holds(d) => Counted(SuccessOutcome(msg[d[1]])) /\ Readable(SuccessOutcome(msg[d[1]]))
  BY <1>1, PlainOutcomes DEF Holds
<1>4. faults' \in 0..MaxFaults
  BY DEF IInv, TypeOK
<1> QED
  BY <1>2, <1>3, <1>4, SettlementKeeps

\* nackMessage(), with and without requeue.
LEMMA NackKeeps ==
    ASSUME IInv, ~config.noAck, NEW d \in Deliveries, NEW requeue \in BOOLEAN, NackMessage(d, requeue)
    PROVE  IInv'
<1> DEFINE r == IF requeue THEN Requeued(msg[d[1]]) ELSE DeadLettered(msg[d[1]])
<1>1. /\ config \in Subscriptions /\ msg[d[1]] \in MsgRecord /\ handler[d] \in HandlerRecord
      /\ Counted(msg[d[1]]) /\ Readable(msg[d[1]])
  BY Records DEF IInv, CountPart, CodecPart
<1>2. r \in MsgRecord
  BY <1>1, OutcomeTypes
<1>3. Holds(d) => Counted(r) /\ Readable(r)
  BY <1>1, PlainOutcomes DEF Holds
<1>4. faults' \in 0..MaxFaults
  BY BoundsAssumption DEF NackMessage, Fault, IInv, TypeOK
<1>5. /\ Active(d) /\ Settle(d, handler[d], r, "handler")
      /\ UNCHANGED <<config, setup, opened, prefetch>>
  BY DEF NackMessage, Active
<1> HIDE DEF r
<1> QED
  BY <1>1, <1>2, <1>3, <1>4, <1>5, SettlementKeeps

\* A handler settles a delivery of a subscription without acknowledgements: the broker
\* closes the channel, which holds nothing.
LEMMA RefusedKeeps ==
    ASSUME IInv, config.noAck, NEW d \in Deliveries, NEW r, Settle(d, handler[d], r, "handler"),
           UNCHANGED <<config, setup, opened, prefetch>>, faults' \in 0..MaxFaults
    PROVE  IInv'
<1> DEFINE sent == MaySettle(d) /\ channel # 0 /\ SettlementChannel(d) = channel
           h1 == IF sent /\ handler[d].pc # "none" THEN [handler[d] EXCEPT !.settled = TRUE] ELSE handler[d]
<1>1. /\ msg \in [Messages -> MsgRecord] /\ handler \in [Deliveries -> HandlerRecord]
      /\ d[1] \in Messages /\ \A m \in Messages : msg[m].place # "held"
  BY Records DEF IInv, CountPart, Counted
<1>2. ~Holds(d)
  BY <1>1 DEF Holds
<1>3. /\ UNCHANGED msg /\ refused' \subseteq refused \cup {"handler"}
      /\ UNCHANGED channel \/ (channel' = 0 /\ channels < MaxChannels)
  <2>1. CASE sent
    <3>1. ChannelCloses /\ refused' = refused \cup {"handler"}
      BY <1>2, <2>1 DEF Settle
    <3>2. UNCHANGED msg
      BY <1>1, <3>1 DEF ChannelCloses
    <3> QED
      BY <3>1, <3>2 DEF ChannelCloses
  <2>2. CASE ~sent
    <3>1. msg' = [msg EXCEPT ![d[1]] = msg[d[1]]] /\ UNCHANGED <<channel, refused>>
      BY <2>2 DEF Settle
    <3> QED
      BY <1>1, <3>1
  <2> QED
    BY <2>1, <2>2
<1>4. handler' = [handler EXCEPT ![d] = h1] /\ UNCHANGED channels
  BY DEF Settle, opened
<1>5. /\ h1 \in HandlerRecord /\ h1.ch = handler[d].ch /\ h1.pc = handler[d].pc
  BY <1>1 DEF HandlerRecord
<1> HIDE DEF sent, h1
<1>6. handler' \in [Deliveries -> HandlerRecord]
  BY <1>1, <1>4, <1>5
<1>7. ChannelPart' /\ SettledOnce' /\ CodecPart' /\ channel' \in 0..MaxChannels
  BY <1>3, <1>4, BoundsAssumption
     DEF IInv, TypeOK, ChannelPart, SettledOnce, CodecPart, Readable
<1>8. CountPart'
  BY <1>3 DEF IInv, CountPart, Counted, Budget, Policy, Counts
<1>9. HoldPart'
  <2>1. \A e \in Deliveries : handler'[e].ch = handler[e].ch /\ handler'[e].pc = handler[e].pc
    BY <1>1, <1>4, <1>5
  <2> QED
    BY <1>3, <1>4, <2>1 DEF IInv, HoldPart, Active
<1>10. TypeOK'
  <2>1. refused' \subseteq {"handler", "pipeline"}
    BY <1>3 DEF IInv, TypeOK
  <2> QED
    BY <1>3, <1>6, <1>7, <2>1 DEF IInv, TypeOK, HandlerRecord, setup, opened
<1> QED
  BY <1>7, <1>8, <1>9, <1>10 DEF IInv

\* The handler fails: the retry policy decides.
LEMMA FailsKeeps ==
    ASSUME IInv, NEW d \in Deliveries, NEW retryable \in BOOLEAN, NEW isError \in BOOLEAN,
           HandlerFails(d, retryable, isError)
    PROVE  IInv'
<1> DEFINE r == FailedOutcome(d, retryable, isError)
<1>1. /\ config \in Subscriptions /\ config.noAck \in BOOLEAN
      /\ msg[d[1]] \in MsgRecord /\ handler[d] \in HandlerRecord /\ Idle \in HandlerRecord
  BY Records
<1>2. Active(d)
  BY DEF HandlerFails, Active
<1>3. CASE ~config.noAck
  <2>1. Settle(d, Idle, r, "pipeline") /\ UNCHANGED <<config, setup, opened, prefetch, faults>>
    BY <1>3 DEF HandlerFails
  <2>2. r \in MsgRecord
    <3> DEFINE s == msg[d[1]]
    <3>1. [s EXCEPT !.retries = @ + 1] \in MsgRecord
          /\ [s EXCEPT !.spent = IF retryable THEN @ \cup {s.q} ELSE @] \in MsgRecord
      <4>1. s.retries + 1 \in Nat /\ s.spent \cup {s.q} \in SUBSET {"main", "dlq"}
        BY <1>1 DEF MsgRecord
      <4> QED
        BY <1>1, <4>1 DEF MsgRecord
    <3> QED
      BY <1>1, <3>1, OutcomeTypes DEF FailedOutcome
  <2>3. ~handler[d].settled /\ channel # 0 /\ Holds(d) => Counted(r) /\ Readable(r)
    <3> SUFFICES ASSUME ~handler[d].settled, channel # 0, Holds(d)
                 PROVE  Counted(r) /\ Readable(r)
      OBVIOUS
    <3>1. handler[d].count = msg[d[1]].count /\ handler[d].redelivered = msg[d[1]].redelivered
      BY <1>2, <1>3 DEF IInv, HoldPart, Holds
    <3> QED
      BY <3>1, FailureOutcome
  <2>4. faults' \in 0..MaxFaults
    BY <2>1 DEF IInv, TypeOK
  <2> HIDE DEF r
  <2> QED
    BY <1>1, <1>2, <1>3, <2>1, <2>2, <2>3, <2>4, SettlementKeeps
<1>4. CASE config.noAck
  <2>1. /\ handler' = [handler EXCEPT ![d] = Idle]
        /\ UNCHANGED <<msg, channel, refused, config, setup, opened, prefetch, faults>>
    BY <1>4 DEF HandlerFails
  <2>2. /\ handler' \in [Deliveries -> HandlerRecord]
        /\ ChannelPart' /\ HoldPart' /\ CountPart' /\ CodecPart' /\ SettledOnce'
    BY <1>4, <2>1, EndUnacknowledged DEF opened
  <2> QED
    BY <2>1, <2>2 DEF IInv, TypeOK, HandlerRecord, setup, opened
<1> QED
  BY <1>1, <1>3, <1>4

\* The handler returns: with an optimizer the ack follows later.
LEMMA ReturnsKeeps ==
    ASSUME IInv, NEW d \in Deliveries, NEW pace \in {"fast", "fair", "slow"}, HandlerReturns(d, pace)
    PROVE  IInv'
<1>1. /\ config \in Subscriptions /\ config.noAck \in BOOLEAN /\ config.optimized \in BOOLEAN
      /\ config.optimized => ~config.noAck
      /\ handler \in [Deliveries -> HandlerRecord] /\ Idle \in HandlerRecord
      /\ handler[d].pc = "running" /\ Active(d)
      /\ UNCHANGED <<config, setup, opened, faults>>
  BY Records DEF HandlerReturns, Active
<1>2. CASE config.optimized
  <2>1. /\ handler' = [handler EXCEPT ![d].pc = "returned"] /\ prefetch' = Optimized(pace)
        /\ UNCHANGED <<msg, channel, refused>>
    BY <1>1, <1>2 DEF HandlerReturns
  <2>2. handler' \in [Deliveries -> HandlerRecord]
    BY <1>1, <2>1 DEF HandlerRecord
  <2>3. prefetch' \in [current : MinPrefetch..MaxPrefetch, known : Nat,
                       applied : MinPrefetch..MaxPrefetch]
    <3>1. /\ prefetch.current \in MinPrefetch..MaxPrefetch
          /\ prefetch.applied \in MinPrefetch..MaxPrefetch /\ epoch \in Nat
      BY DEF IInv, TypeOK
    <3>2. NextPrefetch(prefetch.current, pace) \in MinPrefetch..MaxPrefetch
      BY <3>1, PrefetchInRange
    <3> QED
      BY <2>1, <3>1, <3>2 DEF Optimized
  <2>4. TypeOK'
    BY <1>1, <2>1, <2>2, <2>3 DEF IInv, TypeOK, HandlerRecord, setup, opened
  <2>5. ChannelPart' /\ SettledOnce' /\ CodecPart'
    BY <1>1, <2>1 DEF IInv, ChannelPart, SettledOnce, CodecPart, Readable, opened
  <2>6. CountPart'
    BY <1>1, <2>1 DEF IInv, CountPart, Counted, Budget, Policy, Counts
  <2>7. HoldPart'
    <3>1. \A e \in Deliveries :
             /\ handler'[e].ch = handler[e].ch /\ handler'[e].settled = handler[e].settled
             /\ handler'[e].redelivered = handler[e].redelivered
             /\ handler'[e].count = handler[e].count
             /\ handler'[e].pc # "none" => handler[e].pc # "none"
      BY <1>1, <2>1 DEF HandlerRecord
    <3> QED
      BY <1>1, <1>2, <2>1, <3>1 DEF IInv, HoldPart, Active, opened
  <2> QED
    BY <2>4, <2>5, <2>6, <2>7 DEF IInv
<1>3. CASE ~config.optimized /\ ~config.noAck
  <2>1. Settle(d, Idle, SuccessOutcome(msg[d[1]]), "pipeline") /\ UNCHANGED prefetch
    BY <1>3 DEF HandlerReturns
  <2> QED
    BY <1>1, <1>3, <2>1, AckKeeps
<1>4. CASE config.noAck
  <2>1. handler' = [handler EXCEPT ![d] = Idle] /\ UNCHANGED <<msg, channel, refused, prefetch>>
    BY <1>1, <1>4 DEF HandlerReturns
  <2>2. /\ handler' \in [Deliveries -> HandlerRecord]
        /\ ChannelPart' /\ HoldPart' /\ CountPart' /\ CodecPart' /\ SettledOnce'
    BY <1>1, <1>4, <2>1, EndUnacknowledged DEF opened
  <2> QED
    BY <1>1, <2>1, <2>2 DEF IInv, TypeOK, HandlerRecord, setup, opened
<1> QED
  BY <1>1, <1>2, <1>3, <1>4

\* The channel is lost: every message held on it is requeued.
LEMMA LostKeeps ==
    ASSUME IInv, ChannelLost
    PROVE  IInv'
<1>1. /\ config \in Subscriptions /\ msg \in [Messages -> MsgRecord] /\ channels \in Nat
      /\ channels < MaxChannels /\ channel' = 0 /\ 0 \in 0..MaxChannels
      /\ msg' = [m \in Messages |-> IF msg[m].place = "held" THEN Requeued(msg[m]) ELSE msg[m]]
      /\ UNCHANGED <<config, setup, handler, channels, epoch, prefetch, faults, refused>>
  <2>1. 0 \in 0..MaxChannels
    BY BoundsAssumption
  <2> QED
    BY <2>1, Records DEF ChannelLost, ChannelCloses, opened
<1>2. \A m \in Messages : msg'[m] \in MsgRecord /\ Counted(msg'[m]) /\ Readable(msg'[m])
  <2> SUFFICES ASSUME NEW m \in Messages
               PROVE  msg'[m] \in MsgRecord /\ Counted(msg'[m]) /\ Readable(msg'[m])
    OBVIOUS
  <2>1. msg[m] \in MsgRecord /\ Counted(msg[m]) /\ Readable(msg[m])
    BY <1>1 DEF IInv, CountPart, CodecPart
  <2>2. CASE msg[m].place = "held"
    BY <1>1, <2>1, <2>2, OutcomeTypes, PlainOutcomes
  <2>3. CASE msg[m].place # "held"
    BY <1>1, <2>1, <2>3
  <2> QED
    BY <2>2, <2>3
<1>3. msg' \in [Messages -> MsgRecord]
  BY <1>1, <1>2
<1>4. TypeOK'
  BY <1>1, <1>3 DEF IInv, TypeOK, MsgRecord, setup
<1>5. ChannelPart' /\ SettledOnce'
  BY <1>1 DEF IInv, ChannelPart, SettledOnce
<1>6. HoldPart'
  BY <1>1 DEF IInv, HoldPart
<1>7. CountPart' /\ CodecPart'
  <2>1. \A n \in Messages : Readable(msg[n])'
    BY <1>2 DEF Readable
  <2>2. ASSUME NEW n \in Messages PROVE Counted(msg[n])'
    BY <1>1, <1>2 DEF Counted, Budget, Policy, Counts
  <2> QED
    BY <2>1, <2>2 DEF CountPart, CodecPart
<1> QED
  BY <1>4, <1>5, <1>6, <1>7 DEF IInv

\* A new channel: no delivery of an older one can be settled on it.
LEMMA RecreatedKeeps ==
    ASSUME IInv, Recreated
    PROVE  IInv'
<1>1. /\ channels \in Nat /\ MaxChannels \in Nat /\ channels < MaxChannels
      /\ channels' = channels + 1 /\ channel' = channels + 1
      /\ prefetch' = [prefetch EXCEPT !.applied = InitialPrefetch]
      /\ UNCHANGED <<config, setup, msg, handler, epoch, faults, refused>>
  BY Records DEF Recreated, IInv, ChannelPart
<1>2. channels' \in 0..MaxChannels /\ channel' \in 0..MaxChannels
  BY <1>1
<1>3. prefetch' \in [current : MinPrefetch..MaxPrefetch, known : Nat,
                     applied : MinPrefetch..MaxPrefetch]
  BY <1>1, BoundsAssumption DEF IInv, TypeOK
<1>4. TypeOK'
  BY <1>1, <1>2, <1>3 DEF IInv, TypeOK, setup
<1>5. ChannelPart' /\ SettledOnce' /\ CodecPart'
  BY <1>1 DEF IInv, ChannelPart, SettledOnce, CodecPart, Readable
<1>6. CountPart'
  BY <1>1 DEF IInv, CountPart, Counted, Budget, Policy, Counts
<1>7. HoldPart'
  <2>1. \A e \in Deliveries : handler[e].ch \in Nat /\ handler[e].ch <= channels
    BY Records DEF IInv, HoldPart, HandlerRecord
  <2> QED
    BY <1>1, <2>1 DEF IInv, HoldPart, Active
<1> QED
  BY <1>4, <1>5, <1>6, <1>7 DEF IInv

\* createQueue(), its exchange, and the codec's setting.
LEMMA SetupKeeps ==
    ASSUME IInv, \/ SetupDeadLetterExchange \/ CreateQueue \/ CreateQueueStep
                 \/ CreateQueueFails \/ SetCompression \/ RecreationStarts
    PROVE  IInv'
<1>1. UNCHANGED <<config, msg, handler, channel, channels, refused, prefetch>>
  BY DEF SetupDeadLetterExchange, CreateQueue, CreateQueueStep, CreateQueueFails, SetCompression,
         RecreationStarts, session, opened
<1>2. ChannelPart' /\ HoldPart' /\ CountPart' /\ CodecPart' /\ SettledOnce'
  BY <1>1, FrameKeeps
<1>3. /\ topology' \subseteq {"dlx", "queue", "dlq", "bound"} /\ compression' \in BOOLEAN
      /\ creating' \in {"idle", "queue", "dlq", "bind", "done", "failed"}
  BY DEF IInv, TypeOK, SetupDeadLetterExchange, CreateQueue, CreateQueueStep, CreateQueueFails,
         SetCompression, RecreationStarts, AfterStep, setup
<1>4. faults' \in 0..MaxFaults /\ epoch' \in Nat
  BY BoundsAssumption
     DEF IInv, TypeOK, SetupDeadLetterExchange, CreateQueue, CreateQueueStep, CreateQueueFails,
         SetCompression, RecreationStarts, Fault, session, opened
<1>5. TypeOK'
  BY <1>1, <1>3, <1>4 DEF IInv, TypeOK
<1> QED
  BY <1>2, <1>5 DEF IInv

\* The initial states.
LEMMA InitHolds == ASSUME Init PROVE IInv
<1>1. /\ config \in Subscriptions /\ topology = {} /\ creating = "idle" /\ compression = FALSE
      /\ msg = [m \in Messages |-> Unpublished] /\ handler = [d \in Deliveries |-> Idle]
      /\ channel = 1 /\ channels = 1 /\ epoch = 1 /\ faults = 0 /\ refused = {}
      /\ prefetch = [current |-> InitialPrefetch, known |-> 1, applied |-> InitialPrefetch]
  BY DEF Init
<1>2. /\ MaxDeliveries \in Nat /\ MaxChannels \in Nat /\ 1 \in 0..MaxChannels /\ 0 \in 0..MaxChannels
      /\ 0 \in 0..MaxFaults /\ 0 \in 0..MaxDeliveries /\ InitialPrefetch \in MinPrefetch..MaxPrefetch
  BY BoundsAssumption
<1>3. Unpublished \in MsgRecord /\ Idle \in HandlerRecord
  BY <1>2 DEF Unpublished, MsgRecord, Idle, HandlerRecord
<1>4. Counted(Unpublished) /\ Readable(Unpublished)
  <2>1. Budget("main") \in Nat /\ Budget("main") >= 1
    BY <1>1, BudgetPositive
  <2> QED
    BY <2>1 DEF Counted, Readable, Unpublished
<1>5. TypeOK
  <2>1. msg \in [Messages -> MsgRecord] /\ handler \in [Deliveries -> HandlerRecord]
    BY <1>1, <1>3
  <2>2. prefetch \in [current : MinPrefetch..MaxPrefetch, known : Nat,
                      applied : MinPrefetch..MaxPrefetch]
    BY <1>1, <1>2
  <2> QED
    BY <1>1, <1>2, <2>1, <2>2 DEF TypeOK, MsgRecord, HandlerRecord
<1>6. ChannelPart /\ SettledOnce
  BY <1>1 DEF ChannelPart, SettledOnce
<1>7. HoldPart
  <2>1. \A d \in Deliveries : handler[d].ch = 0 /\ handler[d].pc = "none"
    BY <1>1 DEF Idle
  <2> QED
    BY <1>1, <2>1 DEF HoldPart, Active
<1>8. CountPart /\ CodecPart
  BY <1>1, <1>4 DEF CountPart, CodecPart
<1> QED
  BY <1>5, <1>6, <1>7, <1>8 DEF IInv

\* Every step keeps the invariant.
LEMMA StepKeeps == ASSUME IInv, [Next]_vars PROVE IInv'
<1>1. CASE \/ SetupDeadLetterExchange \/ CreateQueue \/ CreateQueueStep
           \/ CreateQueueFails \/ SetCompression \/ RecreationStarts
  BY <1>1, SetupKeeps
<1>2. CASE \E m \in Messages, packed, given \in BOOLEAN : PublishMessage(m, packed, given)
  BY <1>2, PublishKeeps
<1>3. ASSUME NEW d \in Deliveries, AckMessage(d) PROVE IInv'
  <2>1. handler[d] \in HandlerRecord /\ faults' \in 0..MaxFaults
    BY <1>3, Records DEF AckMessage, IInv, TypeOK
  <2>2. /\ Active(d) /\ Settle(d, handler[d], SuccessOutcome(msg[d[1]]), "handler")
        /\ UNCHANGED <<config, setup, opened, prefetch, faults>>
    BY <1>3 DEF AckMessage, Active, SuccessOutcome
  <2> QED
    BY <2>1, <2>2, AckKeeps, RefusedKeeps
<1>4. ASSUME NEW d \in Deliveries, NEW requeue \in BOOLEAN, NackMessage(d, requeue) PROVE IInv'
  <2>1. CASE ~config.noAck
    BY <1>4, <2>1, NackKeeps
  <2>2. CASE config.noAck
    <3>1. faults' \in 0..MaxFaults
      BY <1>4, BoundsAssumption DEF NackMessage, Fault, IInv, TypeOK
    <3>2. \E r : Settle(d, handler[d], r, "handler")
      BY <1>4 DEF NackMessage
    <3>3. UNCHANGED <<config, setup, opened, prefetch>>
      BY <1>4 DEF NackMessage
    <3> QED
      BY <2>2, <3>1, <3>2, <3>3, RefusedKeeps
  <2> QED
    BY <2>1, <2>2
<1>5. CASE ChannelLost
  BY <1>5, LostKeeps
<1>6. CASE \E m \in Messages, corrupt \in BOOLEAN : Deliver(m, corrupt)
  BY <1>6, DeliverKeeps
<1>7. ASSUME NEW d \in Deliveries, HandlerStep(d) PROVE IInv'
  <2>1. CASE \E retryable, isError \in BOOLEAN : HandlerFails(d, retryable, isError)
    BY <2>1, FailsKeeps
  <2>2. CASE \E pace \in {"fast", "fair", "slow"} : HandlerReturns(d, pace)
    BY <2>2, ReturnsKeeps
  <2>3. CASE HandlerAcks(d)
    <3>1. /\ handler[d].pc = "returned" /\ Settle(d, Idle, SuccessOutcome(msg[d[1]]), "pipeline")
          /\ UNCHANGED <<config, setup, opened, prefetch, faults>>
      BY <2>3 DEF HandlerAcks
    <3>2. Active(d) /\ ~config.noAck /\ Idle \in HandlerRecord
      BY <3>1, Records DEF Active, IInv, HoldPart
    <3> QED
      BY <3>1, <3>2, AckKeeps
  <2> QED
    BY <1>7, <2>1, <2>2, <2>3 DEF HandlerStep
<1>8. CASE Recreated
  BY <1>8, RecreatedKeeps
<1>9. CASE UNCHANGED vars
  <2>1. ChannelPart' /\ HoldPart' /\ CountPart' /\ CodecPart' /\ SettledOnce'
    BY <1>9, FrameKeeps DEF vars
  <2>2. TypeOK'
    BY <1>9 DEF IInv, TypeOK, vars
  <2> QED
    BY <2>1, <2>2 DEF IInv
<1> QED
  BY <1>1, <1>2, <1>3, <1>4, <1>5, <1>6, <1>7, <1>8, <1>9 DEF Next, Progress

-----------------------------------------------------------------------------
\* The inductive invariant holds in every reachable state.
THEOREM Invariance == Spec => []IInv
<1>1. Init => IInv
  BY InitHolds
<1>2. IInv /\ [Next]_vars => IInv'
  BY StepKeeps
<1> QED
  BY <1>1, <1>2, PTL DEF Spec

\* The state of the queue, of the codec and of the pipeline keeps its types; the
\* optimizer's prefetch stays in its range.
THEOREM TypeCorrect == Spec => []TypeOK
<1>1. IInv => TypeOK
  BY DEF IInv
<1> QED
  BY <1>1, Invariance, PTL

\* Acks, nacks and the settlement that ends a pipeline, in any order and across lost
\* channels, never send the broker a tag it does not know (consumer-manager.js,
\* __ackSettled and the channel captured with the delivery), except for what a handler
\* settles in a subscription that has no acknowledgements.
THEOREM OnceHolds == Spec => []SettledOnce
<1>1. IInv => SettledOnce
  BY DEF IInv
<1> QED
  BY <1>1, Invariance, PTL

\* #shouldRequeue() never retries a message as often as its policy has deliveries, and
\* gives none up before its deliveries are spent, for every value of `attempts`.
THEOREM BudgetHolds == Spec => []RetryBudget
<1>1. IInv => RetryBudget
  BY DEF IInv, CountPart, Counted, RetryBudget
<1> QED
  BY <1>1, Invariance, PTL

\* decode() reads by the message's own header, so a change of the compression setting
\* never garbles what is in the queue.
THEOREM DecodedHolds == Spec => []DecodedAsPublished
<1>1. IInv => DecodedAsPublished
  BY DEF IInv, CodecPart, Readable, DecodedAsPublished
<1> QED
  BY <1>1, Invariance, PTL

=============================================================================
