------------------------- MODULE ConsumerManagerProofs -------------------------
(***************************************************************************)
(* Proofs about ConsumerManager, for any consumers and any number of       *)
(* pools, channels, consumes, faults, handlers and attempts.               *)
(***************************************************************************)
EXTENDS ConsumerManager, FiniteSetTheorems, TLAPS

\* The tags and the channels given out so far are the first ones.
Given(t) == consume[t].on # 0

NumberPart ==
    /\ \E n \in 0..MaxTags : \A t \in 1..MaxTags : Given(t) <=> t <= n
    /\ \E n \in 0..MaxChannels : \A k \in 1..MaxChannels : chan[k].state # "none" <=> k <= n
    /\ \A t \in tagged \cup serving \cup running \cup cut : Given(t)
    /\ \A c \in Consumers : info[c].tag # 0 => Given(info[c].tag) /\ consume[info[c].tag].by = c
    /\ pool \in {0, pools}

\* A consumer has at most one open channel, the pool's entry for it, and what the broker
\* delivers to it comes on that channel.  Without a pool nothing is open.
ChannelPart ==
    /\ \A k \in 1..MaxChannels : IsOpen(k) => dedicated[chan[k].owner] = k /\ pool # 0
    /\ \A c \in Consumers : dedicated[c] # 0 =>
         IsOpen(dedicated[c]) /\ chan[dedicated[c]].owner = c
    /\ \A t \in serving : IsOpen(consume[t].on) /\ chan[consume[t].on].owner = consume[t].by

\* Nothing is under way for a consumer that was never registered.
UnusedPart(c) ==
    info[c].status = "unused" =>
      /\ \A p \in Procs : proc[c][p].pc = "idle"
      /\ dedicated[c] = 0 /\ info[c].tag = 0 /\ workers[c] = "none" /\ ~info[c].cancelled

\* What a setup of a consumer holds at each of its awaits.
ProcRow(c, p) ==
    LET r == proc[c][p]
    IN  /\ r.pc # "cancelling" /\ r.epoch <= info[c].epoch /\ r.home <= pools
        /\ p \notin Loops => r.pc # "sleeping"
        /\ p = "recreate" => r.pc \notin {"draining", "terminating"}
        /\ r.pc \in {"sleeping", "opening", "consuming", "consumed", "revoking"} => r.home # 0
        /\ r.pc = "consuming" =>
             r.chan # 0 /\ chan[r.chan].owner = c /\ chan[r.chan].state # "none"
        /\ r.pc \in {"consumed", "revoking"} =>
             r.tag # 0 /\ Given(r.tag) /\ consume[r.tag].by = c
        /\ r.pc = "revoking" => AbandonsConsume(c)

ProcPart(c) ==
    /\ UnusedPart(c)
    /\ \A p \in Setups : ProcRow(c, p)
    /\ proc[c]["unsubscribe"].pc \in {"idle", "cancelling", "draining", "terminating"}

\* A restore's pool is empty until recreateAll() runs on it.
RestorePart ==
    restoring =>
      /\ \A c \in Consumers : proc[c]["recreate"].pc = "idle"
      /\ pool # 0 =>
           /\ \A k \in 1..MaxChannels : ~IsOpen(k)
           /\ \A c \in Consumers : \A p \in Setups : proc[c][p].home # pool

\* A setup that can still make its consumer consume, or has.
Live(c, p) ==
    \/ proc[c][p].pc = "opening" /\ proc[c][p].home = pool
    \/ proc[c][p].pc = "consuming" /\ IsOpen(proc[c][p].chan)
    \/ proc[c][p].pc \in {"consumed", "revoking"} /\ proc[c][p].tag \in serving

\* A recovery loop that passes its fences now, or will if its setup fails.
Claims(c, p) == proc[c][p].pc \in {"sleeping", "opening", "consuming"} /\ LoopContinues(c, p)

\* One setup at most is live, and then the consumer consumes nowhere else.
SetupPart(c) ==
    /\ \A p, q \in Setups : Live(c, p) /\ Live(c, q) => p = q
    /\ \A p \in Setups : Live(c, p) =>
         /\ \A t \in Serving(c) : proc[c][p].pc \in {"consumed", "revoking"} /\ t = proc[c][p].tag
         /\ proc[c][p].pc = "opening" => dedicated[c] = 0
    /\ \A s, t \in Serving(c) : s = t

\* A loop that may go on is the only one at work on a consumer that nothing serves.
LoopPart(c) ==
    \A p \in Loops :
      /\ Claims(c, p) => Serving(c) = {} /\ \A q \in Setups \ {p} : ~Live(c, q)
      /\ proc[c][p].pc \in {"opening", "consuming"} /\ StillOurs(c, p) => Claims(c, p)

\* A consumer that was dropped has a channel only until its worker pool has ended.
DropPart(c) ==
    info[c].status = "gone" /\ dedicated[c] # 0 => \E p \in Procs : proc[c][p].pc = "terminating"

Local(c) == ProcPart(c) /\ SetupPart(c) /\ LoopPart(c) /\ DropPart(c)

\* The inductive invariant, with the races let happen and no subscribe() during a restore.
IInv ==
    /\ TypeOK /\ NumberPart /\ ChannelPart /\ RestorePart
    /\ \A c \in Consumers : Local(c)
    /\ TagsResolve

-----------------------------------------------------------------------------
ProcRecord ==
    [pc : {"idle", "sleeping", "opening", "consuming", "consumed", "revoking",
           "cancelling", "draining", "terminating"},
     home : 0..MaxPools, chan : 0..MaxChannels, tag : 0..MaxTags,
     epoch : Nat, tries : 0..MaxAttempts]

\* A fresh record of a process, and what a setup that is called makes of one.
LEMMA RecordSteps ==
    ASSUME TypeOK
    PROVE  /\ Idle \in ProcRecord
           /\ \A c \in Consumers : \A r \in ProcRecord :
                /\ SetupCalled(c, r) \in ProcRecord
                /\ SetupCalled(c, r).home = r.home /\ SetupCalled(c, r).epoch = r.epoch
                /\ \/ SetupCalled(c, r).pc = "opening" /\ dedicated[c] = 0
                   \/ /\ SetupCalled(c, r).pc = "consuming" /\ dedicated[c] # 0
                      /\ SetupCalled(c, r).chan = dedicated[c]
<1>1. Idle \in ProcRecord
  BY BoundsAssumption DEF Idle, ProcRecord
<1>2. ASSUME NEW c \in Consumers, NEW r \in ProcRecord, dedicated[c] # 0
      PROVE  /\ SetupCalled(c, r) \in ProcRecord
             /\ SetupCalled(c, r).home = r.home /\ SetupCalled(c, r).epoch = r.epoch
             /\ SetupCalled(c, r).pc = "consuming" /\ SetupCalled(c, r).chan = dedicated[c]
  <2>1. dedicated[c] \in 0..MaxChannels
    BY DEF TypeOK
  <2> QED
    BY <1>2, <2>1 DEF SetupCalled, ProcRecord
<1>3. ASSUME NEW c \in Consumers, NEW r \in ProcRecord, dedicated[c] = 0
      PROVE  /\ SetupCalled(c, r) \in ProcRecord
             /\ SetupCalled(c, r).home = r.home /\ SetupCalled(c, r).epoch = r.epoch
             /\ SetupCalled(c, r).pc = "opening"
  <2>1. 0 \in 0..MaxChannels
    BY BoundsAssumption
  <2> QED
    BY <1>3, <2>1 DEF SetupCalled, ProcRecord
<1> QED
  BY <1>1, <1>2, <1>3

\* What becomes of one process, and of no other.
LEMMA Updated ==
    ASSUME TypeOK, NEW c \in Consumers, NEW p \in Procs, NEW r \in ProcRecord, Becomes(c, p, r)
    PROVE  /\ proc' \in [Consumers -> [Procs -> ProcRecord]]
           /\ proc'[c][p] = r
           /\ \A q \in Procs : q # p => proc'[c][q] = proc[c][q]
           /\ \A d \in Consumers : d # c => proc'[d] = proc[d]
BY DEF TypeOK, Becomes, ProcRecord

\* The caller of a setup that threw sleeps, drains or ends.
LEMMA FailureIs ==
    ASSUME TypeOK, NEW c \in Consumers, NEW p \in Setups
    PROVE  LET r == proc[c][p]
               a == AfterFailure(c, p)
           IN  /\ a \in ProcRecord
               /\ \/ a = Idle
                  \/ p \in Loops /\ a.pc = "sleeping"
                  \/ p = "subscribe" /\ a.pc = "draining"
                  \/ p \in Loops /\ a.pc = "draining" /\ StillOurs(c, p)
               /\ a # Idle => a.home = r.home /\ a.epoch = r.epoch
               /\ p = "subscribe" => a.pc = "draining"
<1>1. proc[c][p] \in ProcRecord
  BY DEF TypeOK, ProcRecord, Procs
<1>2. CASE p \in Loops
  <2>1. AfterFailure(c, p) = IF proc[c][p].tries < MaxAttempts
                               THEN [proc[c][p] EXCEPT !.pc = "sleeping", !.tries = @ + 1]
                               ELSE IF StillOurs(c, p) THEN [proc[c][p] EXCEPT !.pc = "draining"]
                                                       ELSE Idle
    BY <1>1, <1>2, BoundsAssumption DEF AfterFailure, ProcRecord, Loops
  <2>2. CASE proc[c][p].tries < MaxAttempts
    <3>1. proc[c][p].tries + 1 \in 0..MaxAttempts
      BY <1>1, <2>2, BoundsAssumption DEF ProcRecord
    <3> QED
      BY <1>1, <1>2, <2>1, <2>2, <3>1 DEF ProcRecord, Idle, Loops
  <2>3. CASE ~(proc[c][p].tries < MaxAttempts) /\ StillOurs(c, p)
    BY <1>1, <1>2, <2>1, <2>3 DEF ProcRecord, Loops
  <2>4. CASE ~(proc[c][p].tries < MaxAttempts) /\ ~StillOurs(c, p)
    BY <1>2, <2>1, <2>4, RecordSteps DEF Loops
  <2> QED
    BY <2>2, <2>3, <2>4
<1>3. CASE p = "subscribe"
  BY <1>1, <1>3 DEF AfterFailure, ProcRecord, Loops, Idle
<1>4. CASE p = "recreate"
  BY <1>1, <1>4, BoundsAssumption DEF AfterFailure, ProcRecord, Loops, Idle
<1> QED
  BY <1>2, <1>3, <1>4 DEF Setups

\* handleConsumerLoss() puts at most one loop to sleep, in place of one that is over.
LEMMA LossIs ==
    ASSUME TypeOK, NEW c \in Consumers, LoopStarts(c)
    PROVE  \/ UNCHANGED proc
           \/ /\ Active(c) /\ ~info[c].cancelled
              /\ \E p \in Loops : \E r \in ProcRecord :
                   /\ proc[c][p].pc \in {"idle", "sleeping"} /\ Becomes(c, p, r)
                   /\ r.pc = "sleeping" /\ r.home = pool /\ r.epoch = info[c].epoch
<1> DEFINE p == CHOOSE q \in FreeLoops(c) : TRUE
           r == [Idle EXCEPT !.pc = "sleeping", !.home = pool, !.epoch = info[c].epoch, !.tries = 1]
<1>1. CASE ~(Active(c) /\ ~info[c].cancelled)
  BY <1>1 DEF LoopStarts
<1>2. CASE Active(c) /\ ~info[c].cancelled
  <2>1. p \in FreeLoops(c) /\ Becomes(c, p, r)
    BY <1>2 DEF LoopStarts
  <2>2. p \in Loops /\ proc[c][p].pc \in {"idle", "sleeping"}
    BY <2>1 DEF FreeLoops, Doomed
  <2>3. r \in ProcRecord /\ r.pc = "sleeping" /\ r.home = pool /\ r.epoch = info[c].epoch
    <3>1. pool \in 0..MaxPools /\ info[c].epoch \in Nat /\ 1 \in 0..MaxAttempts
      BY BoundsAssumption DEF TypeOK
    <3>2. Idle \in ProcRecord
      BY RecordSteps
    <3> QED
      BY <3>1, <3>2 DEF ProcRecord
  <2> QED
    BY <1>2, <2>1, <2>2, <2>3
<1> QED
  BY <1>1, <1>2

\* The broker numbers its consumes from one.
LEMMA NextTagIs ==
    ASSUME TypeOK, NumberPart
    PROVE  NextTag \in Nat /\ NextTag >= 1 /\ \A t \in 1..MaxTags : Given(t) <=> t < NextTag
<1>1. PICK n \in 0..MaxTags : \A t \in 1..MaxTags : Given(t) <=> t <= n
  BY DEF NumberPart
<1>2. {t \in 1..MaxTags : consume[t].on # 0} = 1..n
  BY <1>1, BoundsAssumption DEF Given
<1>3. Cardinality(1..n) = n
  BY FS_Interval, BoundsAssumption
<1>4. NextTag = n + 1
  BY <1>2, <1>3 DEF NextTag
<1> QED
  BY <1>1, <1>4, BoundsAssumption

\* The channels are opened in order.
LEMMA NextChannelIs ==
    ASSUME TypeOK, NumberPart
    PROVE  /\ NextChannel \in 0..MaxChannels
           /\ NextChannel # 0 =>
                \A k \in 1..MaxChannels : chan[k].state # "none" <=> k < NextChannel
<1> DEFINE P(k) == /\ k = 0 => \A j \in 1..MaxChannels : chan[j].state # "none"
                   /\ k # 0 => chan[k].state = "none" /\ \A j \in 1..(k - 1) : chan[j].state # "none"
<1>1. PICK n \in 0..MaxChannels : \A k \in 1..MaxChannels : chan[k].state # "none" <=> k <= n
  BY DEF NumberPart
<1>2. \E k \in 0..MaxChannels : P(k)
  <2>1. CASE n = MaxChannels
    <3>1. P(0)
      BY <1>1, <2>1, BoundsAssumption
    <3> QED
      BY <3>1, BoundsAssumption
  <2>2. CASE n < MaxChannels
    <3>1. n + 1 \in 0..MaxChannels /\ P(n + 1)
      BY <1>1, <2>2, BoundsAssumption
    <3> QED
      BY <3>1
  <2> QED
    BY <2>1, <2>2, BoundsAssumption
<1>3. NextChannel \in 0..MaxChannels /\ P(NextChannel)
  BY <1>2, Zenon DEF NextChannel
<1> HIDE DEF P
<1>4. ASSUME NextChannel # 0 PROVE \A k \in 1..MaxChannels : chan[k].state # "none" <=> k < NextChannel
  BY <1>1, <1>3, <1>4, BoundsAssumption DEF P
<1> QED
  BY <1>3, <1>4

\* Whatever a setup or a drop does, it moves its own process.
LEMMA SetupMoves ==
    ASSUME TypeOK, NumberPart, NEW c \in Consumers, NEW p \in Setups, SetupStep(c, p)
    PROVE  \E r \in ProcRecord : Becomes(c, p, r)
<1> DEFINE r == proc[c][p]
<1>1. r \in ProcRecord /\ p \in Procs
  BY DEF TypeOK, ProcRecord, Procs
<1>2. ASSUME SetupFails(c, p) PROVE \E s \in ProcRecord : Becomes(c, p, s)
  BY <1>2, FailureIs DEF SetupFails
<1>3. CASE ChannelOpened(c, p)
  <2>1. NextChannel \in 0..MaxChannels
    BY NextChannelIs
  <2>2. [r EXCEPT !.pc = "consuming", !.chan = NextChannel] \in ProcRecord
    BY <1>1, <2>1 DEF ProcRecord
  <2> QED
    BY <1>2, <1>3, <2>2 DEF ChannelOpened
<1>4. CASE ConsumeAnswered(c, p)
  <2>1. NextTag \in 0..MaxTags
    BY <1>4, NextTagIs, BoundsAssumption DEF ConsumeAnswered
  <2>2. [r EXCEPT !.pc = "consumed", !.tag = NextTag] \in ProcRecord
    BY <1>1, <2>1 DEF ProcRecord
  <2> QED
    BY <1>4, <2>2 DEF ConsumeAnswered
<1>5. CASE SetupSettles(c, p)
  <2>1. [r EXCEPT !.pc = "revoking"] \in ProcRecord
    BY <1>1 DEF ProcRecord
  <2> QED
    BY <1>5, <2>1, RecordSteps DEF SetupSettles
<1>6. CASE LoopWakes(c, p)
  <2>1. CASE LoopContinues(c, p)
    <3> DEFINE s == [proc[c][p] EXCEPT !.epoch = info'[c].epoch, !.home = pool]
    <3>1. info'[c].epoch \in Nat /\ pool \in 0..MaxPools
      BY <1>6, <2>1 DEF LoopWakes, Stamped, TypeOK
    <3>2. s \in ProcRecord
      BY <1>1, <3>1 DEF ProcRecord
    <3>3. SetupCalled(c, s) \in ProcRecord
      BY <3>2, RecordSteps
    <3> QED
      BY <1>6, <2>1, <3>3 DEF LoopWakes
  <2> QED
    BY <1>6, <2>1, RecordSteps DEF LoopWakes
<1>7. CASE ChannelRefused(c, p) \/ ConsumeFails(c, p) \/ ConsumeRevoked(c, p)
  BY <1>2, <1>7 DEF ChannelRefused, ConsumeFails, ConsumeRevoked
<1> QED
  BY <1>3, <1>4, <1>5, <1>6, <1>7 DEF SetupStep

\* A drop leaves its process idle or waiting for the worker pool.
LEMMA DropMoves ==
    ASSUME TypeOK, NEW c \in Consumers, NEW p \in Procs, Drop(c, p)
    PROVE  \E r \in ProcRecord :
             /\ Becomes(c, p, r)
             /\ \/ /\ OwnsWorkers(c, p) /\ r.pc = "terminating"
                   /\ r.home = proc[c][p].home /\ r.epoch = proc[c][p].epoch
                \/ ~OwnsWorkers(c, p) /\ r = Idle
<1> DEFINE r == [proc[c][p] EXCEPT !.pc = "terminating"]
<1>1. /\ r \in ProcRecord /\ r.pc = "terminating" /\ r.home = proc[c][p].home
      /\ r.epoch = proc[c][p].epoch
  <2>1. proc[c][p] \in ProcRecord
    BY DEF TypeOK, ProcRecord
  <2> QED
    BY <2>1 DEF ProcRecord
<1> HIDE DEF r
<1>2. CASE OwnsWorkers(c, p)
  <2>1. Becomes(c, p, r)
    BY <1>2 DEF Drop, r
  <2> QED
    BY <1>1, <1>2, <2>1
<1>3. CASE ~OwnsWorkers(c, p)
  BY <1>3, RecordSteps DEF Drop
<1> QED
  BY <1>2, <1>3

\* Subscribe() and unsubscribe() start a process of their own.
LEMMA CallMoves ==
    ASSUME TypeOK
    PROVE  /\ \A c \in Consumers, parallel \in BOOLEAN : Subscribe(c, parallel) =>
                \E r \in ProcRecord :
                  /\ Becomes(c, "subscribe", r)
                  /\ r.epoch = 0
                  /\ \/ r.pc = "draining" /\ r.home = 0 /\ pool = 0
                     \/ r.pc = "opening" /\ r.home = pool /\ pool # 0 /\ dedicated[c] = 0
                     \/ r.pc = "consuming" /\ dedicated[c] # 0
           /\ \A t \in 1..MaxTags : Unsubscribe(t) =>
                \E r \in ProcRecord :
                  /\ Becomes(OwnerOf(t), "unsubscribe", r)
                  /\ r.pc = "cancelling" /\ r.tag = info[OwnerOf(t)].tag
<1>1. ASSUME NEW c \in Consumers, NEW parallel \in BOOLEAN, Subscribe(c, parallel)
      PROVE  \E r \in ProcRecord :
                  /\ Becomes(c, "subscribe", r)
                  /\ r.epoch = 0
                  /\ \/ r.pc = "draining" /\ r.home = 0 /\ pool = 0
                     \/ r.pc = "opening" /\ r.home = pool /\ pool # 0 /\ dedicated[c] = 0
                     \/ r.pc = "consuming" /\ dedicated[c] # 0
  <2>1. Idle \in ProcRecord /\ pool \in 0..MaxPools
    BY RecordSteps DEF TypeOK
  <2>2. CASE pool = 0
    <3> DEFINE r == [Idle EXCEPT !.pc = "draining"]
    <3>1. r \in ProcRecord /\ r.pc = "draining" /\ r.home = 0 /\ r.epoch = 0
      BY <2>1 DEF ProcRecord, Idle
    <3>2. Becomes(c, "subscribe", r)
      BY <1>1, <2>2 DEF Subscribe
    <3> QED
      BY <2>2, <3>1, <3>2
  <2>3. CASE pool # 0
    <3> DEFINE s == [Idle EXCEPT !.home = pool]
    <3>1. s \in ProcRecord /\ s.home = pool /\ s.epoch = 0
      BY <2>1 DEF ProcRecord, Idle
    <3>2. Becomes(c, "subscribe", SetupCalled(c, s))
      BY <1>1, <2>3 DEF Subscribe
    <3> HIDE DEF s
    <3> QED
      BY <2>3, <3>1, <3>2, RecordSteps
  <2> QED
    BY <2>2, <2>3
<1>2. ASSUME NEW t \in 1..MaxTags, Unsubscribe(t)
      PROVE  \E r \in ProcRecord :
                  /\ Becomes(OwnerOf(t), "unsubscribe", r)
                  /\ r.pc = "cancelling" /\ r.tag = info[OwnerOf(t)].tag
  <2> DEFINE c == OwnerOf(t)
             r == [Idle EXCEPT !.pc = "cancelling", !.tag = info[c].tag]
  <2>1. c \in Consumers /\ info[c].tag \in 0..MaxTags
    BY DEF TypeOK, OwnerOf
  <2>2. r \in ProcRecord /\ r.pc = "cancelling" /\ r.tag = info[c].tag
    BY <2>1, RecordSteps DEF ProcRecord
  <2>3. Becomes(c, "unsubscribe", r)
    BY <1>2 DEF Unsubscribe
  <2> HIDE DEF r
  <2> QED
    BY <2>2, <2>3
<1> QED
  BY <1>1, <1>2

\* recreateAll() starts a setup of every registered consumer.
RecreateRecord(c) == SetupCalled(c, [Idle EXCEPT !.home = pool])

\* recreateAll() gives every registered consumer a fresh setup on the pool in place.
LEMMA RecreateMoves ==
    ASSUME TypeOK, RecreateAll, NEW c \in Consumers
    PROVE  /\ proc' \in [Consumers -> [Procs -> ProcRecord]]
           /\ Active(c) /\ pool # 0 =>
                /\ \A q \in Procs \ {"recreate"} : proc'[c][q] = proc[c][q]
                /\ LET r == proc'[c]["recreate"]
                   IN  /\ r.home = pool /\ r.epoch = 0
                       /\ \/ r.pc = "opening" /\ dedicated[c] = 0
                          \/ r.pc = "consuming" /\ dedicated[c] # 0 /\ r.chan = dedicated[c]
           /\ ~(Active(c) /\ pool # 0) => proc'[c] = proc[c]
<1>1. /\ [Idle EXCEPT !.home = pool] \in ProcRecord
      /\ [Idle EXCEPT !.home = pool].home = pool /\ [Idle EXCEPT !.home = pool].epoch = 0
  <2>1. pool \in 0..MaxPools
    BY DEF TypeOK
  <2>2. Idle \in ProcRecord
    BY RecordSteps
  <2> QED
    BY <2>1, <2>2 DEF ProcRecord, Idle
<1>2. ASSUME NEW d \in Consumers
      PROVE  /\ RecreateRecord(d) \in ProcRecord
             /\ RecreateRecord(d).home = pool /\ RecreateRecord(d).epoch = 0
             /\ \/ RecreateRecord(d).pc = "opening" /\ dedicated[d] = 0
                \/ /\ RecreateRecord(d).pc = "consuming" /\ dedicated[d] # 0
                   /\ RecreateRecord(d).chan = dedicated[d]
  <2> DEFINE s == [Idle EXCEPT !.home = pool]
  <2>1. RecreateRecord(d) = SetupCalled(d, s)
    BY DEF RecreateRecord
  <2>2. s \in ProcRecord /\ s.home = pool /\ s.epoch = 0
    BY <1>1
  <2> HIDE DEF s
  <2> QED
    BY <2>1, <2>2, RecordSteps
<1>3. proc' = [d \in Consumers |->
                 IF Active(d) /\ pool # 0 THEN [proc[d] EXCEPT !["recreate"] = RecreateRecord(d)]
                                          ELSE proc[d]]
  BY DEF RecreateAll, RecreateRecord
<1>4. proc \in [Consumers -> [Procs -> ProcRecord]]
  BY DEF TypeOK, ProcRecord
<1> HIDE DEF RecreateRecord
<1> QED
  BY <1>2, <1>3, <1>4 DEF Procs, Setups

-----------------------------------------------------------------------------
\* The types of everything but the processes, in three parts.
FacadeTypes ==
    /\ pool \in 0..MaxPools /\ pools \in 0..MaxPools /\ restoring \in BOOLEAN /\ disposing \in BOOLEAN
    /\ workers \in [Consumers -> {"none", "spawned", "owned", "terminated"}]
    /\ refusing \in BOOLEAN /\ faults \in 0..MaxFaults
    /\ forsaken \subseteq Consumers /\ expired \subseteq Consumers /\ wronged \subseteq Consumers

InfoRecord ==
    [status : {"unused", "active", "gone", "disposed"}, cancelled : BOOLEAN, epoch : Nat,
     tag : 0..MaxTags]

InfoTypes ==
    /\ info \in [Consumers -> InfoRecord]
    /\ tagged \subseteq 1..MaxTags /\ running \subseteq 1..MaxTags /\ cut \subseteq 1..MaxTags

BrokerTypes ==
    /\ chan \in [1..MaxChannels -> [owner : Consumers, state : {"none", "open", "closed"}]]
    /\ dedicated \in [Consumers -> 0..MaxChannels]
    /\ consume \in [1..MaxTags -> [by : Consumers, on : 0..MaxChannels]]
    /\ serving \subseteq 1..MaxTags

ProcTypes == proc \in [Consumers -> [Procs -> ProcRecord]]

\* The type invariant, in parts that most steps touch one of.
LEMMA TypeParts == TypeOK <=> FacadeTypes /\ InfoTypes /\ BrokerTypes /\ ProcTypes
BY DEF TypeOK, FacadeTypes, InfoTypes, InfoRecord, BrokerTypes, ProcTypes, ProcRecord

\* A stamp changes the epoch of a record and no more.
LEMMA StampedIs ==
    ASSUME InfoTypes, NEW c \in Consumers
    PROVE  /\ Stamped(c) \in InfoRecord /\ Stamped(c).epoch = info[c].epoch + 1
           /\ Stamped(c).status = info[c].status /\ Stamped(c).cancelled = info[c].cancelled
           /\ Stamped(c).tag = info[c].tag
BY DEF Stamped, InfoTypes, InfoRecord

\* A step that leaves a part alone keeps its types.
LEMMA Untouched ==
    /\ FacadeTypes /\ UNCHANGED <<facade, disposing, workers, refusing, faults, forsaken, expired, wronged>>
         => FacadeTypes'
    /\ InfoTypes /\ UNCHANGED <<info, tagged, running, cut>> => InfoTypes'
    /\ BrokerTypes /\ UNCHANGED broker => BrokerTypes'
    /\ ProcTypes /\ UNCHANGED proc => ProcTypes'
BY DEF FacadeTypes, InfoTypes, BrokerTypes, ProcTypes, facade, broker

\* Closing a channel takes it from the pool and its consumes from the broker.
LEMMA CloseTypes ==
    ASSUME BrokerTypes, NEW k \in 1..MaxChannels, CloseChannel(k)
    PROVE  BrokerTypes'
<1>1. chan' \in [1..MaxChannels -> [owner : Consumers, state : {"none", "open", "closed"}]]
  BY DEF BrokerTypes, CloseChannel
<1>2. dedicated' \in [Consumers -> 0..MaxChannels]
  BY BoundsAssumption DEF BrokerTypes, CloseChannel
<1> QED
  BY <1>1, <1>2 DEF BrokerTypes, CloseChannel

\* Releasing the channel of a consumer keeps the types of the broker's side.
LEMMA ReleaseTypes ==
    ASSUME BrokerTypes, InfoTypes, NEW c \in Consumers, ReleaseChannel(c)
    PROVE  BrokerTypes' /\ cut' \subseteq 1..MaxTags
<1>1. CASE dedicated[c] # 0
  <2>1. dedicated[c] \in 1..MaxChannels
    BY <1>1, BoundsAssumption DEF BrokerTypes
  <2> QED
    BY <1>1, <2>1, CloseTypes DEF ReleaseChannel, InfoTypes, InFlight
<1>2. CASE dedicated[c] = 0
  BY <1>2 DEF ReleaseChannel, broker, InfoTypes, BrokerTypes
<1> QED
  BY <1>1, <1>2

\* A step of a setup keeps the types of everything but the processes.
LEMMA SetupTypes ==
    ASSUME TypeOK, NumberPart, NEW c \in Consumers, NEW p \in Setups, ProcPart(c), SetupStep(c, p)
    PROVE  FacadeTypes' /\ InfoTypes' /\ BrokerTypes'
<1> USE TypeParts DEF facade, manager, broker, outage, drops, history
<1>0. proc[c][p] \in ProcRecord
  BY DEF ProcTypes, Procs
<1>1. CASE ChannelOpened(c, p)
  <2>1. NextChannel \in 1..MaxChannels
    BY <1>1, NextChannelIs, BoundsAssumption DEF ChannelOpened
  <2>2. FacadeTypes' /\ InfoTypes'
    BY <1>1 DEF ChannelOpened, SetupFails, FacadeTypes, InfoTypes
  <2>3. chan' \in [1..MaxChannels -> [owner : Consumers, state : {"none", "open", "closed"}]]
    BY <1>1, <2>1 DEF ChannelOpened, BrokerTypes
  <2>4. dedicated' \in [Consumers -> 0..MaxChannels]
    BY <1>1, <2>1, BoundsAssumption DEF ChannelOpened, BrokerTypes
  <2> QED
    BY <1>1, <2>2, <2>3, <2>4 DEF ChannelOpened, BrokerTypes
<1>2. CASE ChannelRefused(c, p)
  BY <1>2 DEF ChannelRefused, SetupFails, FacadeTypes, InfoTypes, BrokerTypes
<1>3. CASE ConsumeAnswered(c, p)
  <2>1. NextTag \in 1..MaxTags
    BY <1>3, NextTagIs, BoundsAssumption DEF ConsumeAnswered
  <2>2. proc[c][p].chan \in 0..MaxChannels
    BY <1>0 DEF ProcRecord
  <2> QED
    BY <1>3, <2>1, <2>2 DEF ConsumeAnswered, FacadeTypes, InfoTypes, BrokerTypes
<1>4. CASE ConsumeFails(c, p)
  BY <1>4 DEF ConsumeFails, SetupFails, FacadeTypes, InfoTypes, BrokerTypes
<1>5. CASE SetupSettles(c, p)
  <2>1. proc[c][p].tag \in 0..MaxTags
    BY <1>0 DEF ProcRecord
  <2>2. FacadeTypes' /\ BrokerTypes'
    BY <1>5 DEF SetupSettles, FacadeTypes, BrokerTypes
  <2>3. CASE AbandonsConsume(c)
    BY <1>5, <2>2, <2>3 DEF SetupSettles, InfoTypes, InfoRecord
  <2>4. CASE ~AbandonsConsume(c)
    <3>1. TrackConsumerTag(c, proc[c][p].tag) /\ UNCHANGED <<running, cut>>
      BY <1>5, <2>4 DEF SetupSettles
    <3>2. proc[c][p].tag \in 1..MaxTags
      BY <1>5, <2>1, BoundsAssumption DEF SetupSettles, ProcPart, ProcRow
    <3> QED
      BY <2>2, <3>1, <3>2 DEF InfoTypes, InfoRecord, TrackConsumerTag
  <2> QED
    BY <2>3, <2>4
<1>6. CASE ConsumeRevoked(c, p)
  BY <1>6 DEF ConsumeRevoked, SetupFails, FacadeTypes, InfoTypes, BrokerTypes
<1>7. CASE LoopWakes(c, p)
  BY <1>7, Untouched, StampedIs DEF LoopWakes, InfoTypes
<1> QED
  BY <1>1, <1>2, <1>3, <1>4, <1>5, <1>6, <1>7 DEF SetupStep

\* A drop keeps the types of everything but the processes.
LEMMA DropTypes ==
    ASSUME TypeOK, NEW c \in Consumers, NEW p \in Procs, Drop(c, p)
    PROVE  InfoTypes' /\ BrokerTypes' /\ workers' \in [Consumers -> {"none", "spawned", "owned", "terminated"}]
           /\ wronged' \subseteq Consumers /\ UNCHANGED <<facade, disposing, outage, forsaken>>
<1> USE TypeParts DEF facade, broker, outage
<1>1. info' \in [Consumers -> InfoRecord]
  BY DEF Drop, InfoTypes, InfoRecord
<1>2. tagged' \subseteq 1..MaxTags /\ running' \subseteq 1..MaxTags
  BY DEF Drop, TagsSwept, InfoTypes
<1>3. workers' \in [Consumers -> {"none", "spawned", "owned", "terminated"}]
  BY DEF Drop, FacadeTypes
<1>4. wronged' \subseteq Consumers
  BY DEF Drop, NoteWronged, FacadeTypes
<1>5. cut' \subseteq 1..MaxTags /\ BrokerTypes'
  <2>1. CASE OwnsWorkers(c, p)
    BY <2>1 DEF Drop, InfoTypes, BrokerTypes
  <2>2. CASE ~OwnsWorkers(c, p)
    BY <2>2, ReleaseTypes DEF Drop
  <2> QED
    BY <2>1, <2>2
<1> QED
  BY <1>1, <1>2, <1>3, <1>4, <1>5 DEF Drop, InfoTypes

\* Every step keeps the types.
LEMMA TypesStep == IInv /\ [Next]_vars => TypeOK'
<1> SUFFICES ASSUME IInv, [Next]_vars
             PROVE  FacadeTypes' /\ InfoTypes' /\ BrokerTypes' /\ ProcTypes'
  BY TypeParts, PTL
<1>0. TypeOK /\ NumberPart /\ \A c \in Consumers : ProcPart(c)
  BY DEF IInv, Local
<1> USE <1>0, TypeParts, Untouched DEF facade, manager, broker, outage, drops, history, Fault
<1>1. ASSUME NEW c \in Consumers, NEW p \in Setups, SetupStep(c, p)
      PROVE  FacadeTypes' /\ InfoTypes' /\ BrokerTypes' /\ ProcTypes'
  <2>1. ProcTypes'
    BY <1>1, SetupMoves, Updated DEF ProcTypes, Procs
  <2> QED
    BY <1>1, <2>1, SetupTypes
<1>2. ASSUME NEW c \in Consumers, NEW p \in Procs, DropStep(c, p)
      PROVE  FacadeTypes' /\ InfoTypes' /\ BrokerTypes' /\ ProcTypes'
  <2>1. ASSUME Drop(c, p), expired' \subseteq Consumers
        PROVE  FacadeTypes' /\ InfoTypes' /\ BrokerTypes' /\ ProcTypes'
    <3>1. ProcTypes'
      BY <2>1, DropMoves, Updated DEF ProcTypes
    <3> QED
      BY <2>1, <3>1, DropTypes DEF FacadeTypes
  <2>2. CASE WorkersEnded(c, p)
    <3>1. Becomes(c, p, Idle) /\ ReleaseChannel(c)
      BY <2>2 DEF WorkersEnded
    <3>2. ProcTypes'
      BY <3>1, Updated, RecordSteps DEF ProcTypes
    <3> QED
      BY <2>2, <3>1, <3>2, ReleaseTypes DEF WorkersEnded, FacadeTypes, InfoTypes
  <2> QED
    BY <1>2, <2>1, <2>2 DEF DropStep, Drained, DrainTimesOut, FacadeTypes
<1>3. ASSUME NEW c \in Consumers, NEW parallel \in BOOLEAN, Subscribe(c, parallel)
      PROVE  FacadeTypes' /\ InfoTypes' /\ BrokerTypes' /\ ProcTypes'
  <2>1. ProcTypes'
    BY <1>3, CallMoves, Updated DEF ProcTypes, Procs, Setups
  <2> QED
    <3>1. [Stamped(c) EXCEPT !.status = "active"] \in InfoRecord
      BY StampedIs DEF InfoRecord
    <3>2. InfoTypes'
      BY <1>3, <3>1 DEF Subscribe, InfoTypes
    <3> QED
      BY <1>3, <2>1, <3>2 DEF Subscribe, FacadeTypes
<1>4. ASSUME NEW c \in Consumers, CancelAnswered(c)
      PROVE  FacadeTypes' /\ InfoTypes' /\ BrokerTypes' /\ ProcTypes'
  <2>1. [proc[c]["unsubscribe"] EXCEPT !.pc = "draining"] \in ProcRecord
    BY DEF ProcTypes, ProcRecord, Procs
  <2>2. ProcTypes'
    BY <1>4, <2>1, Updated DEF CancelAnswered, ProcTypes, Procs
  <2> QED
    BY <1>4, <2>2 DEF CancelAnswered, FacadeTypes, InfoTypes, BrokerTypes
<1>5. ASSUME NEW t \in 1..MaxTags, Unsubscribe(t)
      PROVE  FacadeTypes' /\ InfoTypes' /\ BrokerTypes' /\ ProcTypes'
  <2>1. OwnerOf(t) \in Consumers
    BY DEF OwnerOf, BrokerTypes
  <2>2. ProcTypes'
    BY <1>5, <2>1, CallMoves, Updated DEF ProcTypes, Procs
  <2> QED
    BY <1>5, <2>1, <2>2 DEF Unsubscribe, InfoTypes, InfoRecord
<1>6. ASSUME NEW t \in 1..MaxTags, Deliver(t) \/ HandlerEnds(t)
      PROVE  FacadeTypes' /\ InfoTypes' /\ BrokerTypes' /\ ProcTypes'
  BY <1>6 DEF Deliver, HandlerEnds, FacadeTypes, InfoTypes, BrokerTypes, ProcTypes
<1>7. ASSUME NEW c \in Consumers, LoopStarts(c) PROVE ProcTypes'
  BY <1>7, LossIs, Updated DEF ProcTypes, Procs, Setups
<1>8. ASSUME NEW t \in 1..MaxTags, BrokerCancels(t)
      PROVE  FacadeTypes' /\ InfoTypes' /\ BrokerTypes' /\ ProcTypes'
  <2>1. ProcTypes'
    BY <1>7, <1>8 DEF BrokerCancels, BrokerTypes
  <2>2. FacadeTypes'
    BY <1>8, BoundsAssumption DEF BrokerCancels, FacadeTypes
  <2> QED
    BY <1>8, <2>1, <2>2 DEF BrokerCancels, BrokerTypes
<1>9. ASSUME NEW k \in 1..MaxChannels, ChannelCloses(k)
      PROVE  FacadeTypes' /\ InfoTypes' /\ BrokerTypes' /\ ProcTypes'
  <2>1. ProcTypes'
    BY <1>7, <1>9 DEF ChannelCloses, ProcTypes, BrokerTypes
  <2> QED
    BY <1>9, <2>1, CloseTypes, BoundsAssumption DEF ChannelCloses, FacadeTypes, InfoTypes
<1>10. CASE RefusalChanges
  <2>1. FacadeTypes'
    BY <1>10, BoundsAssumption DEF RefusalChanges, FacadeTypes
  <2> QED
    BY <1>10, <2>1 DEF RefusalChanges
<1>11. CASE ConnectionDrops
  <2>1. FacadeTypes' /\ InfoTypes' /\ ProcTypes'
    BY <1>11, BoundsAssumption DEF ConnectionDrops, FacadeTypes
  <2>2. chan' \in [1..MaxChannels -> [owner : Consumers, state : {"none", "open", "closed"}]]
    BY <1>11 DEF ConnectionDrops, BrokerTypes
  <2>3. dedicated' \in [Consumers -> 0..MaxChannels] /\ serving' = {} /\ UNCHANGED consume
    BY <1>11, BoundsAssumption DEF ConnectionDrops
  <2> QED
    BY <2>1, <2>2, <2>3 DEF BrokerTypes
<1>12. CASE PoolInstalled
  <2>1. FacadeTypes'
    BY <1>12, BoundsAssumption DEF PoolInstalled, FacadeTypes
  <2> QED
    BY <1>12, <2>1 DEF PoolInstalled
<1>13. CASE RecreateAll
  <2>1. ProcTypes'
    BY <1>13, RecreateMoves, BoundsAssumption DEF ProcTypes
  <2> QED
    <3>1. InfoTypes'
      BY <1>13, StampedIs DEF RecreateAll, InfoTypes
    <3> QED
      BY <1>13, <2>1, <3>1 DEF RecreateAll, FacadeTypes
<1>14. CASE DisposeAll \/ DisposeEnds
  <2>1. InfoTypes'
    BY <1>14 DEF DisposeAll, DisposeEnds, Disposed, InfoTypes, InfoRecord
  <2>2. FacadeTypes'
    BY <1>14 DEF DisposeAll, DisposeEnds, FacadeTypes
  <2> QED
    BY <1>14, <2>1, <2>2 DEF DisposeAll, DisposeEnds
<1>15. CASE UNCHANGED vars
  BY <1>15 DEF vars, FacadeTypes, InfoTypes, BrokerTypes, ProcTypes
<1> QED
  BY <1>1, <1>2, <1>3, <1>4, <1>5, <1>6, <1>8, <1>9, <1>10, <1>11, <1>12, <1>13, <1>14, <1>15
     DEF Next

-----------------------------------------------------------------------------
\* The ways in which a step changes what is open, consumed and delivered.
Cancelled(t) == serving' = serving \ {t} /\ UNCHANGED <<chan, dedicated, consume>>

BrokerMove ==
    \/ UNCHANGED broker
    \/ \E k \in 1..MaxChannels : IsOpen(k) /\ CloseChannel(k)
    \/ \E c \in Consumers : \E p \in Setups : ChannelOpened(c, p)
    \/ \E c \in Consumers : \E p \in Setups : ConsumeAnswered(c, p)
    \/ \E t \in 0..MaxTags : Cancelled(t)
    \/ ConnectionDrops

\* A drop releases the open channel that the pool has for the consumer, if there is one.
LEMMA ReleaseIs ==
    ASSUME TypeOK, ChannelPart, NEW c \in Consumers, ReleaseChannel(c)
    PROVE  \/ dedicated[c] = 0 /\ UNCHANGED <<broker, cut>>
           \/ /\ dedicated[c] \in 1..MaxChannels /\ IsOpen(dedicated[c]) /\ CloseChannel(dedicated[c])
              /\ cut' = cut \cup {t \in InFlight(c) : consume[t].on = dedicated[c]}
BY BoundsAssumption DEF ReleaseChannel, ChannelPart, TypeOK

\* The consumer has no channel after that, and nothing new is open or delivered.
LEMMA Released ==
    ASSUME TypeOK, ChannelPart, NEW c \in Consumers, ReleaseChannel(c)
    PROVE  /\ dedicated'[c] = 0 /\ serving' \subseteq serving /\ UNCHANGED consume
           /\ \A k \in 1..MaxChannels : chan'[k].state = "open" => chan[k].state = "open"
<1>0. BrokerTypes
  BY TypeParts
<1>1. CASE dedicated[c] = 0 /\ UNCHANGED broker
  BY <1>1 DEF broker
<1>2. ASSUME NEW k \in 1..MaxChannels, k = dedicated[c], k # 0, CloseChannel(k)
      PROVE  /\ dedicated'[c] = 0 /\ serving' \subseteq serving /\ UNCHANGED consume
             /\ \A j \in 1..MaxChannels : chan'[j].state = "open" => chan[j].state = "open"
  <2>1. chan[k].owner = c
    BY <1>2 DEF ChannelPart
  <2>2. dedicated'[c] = 0
    BY <1>0, <1>2, <2>1 DEF CloseChannel, BrokerTypes
  <2>3. \A j \in 1..MaxChannels : chan'[j].state = "open" => chan[j].state = "open"
    BY <1>0, <1>2 DEF CloseChannel, BrokerTypes
  <2> QED
    BY <1>2, <2>2, <2>3 DEF CloseChannel
<1> QED
  BY <1>1, <1>2, ReleaseIs, BoundsAssumption

\* A step of a drop closes at most one channel.
LEMMA DropIs ==
    ASSUME TypeOK, ChannelPart, NEW c \in Consumers, NEW p \in Procs, DropStep(c, p)
    PROVE  /\ UNCHANGED facade
           /\ UNCHANGED broker \/ \E k \in 1..MaxChannels : IsOpen(k) /\ CloseChannel(k)
<1>1. CASE WorkersEnded(c, p)
  BY <1>1, ReleaseIs DEF WorkersEnded
<1>2. CASE Drop(c, p)
  BY <1>2, ReleaseIs DEF Drop
<1> QED
  BY <1>1, <1>2 DEF DropStep, Drained, DrainTimesOut

\* Every step changes the broker's side in one of these ways.
LEMMA BrokerMoves == IInv /\ [Next]_vars => BrokerMove
<1> SUFFICES ASSUME IInv, [Next]_vars PROVE BrokerMove
  OBVIOUS
<1>0. TypeOK /\ ChannelPart
  BY DEF IInv
<1>1. ASSUME NEW c \in Consumers, NEW p \in Setups, SetupStep(c, p) PROVE BrokerMove
  <2>1. proc[c][p].tag \in 0..MaxTags
    BY <1>0 DEF TypeOK, Procs
  <2>2. CASE ConsumeRevoked(c, p)
    BY <2>1, <2>2 DEF ConsumeRevoked, BrokerMove, Cancelled
  <2>3. CASE ChannelRefused(c, p) \/ ConsumeFails(c, p) \/ SetupSettles(c, p) \/ LoopWakes(c, p)
    BY <2>3 DEF ChannelRefused, ConsumeFails, SetupSettles, LoopWakes, BrokerMove
  <2> QED
    BY <1>1, <2>2, <2>3 DEF SetupStep, BrokerMove
<1>2. ASSUME NEW c \in Consumers, NEW p \in Procs, DropStep(c, p) PROVE BrokerMove
  BY <1>0, <1>2, DropIs DEF BrokerMove
<1>3. ASSUME NEW c \in Consumers, CancelAnswered(c) PROVE BrokerMove
  <2>1. proc[c]["unsubscribe"].tag \in 0..MaxTags
    BY <1>0 DEF TypeOK, Procs
  <2> QED
    BY <1>3, <2>1 DEF CancelAnswered, BrokerMove, Cancelled
<1>4. ASSUME NEW t \in 1..MaxTags, BrokerCancels(t) PROVE BrokerMove
  BY <1>4, BoundsAssumption DEF BrokerCancels, BrokerMove, Cancelled
<1>5. ASSUME NEW k \in 1..MaxChannels, ChannelCloses(k) PROVE BrokerMove
  BY <1>5 DEF ChannelCloses, BrokerMove
<1>6. CASE ConnectionDrops
  BY <1>6 DEF BrokerMove
<1>7. ASSUME NEW t \in 1..MaxTags, Unsubscribe(t) \/ Deliver(t) \/ HandlerEnds(t) PROVE UNCHANGED broker
  BY <1>7 DEF Unsubscribe, Deliver, HandlerEnds
<1>8. ASSUME NEW c \in Consumers, NEW parallel \in BOOLEAN, Subscribe(c, parallel) PROVE UNCHANGED broker
  BY <1>8 DEF Subscribe
<1>9. CASE RefusalChanges \/ PoolInstalled \/ RecreateAll \/ DisposeAll \/ DisposeEnds \/ UNCHANGED vars
  BY <1>9 DEF RefusalChanges, PoolInstalled, RecreateAll, DisposeAll, DisposeEnds, vars, broker, BrokerMove
<1> QED
  BY <1>1, <1>2, <1>3, <1>4, <1>5, <1>6, <1>7, <1>8, <1>9 DEF Next, BrokerMove

\* The pool in place changes with a loss and with a restore.
LEMMA PoolMoves ==
    ASSUME IInv, [Next]_vars
    PROVE  /\ UNCHANGED <<pool, pools>> \/ ConnectionDrops \/ PoolInstalled
           /\ restoring' => restoring \/ PoolInstalled
<1>0. TypeOK /\ ChannelPart
  BY DEF IInv
<1>1. ASSUME NEW c \in Consumers, NEW p \in Setups, SetupStep(c, p) PROVE UNCHANGED facade
  BY <1>1 DEF SetupStep, ChannelOpened, ChannelRefused, ConsumeAnswered, ConsumeFails, SetupSettles,
              ConsumeRevoked, LoopWakes
<1>2. ASSUME NEW c \in Consumers, NEW p \in Procs, DropStep(c, p) PROVE UNCHANGED facade
  BY <1>0, <1>2, DropIs
<1>3. ASSUME NEW c \in Consumers, CancelAnswered(c) PROVE UNCHANGED facade
  BY <1>3 DEF CancelAnswered
<1>4. ASSUME NEW t \in 1..MaxTags, Unsubscribe(t) \/ Deliver(t) \/ HandlerEnds(t) \/ BrokerCancels(t)
      PROVE  UNCHANGED facade
  BY <1>4 DEF Unsubscribe, Deliver, HandlerEnds, BrokerCancels
<1>5. ASSUME NEW k \in 1..MaxChannels, ChannelCloses(k) PROVE UNCHANGED facade
  BY <1>5 DEF ChannelCloses
<1>6. ASSUME NEW c \in Consumers, NEW parallel \in BOOLEAN, Subscribe(c, parallel) PROVE UNCHANGED facade
  BY <1>6 DEF Subscribe
<1>7. ASSUME RefusalChanges \/ DisposeAll \/ DisposeEnds \/ UNCHANGED vars PROVE UNCHANGED facade
  BY <1>7 DEF RefusalChanges, DisposeAll, DisposeEnds, vars, facade
<1>8. CASE RecreateAll
  BY <1>8 DEF RecreateAll
<1>9. CASE ConnectionDrops
  BY <1>9 DEF ConnectionDrops
<1> QED
  BY <1>1, <1>2, <1>3, <1>4, <1>5, <1>6, <1>7, <1>8, <1>9 DEF Next, facade

\* What is open, given out and delivered stays in order.
LEMMA ChannelStep ==
    ASSUME IInv, [Next]_vars, TypeOK'
    PROVE  /\ ChannelPart'
           /\ \E n \in 0..MaxTags : \A t \in 1..MaxTags : Given(t)' <=> t <= n
           /\ \E n \in 0..MaxChannels : \A k \in 1..MaxChannels : chan'[k].state # "none" <=> k <= n
           /\ \A t \in 1..MaxTags : Given(t) => consume'[t] = consume[t]
           /\ \A t \in serving' : Given(t)'
<1> DEFINE Goal == /\ ChannelPart'
                   /\ \E n \in 0..MaxTags : \A t \in 1..MaxTags : Given(t)' <=> t <= n
                   /\ \E n \in 0..MaxChannels : \A k \in 1..MaxChannels : chan'[k].state # "none" <=> k <= n
                   /\ \A t \in 1..MaxTags : Given(t) => consume'[t] = consume[t]
                   /\ \A t \in serving' : Given(t)'
<1>1. /\ TypeOK /\ NumberPart /\ ChannelPart
      /\ pool \in Nat /\ pools \in Nat
      /\ chan \in [1..MaxChannels -> [owner : Consumers, state : {"none", "open", "closed"}]]
      /\ dedicated \in [Consumers -> 0..MaxChannels]
      /\ consume \in [1..MaxTags -> [by : Consumers, on : 0..MaxChannels]]
      /\ serving \subseteq 1..MaxTags
  <2>1. TypeOK /\ NumberPart /\ ChannelPart
    BY DEF IInv
  <2>2. pool \in 0..MaxPools /\ pools \in 0..MaxPools
    BY <2>1 DEF TypeOK
  <2>3. pool \in Nat /\ pools \in Nat
    BY <2>2, BoundsAssumption
  <2>4. BrokerTypes
    BY <2>1, TypeParts
  <2> QED
    BY <2>1, <2>3, <2>4 DEF BrokerTypes
<1>2. pool' # 0 \/ ConnectionDrops \/ pool = 0
  BY <1>1, PoolMoves DEF PoolInstalled
<1>3. CASE UNCHANGED broker
  <2>1. ChannelPart'
    BY <1>1, <1>2, <1>3 DEF ChannelPart, IsOpen, broker, ConnectionDrops
  <2>2. \A t \in 1..MaxTags : Given(t)' <=> Given(t)
    BY <1>3 DEF broker, Given
  <2> QED
    BY <1>1, <1>3, <2>1, <2>2 DEF broker, NumberPart
<1>4. ASSUME NEW k \in 1..MaxChannels, IsOpen(k), CloseChannel(k) PROVE Goal
  <2>1. \A j \in 1..MaxChannels :
          /\ j # k => chan'[j] = chan[j]
          /\ chan'[j].owner = chan[j].owner /\ (chan'[j].state = "none" <=> chan[j].state = "none")
    BY <1>1, <1>4 DEF CloseChannel, IsOpen
  <2>2. ~IsOpen(k)' /\ \A j \in 0..MaxChannels : j # k => (IsOpen(j)' <=> IsOpen(j))
    BY <1>1, <1>4, <2>1 DEF CloseChannel, IsOpen
  <2>3. ChannelPart'
    BY <1>1, <1>2, <1>4, <2>1, <2>2 DEF CloseChannel, ChannelPart, ConnectionDrops
  <2>4. \A t \in 1..MaxTags : Given(t)' <=> Given(t)
    BY <1>4 DEF CloseChannel, Given
  <2> QED
    BY <1>1, <1>4, <2>1, <2>3, <2>4 DEF CloseChannel, NumberPart
<1>5. ASSUME NEW c \in Consumers, NEW p \in Setups, ChannelOpened(c, p) PROVE Goal
  <2>1. PICK k \in 1..MaxChannels :
          k = NextChannel /\ \A j \in 1..MaxChannels : chan[j].state # "none" <=> j < k
    BY <1>1, <1>5, NextChannelIs, BoundsAssumption DEF ChannelOpened
  <2>2. pool # 0 /\ dedicated[c] = 0
    BY <1>5 DEF ChannelOpened, IInv, Local, ProcPart, ProcRow, SetupPart, Live
  <2>3. /\ \A j \in 1..MaxChannels : j # k => chan'[j] = chan[j]
        /\ chan'[k].owner = c
        /\ \/ chan'[k].state = "open" /\ dedicated' = [dedicated EXCEPT ![c] = k]
           \/ chan'[k].state = "closed" /\ dedicated' = [dedicated EXCEPT ![c] = 0]
        /\ UNCHANGED <<consume, serving, pool>>
    <3>1. UNCHANGED <<consume, serving, pool>>
      BY <1>5 DEF ChannelOpened, facade
    <3>2. \/ /\ chan' = [chan EXCEPT ![k] = [owner |-> c, state |-> "open"]]
             /\ dedicated' = [dedicated EXCEPT ![c] = k]
          \/ /\ chan' = [chan EXCEPT ![k] = [owner |-> c, state |-> "closed"]]
             /\ dedicated' = [dedicated EXCEPT ![c] = 0]
      BY <1>5, <2>1 DEF ChannelOpened
    <3>3. ASSUME NEW w \in {"open", "closed"}, chan' = [chan EXCEPT ![k] = [owner |-> c, state |-> w]]
          PROVE  /\ \A j \in 1..MaxChannels : j # k => chan'[j] = chan[j]
                 /\ chan'[k].owner = c /\ chan'[k].state = w
      BY <1>1, <2>1, <3>3
    <3> QED
      BY <3>1, <3>2, <3>3
  <2>4. chan[k].state = "none"
    BY <1>1, <2>1
  <2>5. ChannelPart'
    <3>1. /\ \A j \in 0..MaxChannels : j # k => (IsOpen(j)' <=> IsOpen(j))
          /\ ~IsOpen(k) /\ (IsOpen(k)' <=> chan'[k].state = "open")
      BY <2>1, <2>3, <2>4, BoundsAssumption DEF IsOpen
    <3>2. \A d \in Consumers : d # c => dedicated'[d] = dedicated[d]
      BY <1>1, <2>3
    <3>3. dedicated'[c] = IF IsOpen(k)' THEN k ELSE 0
      BY <1>1, <2>3, <3>1
    <3>4. \A j \in 1..MaxChannels : IsOpen(j) => chan[j].owner # c
      BY <1>1, <2>2, BoundsAssumption DEF ChannelPart
    <3>5. \A j \in 1..MaxChannels : IsOpen(j)' => dedicated'[chan'[j].owner] = j /\ pool' # 0
      <4> SUFFICES ASSUME NEW j \in 1..MaxChannels, IsOpen(j)'
                   PROVE  dedicated'[chan'[j].owner] = j /\ pool' # 0
        OBVIOUS
      <4>1. pool' # 0
        BY <2>2, <2>3
      <4>2. CASE j = k
        BY <2>3, <3>3, <4>1, <4>2
      <4>3. CASE j # k
        <5>1. IsOpen(j) /\ j \in 0..MaxChannels /\ chan'[j] = chan[j]
          BY <2>3, <3>1, <4>3
        <5>2. chan[j].owner \in Consumers /\ chan[j].owner # c /\ dedicated[chan[j].owner] = j
          BY <1>1, <3>4, <5>1 DEF ChannelPart
        <5> QED
          BY <3>2, <4>1, <5>1, <5>2
      <4> QED
        BY <4>2, <4>3
    <3>6. \A d \in Consumers : dedicated'[d] # 0 =>
            chan'[dedicated'[d]].state = "open" /\ chan'[dedicated'[d]].owner = d
      <4>1. ASSUME NEW d \in Consumers, d # c, dedicated'[d] # 0
            PROVE  chan'[dedicated'[d]].state = "open" /\ chan'[dedicated'[d]].owner = d
        <5>1. PICK j \in 1..MaxChannels : dedicated'[d] = j /\ IsOpen(j) /\ chan[j].owner = d
          BY <1>1, <3>2, <4>1, BoundsAssumption DEF ChannelPart
        <5> QED
          BY <2>3, <3>1, <5>1 DEF IsOpen
      <4> QED
        BY <2>3, <3>3, <4>1 DEF IsOpen
    <3>7. \A t \in serving : LET j == consume[t].on IN
            j # 0 /\ chan'[j].state = "open" /\ chan'[j].owner = consume[t].by
      <4> SUFFICES ASSUME NEW t \in serving
                   PROVE  LET j == consume[t].on IN
                          j # 0 /\ chan'[j].state = "open" /\ chan'[j].owner = consume[t].by
        OBVIOUS
      <4>1. PICK j \in 1..MaxChannels : consume[t].on = j /\ IsOpen(j) /\ chan[j].owner = consume[t].by
        <5>1. consume[t].on \in 0..MaxChannels
          BY <1>1
        <5>2. IsOpen(consume[t].on) /\ chan[consume[t].on].owner = consume[t].by
          BY <1>1 DEF ChannelPart
        <5>3. consume[t].on # 0
          BY <5>2 DEF IsOpen
        <5> QED
          BY <5>1, <5>2, <5>3, BoundsAssumption
      <4> QED
        BY <2>3, <3>1, <4>1 DEF IsOpen
    <3> QED
      BY <2>3, <3>5, <3>6, <3>7 DEF ChannelPart, IsOpen
  <2>6. \A j \in 1..MaxChannels : chan'[j].state # "none" <=> j <= k
    <3>1. \A j \in 1..MaxChannels : j # k => (chan'[j].state # "none" <=> j < k)
      BY <2>1, <2>3
    <3>2. chan'[k].state # "none"
      BY <2>3
    <3>3. k \in Nat /\ \A j \in 1..MaxChannels : j \in Nat
      BY <2>1, BoundsAssumption
    <3> QED
      BY <3>1, <3>2, <3>3
  <2>7. \A t \in 1..MaxTags : Given(t)' <=> Given(t)
    BY <2>3 DEF Given
  <2> QED
    BY <1>1, <2>1, <2>3, <2>5, <2>6, <2>7 DEF NumberPart
<1>6. ASSUME NEW c \in Consumers, NEW p \in Setups, ConsumeAnswered(c, p) PROVE Goal
  <2> DEFINE n == NextTag
             k == proc[c][p].chan
  <2>1. n \in 1..MaxTags /\ \A t \in 1..MaxTags : Given(t) <=> t < n
    BY <1>1, <1>6, NextTagIs, BoundsAssumption DEF ConsumeAnswered
  <2>2. k \in 1..MaxChannels /\ IsOpen(k) /\ chan[k].owner = c
    <3>1. proc[c][p] \in ProcRecord
      BY <1>1 DEF TypeOK, ProcRecord, Procs
    <3>2. ProcPart(c)
      BY DEF IInv, Local
    <3>3. proc[c][p].pc = "consuming" /\ IsOpen(k)
      BY <1>6 DEF ConsumeAnswered
    <3>4. k # 0 /\ chan[k].owner = c
      BY <3>2, <3>3 DEF ProcPart, ProcRow
    <3>5. k \in 1..MaxChannels
      BY <3>1, <3>4, BoundsAssumption DEF ProcRecord
    <3> QED
      BY <3>3, <3>4, <3>5
  <2>3. /\ consume' = [consume EXCEPT ![n] = [by |-> c, on |-> k]]
        /\ serving' = serving \cup {n} /\ UNCHANGED <<chan, dedicated, pool>>
    BY <1>6 DEF ConsumeAnswered, facade
  <2> HIDE DEF n, k
  <2>4. consume'[n] = [by |-> c, on |-> k] /\ \A t \in 1..MaxTags : t # n => consume'[t] = consume[t]
    BY <1>1, <2>1, <2>3
  <2>5. \A t \in 1..MaxTags : Given(t)' <=> t <= n
    BY <1>1, <2>1, <2>2, <2>4 DEF Given
  <2>6. ChannelPart'
    BY <1>1, <2>1, <2>2, <2>3, <2>4 DEF ChannelPart, IsOpen
  <2>7. \A t \in 1..MaxTags : Given(t) => consume'[t] = consume[t] /\ Given(t)'
    BY <2>1, <2>4, <2>5
  <2>8. \A t \in serving' : Given(t)'
    BY <1>1, <2>1, <2>3, <2>5, <2>7 DEF NumberPart
  <2> QED
    BY <1>1, <2>1, <2>3, <2>5, <2>6, <2>7, <2>8 DEF NumberPart
<1>7. ASSUME NEW t \in 0..MaxTags, Cancelled(t) PROVE Goal
  <2>1. ChannelPart'
    BY <1>1, <1>2, <1>7 DEF ChannelPart, IsOpen, Cancelled, ConnectionDrops
  <2>2. \A s \in 1..MaxTags : Given(s)' <=> Given(s)
    BY <1>7 DEF Cancelled, Given
  <2> QED
    BY <1>1, <1>7, <2>1, <2>2 DEF Cancelled, NumberPart
<1>8. CASE ConnectionDrops
  <2>1. \A k \in 1..MaxChannels : ~IsOpen(k)' /\ (chan'[k].state = "none" <=> chan[k].state = "none")
    BY <1>1, <1>8 DEF ConnectionDrops, IsOpen
  <2>2. ChannelPart'
    BY <1>1, <1>8, <2>1 DEF ConnectionDrops, ChannelPart
  <2>3. \A t \in 1..MaxTags : Given(t)' <=> Given(t)
    BY <1>8 DEF ConnectionDrops, Given
  <2> QED
    BY <1>1, <1>8, <2>1, <2>2, <2>3 DEF ConnectionDrops, NumberPart
<1> QED
  BY <1>3, <1>4, <1>5, <1>6, <1>7, <1>8, BrokerMoves DEF BrokerMove

-----------------------------------------------------------------------------
\* A tag becomes a consumer's, and a handle for it, when a setup settles for a consumer that
\* is still registered; a handler starts on a consume that is served, and is cut off running.
TagMoves ==
    /\ \A d \in Consumers :
         \/ info'[d].tag = info[d].tag
         \/ \E p \in Setups : /\ proc[d][p].pc = "consumed" /\ info'[d].tag = proc[d][p].tag
                              /\ info[d].status = "active" /\ ~info[d].cancelled
    /\ \A t \in tagged' :
         \/ t \in tagged /\ info'[OwnerOf(t)].status = "active"
         \/ \E d \in Consumers : \E p \in Setups :
              proc[d][p].pc = "consumed" /\ t = proc[d][p].tag /\ info'[d].status = "active"
    /\ running' \subseteq running \cup serving
    /\ cut' \subseteq cut \cup running

\* Every step changes tags and handlers in these ways only.
LEMMA TagSteps == IInv /\ [Next]_vars => TagMoves
<1> SUFFICES ASSUME IInv, [Next]_vars PROVE TagMoves
  OBVIOUS
<1>0. /\ TypeOK /\ ChannelPart /\ InfoTypes
      /\ \A t \in tagged : OwnerOf(t) \in Consumers /\ info[OwnerOf(t)].status = "active"
  BY TypeParts DEF IInv, TypeOK, TagsResolve, Active, OwnerOf
<1>1. ASSUME NEW c \in Consumers, NEW p \in Setups, SetupStep(c, p) PROVE TagMoves
  <2>1. CASE SetupSettles(c, p)
    <3>1. CASE AbandonsConsume(c)
      BY <1>0, <2>1, <3>1 DEF SetupSettles, TagMoves, drops
    <3>2. CASE ~AbandonsConsume(c)
      <4>1. /\ proc[c][p].pc = "consumed" /\ info' = [info EXCEPT ![c].tag = proc[c][p].tag]
            /\ tagged' = tagged \cup {proc[c][p].tag} /\ UNCHANGED <<running, cut>>
            /\ info[c].status = "active" /\ ~info[c].cancelled
        BY <2>1, <3>2 DEF SetupSettles, TrackConsumerTag, drops, AbandonsConsume, Active
      <4>2. /\ info'[c].tag = proc[c][p].tag
            /\ \A d \in Consumers : /\ info'[d].status = info[d].status
                                    /\ d # c => info'[d].tag = info[d].tag
        BY <1>0, <4>1 DEF InfoTypes, InfoRecord
      <4> QED
        BY <1>0, <4>1, <4>2 DEF TagMoves
    <3> QED
      BY <3>1, <3>2
  <2>2. CASE LoopWakes(c, p)
    <3>1. \A d \in Consumers : info'[d].tag = info[d].tag /\ info'[d].status = info[d].status
      BY <1>0, <2>2, StampedIs DEF LoopWakes, InfoTypes, InfoRecord
    <3>2. UNCHANGED <<tagged, running, cut>>
      BY <2>2 DEF LoopWakes, history, drops
    <3> QED
      BY <1>0, <3>1, <3>2 DEF TagMoves
  <2>3. CASE ~SetupSettles(c, p) /\ ~LoopWakes(c, p)
    <3>1. UNCHANGED <<info, tagged, running, cut>>
      BY <1>1, <2>3 DEF SetupStep, ChannelOpened, ChannelRefused, ConsumeAnswered, ConsumeFails,
                        ConsumeRevoked, manager, drops, history
    <3> QED
      BY <1>0, <3>1 DEF TagMoves
  <2> QED
    BY <2>1, <2>2, <2>3
<1>2. ASSUME NEW c \in Consumers, NEW p \in Procs, DropStep(c, p) PROVE TagMoves
  <2>1. CASE Drop(c, p)
    <3>1. /\ \A d \in Consumers : info'[d].tag = info[d].tag /\ (d # c => info'[d].status = info[d].status)
          /\ tagged' = TagsSwept(c) /\ UNCHANGED running
      BY <1>0, <2>1 DEF Drop, InfoTypes, InfoRecord
    <3>2. cut' \subseteq cut \cup running
      BY <2>1 DEF Drop, ReleaseChannel, InFlight
    <3>3. \A t \in tagged' : t \in tagged /\ OwnerOf(t) # c
      BY <3>1 DEF TagsSwept, OwnerOf
    <3> QED
      BY <1>0, <3>1, <3>2, <3>3 DEF TagMoves
  <2>2. CASE WorkersEnded(c, p)
    <3>1. UNCHANGED <<info, tagged, running>> /\ cut' \subseteq cut \cup running
      BY <2>2 DEF WorkersEnded, ReleaseChannel, InFlight, manager
    <3> QED
      BY <1>0, <3>1 DEF TagMoves
  <2> QED
    BY <1>2, <2>1, <2>2 DEF DropStep, Drained, DrainTimesOut
<1>3. CASE \/ \E c \in Consumers : CancelAnswered(c)
           \/ \E t \in 1..MaxTags : BrokerCancels(t)
           \/ \E k \in 1..MaxChannels : ChannelCloses(k)
           \/ RefusalChanges \/ ConnectionDrops \/ PoolInstalled \/ UNCHANGED vars
  <2>1. UNCHANGED <<info, tagged, running, cut>>
    BY <1>3 DEF CancelAnswered, BrokerCancels, ChannelCloses, RefusalChanges, ConnectionDrops,
                PoolInstalled, vars, manager, history, drops
  <2> QED
    BY <1>0, <2>1 DEF TagMoves
<1>4. ASSUME NEW t \in 1..MaxTags, Deliver(t) \/ HandlerEnds(t) PROVE TagMoves
  <2>1. UNCHANGED <<info, tagged, cut>> /\ running' \subseteq running \cup serving
    BY <1>4 DEF Deliver, HandlerEnds, manager, history, drops
  <2> QED
    BY <1>0, <2>1 DEF TagMoves
<1>5. ASSUME NEW t \in 1..MaxTags, Unsubscribe(t) PROVE TagMoves
  <2>1. /\ \A d \in Consumers : info'[d].tag = info[d].tag /\ info'[d].status = info[d].status
        /\ UNCHANGED <<tagged, running, cut>>
    BY <1>0, <1>5 DEF Unsubscribe, InfoTypes, InfoRecord, history, drops
  <2> QED
    BY <1>0, <2>1 DEF TagMoves
<1>6. ASSUME NEW c \in Consumers, NEW parallel \in BOOLEAN, Subscribe(c, parallel) PROVE TagMoves
  <2>1. Stamped(c) \in InfoRecord /\ Stamped(c).tag = info[c].tag
    BY <1>0, StampedIs
  <2>2. /\ \A d \in Consumers : /\ info'[d].tag = info[d].tag
                                /\ info'[d].status = info[d].status \/ info'[d].status = "active"
        /\ UNCHANGED <<tagged, running, cut>>
    BY <1>0, <1>6, <2>1 DEF Subscribe, InfoTypes, InfoRecord, history, drops
  <2> QED
    BY <1>0, <2>2 DEF TagMoves
<1>7. CASE RecreateAll
  <2>1. /\ \A d \in Consumers : info'[d].tag = info[d].tag /\ info'[d].status = info[d].status
        /\ UNCHANGED <<tagged, running, cut>>
    BY <1>0, <1>7, StampedIs DEF RecreateAll, drops
  <2> QED
    BY <1>0, <2>1 DEF TagMoves
<1>8. ASSUME Disposed, UNCHANGED <<running, cut>> PROVE TagMoves
  <2>1. \A d \in Consumers : info'[d].tag = info[d].tag
    BY <1>0, <1>8 DEF Disposed, InfoTypes, InfoRecord
  <2> QED
    BY <1>8, <2>1 DEF TagMoves, Disposed
<1>9. CASE DisposeAll \/ DisposeEnds
  <2>1. UNCHANGED <<running, cut>> /\ (Disposed \/ UNCHANGED <<info, tagged>>)
    BY <1>9 DEF DisposeAll, DisposeEnds, history, drops
  <2> QED
    BY <1>0, <1>8, <2>1 DEF TagMoves
<1> QED
  BY <1>1, <1>2, <1>3, <1>4, <1>5, <1>6, <1>7, <1>9 DEF Next

\* What is numbered stays given out, and every handle keeps a registered consumer.
LEMMA NumberStep ==
    ASSUME IInv, [Next]_vars, TypeOK'
    PROVE  NumberPart' /\ TagsResolve'
<1>0. /\ TypeOK /\ NumberPart /\ TagsResolve /\ InfoTypes /\ InfoTypes'
      /\ \A c \in Consumers : ProcPart(c)
  <2>1. TypeOK /\ NumberPart /\ TagsResolve /\ \A c \in Consumers : ProcPart(c)
    BY DEF IInv, Local
  <2>2. InfoTypes'
    BY TypeParts, PTL
  <2> QED
    BY <2>1, <2>2, TypeParts
<1>1. TagMoves
  BY TagSteps
<1>2. /\ \A t \in 1..MaxTags : Given(t) => consume'[t] = consume[t] /\ Given(t)'
      /\ \A t \in serving' : Given(t)'
  BY ChannelStep DEF Given
<1>3. \A d \in Consumers : \A p \in Setups : proc[d][p].pc = "consumed" =>
        /\ proc[d][p].tag \in 1..MaxTags /\ Given(proc[d][p].tag)
        /\ consume[proc[d][p].tag].by = d
  <2> SUFFICES ASSUME NEW d \in Consumers, NEW p \in Setups, proc[d][p].pc = "consumed"
               PROVE  /\ proc[d][p].tag \in 1..MaxTags /\ Given(proc[d][p].tag)
                      /\ consume[proc[d][p].tag].by = d
    OBVIOUS
  <2>1. proc[d][p].tag \in 0..MaxTags
    BY <1>0 DEF TypeOK, Procs
  <2>2. proc[d][p].tag # 0 /\ Given(proc[d][p].tag) /\ consume[proc[d][p].tag].by = d
    BY <1>0 DEF ProcPart, ProcRow
  <2> QED
    BY <2>1, <2>2, BoundsAssumption
<1>4. \A t \in tagged' : Given(t)' /\ info'[consume'[t].by].status = "active"
  BY <1>0, <1>1, <1>2, <1>3 DEF TagMoves, NumberPart, InfoTypes, OwnerOf
<1>5. \A t \in running' \cup cut' : Given(t)'
  BY <1>0, <1>1, <1>2 DEF TagMoves, NumberPart, InfoTypes, TypeOK
<1>6. \A c \in Consumers : info'[c].tag # 0 => consume'[info'[c].tag].on # 0 /\ consume'[info'[c].tag].by = c
  <2> SUFFICES ASSUME NEW c \in Consumers, info'[c].tag # 0
               PROVE  consume'[info'[c].tag].on # 0 /\ consume'[info'[c].tag].by = c
    BY DEF Given
  <2>1. PICK t \in 1..MaxTags : info'[c].tag = t /\ Given(t) /\ consume[t].by = c
    <3>1. info[c].tag \in 0..MaxTags
      BY <1>0 DEF InfoTypes, InfoRecord
    <3> QED
      BY <1>0, <1>1, <1>3, <3>1, BoundsAssumption DEF TagMoves, NumberPart
  <2> QED
    BY <1>2, <2>1 DEF Given
<1>7. pool' \in {0, pools'}
  BY <1>0, PoolMoves DEF NumberPart, ConnectionDrops, PoolInstalled
<1>8. TagsResolve'
  BY <1>4 DEF TagsResolve, Active, OwnerOf
<1>9. NumberPart'
  BY <1>2, <1>4, <1>5, <1>6, <1>7, ChannelStep DEF NumberPart, Given
<1> QED
  BY <1>8, <1>9

-----------------------------------------------------------------------------
(* What no step takes back: an epoch, a cancellation, the end of a registration, a       *)
(* channel's owner and a consume.                                                       *)
InfoMove(d) ==
    /\ info'[d].epoch >= info[d].epoch
    /\ info[d].cancelled => info'[d].cancelled
    /\ info[d].status \in {"gone", "disposed"} => info'[d].status \in {"gone", "disposed"}
    /\ info'[d].status = "unused" => info[d].status = "unused"

\* The record of a consumer only moves on.
LEMMA InfoSteps == IInv /\ [Next]_vars => \A d \in Consumers : InfoMove(d)
<1> SUFFICES ASSUME IInv, [Next]_vars, NEW d \in Consumers PROVE InfoMove(d)
  OBVIOUS
<1>0. /\ TypeOK /\ ChannelPart /\ InfoTypes
      /\ info[d].epoch \in Nat /\ info[d].status \in {"unused", "active", "gone", "disposed"}
      /\ \A c \in Consumers : ProcPart(c)
  <2>1. TypeOK /\ ChannelPart /\ \A c \in Consumers : ProcPart(c)
    BY DEF IInv, Local
  <2> QED
    BY <2>1, TypeParts DEF InfoTypes, InfoRecord
<1>1. CASE UNCHANGED info
  BY <1>0, <1>1 DEF InfoMove
<1>2. ASSUME NEW c \in Consumers, info' = [info EXCEPT ![c] = Stamped(c)] PROVE InfoMove(d)
  BY <1>0, <1>2, StampedIs DEF InfoMove, InfoTypes, InfoRecord
<1>3. ASSUME NEW c \in Consumers, NEW p \in Setups, SetupStep(c, p) PROVE InfoMove(d)
  <2>1. CASE SetupSettles(c, p)
    BY <1>0, <2>1 DEF SetupSettles, TrackConsumerTag, InfoMove, InfoTypes, InfoRecord
  <2>2. CASE LoopWakes(c, p)
    BY <1>1, <1>2, <2>2 DEF LoopWakes
  <2> QED
    BY <1>1, <1>3, <2>1, <2>2 DEF SetupStep, ChannelOpened, ChannelRefused, ConsumeAnswered,
                                  ConsumeFails, ConsumeRevoked, manager
<1>4. ASSUME NEW c \in Consumers, NEW p \in Procs, DropStep(c, p) PROVE InfoMove(d)
  <2>1. CASE Drop(c, p)
    BY <1>0, <2>1 DEF Drop, InfoMove, InfoTypes, InfoRecord
  <2> QED
    BY <1>1, <1>4, <2>1 DEF DropStep, Drained, DrainTimesOut, WorkersEnded, manager
<1>5. CASE \/ \E c \in Consumers : CancelAnswered(c)
           \/ \E t \in 1..MaxTags : Deliver(t) \/ HandlerEnds(t) \/ BrokerCancels(t)
           \/ \E k \in 1..MaxChannels : ChannelCloses(k)
           \/ RefusalChanges \/ ConnectionDrops \/ PoolInstalled \/ UNCHANGED vars
  BY <1>1, <1>5 DEF CancelAnswered, Deliver, HandlerEnds, BrokerCancels, ChannelCloses, RefusalChanges,
                    ConnectionDrops, PoolInstalled, vars, manager
<1>6. ASSUME NEW t \in 1..MaxTags, Unsubscribe(t) PROVE InfoMove(d)
  BY <1>0, <1>6 DEF Unsubscribe, InfoMove, InfoTypes, InfoRecord
<1>7. ASSUME NEW c \in Consumers, NEW parallel \in BOOLEAN, Subscribe(c, parallel) PROVE InfoMove(d)
  <2>1. info' = [info EXCEPT ![c] = [Stamped(c) EXCEPT !.status = "active"]] /\ info[c].status = "unused"
    BY <1>7 DEF Subscribe
  <2>2. Stamped(c) \in InfoRecord /\ Stamped(c).epoch = info[c].epoch + 1
        /\ Stamped(c).cancelled = info[c].cancelled
    BY <1>0, StampedIs
  <2> QED
    BY <1>0, <2>1, <2>2 DEF InfoMove, InfoTypes, InfoRecord
<1>8. CASE RecreateAll
  BY <1>0, <1>8, StampedIs DEF RecreateAll, InfoMove
<1>9. CASE DisposeAll \/ DisposeEnds
  <2>1. Disposed \/ UNCHANGED info
    BY <1>9 DEF DisposeAll, DisposeEnds
  <2>2. CASE Disposed
    <3>1. CASE Active(d)
      <4>1. info'[d] = [info[d] EXCEPT !.cancelled = TRUE, !.status = "disposed"] /\ info[d] \in InfoRecord
        BY <1>0, <2>2, <3>1 DEF Disposed, InfoTypes
      <4>2. /\ info'[d].epoch = info[d].epoch /\ info'[d].cancelled = TRUE
            /\ info'[d].status = "disposed"
        BY <4>1 DEF InfoRecord
      <4> QED
        BY <1>0, <3>1, <4>2 DEF InfoMove, Active
    <3>2. CASE ~Active(d)
      <4>1. info'[d] = info[d]
        BY <2>2, <3>2 DEF Disposed
      <4> QED
        BY <1>0, <4>1 DEF InfoMove
    <3> QED
      BY <3>1, <3>2
  <2> QED
    BY <1>1, <2>1, <2>2
<1> QED
  BY <1>3, <1>4, <1>5, <1>6, <1>7, <1>8, <1>9 DEF Next

\* A channel that was opened keeps its owner, and is never unopened.
LEMMA ChannelsKept ==
    ASSUME IInv, [Next]_vars
    PROVE  \A k \in 1..MaxChannels : chan[k].state # "none" =>
             chan'[k].owner = chan[k].owner /\ chan'[k].state # "none"
<1> SUFFICES ASSUME NEW k \in 1..MaxChannels, chan[k].state # "none"
             PROVE  chan'[k].owner = chan[k].owner /\ chan'[k].state # "none"
  OBVIOUS
<1>0. TypeOK /\ NumberPart /\ BrokerTypes
  BY TypeParts DEF IInv
<1>2. ASSUME NEW c \in Consumers, NEW p \in Setups, ChannelOpened(c, p)
      PROVE  chan'[k].owner = chan[k].owner /\ chan'[k].state # "none"
  <2>1. NextChannel # k /\ NextChannel \in 1..MaxChannels
    BY <1>0, <1>2, NextChannelIs, BoundsAssumption DEF ChannelOpened
  <2>2. chan'[k] = chan[k]
    BY <1>0, <1>2, <2>1 DEF ChannelOpened, BrokerTypes
  <2> QED
    BY <2>2
<1>3. ASSUME NEW j \in 1..MaxChannels, CloseChannel(j)
      PROVE  chan'[k].owner = chan[k].owner /\ chan'[k].state # "none"
  BY <1>0, <1>3 DEF CloseChannel, BrokerTypes
<1>4. CASE ConnectionDrops
  BY <1>0, <1>4 DEF ConnectionDrops, BrokerTypes
<1> QED
  BY <1>2, <1>3, <1>4, BrokerMoves DEF BrokerMove, ConsumeAnswered, Cancelled, broker

\* So a process that does not move keeps what it holds.
LEMMA RowKept ==
    ASSUME IInv, [Next]_vars, TypeOK', NEW d \in Consumers, NEW p \in Setups, proc'[d][p] = proc[d][p]
    PROVE  ProcRow(d, p)'
<1> DEFINE r == proc[d][p]
<1>1. /\ TypeOK /\ InfoTypes /\ ProcRow(d, p) /\ UnusedPart(d) /\ r \in ProcRecord /\ p \in Procs
  <2>1. TypeOK /\ Local(d)
    BY DEF IInv
  <2> QED
    BY <2>1, TypeParts DEF Local, ProcPart, Procs, ProcTypes
<1>2. r.epoch <= info'[d].epoch /\ r.home <= pools'
  <2>0. InfoTypes' /\ FacadeTypes /\ FacadeTypes'
    BY <1>1, TypeParts, PTL
  <2>1. info[d].epoch \in Nat /\ info'[d].epoch \in Nat /\ pools \in Nat /\ pools' \in Nat
    BY <1>1, <2>0, BoundsAssumption DEF InfoTypes, InfoRecord, FacadeTypes
  <2>2. info'[d].epoch >= info[d].epoch
    BY InfoSteps DEF InfoMove
  <2>3. pools' >= pools
    <3>1. pools' = pools \/ pools' = pools + 1
      BY PoolMoves DEF ConnectionDrops, PoolInstalled
    <3> QED
      BY <2>1, <3>1
  <2>4. r.epoch \in Nat /\ r.home \in Nat
    BY <1>1, BoundsAssumption DEF ProcRecord
  <2> QED
    BY <1>1, <2>1, <2>2, <2>3, <2>4 DEF ProcRow
<1>3. r.pc = "consuming" =>
        r.chan # 0 /\ chan'[r.chan].owner = d /\ chan'[r.chan].state # "none"
  BY <1>1, ChannelsKept, BoundsAssumption DEF ProcRow, ProcRecord
<1>4. r.pc \in {"consumed", "revoking"} => r.tag # 0 /\ consume'[r.tag].on # 0 /\ consume'[r.tag].by = d
  BY <1>1, ChannelStep, BoundsAssumption DEF ProcRow, ProcRecord, Given
<1>5. r.pc = "revoking" => AbandonsConsume(d)'
  BY <1>1, InfoSteps DEF ProcRow, UnusedPart, AbandonsConsume, Active, InfoMove, InfoTypes, InfoRecord
<1> HIDE DEF r
<1>6. proc'[d][p] = r /\ ProcRow(d, p)
  BY <1>1 DEF r
<1> QED
  BY <1>2, <1>3, <1>4, <1>5, <1>6 DEF ProcRow, Given, r

\* A setup that sleeps, drains or is over holds next to nothing.
LEMMA LateRow ==
    ASSUME TypeOK', NEW d \in Consumers, NEW p \in Setups,
           proc'[d][p].pc \in {"idle", "sleeping", "draining", "terminating"},
           proc'[d][p].epoch <= info'[d].epoch, proc'[d][p].home <= pools',
           proc'[d][p].pc = "sleeping" => p \in Loops /\ proc'[d][p].home # 0,
           p = "recreate" => proc'[d][p].pc = "idle"
    PROVE  ProcRow(d, p)'
BY DEF ProcRow
-----------------------------------------------------------------------------
(* Two ways to keep the setups and the loops of a consumer in order: they lose ground,   *)
(* or nothing is live and nothing served at the end.                                    *)

\* The live setups, what is served and the loops that may go on become fewer.
LEMMA Fewer ==
    ASSUME NEW c \in Consumers, SetupPart(c), LoopPart(c),
           \A q \in Setups : Live(c, q)' =>
             /\ Live(c, q)
             /\ \/ proc'[c][q] = proc[c][q]
                \/ /\ {proc[c][q].pc, proc'[c][q].pc} \subseteq {"consumed", "revoking"}
                   /\ proc'[c][q].tag = proc[c][q].tag,
           Serving(c)' \subseteq Serving(c),
           dedicated'[c] \in {0, dedicated[c]},
           \A p \in Loops : /\ Claims(c, p)' => Claims(c, p)
                            /\ proc'[c][p].pc \in {"opening", "consuming"} /\ StillOurs(c, p)' => Claims(c, p)'
    PROVE  SetupPart(c)' /\ LoopPart(c)'
<1>1. ASSUME NEW p \in Setups, Live(c, p)'
      PROVE  /\ \A t \in Serving(c)' : proc'[c][p].pc \in {"consumed", "revoking"} /\ t = proc'[c][p].tag
             /\ proc'[c][p].pc = "opening" => dedicated'[c] = 0
  <2>1. /\ \A t \in Serving(c) : proc[c][p].pc \in {"consumed", "revoking"} /\ t = proc[c][p].tag
        /\ proc[c][p].pc = "opening" => dedicated[c] = 0
    BY <1>1 DEF SetupPart
  <2> QED
    BY <1>1, <2>1
<1>2. /\ \A p, q \in Setups : Live(c, p)' /\ Live(c, q)' => p = q
      /\ \A s, t \in Serving(c)' : s = t
  BY DEF SetupPart
<1>3. \A p \in Loops : Claims(c, p)' => Serving(c)' = {} /\ \A q \in Setups \ {p} : ~Live(c, q)'
  BY DEF LoopPart
<1>4. SetupPart(c)'
  BY <1>1, <1>2 DEF SetupPart
<1>5. LoopPart(c)'
  BY <1>3 DEF LoopPart
<1> QED
  BY <1>4, <1>5

\* Nothing is served and nothing live.
LEMMA Quiet ==
    ASSUME NEW c \in Consumers, Serving(c)' = {}, \A q \in Setups : ~Live(c, q)',
           \A p \in Loops :
             proc'[c][p].pc \in {"opening", "consuming"} /\ StillOurs(c, p)' => Claims(c, p)'
    PROVE  SetupPart(c)' /\ LoopPart(c)'
<1>1. SetupPart(c)'
  BY DEF SetupPart
<1>2. LoopPart(c)'
  BY DEF LoopPart
<1> QED
  BY <1>1, <1>2

\* The consumer p works on, alone.
LEMMA Alone ==
    ASSUME NEW c \in Consumers, NEW p \in Setups,
           \A q \in Setups \ {p} : ~Live(c, q)',
           \A q \in Loops \ {p} : ~Claims(c, q)',
           Live(c, p)' =>
             /\ \A t \in Serving(c)' : proc'[c][p].pc \in {"consumed", "revoking"} /\ t = proc'[c][p].tag
             /\ proc'[c][p].pc = "opening" => dedicated'[c] = 0,
           \A s, t \in Serving(c)' : s = t,
           p \in Loops /\ Claims(c, p)' => Serving(c)' = {},
           \A q \in Loops :
             proc'[c][q].pc \in {"opening", "consuming"} /\ StillOurs(c, q)' => Claims(c, q)'
    PROVE  SetupPart(c)' /\ LoopPart(c)'
<1>1. SetupPart(c)'
  BY DEF SetupPart
<1>2. LoopPart(c)'
  BY DEF LoopPart
<1> QED
  BY <1>1, <1>2

\* The broker side of a consumer does not change.
BrokerStays(d) ==
    /\ dedicated'[d] = dedicated[d] /\ Serving(d)' = Serving(d)
    /\ \A k \in 1..MaxChannels : chan[k].state # "none" /\ chan[k].owner = d => chan'[k] = chan[k]

\* A setup's channel is a new one, and its own unless it is closed at once.
OpenedOn(c, p, k) ==
    /\ chan[k].state = "none" /\ chan'[k].owner = c
    /\ \A j \in 1..MaxChannels : j # k => chan'[j] = chan[j]
    /\ \A d \in Consumers : d # c => dedicated'[d] = dedicated[d]
    /\ \/ /\ AbandonsEarly(c) /\ SetupFails(c, p)
          /\ dedicated'[c] = IF Active(c) THEN k ELSE 0
       \/ /\ ~AbandonsEarly(c) /\ chan'[k].state = "open" /\ dedicated'[c] = k
          /\ Becomes(c, p, [proc[c][p] EXCEPT !.pc = "consuming", !.chan = k])

\* A channel that opens is the next one.
LEMMA OpenedIs ==
    ASSUME IInv, NEW c \in Consumers, NEW p \in Setups, ChannelOpened(c, p)
    PROVE  \E k \in 1..MaxChannels : OpenedOn(c, p, k)
<1>0. TypeOK /\ NumberPart /\ BrokerTypes
  BY TypeParts DEF IInv
<1>1. PICK k \in 0..MaxChannels :
        k = NextChannel /\ (k # 0 => \A j \in 1..MaxChannels : chan[j].state # "none" <=> j < k)
  BY <1>0, NextChannelIs
<1>2. k \in 1..MaxChannels /\ k \in Nat
  BY <1>1, BoundsAssumption DEF ChannelOpened
<1>3. chan[k].state = "none"
  BY <1>1, <1>2
<1>4. CASE AbandonsEarly(c)
  <2>1. PICK w : chan' = [chan EXCEPT ![k] = [owner |-> c, state |-> w]]
    BY <1>1, <1>4 DEF ChannelOpened
  <2>2. dedicated' = [dedicated EXCEPT ![c] = IF Active(c) THEN k ELSE 0] /\ SetupFails(c, p)
    BY <1>1, <1>4 DEF ChannelOpened
  <2>3. chan'[k].owner = c /\ \A j \in 1..MaxChannels : j # k => chan'[j] = chan[j]
    BY <1>0, <1>2, <2>1 DEF BrokerTypes
  <2>4. /\ dedicated'[c] = IF Active(c) THEN k ELSE 0
        /\ \A d \in Consumers : d # c => dedicated'[d] = dedicated[d]
    BY <1>0, <2>2 DEF BrokerTypes
  <2> QED
    BY <1>2, <1>3, <1>4, <2>2, <2>3, <2>4 DEF OpenedOn
<1>5. CASE ~AbandonsEarly(c)
  <2>1. /\ chan' = [chan EXCEPT ![k] = [owner |-> c, state |-> "open"]]
        /\ dedicated' = [dedicated EXCEPT ![c] = k]
        /\ Becomes(c, p, [proc[c][p] EXCEPT !.pc = "consuming", !.chan = k])
    BY <1>1, <1>5 DEF ChannelOpened
  <2>2. /\ chan'[k].owner = c /\ chan'[k].state = "open"
        /\ \A j \in 1..MaxChannels : j # k => chan'[j] = chan[j]
    BY <1>0, <1>2, <2>1 DEF BrokerTypes
  <2>3. dedicated'[c] = k /\ \A d \in Consumers : d # c => dedicated'[d] = dedicated[d]
    BY <1>0, <2>1 DEF BrokerTypes
  <2> QED
    BY <1>2, <1>3, <1>5, <2>1, <2>2, <2>3 DEF OpenedOn
<1> QED
  BY <1>4, <1>5

\* A consume has a tag of its own and comes on the setup's channel.
AnsweredWith(c, p, n) ==
    /\ ~Given(n) /\ consume'[n].by = c /\ consume'[n].on = proc[c][p].chan
    /\ \A t \in 1..MaxTags : t # n => consume'[t] = consume[t]
    /\ serving' = serving \cup {n} /\ n \notin serving
    /\ Becomes(c, p, [proc[c][p] EXCEPT !.pc = "consumed", !.tag = n])

\* A consume that is accepted has the next tag.
LEMMA AnsweredIs ==
    ASSUME IInv, NEW c \in Consumers, NEW p \in Setups, ConsumeAnswered(c, p)
    PROVE  \E n \in 1..MaxTags : AnsweredWith(c, p, n)
<1>0. TypeOK /\ NumberPart /\ BrokerTypes
  BY TypeParts DEF IInv
<1>1. PICK n \in Nat : n = NextTag /\ n >= 1 /\ \A t \in 1..MaxTags : Given(t) <=> t < n
  BY <1>0, NextTagIs
<1>2. n <= MaxTags
  BY <1>1 DEF ConsumeAnswered
<1>3. n \in 1..MaxTags
  BY <1>1, <1>2, BoundsAssumption
<1>4. ~Given(n)
  BY <1>1, <1>3
<1>5. n \notin serving
  BY <1>0, <1>4 DEF NumberPart
<1>6. /\ consume' = [consume EXCEPT ![n] = [by |-> c, on |-> proc[c][p].chan]]
      /\ serving' = serving \cup {n}
      /\ Becomes(c, p, [proc[c][p] EXCEPT !.pc = "consumed", !.tag = n])
  BY <1>1 DEF ConsumeAnswered
<1>7. /\ consume'[n].by = c /\ consume'[n].on = proc[c][p].chan
      /\ \A t \in 1..MaxTags : t # n => consume'[t] = consume[t]
  BY <1>0, <1>3, <1>6 DEF BrokerTypes
<1> QED
  BY <1>3, <1>4, <1>5, <1>6, <1>7 DEF AnsweredWith

\* A channel, a consume or a cancel concerns one consumer.
LEMMA OtherBroker ==
    ASSUME IInv, [Next]_vars, NEW c \in Consumers, NEW d \in Consumers, c # d,
           \/ UNCHANGED broker
           \/ \E k \in 1..MaxChannels : IsOpen(k) /\ chan[k].owner = c /\ CloseChannel(k)
           \/ \E p \in Setups : ChannelOpened(c, p)
           \/ \E p \in Setups : ConsumeAnswered(c, p)
           \/ \E t \in 0..MaxTags : (t \in serving => consume[t].by = c) /\ Cancelled(t)
    PROVE  BrokerStays(d)
<1>0. /\ TypeOK /\ NumberPart /\ ChannelPart /\ BrokerTypes
  BY TypeParts DEF IInv
<1>1. CASE UNCHANGED broker
  BY <1>1 DEF BrokerStays, broker, Serving
<1>2. ASSUME NEW k \in 1..MaxChannels, IsOpen(k), chan[k].owner = c, CloseChannel(k)
      PROVE  BrokerStays(d)
  <2>1. dedicated[d] # k
    BY <1>0, <1>2, BoundsAssumption DEF ChannelPart
  <2>2. \A t \in serving : consume[t].on = k => consume[t].by = c
    BY <1>0, <1>2 DEF ChannelPart
  <2>3. dedicated'[d] = dedicated[d] /\ Serving(d)' = Serving(d)
    BY <1>2, <2>1, <2>2 DEF CloseChannel, Serving
  <2>4. \A j \in 1..MaxChannels : chan[j].owner = d => chan'[j] = chan[j]
    BY <1>0, <1>2 DEF CloseChannel, BrokerTypes
  <2> QED
    BY <2>3, <2>4 DEF BrokerStays
<1>3. ASSUME NEW p \in Setups, ChannelOpened(c, p) PROVE BrokerStays(d)
  <2>1. UNCHANGED <<consume, serving>>
    BY <1>3 DEF ChannelOpened
  <2>0. PICK k \in 1..MaxChannels : OpenedOn(c, p, k)
    BY <1>3, OpenedIs
  <2>2. /\ chan[k].state = "none" /\ dedicated'[d] = dedicated[d]
        /\ \A j \in 1..MaxChannels : j # k => chan'[j] = chan[j]
    BY <2>0 DEF OpenedOn
  <2>3. Serving(d)' = Serving(d)
    BY <2>1 DEF Serving
  <2> QED
    BY <2>2, <2>3 DEF BrokerStays
<1>4. ASSUME NEW p \in Setups, ConsumeAnswered(c, p) PROVE BrokerStays(d)
  <2>1. UNCHANGED <<chan, dedicated>>
    BY <1>4 DEF ConsumeAnswered
  <2>2. PICK n \in 1..MaxTags :
          /\ consume'[n].by = c /\ n \notin serving /\ serving' = serving \cup {n}
          /\ \A t \in 1..MaxTags : t # n => consume'[t] = consume[t]
    BY <1>4, AnsweredIs DEF AnsweredWith
  <2>3. Serving(d)' = Serving(d)
    <3>1. \A t \in serving : t \in 1..MaxTags /\ t # n /\ consume'[t].by = consume[t].by
      BY <1>0, <2>2 DEF BrokerTypes
    <3> QED
      BY <2>2, <3>1 DEF Serving
  <2> QED
    BY <2>1, <2>3 DEF BrokerStays
<1>5. ASSUME NEW t \in 0..MaxTags, t \in serving => consume[t].by = c, Cancelled(t)
      PROVE  BrokerStays(d)
  BY <1>5 DEF Cancelled, BrokerStays, Serving
<1> QED
  BY <1>1, <1>2, <1>3, <1>4, <1>5

\* What a process is worth does not change while it, its consumer's channels and its
\* consumer's consumes stay.
LEMMA LiveKept ==
    ASSUME IInv, [Next]_vars, TypeOK', NEW d \in Consumers, BrokerStays(d), UNCHANGED pool,
           NEW q \in Setups, proc'[d][q] = proc[d][q]
    PROVE  Live(d, q)' <=> Live(d, q)
<1> DEFINE r == proc[d][q]
<1>1. /\ r \in ProcRecord /\ ProcRow(d, q) /\ BrokerTypes /\ BrokerTypes'
  <2>1. TypeOK /\ ProcPart(d)
    BY DEF IInv, Local
  <2>2. BrokerTypes'
    BY TypeParts, PTL
  <2> QED
    BY <2>1, <2>2, TypeParts DEF ProcPart, ProcTypes, Procs
<1>2. CASE r.pc = "consuming"
  <2>1. r.chan \in 1..MaxChannels /\ chan[r.chan].owner = d /\ chan[r.chan].state # "none"
    BY <1>1, <1>2, BoundsAssumption DEF ProcRow, ProcRecord
  <2>2. chan'[r.chan] = chan[r.chan]
    BY <2>1 DEF BrokerStays
  <2> QED
    BY <1>2, <2>2 DEF Live, IsOpen
<1>3. CASE r.pc \in {"consumed", "revoking"}
  <2>1. r.tag \in 1..MaxTags /\ Given(r.tag) /\ consume[r.tag].by = d
    BY <1>1, <1>3, BoundsAssumption DEF ProcRow, ProcRecord
  <2>2. consume'[r.tag] = consume[r.tag]
    BY <2>1, ChannelStep
  <2>3. r.tag \in serving' <=> r.tag \in serving
    BY <2>1, <2>2 DEF BrokerStays, Serving
  <2> QED
    BY <1>3, <2>3 DEF Live
<1>4. CASE r.pc \notin {"consuming", "consumed", "revoking"}
  BY <1>4 DEF Live
<1> QED
  BY <1>2, <1>3, <1>4

\* A consumer that a step leaves alone keeps its part.
LEMMA Bystander ==
    ASSUME IInv, [Next]_vars, TypeOK', NEW d \in Consumers,
           info'[d] = info[d], proc'[d] = proc[d], workers[d] = "none" => workers'[d] = "none",
           BrokerStays(d), UNCHANGED pool
    PROVE  Local(d)'
<1>1. Local(d)
  BY DEF IInv
<1>2. \A q \in Setups : Live(d, q)' <=> Live(d, q)
  BY LiveKept
<1>3. \A p \in Loops : /\ Claims(d, p)' <=> Claims(d, p)
                       /\ StillOurs(d, p)' <=> StillOurs(d, p)
  BY DEF Claims, LoopContinues, StillOurs, Active
<1>4. SetupPart(d)' /\ LoopPart(d)'
  <2>1. SetupPart(d) /\ LoopPart(d) /\ dedicated'[d] = dedicated[d] /\ Serving(d)' = Serving(d)
    BY <1>1 DEF Local, BrokerStays
  <2>2. \A p \in Loops : 
          proc'[d][p].pc \in {"opening", "consuming"} /\ StillOurs(d, p)' => Claims(d, p)'
    BY <1>3, <2>1 DEF LoopPart
  <2> QED
    BY <1>2, <1>3, <2>1, <2>2, Fewer
<1>5. \A q \in Setups : ProcRow(d, q)'
  BY RowKept
<1>6. UnusedPart(d)' /\ DropPart(d)'
  BY <1>1 DEF Local, ProcPart, UnusedPart, DropPart, BrokerStays
<1>7. proc'[d]["unsubscribe"].pc \in {"idle", "cancelling", "draining", "terminating"}
  BY <1>1 DEF Local, ProcPart
<1> QED
  BY <1>4, <1>5, <1>6, <1>7 DEF Local, ProcPart
-----------------------------------------------------------------------------
(* The steps of a setup. *)

\* A setup concerns the process that runs it, of one consumer that is registered or was.
LEMMA SetupRest ==
    ASSUME IInv, [Next]_vars, TypeOK', NEW c \in Consumers, NEW p \in Setups, SetupStep(c, p)
    PROVE  /\ UnusedPart(c)' /\ DropPart(c)' /\ UNCHANGED <<pool, pools>>
           /\ proc'[c]["unsubscribe"].pc \in {"idle", "cancelling", "draining", "terminating"}
           /\ \A q \in Procs \ {p} : proc'[c][q] = proc[c][q]
           /\ \A q \in Setups \ {p} : ProcRow(c, q)'
           /\ \A d \in Consumers : d # c => Local(d)'
<1>0. TypeOK /\ NumberPart /\ ProcPart(c) /\ DropPart(c) /\ InfoTypes /\ p \in Procs
  BY TypeParts DEF IInv, Local, Procs
<1>1. /\ \A q \in Procs \ {p} : proc'[c][q] = proc[c][q]
      /\ \A d \in Consumers : d # c => proc'[d] = proc[d]
  BY <1>0, SetupMoves, Updated
<1>2. \A q \in Setups \ {p} : ProcRow(c, q)'
  BY <1>1, RowKept DEF Procs
<1>3. proc'[c]["unsubscribe"].pc \in {"idle", "cancelling", "draining", "terminating"}
  BY <1>0, <1>1 DEF ProcPart, Procs, Setups, Loops
<1>4. UNCHANGED <<pool, pools>>
  BY DEF SetupStep, ChannelOpened, ChannelRefused, ConsumeAnswered, ConsumeFails, SetupSettles,
         ConsumeRevoked, LoopWakes, facade
<1>5. proc[c][p].pc \notin {"idle", "draining", "terminating"}
  BY DEF SetupStep, ChannelOpened, ChannelRefused, ConsumeAnswered, ConsumeFails, SetupSettles,
         ConsumeRevoked, LoopWakes
<1>6. UnusedPart(c)'
  BY <1>0, <1>5, InfoSteps DEF ProcPart, UnusedPart, InfoMove
<1>7. /\ info'[c].status = info[c].status
      /\ \A d \in Consumers : d # c => info'[d] = info[d] /\ workers'[d] = workers[d]
  <2>1. CASE SetupSettles(c, p)
    <3>1. UNCHANGED info \/ info' = [info EXCEPT ![c].tag = proc[c][p].tag]
      BY <2>1 DEF SetupSettles, TrackConsumerTag
    <3>2. UNCHANGED workers \/ workers' = [workers EXCEPT ![c] = "owned"]
      BY <2>1 DEF SetupSettles
    <3>3. FacadeTypes
      BY <1>0, TypeParts
    <3>4. \A d \in Consumers : d # c => workers'[d] = workers[d]
      BY <3>2, <3>3 DEF FacadeTypes
    <3> QED
      BY <1>0, <3>1, <3>4 DEF InfoTypes, InfoRecord
  <2>2. CASE LoopWakes(c, p)
    BY <1>0, <2>2, StampedIs DEF LoopWakes, InfoTypes, InfoRecord
  <2>3. CASE ~SetupSettles(c, p) /\ ~LoopWakes(c, p)
    BY <2>3 DEF SetupStep, ChannelOpened, ChannelRefused, ConsumeAnswered, ConsumeFails,
                ConsumeRevoked, manager
  <2> QED
    BY <2>1, <2>2, <2>3
<1>8. DropPart(c)'
  <2>1. CASE ChannelOpened(c, p)
    <3>1. PICK k \in 1..MaxChannels : OpenedOn(c, p, k)
      BY <2>1, OpenedIs
    <3>2. ASSUME ~Active(c) PROVE dedicated'[c] = 0
      BY <3>1, <3>2 DEF OpenedOn, AbandonsEarly
    <3> QED
      BY <1>7, <3>2 DEF DropPart, Active
  <2>2. CASE ~ChannelOpened(c, p)
    <3>1. UNCHANGED dedicated
      BY <2>2 DEF SetupStep, ChannelRefused, ConsumeAnswered, ConsumeFails, SetupSettles,
                  ConsumeRevoked, LoopWakes, broker
    <3> QED
      BY <1>0, <1>1, <1>5, <1>7, <3>1 DEF DropPart
  <2> QED
    BY <2>1, <2>2
<1>9. ASSUME NEW d \in Consumers, d # c PROVE Local(d)'
  <2>1. BrokerStays(d)
    <3>1. CASE ConsumeRevoked(c, p)
      <4>1. proc[c][p].tag \in 0..MaxTags /\ consume[proc[c][p].tag].by = c
        <5>1. proc[c][p] \in ProcRecord /\ ProcRow(c, p)
          BY <1>0, TypeParts DEF ProcPart, ProcTypes
        <5> QED
          BY <3>1, <5>1 DEF ConsumeRevoked, ProcRow, ProcRecord
      <4>2. Cancelled(proc[c][p].tag)
        BY <3>1 DEF ConsumeRevoked, Cancelled
      <4> QED
        BY <1>9, <4>1, <4>2, OtherBroker
    <3>2. CASE ChannelOpened(c, p) \/ ConsumeAnswered(c, p)
      BY <1>9, <3>2, OtherBroker
    <3>3. CASE ChannelRefused(c, p) \/ ConsumeFails(c, p) \/ SetupSettles(c, p) \/ LoopWakes(c, p)
      <4>1. UNCHANGED broker
        BY <3>3 DEF ChannelRefused, ConsumeFails, SetupSettles, LoopWakes
      <4> QED
        BY <1>9, <4>1, OtherBroker
    <3> QED
      BY <3>1, <3>2, <3>3 DEF SetupStep
  <2> QED
    BY <1>1, <1>4, <1>7, <1>9, <2>1, Bystander
<1> QED
  BY <1>1, <1>2, <1>3, <1>4, <1>6, <1>8, <1>9

\* A setup that failed is live no more, and its loop goes on only if it might before.
LEMMA FailedLeaves ==
    ASSUME IInv, [Next]_vars, TypeOK', NEW c \in Consumers, NEW p \in Setups, SetupFails(c, p),
           UNCHANGED <<info, pool, pools>>, proc[c][p].pc \in {"opening", "consuming", "revoking"}
    PROVE  /\ ProcRow(c, p)' /\ ~Live(c, p)'
           /\ p \in Loops => /\ Claims(c, p)' => Claims(c, p)
                             /\ proc'[c][p].pc \notin {"opening", "consuming"}
<1> DEFINE a == AfterFailure(c, p)
<1>0. TypeOK /\ ProcRow(c, p) /\ InfoTypes /\ FacadeTypes /\ p \in Procs
  BY TypeParts DEF IInv, Local, ProcPart, Procs
<1>1. /\ a \in ProcRecord
      /\ \/ a = Idle
         \/ p \in Loops /\ a.pc = "sleeping"
         \/ p = "subscribe" /\ a.pc = "draining"
         \/ p \in Loops /\ a.pc = "draining" /\ StillOurs(c, p)
      /\ a # Idle => a.home = proc[c][p].home /\ a.epoch = proc[c][p].epoch
  BY <1>0, FailureIs
<1>2. proc'[c][p] = a
  BY <1>0, <1>1, Updated DEF SetupFails
<1> HIDE DEF a
<1>3. /\ proc'[c][p].pc \in {"idle", "sleeping", "draining"}
      /\ proc'[c][p].pc = "sleeping" => p \in Loops
      /\ p = "recreate" => proc'[c][p].pc = "idle"
  BY <1>1, <1>2 DEF Idle, Loops
<1>4. /\ proc'[c][p].pc # "idle" =>
           proc'[c][p].home = proc[c][p].home /\ proc'[c][p].epoch = proc[c][p].epoch
      /\ proc'[c][p].pc = "idle" => proc'[c][p].home = 0 /\ proc'[c][p].epoch = 0
  <2>1. CASE a = Idle
    BY <1>2, <2>1 DEF Idle
  <2>2. CASE a # Idle
    <3>1. a.pc # "idle"
      BY <1>1, <2>2
    <3> QED
      BY <1>1, <1>2, <2>2, <3>1
  <2> QED
    BY <2>1, <2>2
<1>5. ProcRow(c, p)'
  <2>1. info[c].epoch \in Nat /\ pools \in Nat
    BY <1>0, BoundsAssumption DEF InfoTypes, InfoRecord, FacadeTypes
  <2>2. proc'[c][p].epoch <= info'[c].epoch /\ proc'[c][p].home <= pools'
    BY <1>0, <1>4, <2>1 DEF ProcRow
  <2>3. proc'[c][p].pc = "sleeping" => p \in Loops /\ proc'[c][p].home # 0
    BY <1>0, <1>3, <1>4 DEF ProcRow
  <2> QED
    BY <1>3, <2>2, <2>3, LateRow
<1>6. ~Live(c, p)'
  BY <1>3 DEF Live
<1>7. ASSUME Claims(c, p)' PROVE Claims(c, p)
  <2>1. LoopContinues(c, p)
    BY <1>3, <1>4, <1>7 DEF Claims, LoopContinues, StillOurs, Active
  <2>2. proc[c][p].pc # "revoking"
    BY <1>0, <2>1 DEF ProcRow, LoopContinues, StillOurs, AbandonsConsume
  <2> QED
    BY <2>1, <2>2 DEF Claims
<1> QED
  BY <1>3, <1>5, <1>6, <1>7

\* A setup goes on with the channel it opened, or fails without one.
LEMMA OpenedLocal ==
    ASSUME IInv, [Next]_vars, TypeOK', NEW c \in Consumers, NEW p \in Setups, ChannelOpened(c, p)
    PROVE  ProcRow(c, p)' /\ SetupPart(c)' /\ LoopPart(c)'
<1>0. /\ TypeOK /\ NumberPart /\ ChannelPart /\ Local(c) /\ ProcPart(c) /\ SetupPart(c) /\ LoopPart(c)
      /\ proc \in [Consumers -> [Procs -> ProcRecord]] /\ p \in Procs /\ SetupStep(c, p)
  BY TypeParts DEF IInv, Local, ProcTypes, Procs, SetupStep
<1>1. PICK k \in 1..MaxChannels : OpenedOn(c, p, k)
  BY OpenedIs
<1>2. /\ proc[c][p].pc = "opening" /\ proc[c][p].home = pool
      /\ UNCHANGED <<info, consume, serving, pool, pools>>
  BY DEF ChannelOpened, facade, manager
<1>3. \A q \in Setups \ {p} : proc'[c][q] = proc[c][q] /\ ~Live(c, q)
  <2>1. Live(c, p)
    BY <1>2 DEF Live
  <2> QED
    BY <1>0, <2>1, SetupRest DEF SetupPart, Procs
<1>4. Serving(c)' = {}
  <2>1. Serving(c) = {}
    BY <1>0, <1>2 DEF SetupPart, Live
  <2> QED
    BY <1>2, <2>1 DEF Serving
<1>5. \A q \in Setups \ {p} : ~Live(c, q)'
  <2> SUFFICES ASSUME NEW q \in Setups \ {p}, Live(c, q)' PROVE FALSE
    OBVIOUS
  <2>1. proc'[c][q] = proc[c][q] /\ ~Live(c, q) /\ ProcRow(c, q) /\ proc[c][q] \in ProcRecord
    BY <1>0, <1>3 DEF ProcPart, Procs
  <2>2. proc[c][q].pc = "consuming" /\ IsOpen(proc[c][q].chan)'
    BY <1>2, <2>1 DEF Live
  <2>3. proc[c][q].chan \in 1..MaxChannels /\ chan[proc[c][q].chan].state # "none"
    BY <2>1, <2>2, BoundsAssumption DEF ProcRow, ProcRecord
  <2>4. chan'[proc[c][q].chan] = chan[proc[c][q].chan]
    BY <1>1, <2>3 DEF OpenedOn
  <2> QED
    BY <2>1, <2>2, <2>4 DEF Live, IsOpen
<1>6. CASE AbandonsEarly(c)
  <2>1. SetupFails(c, p)
    BY <1>1, <1>6 DEF OpenedOn
  <2>2. ProcRow(c, p)' /\ ~Live(c, p)'
    BY <1>2, <2>1, FailedLeaves
  <2>3. \A q \in Loops : ~StillOurs(c, q)'
    BY <1>2, <1>6 DEF StillOurs, AbandonsEarly, Active
  <2> QED
    BY <1>4, <1>5, <2>2, <2>3, Quiet
<1>7. CASE ~AbandonsEarly(c)
  <2> DEFINE r == [proc[c][p] EXCEPT !.pc = "consuming", !.chan = k]
  <2>1. r \in ProcRecord /\ r.pc = "consuming" /\ r.chan = k /\ r.home = proc[c][p].home
        /\ r.epoch = proc[c][p].epoch
    <3>1. k \in 0..MaxChannels /\ proc[c][p] \in ProcRecord
      BY <1>0, BoundsAssumption
    <3> QED
      BY <3>1 DEF ProcRecord
  <2>2. Becomes(c, p, r) /\ chan'[k].state = "open" /\ chan'[k].owner = c
    BY <1>1, <1>7 DEF OpenedOn
  <2> HIDE DEF r
  <2>3. proc'[c][p] = r
    BY <1>0, <2>1, <2>2, Updated
  <2>4. ProcRow(c, p)'
    <3>1. ProcRow(c, p) /\ k # 0
      BY <1>0, BoundsAssumption DEF ProcPart
    <3> QED
      BY <1>2, <2>1, <2>2, <2>3, <3>1 DEF ProcRow
  <2>5. \A q \in Loops \ {p} : ~Claims(c, q)'
    <3> SUFFICES ASSUME NEW q \in Loops \ {p}, Claims(c, q)' PROVE FALSE
      OBVIOUS
    <3>1. Claims(c, q)
      BY <1>2, <1>3 DEF Claims, LoopContinues, StillOurs, Active, Setups
    <3>2. Live(c, p)
      BY <1>2 DEF Live
    <3> QED
      BY <1>0, <3>1, <3>2 DEF LoopPart
  <2>6. \A q \in Loops :
          proc'[c][q].pc \in {"opening", "consuming"} /\ StillOurs(c, q)' => Claims(c, q)'
    <3> SUFFICES ASSUME NEW q \in Loops, proc'[c][q].pc \in {"opening", "consuming"}, StillOurs(c, q)'
                 PROVE  Claims(c, q)'
      OBVIOUS
    <3>1. /\ proc'[c][q].home = proc[c][q].home /\ proc'[c][q].epoch = proc[c][q].epoch
          /\ proc[c][q].pc \in {"opening", "consuming"}
      BY <1>2, <1>3, <2>1, <2>3 DEF Setups
    <3>2. Claims(c, q)
      BY <1>0, <1>2, <3>1 DEF LoopPart, StillOurs, Active
    <3> QED
      BY <1>2, <3>1, <3>2 DEF Claims, LoopContinues, StillOurs, Active
  <2>7. SetupPart(c)' /\ LoopPart(c)'
    BY <1>4, <1>5, <2>1, <2>3, <2>5, <2>6, Alone
  <2> QED
    BY <2>4, <2>7
<1> QED
  BY <1>6, <1>7

\* The consume of a setup is the consumer's only one, and no loop claims it any more.
LEMMA AnsweredLocal ==
    ASSUME IInv, [Next]_vars, TypeOK', NEW c \in Consumers, NEW p \in Setups, ConsumeAnswered(c, p)
    PROVE  ProcRow(c, p)' /\ SetupPart(c)' /\ LoopPart(c)'
<1>0. /\ TypeOK /\ NumberPart /\ ChannelPart /\ ProcPart(c) /\ SetupPart(c) /\ LoopPart(c)
      /\ proc \in [Consumers -> [Procs -> ProcRecord]] /\ p \in Procs /\ SetupStep(c, p)
  BY TypeParts DEF IInv, Local, ProcTypes, Procs, SetupStep
<1>1. PICK n \in 1..MaxTags : AnsweredWith(c, p, n)
  BY AnsweredIs
<1>2. /\ proc[c][p].pc = "consuming" /\ Live(c, p)
      /\ UNCHANGED <<info, chan, dedicated, pool, pools>>
  BY DEF ConsumeAnswered, facade, manager, Live
<1>3. \A q \in Setups \ {p} : proc'[c][q] = proc[c][q] /\ ~Live(c, q)
  BY <1>0, <1>2, SetupRest DEF SetupPart, Procs
<1>4. Serving(c)' = {n}
  <2>1. Serving(c) = {} /\ serving \subseteq 1..MaxTags
    BY <1>0, <1>2 DEF SetupPart, TypeOK
  <2>2. \A t \in serving : t \in 1..MaxTags /\ t # n /\ consume'[t] = consume[t]
    BY <1>1, <2>1 DEF AnsweredWith
  <2> QED
    BY <1>1, <2>1, <2>2 DEF Serving, AnsweredWith
<1>5. \A q \in Setups \ {p} : ~Live(c, q)'
  <2> SUFFICES ASSUME NEW q \in Setups \ {p}, Live(c, q)' PROVE FALSE
    OBVIOUS
  <2>1. proc'[c][q] = proc[c][q] /\ ~Live(c, q) /\ ProcRow(c, q)
    BY <1>0, <1>3 DEF ProcPart
  <2>2. proc[c][q].pc \in {"consumed", "revoking"} /\ proc[c][q].tag = n
    BY <1>1, <1>2, <2>1 DEF Live, AnsweredWith, IsOpen
  <2> QED
    BY <1>1, <2>1, <2>2 DEF ProcRow, AnsweredWith
<1> DEFINE r == [proc[c][p] EXCEPT !.pc = "consumed", !.tag = n]
<1>6. r \in ProcRecord /\ r.pc = "consumed" /\ r.tag = n /\ r.home = proc[c][p].home
      /\ r.epoch = proc[c][p].epoch
  <2>1. n \in 0..MaxTags /\ proc[c][p] \in ProcRecord
    BY <1>0, BoundsAssumption
  <2> QED
    BY <2>1 DEF ProcRecord
<1>7. Becomes(c, p, r) /\ consume'[n].by = c /\ consume'[n].on = proc[c][p].chan
  BY <1>1 DEF AnsweredWith
<1> HIDE DEF r
<1>8. proc'[c][p] = r
  BY <1>0, <1>6, <1>7, Updated
<1>9. ProcRow(c, p)'
  <2>1. ProcRow(c, p) /\ n # 0 /\ consume'[n].on # 0
    BY <1>0, <1>2, <1>7, BoundsAssumption DEF ProcPart, ProcRow
  <2> QED
    BY <1>2, <1>6, <1>7, <1>8, <2>1 DEF ProcRow, Given
<1>10. \A q \in Loops : ~Claims(c, q)'
  <2> SUFFICES ASSUME NEW q \in Loops, Claims(c, q)' PROVE FALSE
    OBVIOUS
  <2>1. q # p
    BY <1>6, <1>8 DEF Claims
  <2>2. Claims(c, q)
    BY <1>2, <1>3, <2>1 DEF Claims, LoopContinues, StillOurs, Active, Setups
  <2> QED
    BY <1>0, <1>2, <2>1, <2>2 DEF LoopPart
<1>11. \A q \in Loops : ~(proc'[c][q].pc \in {"opening", "consuming"} /\ StillOurs(c, q)')
  <2> SUFFICES ASSUME NEW q \in Loops, proc'[c][q].pc \in {"opening", "consuming"}, StillOurs(c, q)'
               PROVE  FALSE
    OBVIOUS
  <2>1. q # p
    BY <1>6, <1>8
  <2>2. proc'[c][q] = proc[c][q] /\ StillOurs(c, q)
    BY <1>2, <1>3, <2>1 DEF StillOurs, Active, Setups
  <2>3. Claims(c, q)
    BY <1>0, <2>2 DEF LoopPart
  <2> QED
    BY <1>0, <1>2, <2>1, <2>3 DEF LoopPart
<1>12. SetupPart(c)' /\ LoopPart(c)'
  BY <1>4, <1>5, <1>6, <1>8, <1>10, <1>11, Alone
<1> QED
  BY <1>9, <1>12

\* A consumer whose processes, channels and consumes only lose ground keeps its part.
LEMMA StepsBack ==
    ASSUME IInv, NEW c \in Consumers, UNCHANGED <<pool, consume>>, serving' \subseteq serving,
           dedicated'[c] \in {0, dedicated[c]},
           \A k \in 1..MaxChannels : chan'[k].state = "open" => chan[k].state = "open",
           info'[c].status = "active" /\ ~info'[c].cancelled =>
             Active(c) /\ ~info[c].cancelled /\ info'[c].epoch = info[c].epoch,
           \A q \in Setups :
             \/ proc'[c][q] = proc[c][q]
             \/ /\ Live(c, q)' => /\ Live(c, q)
                                  /\ {proc[c][q].pc, proc'[c][q].pc} \subseteq {"consumed", "revoking"}
                                  /\ proc'[c][q].tag = proc[c][q].tag
                /\ q \in Loops => /\ Claims(c, q)' => Claims(c, q)
                                  /\ proc'[c][q].pc \notin {"opening", "consuming"}
    PROVE  SetupPart(c)' /\ LoopPart(c)'
<1>0. SetupPart(c) /\ LoopPart(c) /\ TypeOK
  BY DEF IInv, Local
<1>1. ASSUME NEW q \in Setups, proc'[c][q] = proc[c][q], Live(c, q)' PROVE Live(c, q)
  <2>1. proc[c][q].chan \in 0..MaxChannels
    BY <1>0 DEF TypeOK, Procs
  <2> QED
    BY <1>1, <2>1, BoundsAssumption DEF Live, IsOpen
<1>2. ASSUME NEW q \in Loops, proc'[c][q] = proc[c][q]
      PROVE  /\ Claims(c, q)' => Claims(c, q)
             /\ proc'[c][q].pc \in {"opening", "consuming"} /\ StillOurs(c, q)' => Claims(c, q)'
  <2>1. StillOurs(c, q)' => StillOurs(c, q) /\ info'[c].epoch = info[c].epoch
    BY <1>2 DEF StillOurs, Active
  <2> QED
    BY <1>0, <1>2, <2>1 DEF LoopPart, Claims, LoopContinues
<1>3. Serving(c)' \subseteq Serving(c)
  BY DEF Serving
<1>4. \A q \in Loops :
        /\ Claims(c, q)' => Claims(c, q)
        /\ proc'[c][q].pc \in {"opening", "consuming"} /\ StillOurs(c, q)' => Claims(c, q)'
  BY <1>2 DEF Setups
<1>5. \A q \in Setups : Live(c, q)' =>
        /\ Live(c, q)
        /\ \/ proc'[c][q] = proc[c][q]
           \/ /\ {proc[c][q].pc, proc'[c][q].pc} \subseteq {"consumed", "revoking"}
              /\ proc'[c][q].tag = proc[c][q].tag
  BY <1>1
<1> QED
  BY <1>0, <1>3, <1>4, <1>5, Fewer

\* A setup that failed takes its consumer a step back.
LEMMA FailedLocal ==
    ASSUME IInv, [Next]_vars, TypeOK', NEW c \in Consumers, NEW p \in Setups,
           ChannelRefused(c, p) \/ ConsumeFails(c, p) \/ ConsumeRevoked(c, p)
    PROVE  ProcRow(c, p)' /\ SetupPart(c)' /\ LoopPart(c)'
<1>1. /\ SetupFails(c, p) /\ UNCHANGED <<info, pool, pools, chan, dedicated, consume>>
      /\ serving' \subseteq serving /\ proc[c][p].pc \in {"opening", "consuming", "revoking"}
      /\ SetupStep(c, p)
  BY DEF ChannelRefused, ConsumeFails, ConsumeRevoked, facade, manager, broker, SetupStep
<1>2. /\ ProcRow(c, p)' /\ ~Live(c, p)'
      /\ p \in Loops => /\ Claims(c, p)' => Claims(c, p)
                        /\ proc'[c][p].pc \notin {"opening", "consuming"}
  BY <1>1, FailedLeaves
<1>3. \A q \in Setups \ {p} : proc'[c][q] = proc[c][q]
  BY <1>1, SetupRest DEF Procs
<1>4. SetupPart(c)' /\ LoopPart(c)'
  BY <1>1, <1>2, <1>3, StepsBack DEF Active
<1> QED
  BY <1>2, <1>4

\* A setup that settles leaves a consumer that is served, or a consume to revoke.
LEMMA SettledLocal ==
    ASSUME IInv, [Next]_vars, TypeOK', NEW c \in Consumers, NEW p \in Setups, SetupSettles(c, p)
    PROVE  ProcRow(c, p)' /\ SetupPart(c)' /\ LoopPart(c)'
<1>0. /\ TypeOK /\ ProcRow(c, p) /\ InfoTypes /\ FacadeTypes
      /\ proc \in [Consumers -> [Procs -> ProcRecord]] /\ p \in Procs /\ SetupStep(c, p)
  BY TypeParts DEF IInv, Local, ProcPart, ProcTypes, Procs, SetupStep
<1>1. /\ proc[c][p].pc = "consumed"
      /\ UNCHANGED <<pool, pools, chan, dedicated, consume, serving>>
  BY DEF SetupSettles, facade, broker
<1>2. \A q \in Setups \ {p} : proc'[c][q] = proc[c][q]
  BY <1>0, SetupRest DEF Procs
<1>3. CASE AbandonsConsume(c)
  <2> DEFINE r == [proc[c][p] EXCEPT !.pc = "revoking"]
  <2>1. /\ r \in ProcRecord /\ r.pc = "revoking" /\ r.tag = proc[c][p].tag
        /\ r.home = proc[c][p].home /\ r.epoch = proc[c][p].epoch
    BY <1>0 DEF ProcRecord
  <2>2. Becomes(c, p, r) /\ UNCHANGED info
    BY <1>3 DEF SetupSettles
  <2> HIDE DEF r
  <2>3. proc'[c][p] = r
    BY <1>0, <2>1, <2>2, Updated
  <2>4. ProcRow(c, p)'
    BY <1>0, <1>1, <1>3, <2>1, <2>2, <2>3 DEF ProcRow, Given, AbandonsConsume, Active
  <2>5. Live(c, p)' =>
          /\ Live(c, p)
          /\ {proc[c][p].pc, proc'[c][p].pc} \subseteq {"consumed", "revoking"}
          /\ proc'[c][p].tag = proc[c][p].tag
    BY <1>1, <2>1, <2>3 DEF Live
  <2>6. ~Claims(c, p)' /\ proc'[c][p].pc \notin {"opening", "consuming"}
    BY <2>1, <2>3 DEF Claims
  <2>7. SetupPart(c)' /\ LoopPart(c)'
    BY <1>1, <1>2, <2>2, <2>5, <2>6, StepsBack DEF Active
  <2> QED
    BY <2>4, <2>7
<1>4. CASE ~AbandonsConsume(c)
  <2>1. Becomes(c, p, Idle) /\ info' = [info EXCEPT ![c].tag = proc[c][p].tag]
    BY <1>4 DEF SetupSettles, TrackConsumerTag
  <2>2. proc'[c][p] = Idle
    BY <1>0, <2>1, RecordSteps, Updated
  <2>3. /\ proc'[c][p].pc = "idle" /\ proc'[c][p].epoch = 0 /\ proc'[c][p].home = 0
    BY <2>2 DEF Idle
  <2>4. info'[c].status = info[c].status /\ info'[c].cancelled = info[c].cancelled
        /\ info'[c].epoch = info[c].epoch
    BY <1>0, <2>1 DEF InfoTypes, InfoRecord
  <2>5. ProcRow(c, p)'
    <3>1. info[c].epoch \in Nat /\ pools \in Nat
      BY <1>0, BoundsAssumption DEF InfoTypes, InfoRecord, FacadeTypes
    <3>2. proc'[c][p].epoch <= info'[c].epoch /\ proc'[c][p].home <= pools'
      BY <1>1, <2>3, <2>4, <3>1
    <3> QED
      BY <2>3, <3>2, LateRow
  <2>6. ~Live(c, p)' /\ ~Claims(c, p)' /\ proc'[c][p].pc \notin {"opening", "consuming"}
    BY <2>3 DEF Live, Claims
  <2>7. SetupPart(c)' /\ LoopPart(c)'
    BY <1>1, <1>2, <2>4, <2>6, StepsBack DEF Active
  <2> QED
    BY <2>5, <2>7
<1> QED
  BY <1>3, <1>4

\* An attempt that passes the fences is the only one, for its epoch is newer than any other.
LEMMA WokenLocal ==
    ASSUME IInv, [Next]_vars, TypeOK', NEW c \in Consumers, NEW p \in Setups, LoopWakes(c, p)
    PROVE  ProcRow(c, p)' /\ SetupPart(c)' /\ LoopPart(c)'
<1>0. /\ TypeOK /\ ChannelPart /\ ProcPart(c) /\ SetupPart(c) /\ LoopPart(c) /\ InfoTypes /\ FacadeTypes
      /\ proc \in [Consumers -> [Procs -> ProcRecord]] /\ p \in Procs /\ SetupStep(c, p)
  BY TypeParts DEF IInv, Local, ProcTypes, Procs, SetupStep
<1>1. /\ proc[c][p].pc = "sleeping" /\ p \in Loops /\ ContinuationsDone
      /\ UNCHANGED <<pool, pools, chan, dedicated, consume, serving>>
  BY DEF LoopWakes, facade, broker
<1>2. \A q \in Setups \ {p} : proc'[c][q] = proc[c][q]
  BY <1>0, SetupRest DEF Procs
<1>3. info[c].epoch \in Nat /\ pools \in 0..MaxPools /\ pool \in 0..MaxPools
  BY <1>0 DEF InfoTypes, InfoRecord, FacadeTypes
<1>4. CASE ~LoopContinues(c, p)
  <2>1. Becomes(c, p, Idle) /\ UNCHANGED info
    BY <1>4 DEF LoopWakes
  <2>2. proc'[c][p] = Idle
    BY <1>0, <2>1, RecordSteps, Updated
  <2>3. proc'[c][p].pc = "idle" /\ proc'[c][p].epoch = 0 /\ proc'[c][p].home = 0
    BY <2>2 DEF Idle
  <2>4. ProcRow(c, p)'
    <3>1. proc'[c][p].epoch <= info'[c].epoch /\ proc'[c][p].home <= pools'
      BY <1>1, <1>3, <2>1, <2>3, BoundsAssumption
    <3> QED
      BY <2>3, <3>1, LateRow
  <2>5. ~Live(c, p)' /\ ~Claims(c, p)' /\ proc'[c][p].pc \notin {"opening", "consuming"}
    BY <2>3 DEF Live, Claims
  <2>6. SetupPart(c)' /\ LoopPart(c)'
    BY <1>1, <1>2, <2>1, <2>5, StepsBack DEF Active
  <2> QED
    BY <2>4, <2>6
<1>5. CASE LoopContinues(c, p)
  <2> DEFINE e == info[c].epoch + 1
             s == [proc[c][p] EXCEPT !.epoch = e, !.home = pool]
             r == SetupCalled(c, s)
  <2>1. /\ Serving(c) = {} /\ \A q \in Setups \ {p} : ~Live(c, q)
        /\ Active(c) /\ ~info[c].cancelled /\ pool = proc[c][p].home
    BY <1>0, <1>1, <1>5 DEF LoopPart, Claims, LoopContinues, StillOurs
  <2>2. info' = [info EXCEPT ![c] = Stamped(c)]
    BY <1>5 DEF LoopWakes
  <2>3. info'[c].status = info[c].status /\ info'[c].cancelled = info[c].cancelled /\ info'[c].epoch = e
    BY <1>0, <2>2, StampedIs DEF InfoTypes
  <2>4. s \in ProcRecord /\ s.home = pool /\ s.epoch = e
    <3>1. e \in Nat /\ proc[c][p] \in ProcRecord
      BY <1>0, <1>3
    <3> HIDE DEF e
    <3> QED
      BY <1>3, <3>1 DEF ProcRecord
  <2>5. Becomes(c, p, r)
    BY <1>5, <2>3 DEF LoopWakes
  <2> HIDE DEF s
  <2>6. /\ r \in ProcRecord /\ r.home = pool /\ r.epoch = e
        /\ \/ r.pc = "opening" /\ dedicated[c] = 0
           \/ r.pc = "consuming" /\ dedicated[c] # 0 /\ r.chan = dedicated[c]
    BY <1>0, <2>4, RecordSteps
  <2> HIDE DEF r
  <2>7. proc'[c][p] = r
    BY <1>0, <2>5, <2>6, Updated
  <2>8. ProcRow(c, p)'
    <3>1. pool # 0 /\ pool <= pools
      BY <1>0, <1>1, <2>1 DEF ProcPart, ProcRow
    <3>2. dedicated[c] # 0 => /\ chan[dedicated[c]].owner = c
                              /\ chan[dedicated[c]].state # "none"
      BY <1>0 DEF ChannelPart, IsOpen
    <3> QED
      BY <1>1, <1>3, <2>3, <2>6, <2>7, <3>1, <3>2 DEF ProcRow
  <2>9. Serving(c)' = {}
    BY <1>1, <2>1 DEF Serving
  <2>10. \A q \in Setups \ {p} : ~Live(c, q)'
    BY <1>1, <1>2, <2>1 DEF Live, IsOpen
  <2>11. \A q \in Loops \ {p} : ~Claims(c, q)'
    <3> SUFFICES ASSUME NEW q \in Loops \ {p} PROVE ~Claims(c, q)'
      OBVIOUS
    <3>1. proc'[c][q] = proc[c][q] /\ proc[c][q].epoch <= info[c].epoch /\ proc[c][q].epoch \in Nat
      BY <1>0, <1>2 DEF ProcPart, ProcRow, ProcRecord, Setups, Procs
    <3>2. proc'[c][q].epoch # info'[c].epoch
      BY <1>3, <2>3, <3>1
    <3> QED
      BY <3>2 DEF Claims, LoopContinues
  <2>12. \A q \in Loops :
           proc'[c][q].pc \in {"opening", "consuming"} /\ StillOurs(c, q)' => Claims(c, q)'
    <3> SUFFICES ASSUME NEW q \in Loops, proc'[c][q].pc \in {"opening", "consuming"}, StillOurs(c, q)'
                 PROVE  Claims(c, q)'
      OBVIOUS
    <3>1. CASE q = p
      BY <2>3, <2>6, <2>7, <3>1 DEF Claims, LoopContinues
    <3>2. CASE q # p
      <4>1. proc[c][q].pc \in {"opening", "consuming"} /\ ~Live(c, q) /\ q \in Procs
        BY <1>2, <2>1, <3>2 DEF Setups, Procs
      <4>2. Live(c, q)
        BY <1>1, <4>1 DEF ContinuationsDone, Live
      <4> QED
        BY <4>1, <4>2
    <3> QED
      BY <3>1, <3>2
  <2>13. Live(c, p)' =>
           /\ \A t \in Serving(c)' : proc'[c][p].pc \in {"consumed", "revoking"} /\ t = proc'[c][p].tag
           /\ proc'[c][p].pc = "opening" => dedicated'[c] = 0
    BY <1>1, <2>6, <2>7, <2>9
  <2>14. SetupPart(c)' /\ LoopPart(c)'
    BY <2>9, <2>10, <2>11, <2>12, <2>13, Alone
  <2> QED
    BY <2>8, <2>14
<1> QED
  BY <1>4, <1>5

\* So a step of a setup keeps every consumer's part.
LEMMA SetupLocal ==
    ASSUME IInv, [Next]_vars, TypeOK', NEW c \in Consumers, NEW p \in Setups, SetupStep(c, p)
    PROVE  \A d \in Consumers : Local(d)'
<1>1. ProcRow(c, p)' /\ SetupPart(c)' /\ LoopPart(c)'
  BY OpenedLocal, AnsweredLocal, FailedLocal, SettledLocal, WokenLocal DEF SetupStep
<1>2. /\ UnusedPart(c)' /\ DropPart(c)' /\ \A q \in Setups \ {p} : ProcRow(c, q)'
      /\ proc'[c]["unsubscribe"].pc \in {"idle", "cancelling", "draining", "terminating"}
      /\ \A d \in Consumers : d # c => Local(d)'
  BY SetupRest
<1>3. Local(c)'
  BY <1>1, <1>2 DEF Local, ProcPart
<1> QED
  BY <1>2, <1>3
-----------------------------------------------------------------------------
(* The steps of a drop, and of unsubscribe(). *)

\* A drop ends its consumer's registration and its own work on it.
LEMMA DropLocal ==
    ASSUME IInv, [Next]_vars, TypeOK', NEW c \in Consumers, NEW p \in Procs,
           proc[c][p].pc = "draining", Drop(c, p)
    PROVE  \A d \in Consumers : Local(d)'
<1>0. /\ TypeOK /\ ChannelPart /\ ProcPart(c) /\ InfoTypes /\ FacadeTypes
      /\ proc \in [Consumers -> [Procs -> ProcRecord]]
  BY TypeParts DEF IInv, Local, ProcTypes
<1>1. PICK r \in ProcRecord :
        /\ Becomes(c, p, r)
        /\ \/ /\ OwnsWorkers(c, p) /\ r.pc = "terminating"
              /\ r.home = proc[c][p].home /\ r.epoch = proc[c][p].epoch
           \/ ~OwnsWorkers(c, p) /\ r = Idle
  BY <1>0, DropMoves
<1>2. /\ proc'[c][p] = r
      /\ \A q \in Procs : q # p => proc'[c][q] = proc[c][q]
      /\ \A d \in Consumers : d # c => proc'[d] = proc[d]
  BY <1>0, <1>1, Updated
<1>3. \/ UNCHANGED broker
      \/ IsOpen(dedicated[c]) /\ dedicated[c] \in 1..MaxChannels /\ CloseChannel(dedicated[c])
  BY <1>0, ReleaseIs DEF Drop
<1>4. /\ serving' \subseteq serving /\ UNCHANGED <<pool, pools, consume>>
      /\ dedicated'[c] \in {0, dedicated[c]}
      /\ \A k \in 1..MaxChannels : chan'[k].state = "open" => chan[k].state = "open"
  <2>1. UNCHANGED <<pool, pools>>
    BY DEF Drop, facade
  <2>2. CASE OwnsWorkers(c, p)
    BY <2>1, <2>2 DEF Drop, broker
  <2>3. CASE ~OwnsWorkers(c, p)
    BY <1>0, <2>1, <2>3, Released DEF Drop
  <2> QED
    BY <2>2, <2>3
<1>5. /\ info'[c].status = "gone"
      /\ \A d \in Consumers : d # c => info'[d] = info[d] /\ workers'[d] = workers[d]
  <2>1. info' = [info EXCEPT ![c].status = "gone"]
    BY DEF Drop
  <2>2. UNCHANGED workers \/ workers' = [workers EXCEPT ![c] = "terminated"]
    BY DEF Drop
  <2> QED
    BY <1>0, <2>1, <2>2 DEF InfoTypes, InfoRecord, FacadeTypes
<1>6. ASSUME NEW d \in Consumers, d # c PROVE Local(d)'
  <2>1. BrokerStays(d)
    <3>1. CASE UNCHANGED broker
      BY <1>6, <3>1, OtherBroker
    <3>2. CASE IsOpen(dedicated[c]) /\ dedicated[c] \in 1..MaxChannels /\ CloseChannel(dedicated[c])
      <4>1. chan[dedicated[c]].owner = c
        BY <1>0, <3>2, BoundsAssumption DEF ChannelPart
      <4> QED
        BY <1>6, <3>2, <4>1, OtherBroker
    <3> QED
      BY <1>3, <3>1, <3>2
  <2> QED
    BY <1>2, <1>4, <1>5, <1>6, <2>1, Bystander
<1>7. r.pc \in {"terminating", "idle"} /\ (r.pc = "terminating" <=> OwnsWorkers(c, p))
  BY <1>1 DEF Idle
<1>8. SetupPart(c)' /\ LoopPart(c)'
  <2>1. \A q \in Setups :
          \/ proc'[c][q] = proc[c][q]
          \/ ~Live(c, q)' /\ ~Claims(c, q)' /\ proc'[c][q].pc \notin {"opening", "consuming"}
    BY <1>2, <1>7 DEF Live, Claims, Procs
  <2> QED
    BY <1>4, <1>5, <2>1, StepsBack
<1>9. \A q \in Setups : ProcRow(c, q)'
  <2>1. \A q \in Setups \ {p} : ProcRow(c, q)'
    BY <1>2, RowKept DEF Procs
  <2>2. ASSUME p \in Setups PROVE ProcRow(c, p)'
    <3>1. ProcRow(c, p) /\ p # "recreate"
      BY <1>0, <2>2 DEF ProcPart, ProcRow
    <3>2. info[c].epoch \in Nat /\ info'[c].epoch = info[c].epoch /\ pools \in Nat
      BY <1>0, BoundsAssumption DEF InfoTypes, InfoRecord, FacadeTypes, Drop
    <3>3. r.epoch <= info'[c].epoch /\ r.home <= pools'
      BY <1>1, <1>4, <3>1, <3>2 DEF ProcRow, Idle
    <3> QED
      BY <1>2, <1>7, <2>2, <3>1, <3>3, LateRow
  <2> QED
    BY <2>1, <2>2
<1>10. UnusedPart(c)'
  BY <1>5 DEF UnusedPart
<1>11. DropPart(c)'
  <2>1. CASE OwnsWorkers(c, p)
    BY <1>2, <1>7, <2>1 DEF DropPart
  <2>2. CASE ~OwnsWorkers(c, p)
    <3>1. ReleaseChannel(c)
      BY <2>2 DEF Drop
    <3>2. dedicated'[c] = 0
      BY <1>0, <3>1, Released
    <3> QED
      BY <3>2 DEF DropPart
  <2> QED
    BY <2>1, <2>2
<1>12. proc'[c]["unsubscribe"].pc \in {"idle", "cancelling", "draining", "terminating"}
  BY <1>0, <1>2, <1>7 DEF ProcPart, Procs
<1>13. Local(c)'
  BY <1>8, <1>9, <1>10, <1>11, <1>12 DEF Local, ProcPart
<1> QED
  BY <1>6, <1>13

\* The drop goes on to the channel once the worker pool has ended.
LEMMA EndedLocal ==
    ASSUME IInv, [Next]_vars, TypeOK', NEW c \in Consumers, NEW p \in Procs, WorkersEnded(c, p)
    PROVE  \A d \in Consumers : Local(d)'
<1>0. /\ TypeOK /\ ChannelPart /\ ProcPart(c) /\ InfoTypes /\ FacadeTypes
      /\ proc \in [Consumers -> [Procs -> ProcRecord]] /\ Idle \in ProcRecord
  BY TypeParts, RecordSteps DEF IInv, Local, ProcTypes
<1>1. /\ proc[c][p].pc = "terminating" /\ Becomes(c, p, Idle) /\ ReleaseChannel(c)
      /\ UNCHANGED <<info, workers, pool, pools>>
  BY DEF WorkersEnded, facade, manager
<1>2. /\ proc'[c][p] = Idle
      /\ \A q \in Procs : q # p => proc'[c][q] = proc[c][q]
      /\ \A d \in Consumers : d # c => proc'[d] = proc[d]
  BY <1>0, <1>1, Updated
<1>3. \/ UNCHANGED broker
      \/ IsOpen(dedicated[c]) /\ dedicated[c] \in 1..MaxChannels /\ CloseChannel(dedicated[c])
  BY <1>0, <1>1, ReleaseIs
<1>4. /\ serving' \subseteq serving /\ UNCHANGED consume /\ dedicated'[c] = 0
      /\ \A k \in 1..MaxChannels : chan'[k].state = "open" => chan[k].state = "open"
  BY <1>0, <1>1, Released
<1>5. ASSUME NEW d \in Consumers, d # c PROVE Local(d)'
  <2>1. BrokerStays(d)
    <3>1. CASE UNCHANGED broker
      BY <1>5, <3>1, OtherBroker
    <3>2. CASE IsOpen(dedicated[c]) /\ dedicated[c] \in 1..MaxChannels /\ CloseChannel(dedicated[c])
      <4>1. chan[dedicated[c]].owner = c
        BY <1>0, <3>2, BoundsAssumption DEF ChannelPart
      <4> QED
        BY <1>5, <3>2, <4>1, OtherBroker
    <3> QED
      BY <1>3, <3>1, <3>2
  <2> QED
    BY <1>1, <1>2, <1>5, <2>1, Bystander
<1>6. SetupPart(c)' /\ LoopPart(c)'
  <2>1. \A q \in Setups :
          \/ proc'[c][q] = proc[c][q]
          \/ ~Live(c, q)' /\ ~Claims(c, q)' /\ proc'[c][q].pc \notin {"opening", "consuming"}
    BY <1>2 DEF Live, Claims, Procs, Idle
  <2> QED
    BY <1>1, <1>4, <2>1, StepsBack DEF Active
<1>7. \A q \in Setups : ProcRow(c, q)'
  <2>1. \A q \in Setups \ {p} : ProcRow(c, q)'
    BY <1>2, RowKept DEF Procs
  <2>2. ASSUME p \in Setups PROVE ProcRow(c, p)'
    <3>1. info[c].epoch \in Nat /\ pools \in Nat
      BY <1>0, BoundsAssumption DEF InfoTypes, InfoRecord, FacadeTypes
    <3>2. proc'[c][p].epoch <= info'[c].epoch /\ proc'[c][p].home <= pools' /\ proc'[c][p].pc = "idle"
      BY <1>1, <1>2, <3>1 DEF Idle
    <3> QED
      BY <2>2, <3>2, LateRow
  <2> QED
    BY <2>1, <2>2
<1>8. UnusedPart(c)' /\ DropPart(c)'
  BY <1>0, <1>1, <1>4 DEF ProcPart, UnusedPart, DropPart
<1>9. proc'[c]["unsubscribe"].pc \in {"idle", "cancelling", "draining", "terminating"}
  BY <1>0, <1>2 DEF ProcPart, Procs, Idle
<1>10. Local(c)'
  BY <1>6, <1>7, <1>8, <1>9 DEF Local, ProcPart
<1> QED
  BY <1>5, <1>10
-----------------------------------------------------------------------------
(* Calls, events and the facade. *)

\* A consumer whose setups and loops stay where they are, while the rest only loses ground.
LEMMA Recedes ==
    ASSUME IInv, [Next]_vars, TypeOK', NEW d \in Consumers,
           UNCHANGED <<pool, consume>>, serving' \subseteq serving,
           dedicated'[d] \in {0, dedicated[d]},
           \A k \in 1..MaxChannels : chan'[k].state = "open" => chan[k].state = "open",
           info'[d].status = "active" /\ ~info'[d].cancelled =>
             Active(d) /\ ~info[d].cancelled /\ info'[d].epoch = info[d].epoch,
           \A q \in Setups : proc'[d][q] = proc[d][q],
           proc'[d]["unsubscribe"].pc \in {"idle", "cancelling", "draining", "terminating"},
           UnusedPart(d)', DropPart(d)'
    PROVE  Local(d)'
<1>1. SetupPart(d)' /\ LoopPart(d)'
  BY StepsBack
<1>2. \A q \in Setups : ProcRow(d, q)'
  BY RowKept
<1> QED
  BY <1>1, <1>2 DEF Local, ProcPart

\* The answer to a cancel only takes a consume away.
LEMMA CancelLocal ==
    ASSUME IInv, [Next]_vars, TypeOK', NEW c \in Consumers, CancelAnswered(c)
    PROVE  \A d \in Consumers : Local(d)'
<1> DEFINE r == [proc[c]["unsubscribe"] EXCEPT !.pc = "draining"]
<1>0. /\ TypeOK /\ \A d \in Consumers : ProcPart(d) /\ DropPart(d)
      /\ "unsubscribe" \in Procs /\ "unsubscribe" \notin Setups
      /\ proc \in [Consumers -> [Procs -> ProcRecord]]
  BY TypeParts DEF IInv, Local, Procs, Setups, Loops, ProcTypes
<1>1. r \in ProcRecord /\ r.pc = "draining"
  BY <1>0 DEF ProcRecord
<1>2. /\ proc[c]["unsubscribe"].pc = "cancelling" /\ Becomes(c, "unsubscribe", r)
      /\ serving' \subseteq serving
      /\ UNCHANGED <<pool, info, workers, chan, dedicated, consume>>
  BY DEF CancelAnswered, facade, manager
<1> HIDE DEF r
<1>3. /\ proc'[c]["unsubscribe"] = r
      /\ \A q \in Procs : q # "unsubscribe" => proc'[c][q] = proc[c][q]
      /\ \A d \in Consumers : d # c => proc'[d] = proc[d]
  BY <1>0, <1>1, <1>2, Updated
<1> SUFFICES ASSUME NEW d \in Consumers PROVE Local(d)'
  OBVIOUS
<1>4. /\ \A q \in Procs \ {"unsubscribe"} : proc'[d][q] = proc[d][q]
      /\ \/ proc'[d]["unsubscribe"] = proc[d]["unsubscribe"]
         \/ (d = c /\ proc'[d]["unsubscribe"].pc = "draining")
  BY <1>1, <1>3
<1>5. UnusedPart(d)'
  BY <1>0, <1>2, <1>3 DEF ProcPart, UnusedPart
<1>6. DropPart(d)'
  BY <1>0, <1>2, <1>4 DEF DropPart
<1>7. proc'[d]["unsubscribe"].pc \in {"idle", "cancelling", "draining", "terminating"}
  BY <1>0, <1>4 DEF ProcPart
<1>8. \A q \in Setups : proc'[d][q] = proc[d][q]
  BY <1>0, <1>4 DEF Procs
<1> QED
  BY <1>2, <1>5, <1>6, <1>7, <1>8, Recedes DEF Active

\* unsubscribe() fences every recovery loop of its consumer.
LEMMA UnsubscribeLocal ==
    ASSUME IInv, [Next]_vars, TypeOK', NEW t \in 1..MaxTags, Unsubscribe(t)
    PROVE  \A d \in Consumers : Local(d)'
<1> DEFINE c == OwnerOf(t)
<1>0. /\ TypeOK /\ InfoTypes /\ \A d \in Consumers : ProcPart(d) /\ DropPart(d)
      /\ "unsubscribe" \in Procs /\ "unsubscribe" \notin Setups
      /\ c \in Consumers /\ Active(c)
  <2>1. t \in tagged
    BY DEF Unsubscribe
  <2>2. TypeOK /\ Active(c) /\ \A d \in Consumers : ProcPart(d) /\ DropPart(d)
    BY <2>1 DEF IInv, Local, TagsResolve
  <2>3. c \in Consumers
    BY <2>2, TypeParts DEF BrokerTypes, OwnerOf
  <2> QED
    BY <2>2, <2>3, TypeParts DEF Procs, Setups, Loops
<1>1. PICK r \in ProcRecord : Becomes(c, "unsubscribe", r) /\ r.pc = "cancelling"
  BY <1>0, CallMoves
<1>2. /\ proc[c]["unsubscribe"].pc = "idle" /\ info' = [info EXCEPT ![c].cancelled = TRUE]
      /\ UNCHANGED <<pool, workers, chan, dedicated, consume, serving>>
  BY DEF Unsubscribe, facade, broker
<1> HIDE DEF c
<1>3. /\ proc'[c]["unsubscribe"] = r
      /\ \A q \in Procs : q # "unsubscribe" => proc'[c][q] = proc[c][q]
      /\ \A d \in Consumers : d # c => proc'[d] = proc[d]
  BY <1>0, <1>1, Updated
<1> SUFFICES ASSUME NEW d \in Consumers PROVE Local(d)'
  OBVIOUS
<1>4. /\ \A q \in Procs \ {"unsubscribe"} : proc'[d][q] = proc[d][q]
      /\ d # c => proc'[d] = proc[d] /\ info'[d] = info[d]
      /\ d = c => /\ info'[d].status = "active" /\ info'[d].cancelled
                  /\ proc'[d]["unsubscribe"].pc = "cancelling"
  BY <1>0, <1>1, <1>2, <1>3 DEF InfoTypes, InfoRecord, Active
<1>5. UnusedPart(d)'
  BY <1>0, <1>2, <1>4 DEF ProcPart, UnusedPart
<1>6. DropPart(d)'
  BY <1>0, <1>2, <1>4 DEF DropPart
<1>7. proc'[d]["unsubscribe"].pc \in {"idle", "cancelling", "draining", "terminating"}
  BY <1>0, <1>4 DEF ProcPart
<1>8. \A q \in Setups : proc'[d][q] = proc[d][q]
  BY <1>0, <1>4 DEF Procs
<1>9. info'[d].status = "active" /\ ~info'[d].cancelled =>
        Active(d) /\ ~info[d].cancelled /\ info'[d].epoch = info[d].epoch
  BY <1>4 DEF Active
<1> QED
  BY <1>2, <1>5, <1>6, <1>7, <1>8, <1>9, Recedes

\* disposeAll() ends every registration and moves no process.
LEMMA DisposeLocal ==
    ASSUME IInv, [Next]_vars, TypeOK', DisposeAll \/ DisposeEnds, NEW d \in Consumers
    PROVE  Local(d)'
<1>0. TypeOK /\ InfoTypes /\ FacadeTypes /\ ProcPart(d) /\ DropPart(d)
  BY TypeParts DEF IInv, Local
<1>1. UNCHANGED <<pool, proc, chan, dedicated, consume, serving>>
  BY DEF DisposeAll, DisposeEnds, facade, broker
<1>2. workers[d] = "none" => workers'[d] = "none"
  BY <1>0 DEF DisposeAll, DisposeEnds, FacadeTypes
<1>3. info'[d] = info[d] \/ (Active(d) /\ info'[d].status = "disposed")
  <2>1. CASE Disposed
    <3>1. CASE Active(d)
      <4>1. info'[d] = [info[d] EXCEPT !.cancelled = TRUE, !.status = "disposed"] /\ info[d] \in InfoRecord
        BY <1>0, <2>1, <3>1 DEF Disposed, InfoTypes
      <4>2. info'[d].status = "disposed"
        BY <4>1 DEF InfoRecord
      <4> QED
        BY <3>1, <4>2
    <3>2. CASE ~Active(d)
      BY <2>1, <3>2 DEF Disposed
    <3> QED
      BY <3>1, <3>2
  <2>2. CASE UNCHANGED info
    BY <2>2
  <2> QED
    BY <2>1, <2>2 DEF DisposeAll, DisposeEnds
<1>4. UnusedPart(d)' /\ DropPart(d)'
  BY <1>0, <1>1, <1>2, <1>3 DEF ProcPart, UnusedPart, DropPart
<1>5. proc'[d]["unsubscribe"].pc \in {"idle", "cancelling", "draining", "terminating"}
  BY <1>0, <1>1 DEF ProcPart
<1> QED
  BY <1>1, <1>3, <1>4, <1>5, Recedes DEF Active

\* A loss leaves its consumer unserved, with nothing live and one more loop asleep.
LEMMA LossLocal ==
    ASSUME IInv, [Next]_vars, TypeOK', NEW c \in Consumers, LoopStarts(c) \/ UNCHANGED proc,
           UNCHANGED <<info, workers, pool, pools>>, pool # 0, Serving(c)' = {},
           dedicated'[c] \in {0, dedicated[c]},
           \A q \in Setups : proc'[c][q] = proc[c][q] => ~Live(c, q)'
    PROVE  Local(c)'
<1>0. TypeOK /\ NumberPart /\ ProcPart(c) /\ LoopPart(c) /\ DropPart(c) /\ InfoTypes /\ FacadeTypes
  BY TypeParts DEF IInv, Local
<1>1. CASE UNCHANGED proc
  <2>1. \A p \in Loops :
          proc'[c][p].pc \in {"opening", "consuming"} /\ StillOurs(c, p)' => Claims(c, p)'
    BY <1>0, <1>1 DEF LoopPart, StillOurs, Active, Claims, LoopContinues
  <2>2. SetupPart(c)' /\ LoopPart(c)'
    BY <1>1, <2>1, Quiet
  <2>3. \A q \in Setups : ProcRow(c, q)'
    BY <1>1, RowKept
  <2>4. UnusedPart(c)' /\ DropPart(c)'
    BY <1>0, <1>1 DEF ProcPart, UnusedPart, DropPart
  <2> QED
    BY <1>0, <1>1, <2>2, <2>3, <2>4 DEF Local, ProcPart
<1>2. ASSUME Active(c) /\ ~info[c].cancelled, NEW p \in Loops, NEW r \in ProcRecord,
             proc[c][p].pc \in {"idle", "sleeping"}, Becomes(c, p, r),
             r.pc = "sleeping" /\ r.home = pool /\ r.epoch = info[c].epoch
      PROVE  Local(c)'
  <2>1. p \in Setups /\ p \in Procs /\ p # "unsubscribe" /\ p # "recreate"
    BY DEF Setups, Procs, Loops
  <2>2. proc'[c][p] = r /\ \A q \in Procs : q # p => proc'[c][q] = proc[c][q]
    BY <1>0, <1>2, <2>1, Updated
  <2>3. \A q \in Setups : ~Live(c, q)'
    <3>1. ~Live(c, p)'
      BY <1>2, <2>2 DEF Live
    <3> QED
      BY <2>2, <3>1 DEF Procs
  <2>4. \A q \in Loops :
          proc'[c][q].pc \in {"opening", "consuming"} /\ StillOurs(c, q)' => Claims(c, q)'
    <3> SUFFICES ASSUME NEW q \in Loops, proc'[c][q].pc \in {"opening", "consuming"}, StillOurs(c, q)'
                 PROVE  Claims(c, q)'
      OBVIOUS
    <3>1. proc'[c][q] = proc[c][q]
      BY <1>2, <2>2 DEF Procs, Setups
    <3> QED
      BY <1>0, <3>1 DEF LoopPart, StillOurs, Active, Claims, LoopContinues
  <2>5. SetupPart(c)' /\ LoopPart(c)'
    BY <2>3, <2>4, Quiet
  <2>6. \A q \in Setups \ {p} : ProcRow(c, q)'
    BY <2>2, RowKept DEF Procs
  <2>7. ProcRow(c, p)'
    <3>1. info[c].epoch \in Nat /\ pool \in Nat /\ pools \in Nat /\ pool = pools
      BY <1>0, BoundsAssumption DEF InfoTypes, InfoRecord, FacadeTypes, NumberPart
    <3>2. proc'[c][p].epoch <= info'[c].epoch /\ proc'[c][p].home <= pools'
      BY <1>2, <2>2, <3>1
    <3>3. proc'[c][p].pc = "sleeping" /\ proc'[c][p].home # 0
      BY <1>2, <2>2
    <3> QED
      BY <2>1, <3>2, <3>3, LateRow
  <2>8. UnusedPart(c)' /\ DropPart(c)'
    BY <1>2 DEF UnusedPart, DropPart, Active
  <2>9. proc'[c]["unsubscribe"].pc \in {"idle", "cancelling", "draining", "terminating"}
    BY <1>0, <2>1, <2>2 DEF ProcPart, Procs
  <2> QED
    BY <2>5, <2>6, <2>7, <2>8, <2>9 DEF Local, ProcPart
<1> QED
  BY <1>0, <1>1, <1>2, LossIs

\* Of a consumer whose loss is noticed, nobody else moves.
LEMMA LossOthers ==
    ASSUME TypeOK, NEW c \in Consumers, LoopStarts(c) \/ UNCHANGED proc
    PROVE  \A d \in Consumers : d # c => proc'[d] = proc[d]
BY LossIs, Updated DEF Procs, Setups

\* A loop that a broker's cancel starts is alone: nothing serves its consumer any more.
LEMMA BrokerCancelLocal ==
    ASSUME IInv, [Next]_vars, TypeOK', NEW t \in 1..MaxTags, BrokerCancels(t)
    PROVE  \A d \in Consumers : Local(d)'
<1>c. PICK c \in Consumers : c = consume[t].by
  BY TypeParts DEF IInv, BrokerTypes
<1>0. /\ TypeOK /\ ChannelPart /\ SetupPart(c) /\ c \in Consumers /\ t \in serving
      /\ pool # 0 /\ serving \subseteq 1..MaxTags
  <2>1. TypeOK /\ ChannelPart /\ t \in serving
    BY DEF IInv, BrokerCancels
  <2>2. c \in Consumers /\ BrokerTypes
    BY <2>1, TypeParts
  <2>3. pool # 0
    <3>1. IsOpen(consume[t].on) /\ consume[t].on \in 0..MaxChannels
      BY <2>1, <2>2 DEF ChannelPart, BrokerTypes
    <3>2. consume[t].on \in 1..MaxChannels
      BY <3>1, BoundsAssumption DEF IsOpen
    <3> QED
      BY <2>1, <3>1, <3>2 DEF ChannelPart
  <2> QED
    BY <1>c, <2>1, <2>2, <2>3 DEF IInv, Local, BrokerTypes
<1>1. /\ serving' = serving \ {t} /\ LoopStarts(c)
      /\ UNCHANGED <<info, workers, pool, pools, chan, dedicated, consume>>
  BY <1>c DEF BrokerCancels, facade, manager
<1>2. ASSUME NEW d \in Consumers, d # c PROVE Local(d)'
  <2>1. BrokerStays(d)
    <3>1. Cancelled(t) /\ t \in 0..MaxTags /\ consume[t].by = c
      BY <1>c, <1>1, BoundsAssumption DEF Cancelled
    <3> QED
      BY <1>0, <1>2, <3>1, OtherBroker
  <2>2. proc'[d] = proc[d]
    BY <1>0, <1>1, <1>2, LossOthers
  <2> QED
    BY <1>1, <1>2, <2>1, <2>2, Bystander
<1>3. Local(c)'
  <2>1. Serving(c)' = {} /\ Serving(c) = {t}
    <3>1. t \in Serving(c)
      BY <1>c, <1>0 DEF Serving
    <3>2. \A s \in Serving(c) : s = t
      BY <1>0, <3>1 DEF SetupPart
    <3> QED
      BY <1>1, <3>1, <3>2 DEF Serving
  <2>2. \A q \in Setups : proc'[c][q] = proc[c][q] => ~Live(c, q)'
    <3> SUFFICES ASSUME NEW q \in Setups, proc'[c][q] = proc[c][q], Live(c, q)' PROVE FALSE
      OBVIOUS
    <3>1. Live(c, q)
      BY <1>1 DEF Live, IsOpen
    <3>2. proc[c][q].pc \in {"consumed", "revoking"} /\ proc[c][q].tag = t
      BY <1>0, <2>1, <3>1 DEF SetupPart
    <3> QED
      BY <1>1, <3>2 DEF Live
  <2> QED
    BY <1>0, <1>1, <2>1, <2>2, LossLocal
<1> QED
  BY <1>2, <1>3

\* So is one that the close of a channel starts.
LEMMA ChannelCloseLocal ==
    ASSUME IInv, [Next]_vars, TypeOK', NEW k \in 1..MaxChannels, ChannelCloses(k)
    PROVE  \A d \in Consumers : Local(d)'
<1>c. PICK c \in Consumers : c = chan[k].owner
  BY TypeParts DEF IInv, BrokerTypes
<1>0. /\ TypeOK /\ ChannelPart /\ SetupPart(c) /\ ProcPart(c) /\ c \in Consumers /\ IsOpen(k)
      /\ pool # 0 /\ BrokerTypes /\ dedicated[c] = k /\ k # 0
  <2>1. TypeOK /\ ChannelPart /\ IsOpen(k)
    BY DEF IInv, ChannelCloses
  <2>2. c \in Consumers /\ BrokerTypes
    BY <2>1, TypeParts
  <2> QED
    BY <1>c, <2>1, <2>2, BoundsAssumption DEF IInv, Local, ChannelPart
<1>1. /\ CloseChannel(k) /\ (LoopStarts(c) \/ UNCHANGED proc)
      /\ UNCHANGED <<info, workers, pool, pools, consume>>
  BY <1>c DEF ChannelCloses, facade, manager, CloseChannel
<1>2. chan[k].owner = c
  BY <1>c
<1>3. /\ dedicated'[c] = 0 /\ serving' = {t \in serving : consume[t].on # k}
      /\ \A j \in 1..MaxChannels : j # k => chan'[j] = chan[j]
      /\ chan'[k].state = "closed"
  <2>1. dedicated'[c] = 0
    BY <1>0, <1>1, <1>2 DEF CloseChannel, BrokerTypes
  <2> QED
    BY <1>0, <1>1, <2>1 DEF CloseChannel, BrokerTypes
<1>4. ASSUME NEW d \in Consumers, d # c PROVE Local(d)'
  <2>1. BrokerStays(d)
    BY <1>0, <1>1, <1>2, <1>4, OtherBroker
  <2>2. proc'[d] = proc[d]
    BY <1>0, <1>1, <1>4, LossOthers
  <2> QED
    BY <1>1, <1>4, <2>1, <2>2, Bystander
<1>5. Local(c)'
  <2>1. Serving(c)' = {}
    <3>1. \A t \in serving : consume[t].by = c => consume[t].on = k
      <4> SUFFICES ASSUME NEW t \in serving, consume[t].by = c PROVE consume[t].on = k
        OBVIOUS
      <4>1. IsOpen(consume[t].on) /\ chan[consume[t].on].owner = c /\ consume[t].on \in 0..MaxChannels
        BY <1>0 DEF ChannelPart, BrokerTypes
      <4>2. consume[t].on \in 1..MaxChannels
        BY <4>1, BoundsAssumption DEF IsOpen
      <4>3. dedicated[c] = consume[t].on
        BY <1>0, <4>1, <4>2 DEF ChannelPart
      <4> QED
        BY <1>0, <4>3
    <3> QED
      BY <1>1, <1>3, <3>1 DEF Serving
  <2>2. \A q \in Setups : proc'[c][q] = proc[c][q] => ~Live(c, q)'
    <3> SUFFICES ASSUME NEW q \in Setups, proc'[c][q] = proc[c][q], Live(c, q)' PROVE FALSE
      OBVIOUS
    <3>1. PICK r \in ProcRecord : r = proc[c][q] /\ ProcRow(c, q)
      BY <1>0, TypeParts DEF ProcPart, ProcTypes, Procs
    <3>2. CASE r.pc = "opening" /\ r.home = pool
      BY <1>0, <3>1, <3>2 DEF SetupPart, Live
    <3>3. CASE r.pc = "consuming" /\ IsOpen(r.chan)'
      <4>1. r.chan \in 1..MaxChannels /\ chan[r.chan].owner = c
        BY <3>1, <3>3, BoundsAssumption DEF ProcRow, ProcRecord
      <4>2. chan'[r.chan].state = "open"
        BY <3>3 DEF IsOpen
      <4>3. r.chan # k /\ IsOpen(r.chan)
        BY <1>3, <4>1, <4>2, BoundsAssumption DEF IsOpen
      <4> QED
        BY <1>0, <3>1, <4>1, <4>3 DEF ChannelPart
    <3>4. CASE r.pc \in {"consumed", "revoking"} /\ r.tag \in serving'
      <4>1. r.tag \in serving' /\ consume'[r.tag].by = c
        BY <1>1, <3>1, <3>4 DEF ProcRow
      <4>2. r.tag \in Serving(c)'
        BY <4>1 DEF Serving
      <4> QED
        BY <2>1, <4>2
    <3>5. proc'[c][q] = r
      BY <3>1
    <3> QED
      BY <1>1, <3>2, <3>3, <3>4, <3>5 DEF Live
  <2>3. dedicated'[c] \in {0, dedicated[c]}
    BY <1>3
  <2> QED
    BY <1>0, <1>1, <2>1, <2>2, <2>3, LossLocal
<1> QED
  BY <1>4, <1>5

\* A subscribe() starts the first setup of its consumer.
LEMMA SubscribeLocal ==
    ASSUME IInv, [Next]_vars, TypeOK', NEW c \in Consumers, NEW parallel \in BOOLEAN,
           Subscribe(c, parallel)
    PROVE  \A d \in Consumers : Local(d)'
<1>0. /\ TypeOK /\ ChannelPart /\ NumberPart /\ ProcPart(c) /\ InfoTypes /\ FacadeTypes /\ BrokerTypes
      /\ "subscribe" \in Procs /\ "subscribe" \in Setups
  BY TypeParts DEF IInv, Local, Procs, Setups
<1>1. PICK r \in ProcRecord :
        /\ Becomes(c, "subscribe", r)
        /\ r.epoch = 0
        /\ \/ r.pc = "draining" /\ r.home = 0 /\ pool = 0
           \/ r.pc = "opening" /\ r.home = pool /\ pool # 0 /\ dedicated[c] = 0
           \/ r.pc = "consuming" /\ dedicated[c] # 0
  BY <1>0, CallMoves
<1>2. /\ info[c].status = "unused" /\ UNCHANGED <<pool, pools, chan, dedicated, consume, serving>>
      /\ UNCHANGED broker
  BY DEF Subscribe, facade, broker
<1>3. /\ info' = [info EXCEPT ![c] = [Stamped(c) EXCEPT !.status = "active"]]
      /\ workers' = [workers EXCEPT ![c] = IF parallel THEN "spawned" ELSE "none"]
  BY DEF Subscribe
<1>4. /\ info'[c].status = "active" /\ info'[c].epoch \in Nat
      /\ \A d \in Consumers : d # c => info'[d] = info[d] /\ workers'[d] = workers[d]
  <2>1. Stamped(c) \in InfoRecord /\ Stamped(c).epoch \in Nat
    BY <1>0, StampedIs DEF InfoRecord
  <2> QED
    BY <1>0, <1>3, <2>1 DEF InfoTypes, FacadeTypes, InfoRecord
<1>5. /\ proc'[c]["subscribe"] = r
      /\ \A q \in Procs : q # "subscribe" => proc'[c][q] = proc[c][q]
      /\ \A d \in Consumers : d # c => proc'[d] = proc[d]
  BY <1>0, <1>1, Updated
<1>6. \A q \in Procs : q # "subscribe" => proc'[c][q].pc = "idle"
  BY <1>0, <1>2, <1>5 DEF ProcPart, UnusedPart
<1>7. dedicated[c] = 0
  BY <1>0, <1>2 DEF ProcPart, UnusedPart
<1>8. ASSUME NEW d \in Consumers, d # c PROVE Local(d)'
  <2>1. BrokerStays(d)
    BY <1>2, <1>8, OtherBroker
  <2> QED
    BY <1>2, <1>4, <1>5, <1>8, <2>1, Bystander
<1>9. Local(c)'
  <2>1. Serving(c)' = {}
    <3> SUFFICES ASSUME NEW t \in serving, consume[t].by = c PROVE FALSE
      BY <1>2 DEF Serving
    <3>1. IsOpen(consume[t].on) /\ chan[consume[t].on].owner = c /\ consume[t].on \in 0..MaxChannels
      BY <1>0 DEF ChannelPart, BrokerTypes
    <3>2. consume[t].on \in 1..MaxChannels
      BY <3>1, BoundsAssumption DEF IsOpen
    <3>3. dedicated[c] = consume[t].on
      BY <1>0, <3>1, <3>2 DEF ChannelPart
    <3> QED
      BY <1>7, <3>2, <3>3, BoundsAssumption
  <2>2. SetupPart(c)' /\ LoopPart(c)'
    <3>1. \A q \in Setups \ {"subscribe"} : ~Live(c, q)'
      BY <1>6 DEF Live, Procs
    <3>2. \A q \in Loops : proc'[c][q].pc = "idle"
      BY <1>6 DEF Procs, Setups, Loops
    <3>3. \A q \in Loops : ~Claims(c, q)'
      BY <3>2 DEF Claims
    <3>4. "subscribe" \notin Loops /\ dedicated'[c] = 0
      BY <1>2, <1>7 DEF Loops
    <3> QED
      BY <1>0, <2>1, <3>1, <3>2, <3>3, <3>4, Alone
  <2>3. \A q \in Setups \ {"subscribe"} : ProcRow(c, q)'
    BY <1>5, RowKept DEF Procs
  <2>4. ProcRow(c, "subscribe")'
    <3>1. pool \in Nat /\ pools \in Nat /\ r.home <= pools' /\ r.epoch <= info'[c].epoch
      <4>1. pool \in Nat /\ pools \in Nat
        BY <1>0, BoundsAssumption DEF FacadeTypes
      <4>2. r.home = 0 \/ r.home = pools
        BY <1>0, <1>1, <1>7 DEF NumberPart
      <4> QED
        BY <1>1, <1>2, <1>4, <4>1, <4>2
    <3>2. CASE r.pc = "draining"
      BY <1>0, <1>5, <3>1, <3>2, LateRow
    <3>3. CASE r.pc = "opening" /\ r.home # 0
      BY <1>5, <3>1, <3>3 DEF ProcRow
    <3> QED
      BY <1>1, <1>7, <3>2, <3>3
  <2>5. UnusedPart(c)' /\ DropPart(c)'
    BY <1>4 DEF UnusedPart, DropPart
  <2>6. proc'[c]["unsubscribe"].pc \in {"idle", "cancelling", "draining", "terminating"}
    BY <1>6 DEF Procs
  <2> QED
    BY <2>2, <2>3, <2>4, <2>5, <2>6 DEF Local, ProcPart
<1> QED
  BY <1>8, <1>9

\* Without a pool nothing is served or live.
LEMMA PoolGoneLocal ==
    ASSUME IInv, [Next]_vars, TypeOK', ConnectionDrops \/ PoolInstalled, NEW c \in Consumers
    PROVE  Local(c)' /\ Serving(c)' = {} /\ \A q \in Setups : ~Live(c, q)'
<1>0. /\ TypeOK /\ ChannelPart /\ NumberPart /\ ProcPart(c) /\ DropPart(c) /\ BrokerTypes /\ FacadeTypes
      /\ proc \in [Consumers -> [Procs -> ProcRecord]]
  BY TypeParts DEF IInv, Local, ProcTypes
<1>1. UNCHANGED <<info, workers, proc>>
  BY DEF ConnectionDrops, PoolInstalled, manager
<1>2. serving' = {} /\ (\A k \in 1..MaxChannels : chan'[k].state # "open") /\ dedicated'[c] = 0
  <2>1. CASE ConnectionDrops
    BY <1>0, <2>1 DEF ConnectionDrops, BrokerTypes
  <2>2. CASE PoolInstalled
    <3>1. pool = 0 /\ UNCHANGED <<chan, dedicated, consume, serving>>
      BY <2>2 DEF PoolInstalled, broker
    <3>2. \A k \in 1..MaxChannels : chan[k].state # "open"
      BY <1>0, <3>1, BoundsAssumption DEF ChannelPart, IsOpen
    <3>3. dedicated[c] = 0
      BY <1>0, <3>2, BoundsAssumption DEF ChannelPart, IsOpen, BrokerTypes
    <3>4. serving = {}
      <4> SUFFICES ASSUME NEW t \in serving PROVE FALSE
        OBVIOUS
      <4>1. IsOpen(consume[t].on) /\ consume[t].on \in 0..MaxChannels
        BY <1>0 DEF ChannelPart, BrokerTypes
      <4> QED
        BY <3>2, <4>1, BoundsAssumption DEF IsOpen
    <3> QED
      BY <3>1, <3>2, <3>3, <3>4
  <2> QED
    BY <2>1, <2>2
<1>3. \A q \in Setups : /\ proc[c][q].home # 0 => proc[c][q].home # pool'
                        /\ proc[c][q].pc \in {"opening", "consuming"} => proc[c][q].home # 0
  <2> SUFFICES ASSUME NEW q \in Setups
               PROVE  /\ proc[c][q].home # 0 => proc[c][q].home # pool'
                      /\ proc[c][q].pc \in {"opening", "consuming"} => proc[c][q].home # 0
    OBVIOUS
  <2>1. ProcRow(c, q) /\ proc[c][q] \in ProcRecord
    BY <1>0 DEF ProcPart, Procs
  <2>2. proc[c][q].home \in Nat /\ pools \in Nat /\ proc[c][q].home <= pools
    BY <1>0, <2>1, BoundsAssumption DEF ProcRow, ProcRecord, FacadeTypes
  <2>3. pool' = 0 \/ pool' = pools + 1
    BY DEF ConnectionDrops, PoolInstalled
  <2> QED
    BY <2>1, <2>2, <2>3 DEF ProcRow
<1>4. Serving(c)' = {}
  BY <1>2 DEF Serving
<1>5. \A q \in Setups : ~Live(c, q)'
  <2> SUFFICES ASSUME NEW q \in Setups, Live(c, q)' PROVE FALSE
    OBVIOUS
  <2>1. proc[c][q].pc = "consuming" /\ IsOpen(proc[c][q].chan)'
    BY <1>1, <1>2, <1>3 DEF Live
  <2>2. proc[c][q].chan \in 0..MaxChannels
    BY <1>0 DEF Procs, ProcRecord
  <2> QED
    BY <1>1, <1>2, <2>1, <2>2, BoundsAssumption DEF IsOpen
<1>6. SetupPart(c)' /\ LoopPart(c)'
  <2>1. \A p \in Loops :
          proc'[c][p].pc \in {"opening", "consuming"} /\ StillOurs(c, p)' => Claims(c, p)'
    BY <1>1, <1>3 DEF StillOurs, Setups
  <2> QED
    BY <1>4, <1>5, <2>1, Quiet
<1>7. \A q \in Setups : ProcRow(c, q)'
  BY <1>1, RowKept
<1>8. UnusedPart(c)' /\ DropPart(c)'
  BY <1>0, <1>1, <1>2 DEF ProcPart, UnusedPart, DropPart
<1>9. proc'[c]["unsubscribe"].pc \in {"idle", "cancelling", "draining", "terminating"}
  BY <1>0, <1>1 DEF ProcPart
<1> QED
  BY <1>4, <1>5, <1>6, <1>7, <1>8, <1>9 DEF Local, ProcPart

\* recreateAll() finds its pool empty, and its setups are alone on it.
LEMMA RecreateLocal ==
    ASSUME IInv, [Next]_vars, TypeOK', RecreateAll, NEW c \in Consumers
    PROVE  Local(c)'
<1>0. /\ TypeOK /\ ChannelPart /\ NumberPart /\ Local(c) /\ ProcPart(c) /\ DropPart(c) /\ RestorePart
      /\ BrokerTypes /\ FacadeTypes /\ InfoTypes /\ restoring
      /\ proc \in [Consumers -> [Procs -> ProcRecord]]
  BY TypeParts DEF IInv, Local, ProcTypes, RecreateAll
<1>1. /\ UNCHANGED <<pool, pools, workers, chan, dedicated, consume, serving>>
      /\ info'[c] = IF Active(c) THEN Stamped(c) ELSE info[c]
  BY DEF RecreateAll, broker
<1>2. \A k \in 1..MaxChannels : chan[k].state # "open"
  BY <1>0, BoundsAssumption DEF ChannelPart, RestorePart, IsOpen
<1>3. dedicated[c] = 0 /\ serving = {}
  <2>1. dedicated[c] = 0
    BY <1>0, <1>2, BoundsAssumption DEF ChannelPart, IsOpen, BrokerTypes
  <2>2. ASSUME NEW t \in serving PROVE FALSE
    <3>1. IsOpen(consume[t].on) /\ consume[t].on \in 0..MaxChannels
      BY <1>0 DEF ChannelPart, BrokerTypes
    <3> QED
      BY <1>2, <3>1, BoundsAssumption DEF IsOpen
  <2> QED
    BY <2>1, <2>2
<1>4. Serving(c)' = {}
  BY <1>1, <1>3 DEF Serving
<1>5. \A q \in Setups : /\ proc[c][q].home = pool => pool = 0
                        /\ proc[c][q].pc \in {"opening", "consuming"} => proc[c][q].home # 0
  BY <1>0 DEF RestorePart, ProcPart, ProcRow
<1>6. /\ info'[c].status = info[c].status /\ info'[c].epoch \in Nat
      /\ Active(c) \/ info'[c] = info[c]
  <2>1. info[c].epoch \in Nat
    BY <1>0 DEF InfoTypes, InfoRecord
  <2> QED
    BY <1>0, <1>1, <2>1, StampedIs DEF InfoRecord
<1>7. CASE ~(Active(c) /\ pool # 0)
  <2>1. proc'[c] = proc[c]
    BY <1>0, <1>7, RecreateMoves
  <2>2. \A q \in Setups : ~Live(c, q)'
    <3> SUFFICES ASSUME NEW q \in Setups, Live(c, q)' PROVE FALSE
      OBVIOUS
    <3>1. proc[c][q].pc = "consuming" /\ IsOpen(proc[c][q].chan)
      BY <1>1, <1>3, <1>5, <2>1 DEF Live, IsOpen
    <3>2. proc[c][q].chan \in 0..MaxChannels
      BY <1>0 DEF Procs, ProcRecord
    <3> QED
      BY <1>2, <3>1, <3>2, BoundsAssumption DEF IsOpen
  <2>3. SetupPart(c)' /\ LoopPart(c)'
    <3>1. \A p \in Loops :
            proc'[c][p].pc \in {"opening", "consuming"} /\ StillOurs(c, p)' => Claims(c, p)'
      BY <1>1, <1>5, <2>1 DEF StillOurs, Setups
    <3> QED
      BY <1>4, <2>2, <3>1, Quiet
  <2>4. \A q \in Setups : ProcRow(c, q)'
    BY <2>1, RowKept
  <2>5. UnusedPart(c)' /\ DropPart(c)'
    BY <1>0, <1>1, <1>3, <1>6, <2>1 DEF ProcPart, UnusedPart, DropPart, Active
  <2>6. proc'[c]["unsubscribe"].pc \in {"idle", "cancelling", "draining", "terminating"}
    BY <1>0, <2>1 DEF ProcPart
  <2> QED
    BY <2>3, <2>4, <2>5, <2>6 DEF Local, ProcPart
<1>8. CASE Active(c) /\ pool # 0
  <2>1. /\ \A q \in Procs \ {"recreate"} : proc'[c][q] = proc[c][q]
        /\ proc'[c]["recreate"].home = pool /\ proc'[c]["recreate"].epoch = 0
        /\ proc'[c]["recreate"].pc = "opening"
    BY <1>0, <1>3, <1>8, RecreateMoves
  <2>2. \A q \in Setups \ {"recreate"} : ~Live(c, q)'
    <3> SUFFICES ASSUME NEW q \in Setups \ {"recreate"}, Live(c, q)' PROVE FALSE
      OBVIOUS
    <3>0. proc'[c][q] = proc[c][q]
      BY <2>1 DEF Procs
    <3>1. proc[c][q].pc = "consuming" /\ IsOpen(proc[c][q].chan)
      BY <1>1, <1>3, <1>5, <1>8, <3>0 DEF Live, IsOpen
    <3>2. proc[c][q].chan \in 0..MaxChannels
      BY <1>0 DEF Procs, ProcRecord
    <3> QED
      BY <1>2, <3>1, <3>2, BoundsAssumption DEF IsOpen
  <2>3. \A q \in Loops : ~StillOurs(c, q)' /\ ~Claims(c, q)'
    <3> SUFFICES ASSUME NEW q \in Loops PROVE ~StillOurs(c, q)'
      BY DEF Claims, LoopContinues
    <3>1. proc'[c][q] = proc[c][q] /\ q \in Setups
      BY <2>1 DEF Procs, Setups, Loops
    <3> QED
      BY <1>1, <1>5, <1>8, <3>1 DEF StillOurs
  <2>4. SetupPart(c)' /\ LoopPart(c)'
    <3>1. "recreate" \in Setups /\ "recreate" \notin Loops
      BY DEF Setups, Loops
    <3> QED
      BY <1>1, <1>3, <1>4, <2>2, <2>3, <3>1, Alone
  <2>5. \A q \in Setups \ {"recreate"} : ProcRow(c, q)'
    BY <2>1, RowKept DEF Procs
  <2>6. ProcRow(c, "recreate")'
    <3>1. pool = pools /\ pools \in Nat
      BY <1>0, <1>8, BoundsAssumption DEF NumberPart, FacadeTypes
    <3> QED
      BY <1>1, <1>6, <1>8, <2>1, <3>1 DEF ProcRow
  <2>7. UnusedPart(c)' /\ DropPart(c)'
    BY <1>6, <1>8 DEF UnusedPart, DropPart, Active
  <2>8. proc'[c]["unsubscribe"].pc \in {"idle", "cancelling", "draining", "terminating"}
    BY <1>0, <2>1 DEF ProcPart, Procs, Setups, Loops
  <2> QED
    BY <2>4, <2>5, <2>6, <2>7, <2>8 DEF Local, ProcPart
<1> QED
  BY <1>7, <1>8

\* Every step keeps every consumer's part.
LEMMA LocalStep ==
    ASSUME IInv, [Next]_vars, TypeOK'
    PROVE  \A d \in Consumers : Local(d)'
<1>1. ASSUME UNCHANGED <<info, proc, workers, pool>>, UNCHANGED broker
      PROVE  \A d \in Consumers : Local(d)'
  <2> SUFFICES ASSUME NEW d \in Consumers PROVE Local(d)'
    OBVIOUS
  <2>1. BrokerStays(d)
    BY <1>1 DEF BrokerStays, broker, Serving
  <2> QED
    BY <1>1, <2>1, Bystander
<1>2. ASSUME NEW t \in 1..MaxTags, Deliver(t) \/ HandlerEnds(t)
      PROVE  \A d \in Consumers : Local(d)'
  BY <1>1, <1>2 DEF Deliver, HandlerEnds, manager, facade
<1>3. CASE RefusalChanges \/ UNCHANGED vars
  BY <1>1, <1>3 DEF RefusalChanges, manager, facade, vars
<1>4. ASSUME NEW c \in Consumers, NEW p \in Procs, DropStep(c, p)
      PROVE  \A d \in Consumers : Local(d)'
  BY <1>4, DropLocal, EndedLocal DEF DropStep, Drained, DrainTimesOut
<1>5. ASSUME NEW t \in 1..MaxTags, Unsubscribe(t) \/ BrokerCancels(t)
      PROVE  \A d \in Consumers : Local(d)'
  BY <1>5, UnsubscribeLocal, BrokerCancelLocal
<1>6. CASE ConnectionDrops \/ PoolInstalled \/ RecreateAll \/ DisposeAll \/ DisposeEnds
  BY <1>6, PoolGoneLocal, RecreateLocal, DisposeLocal
<1> QED
  BY <1>2, <1>3, <1>4, <1>5, <1>6, SetupLocal, CancelLocal, ChannelCloseLocal, SubscribeLocal DEF Next

\* Until recreateAll() has run no setup of the new pool is under way, nor its recreation.
LEMMA RestoreMoves ==
    ASSUME ~SubscribeInRestore, IInv, [Next]_vars, restoring, restoring', NEW c \in Consumers
    PROVE  /\ proc'[c]["recreate"].pc = "idle"
           /\ pool # 0 => \A q \in Setups : proc'[c][q].home \in {0, proc[c][q].home}
<1> DEFINE Kept == /\ proc'[c]["recreate"].pc = "idle"
                   /\ pool # 0 => \A q \in Setups : proc'[c][q].home \in {0, proc[c][q].home}
<1>0. /\ TypeOK /\ NumberPart /\ ChannelPart
      /\ proc \in [Consumers -> [Procs -> ProcRecord]]
      /\ \A d \in Consumers : ProcPart(d) /\ proc[d]["recreate"].pc = "idle"
      /\ pool # 0 => \A d \in Consumers : \A q \in Setups : proc[d][q].home # pool
      /\ "recreate" \in Setups /\ Setups \subseteq Procs
  BY TypeParts DEF IInv, Local, ProcTypes, RestorePart, Setups, Procs
<1>1. \A k \in 0..MaxChannels : ~IsOpen(k)
  <2>1. ASSUME NEW k \in 0..MaxChannels, IsOpen(k) PROVE FALSE
    <3>1. k \in 1..MaxChannels
      BY <2>1, BoundsAssumption DEF IsOpen
    <3> QED
      BY <2>1, <3>1 DEF IInv, RestorePart, ChannelPart
  <2> QED
    BY <2>1
<1>2. ASSUME UNCHANGED proc PROVE Kept
  BY <1>0, <1>2
<1>3. ASSUME NEW d \in Consumers, NEW p \in Procs, NEW r \in ProcRecord, Becomes(d, p, r),
             p # "recreate", p \in Setups /\ pool # 0 => r.home \in {0, proc[d][p].home}
      PROVE  Kept
  <2>1. /\ proc'[d][p] = r
        /\ \A q \in Procs : q # p => proc'[d][q] = proc[d][q]
        /\ \A e \in Consumers : e # d => proc'[e] = proc[e]
    BY <1>0, <1>3, Updated
  <2>2. CASE c = d
    BY <1>0, <1>3, <2>1, <2>2
  <2>3. CASE c # d
    BY <1>0, <2>1, <2>3
  <2> QED
    BY <2>2, <2>3
<1>4. ASSUME NEW d \in Consumers, NEW p \in Setups, SetupStep(d, p) PROVE Kept
  <2>0. p # "recreate" /\ p \in Procs
    BY <1>0, <1>4 DEF SetupStep, ChannelOpened, ChannelRefused, ConsumeAnswered, ConsumeFails,
                      SetupSettles, ConsumeRevoked, LoopWakes
  <2>1. CASE pool = 0
    <3>1. PICK r \in ProcRecord : Becomes(d, p, r)
      BY <1>0, <1>4, SetupMoves
    <3> QED
      BY <1>3, <2>0, <2>1, <3>1
  <2>2. CASE pool # 0
    <3>1. ASSUME SetupFails(d, p) PROVE Kept
      <4>1. PICK r \in ProcRecord : Becomes(d, p, r) /\ (r = Idle \/ r.home = proc[d][p].home)
        BY <1>0, <3>1, FailureIs DEF SetupFails
      <4>2. r.home \in {0, proc[d][p].home}
        BY <4>1 DEF Idle
      <4> QED
        BY <1>3, <2>0, <4>1, <4>2
    <3>2. CASE ChannelOpened(d, p) \/ ConsumeAnswered(d, p)
      <4>1. proc[d][p].chan \in 0..MaxChannels
        BY <1>0, <2>0 DEF ProcRecord
      <4> QED
        BY <1>0, <1>1, <2>2, <3>2, <4>1 DEF ChannelOpened, ConsumeAnswered
    <3>3. CASE SetupSettles(d, p)
      <4>1. /\ Idle \in ProcRecord /\ Idle.home = 0
            /\ [proc[d][p] EXCEPT !.pc = "revoking"] \in ProcRecord
            /\ [proc[d][p] EXCEPT !.pc = "revoking"].home = proc[d][p].home
        <5>1. Idle \in ProcRecord /\ proc[d][p] \in ProcRecord
          BY <1>0, <2>0, RecordSteps
        <5> QED
          BY <5>1 DEF ProcRecord, Idle
      <4>2. Becomes(d, p, Idle) \/ Becomes(d, p, [proc[d][p] EXCEPT !.pc = "revoking"])
        BY <3>3 DEF SetupSettles
      <4> QED
        BY <1>3, <2>0, <4>1, <4>2
    <3>4. CASE LoopWakes(d, p)
      <4>1. ~LoopContinues(d, p)
        BY <1>0, <2>2 DEF LoopContinues, StillOurs
      <4>2. Becomes(d, p, Idle)
        BY <3>4, <4>1 DEF LoopWakes
      <4>3. Idle \in ProcRecord /\ Idle.home = 0
        BY <1>0, RecordSteps DEF Idle
      <4> QED
        BY <1>3, <2>0, <4>2, <4>3
    <3> QED
      BY <1>4, <3>1, <3>2, <3>3, <3>4 DEF SetupStep, ChannelRefused, ConsumeFails, ConsumeRevoked
  <2> QED
    BY <2>1, <2>2
<1>5. ASSUME NEW d \in Consumers, NEW p \in Procs, DropStep(d, p) PROVE Kept
  <2>0. p # "recreate"
    BY <1>0, <1>5 DEF DropStep, Drained, DrainTimesOut, WorkersEnded
  <2>1. PICK r \in ProcRecord : Becomes(d, p, r) /\ (r = Idle \/ r.home = proc[d][p].home)
    BY <1>0, <1>5, DropMoves, RecordSteps DEF DropStep, Drained, DrainTimesOut, WorkersEnded
  <2>2. r.home \in {0, proc[d][p].home}
    BY <2>1 DEF Idle
  <2> QED
    BY <1>3, <2>0, <2>1, <2>2
<1>6. ASSUME NEW d \in Consumers, CancelAnswered(d) PROVE Kept
  <2>1. [proc[d]["unsubscribe"] EXCEPT !.pc = "draining"] \in ProcRecord
    BY <1>0 DEF ProcRecord, Procs
  <2>2. Becomes(d, "unsubscribe", [proc[d]["unsubscribe"] EXCEPT !.pc = "draining"])
    BY <1>6 DEF CancelAnswered
  <2> QED
    BY <1>3, <2>1, <2>2 DEF Procs, Setups, Loops
<1>7. ASSUME NEW t \in 1..MaxTags, Unsubscribe(t) PROVE Kept
  <2>1. OwnerOf(t) \in Consumers /\ \E r \in ProcRecord : Becomes(OwnerOf(t), "unsubscribe", r)
    BY <1>0, <1>7, CallMoves, TypeParts DEF OwnerOf, BrokerTypes
  <2> QED
    BY <1>3, <2>1 DEF Procs, Setups, Loops
<1>8. ASSUME NEW t \in 1..MaxTags, BrokerCancels(t) PROVE FALSE
  BY <1>0, <1>1, <1>8, TypeParts DEF BrokerCancels, ChannelPart, BrokerTypes
<1>9. ASSUME NEW k \in 1..MaxChannels, ChannelCloses(k) PROVE FALSE
  BY <1>1, <1>9, BoundsAssumption DEF ChannelCloses
<1>10. ASSUME NEW t \in 1..MaxTags, Deliver(t) \/ HandlerEnds(t) PROVE UNCHANGED proc
  BY <1>10 DEF Deliver, HandlerEnds
<1>11. CASE \/ RefusalChanges \/ ConnectionDrops \/ DisposeAll \/ DisposeEnds \/ UNCHANGED vars
  BY <1>2, <1>11 DEF RefusalChanges, ConnectionDrops, DisposeAll, DisposeEnds, vars
<1>12. ~PoolInstalled /\ ~RecreateAll /\ \A d \in Consumers, parallel \in BOOLEAN : ~Subscribe(d, parallel)
  BY DEF PoolInstalled, RecreateAll, Subscribe
<1> QED
  BY <1>2, <1>4, <1>5, <1>6, <1>7, <1>8, <1>9, <1>10, <1>11, <1>12 DEF Next

\* The pool of a restore stays empty until recreateAll() runs on it.
LEMMA RestoreStep ==
    ASSUME ~SubscribeInRestore, IInv, [Next]_vars, TypeOK'
    PROVE  RestorePart'
<1>0. /\ TypeOK /\ RestorePart /\ ChannelPart /\ FacadeTypes /\ ChannelPart'
      /\ \A c \in Consumers : ProcPart(c) /\ \A q \in Setups : proc[c][q] \in ProcRecord
  <2>1. TypeOK /\ RestorePart /\ ChannelPart /\ \A c \in Consumers : ProcPart(c)
    BY DEF IInv, Local
  <2> QED
    BY <2>1, ChannelStep, TypeParts DEF ProcTypes, Procs
<1>1. CASE ~restoring'
  BY <1>1 DEF RestorePart
<1>2. CASE PoolInstalled
  <2>1. /\ \A c \in Consumers : proc'[c]["recreate"].pc = "idle"
        /\ pool = 0 /\ pool' = pools + 1 /\ UNCHANGED <<proc, chan>>
    BY <1>2 DEF PoolInstalled, broker
  <2>2. \A k \in 1..MaxChannels : ~IsOpen(k)'
    BY <1>0, <2>1 DEF ChannelPart, IsOpen
  <2>3. \A c \in Consumers : \A q \in Setups : proc'[c][q].home # pool'
    <3> SUFFICES ASSUME NEW c \in Consumers, NEW q \in Setups PROVE proc[c][q].home # pools + 1
      BY <2>1
    <3>1. proc[c][q].home <= pools
      BY <1>0 DEF ProcPart, ProcRow
    <3>2. proc[c][q].home \in Nat /\ pools \in Nat
      BY <1>0, BoundsAssumption DEF ProcRecord, FacadeTypes
    <3> QED
      BY <3>1, <3>2
  <2> QED
    BY <2>1, <2>2, <2>3 DEF RestorePart
<1>3. CASE restoring' /\ ~PoolInstalled
  <2>1. restoring /\ (pool' # 0 => pool' = pool)
    BY <1>3, PoolMoves DEF ConnectionDrops
  <2>2. \A c \in Consumers : proc'[c]["recreate"].pc = "idle"
    BY <1>3, <2>1, RestoreMoves
  <2>3. ASSUME pool' # 0
        PROVE  /\ \A k \in 1..MaxChannels : ~IsOpen(k)'
               /\ \A c \in Consumers : \A q \in Setups : proc'[c][q].home # pool'
    <3>0. pool # 0 /\ pool' = pool
      BY <2>1, <2>3
    <3>1. /\ \A k \in 1..MaxChannels : chan[k].state # "open"
          /\ \A c \in Consumers : \A q \in Setups : proc[c][q].home # pool
      BY <1>0, <2>1, <3>0, BoundsAssumption DEF RestorePart, IsOpen
    <3>2. \A k \in 1..MaxChannels : chan'[k].state # "open"
      <4>1. ASSUME NEW k \in 1..MaxChannels, CloseChannel(k)
            PROVE  \A j \in 1..MaxChannels : chan'[j].state # "open"
        BY <1>0, <3>1, <4>1, TypeParts DEF CloseChannel, BrokerTypes
      <4>2. \A c \in Consumers : \A q \in Setups : ~ChannelOpened(c, q)
        BY <3>1 DEF ChannelOpened
      <4>3. CASE ConnectionDrops
        BY <2>3, <4>3 DEF ConnectionDrops
      <4> QED
        BY <3>1, <4>1, <4>2, <4>3, BrokerMoves DEF BrokerMove, ConsumeAnswered, Cancelled, broker
    <3>3. \A c \in Consumers : \A q \in Setups : proc'[c][q].home # pool'
      BY <1>3, <2>1, <3>0, <3>1, RestoreMoves
    <3> QED
      BY <3>2, <3>3 DEF IsOpen
  <2> QED
    BY <2>2, <2>3 DEF RestorePart
<1> QED
  BY <1>1, <1>2, <1>3

\* Nothing is registered, open or under way at first.
LEMMA InitIInv == Init => IInv
<1> SUFFICES ASSUME Init PROVE IInv
  OBVIOUS
<1>1. AnyConsumer \in Consumers
  BY BoundsAssumption DEF AnyConsumer
<1>2. /\ \A c \in Consumers : /\ info[c].status = "unused" /\ info[c].tag = 0 /\ info[c].epoch = 0
                              /\ ~info[c].cancelled /\ workers[c] = "none" /\ dedicated[c] = 0
                              /\ \A p \in Procs : proc[c][p] = Idle
      /\ \A k \in 1..MaxChannels : chan[k].state = "none"
      /\ \A t \in 1..MaxTags : consume[t].on = 0
      /\ tagged = {} /\ serving = {} /\ running = {} /\ cut = {} /\ restoring = FALSE
      /\ pool = 1 /\ pools = 1
  BY DEF Init
<1>3. TypeOK
  <2>1. FacadeTypes
    <3>1. 1 \in 0..MaxPools /\ 0 \in 0..MaxFaults
      BY BoundsAssumption
    <3>2. workers \in [Consumers -> {"none", "spawned", "owned", "terminated"}]
      BY DEF Init
    <3> QED
      BY <3>1, <3>2 DEF Init, FacadeTypes
  <2>2. InfoTypes
    BY BoundsAssumption DEF Init, InfoTypes, InfoRecord
  <2>3. BrokerTypes
    BY <1>1, BoundsAssumption DEF Init, BrokerTypes
  <2>4. Idle \in ProcRecord
    BY BoundsAssumption DEF Idle, ProcRecord
  <2>5. ProcTypes
    BY <2>4 DEF Init, ProcTypes
  <2> QED
    BY <2>1, <2>2, <2>3, <2>5, TypeParts
<1>4. NumberPart
  BY <1>2, BoundsAssumption DEF NumberPart, Given
<1>5. ChannelPart /\ RestorePart /\ TagsResolve
  BY <1>2 DEF ChannelPart, RestorePart, TagsResolve, IsOpen
<1>6. ASSUME NEW c \in Consumers PROVE Local(c)
  <2>1. \A p \in Procs : proc[c][p].pc = "idle" /\ proc[c][p].home = 0 /\ proc[c][p].epoch = 0
    BY <1>2 DEF Idle
  <2>2. ProcPart(c)
    BY <1>2, <2>1 DEF ProcPart, UnusedPart, ProcRow, Procs, Setups, Loops
  <2>3. SetupPart(c) /\ LoopPart(c)
    BY <1>2, <2>1 DEF SetupPart, LoopPart, Live, Claims, Serving, Procs, Setups
  <2>4. DropPart(c)
    BY <1>2 DEF DropPart
  <2> QED
    BY <2>2, <2>3, <2>4 DEF Local
<1> QED
  BY <1>3, <1>4, <1>5, <1>6 DEF IInv

\* Every step keeps the invariant.
LEMMA NextIInv ==
    ASSUME ~SubscribeInRestore, IInv, [Next]_vars
    PROVE  IInv'
<1>1. TypeOK'
  BY TypesStep
<1>2. NumberPart' /\ TagsResolve' /\ ChannelPart' /\ RestorePart' /\ \A c \in Consumers : Local(c)'
  BY <1>1, NumberStep, ChannelStep, RestoreStep, LocalStep
<1> QED
  BY <1>1, <1>2 DEF IInv

\* Whatever the broker, the timers and the callers do, and in whatever order the processes of
\* a consumer take their turns, the parts of the invariant hold, as long as no subscribe() falls
\* between the installation of a pool and recreateAll(): such a call begins a first setup that
\* recreateAll() begins again.
THEOREM Invariance == ASSUME ~SubscribeInRestore PROVE Spec => []IInv
<1>1. IInv /\ [Next]_vars => IInv'
  BY NextIInv
<1> QED
  BY <1>1, InitIInv, PTL DEF Spec

\* The variables keep their types.
THEOREM TypeCorrect == ASSUME ~SubscribeInRestore PROVE Spec => []TypeOK
<1>1. IInv => TypeOK
  BY DEF IInv
<1> QED
  BY <1>1, Invariance, PTL

\* However many loops, recreations and first setups of a consumer are at work, the epoch and
\* the pool fences of consumer-manager.js let its queue subscription be consumed once at most.
\* The two races of this module are let happen; a subscribe() during a restore is not.
THEOREM NoDoubleConsumeHolds == ASSUME ~SubscribeInRestore PROVE Spec => []NoDoubleConsume
<1>1. IInv => NoDoubleConsume
  <2> SUFFICES ASSUME IInv, NEW c \in Consumers PROVE Cardinality(Serving(c)) <= 1
    BY DEF NoDoubleConsume
  <2>1. \A s, t \in Serving(c) : s = t
    BY DEF IInv, Local, SetupPart
  <2>2. CASE Serving(c) = {}
    BY <2>2, FS_EmptySet
  <2>3. ASSUME NEW t \in Serving(c) PROVE Cardinality(Serving(c)) <= 1
    <3>1. Serving(c) = {t}
      BY <2>1
    <3>2. Cardinality({t}) = 1
      BY FS_Singleton
    <3> QED
      BY <3>1, <3>2
  <2> QED
    BY <2>2, <2>3
<1> QED
  BY <1>1, Invariance, PTL

\* No handle dangles, and no channel of a dropped consumer stays open.
LEMMA Resolved == IInv => TagsResolve /\ NoLeakedChannel
<1> SUFFICES ASSUME IInv PROVE TagsResolve /\ NoLeakedChannel
  OBVIOUS
<1>1. TagsResolve /\ ChannelPart /\ BrokerTypes /\ InfoTypes
  BY TypeParts DEF IInv
<1>2. ASSUME NEW k \in 1..MaxChannels, NEW c \in Consumers, c = chan[k].owner, IsOpen(k)
      PROVE  \/ dedicated[c] = k /\ (Active(c) \/ Working(c, {"terminating"}))
             \/ info[c].status = "disposed"
  <2>1. dedicated[c] = k /\ k # 0
    BY <1>1, <1>2, BoundsAssumption DEF ChannelPart
  <2>2. UnusedPart(c) /\ DropPart(c) /\ info[c].status \in {"unused", "active", "gone", "disposed"}
    BY <1>1 DEF IInv, Local, ProcPart, InfoTypes, InfoRecord
  <2> QED
    BY <2>1, <2>2 DEF UnusedPart, DropPart, Active, Working
<1>3. NoLeakedChannel
  BY <1>1, <1>2 DEF NoLeakedChannel, BrokerTypes
<1> QED
  BY <1>1, <1>3

-----------------------------------------------------------------------------
(* What holds while the two races that the code does not fence are held back.           *)

\* A worker pool that was spawned waits for its first setup, one that is owned for a drop.
WorkersPart ==
    \A c \in Consumers :
      /\ workers[c] = "spawned" => proc[c]["subscribe"].pc # "idle"
      /\ workers[c] = "owned" => Active(c) /\ proc[c]["subscribe"].pc = "idle"
      /\ disposing => proc[c]["subscribe"].pc = "idle" /\ workers[c] # "owned"

\* A loop that gives up does so on the pool in place, for a consumer nothing else serves.
GivePart(c) ==
    \A p \in Loops :
      /\ proc[c][p].pc = "draining" => proc[c][p].home = pool /\ pool # 0 /\ ~restoring
      /\ proc[c][p].pc \in {"draining", "terminating"} =>
           Serving(c) = {} /\ \A q \in Setups : ~Live(c, q)

\* A drop that awaits the worker threads left no handler of the current consume running,
\* unless the grace period passed.
AwaitPart(c) ==
    \A p \in Procs : proc[c][p].pc = "terminating" =>
      /\ ~Active(c) /\ p # "subscribe"
      /\ c \in expired \/ info[c].tag \notin running

\* unsubscribe() works on a cancelled consumer, and on its last consume.
CancelPart(c) ==
    LET r == proc[c]["unsubscribe"]
    IN  /\ r.pc # "idle" => info[c].cancelled
        /\ r.pc = "cancelling" => r.tag = info[c].tag
        /\ r.pc \in {"draining", "terminating"} => info[c].tag \notin serving

\* A channel is closed under a handler only when its consumer is dropped.
CutPart == \A t \in cut : info[consume[t].by].status \in {"gone", "disposed"}

\* With IInv, inductive when Races is FALSE.
FencedInv ==
    /\ WorkersPart
    /\ \A c \in Consumers : GivePart(c) /\ AwaitPart(c) /\ CancelPart(c)
    /\ CutPart /\ DrainProtects /\ GiveUpOnlyOnLost

-----------------------------------------------------------------------------
\* How a process of a consumer comes to open a channel or to consume, and to drain, to
\* await its worker threads or to cancel.
ProcMove(c, q) ==
    \/ proc'[c][q] = proc[c][q]
    \/ proc'[c][q].pc \notin {"opening", "consuming", "draining", "terminating", "cancelling"}
    \/ /\ ChannelOpened(c, q) \/ (LoopWakes(c, q) /\ LoopContinues(c, q))
       /\ proc'[c][q].pc \in {"opening", "consuming"}
    \/ /\ RecreateAll /\ Active(c) /\ pool # 0
       /\ q = "recreate" /\ proc'[c][q].pc \in {"opening", "consuming"}
    \/ q = "subscribe" /\ \E parallel \in BOOLEAN : Subscribe(c, parallel)
    \/ q = "subscribe" /\ proc'[c][q].pc = "draining"
    \/ /\ q \in Loops
       /\ ChannelRefused(c, q) \/ ConsumeFails(c, q)
       /\ proc'[c][q].pc = "draining" /\ proc'[c][q].home = proc[c][q].home /\ StillOurs(c, q)
    \/ q = "unsubscribe" /\ CancelAnswered(c) /\ proc'[c][q].pc = "draining"
    \/ /\ q = "unsubscribe" /\ info'[c].cancelled /\ info'[c].tag = info[c].tag
       /\ proc'[c][q].pc = "cancelling" /\ proc'[c][q].tag = info[c].tag
    \/ /\ Drained(c, q) \/ DrainTimesOut(c, q)
       /\ OwnsWorkers(c, q) /\ proc'[c][q].pc = "terminating"


\* Every step moves a process in one of these ways.
LEMMA ProcMoves == IInv /\ [Next]_vars => \A c \in Consumers : \A q \in Procs : ProcMove(c, q)
<1> SUFFICES ASSUME IInv, [Next]_vars, NEW c \in Consumers, NEW q \in Procs PROVE ProcMove(c, q)
  OBVIOUS
<1>0. /\ TypeOK /\ NumberPart /\ ProcPart(c) /\ InfoTypes
      /\ proc \in [Consumers -> [Procs -> ProcRecord]] /\ Setups \subseteq Procs
  BY TypeParts DEF IInv, Local, ProcTypes, Procs
<1>1. ASSUME proc'[c][q] = proc[c][q] PROVE ProcMove(c, q)
  BY <1>1 DEF ProcMove
<1>2. ASSUME NEW d \in Consumers, NEW p \in Procs, NEW r \in ProcRecord, Becomes(d, p, r),
             d = c /\ p = q => ProcMove(c, q)
      PROVE  ProcMove(c, q)
  <2>1. /\ \A e \in Procs : e # p => proc'[d][e] = proc[d][e]
        /\ \A e \in Consumers : e # d => proc'[e] = proc[e]
    BY <1>0, <1>2, Updated
  <2> QED
    BY <1>1, <1>2, <2>1
<1>3. ASSUME NEW d \in Consumers, NEW p \in Setups, SetupStep(d, p) PROVE ProcMove(c, q)
  <2>1. PICK r \in ProcRecord : Becomes(d, p, r)
    BY <1>0, <1>3, SetupMoves
  <2>2. ASSUME d = c, p = q PROVE ProcMove(c, q)
    <3>1. proc'[c][q] = r
      BY <1>0, <2>1, <2>2, Updated
    <3>2. ASSUME SetupFails(c, q), UNCHANGED info PROVE
            \/ r.pc \notin {"opening", "consuming", "draining", "terminating", "cancelling"}
            \/ q = "subscribe" /\ r.pc = "draining"
            \/ q \in Loops /\ r.pc = "draining" /\ r.home = proc[c][q].home /\ StillOurs(c, q)
      <4>1. AfterFailure(c, q) \in ProcRecord /\ Becomes(c, q, AfterFailure(c, q))
        BY <1>0, <2>2, <3>2, FailureIs DEF SetupFails
      <4>2. r = AfterFailure(c, q)
        BY <1>0, <3>1, <4>1, Updated
      <4>3. AfterFailure(c, q).pc = "draining" => AfterFailure(c, q) # Idle
        BY DEF Idle
      <4> QED
        BY <1>0, <2>2, <4>2, <4>3, FailureIs DEF Idle
    <3>3. CASE ChannelRefused(c, q) \/ ConsumeFails(c, q)
      <4>1. SetupFails(c, q) /\ UNCHANGED info
        BY <3>3 DEF ChannelRefused, ConsumeFails, manager
      <4> QED
        BY <3>1, <3>2, <3>3, <4>1 DEF ProcMove
    <3>4. CASE ConsumeRevoked(c, q)
      <4>1. SetupFails(c, q) /\ UNCHANGED info /\ AbandonsConsume(c)
        BY <1>0, <2>2, <3>4 DEF ConsumeRevoked, manager, ProcPart, ProcRow
      <4>2. ~StillOurs(c, q)
        BY <4>1 DEF AbandonsConsume, StillOurs
      <4> QED
        BY <3>1, <3>2, <4>1, <4>2 DEF ProcMove
    <3>5. CASE ChannelOpened(c, q)
      <4>1. CASE AbandonsEarly(c)
        <5>1. SetupFails(c, q) /\ UNCHANGED info /\ ~StillOurs(c, q)
          BY <3>5, <4>1 DEF ChannelOpened, manager, AbandonsEarly, StillOurs
        <5> QED
          BY <3>1, <3>2, <5>1 DEF ProcMove
      <4>2. CASE ~AbandonsEarly(c)
        <5>1. PICK k \in 1..MaxChannels : OpenedOn(c, q, k)
          BY <2>2, <3>5, OpenedIs
        <5>2. proc' = [proc EXCEPT ![c][q] = [proc[c][q] EXCEPT !.pc = "consuming", !.chan = k]]
          BY <4>2, <5>1 DEF OpenedOn, Becomes
        <5>3. proc'[c][q].pc = "consuming"
          BY <1>0, <5>2 DEF ProcRecord
        <5> QED
          BY <3>5, <5>3 DEF ProcMove
      <4> QED
        BY <4>1, <4>2
    <3>6. CASE ConsumeAnswered(c, q)
      <4>1. proc' = [proc EXCEPT ![c][q] = [proc[c][q] EXCEPT !.pc = "consumed", !.tag = NextTag]]
        BY <3>6 DEF ConsumeAnswered, Becomes
      <4>2. proc'[c][q].pc = "consumed"
        BY <1>0, <4>1 DEF ProcRecord
      <4> QED
        BY <4>2 DEF ProcMove
    <3>7. CASE SetupSettles(c, q)
      <4>1. \/ proc' = [proc EXCEPT ![c][q] = Idle]
            \/ proc' = [proc EXCEPT ![c][q] = [proc[c][q] EXCEPT !.pc = "revoking"]]
        BY <3>7 DEF SetupSettles, Becomes
      <4>2. proc'[c][q].pc \in {"idle", "revoking"}
        BY <1>0, <4>1 DEF ProcRecord, Idle
      <4> QED
        BY <4>2 DEF ProcMove
    <3>8. CASE LoopWakes(c, q)
      <4>1. CASE ~LoopContinues(c, q)
        <5>1. proc' = [proc EXCEPT ![c][q] = Idle]
          BY <3>8, <4>1 DEF LoopWakes, Becomes
        <5>2. proc'[c][q].pc = "idle"
          BY <1>0, <5>1 DEF Idle
        <5> QED
          BY <5>2 DEF ProcMove
      <4>2. CASE LoopContinues(c, q)
        <5> DEFINE s == [proc[c][q] EXCEPT !.epoch = info'[c].epoch, !.home = pool]
        <5>1. info'[c].epoch \in Nat /\ pool \in 0..MaxPools
          <6>1. info' = [info EXCEPT ![c] = Stamped(c)]
            BY <3>8, <4>2 DEF LoopWakes
          <6>2. Stamped(c).epoch \in Nat
            BY <1>0, StampedIs DEF InfoRecord
          <6> QED
            BY <1>0, <6>1, <6>2, TypeParts DEF InfoTypes, FacadeTypes
        <5>2. s \in ProcRecord
          <6>1. proc[c][q] \in ProcRecord
            BY <1>0
          <6> QED
            BY <5>1, <6>1 DEF ProcRecord
        <5>3. Becomes(c, q, SetupCalled(c, s))
          BY <3>8, <4>2 DEF LoopWakes
        <5> HIDE DEF s
        <5>4. SetupCalled(c, s) \in ProcRecord /\ SetupCalled(c, s).pc \in {"opening", "consuming"}
          BY <1>0, <5>2, RecordSteps
        <5>5. proc'[c][q].pc \in {"opening", "consuming"}
          BY <1>0, <5>3, <5>4, Updated
        <5> QED
          BY <3>8, <4>2, <5>5 DEF ProcMove
      <4> QED
        BY <4>1, <4>2
    <3> QED
      BY <1>3, <2>2, <3>3, <3>4, <3>5, <3>6, <3>7, <3>8 DEF SetupStep
  <2> QED
    BY <1>0, <1>2, <2>1, <2>2
<1>4. ASSUME NEW d \in Consumers, NEW p \in Procs, DropStep(d, p) PROVE ProcMove(c, q)
  <2>1. CASE Drained(d, p) \/ DrainTimesOut(d, p)
    <3>1. PICK r \in ProcRecord :
            /\ Becomes(d, p, r)
            /\ \/ OwnsWorkers(d, p) /\ r.pc = "terminating"
               \/ r = Idle
      BY <1>0, <2>1, DropMoves DEF Drained, DrainTimesOut
    <3>2. ASSUME d = c, p = q PROVE ProcMove(c, q)
      <4>1. proc'[c][q] = r
        BY <1>0, <3>1, <3>2, Updated
      <4> QED
        BY <2>1, <3>1, <3>2, <4>1 DEF ProcMove, Idle
    <3> QED
      BY <1>2, <3>1, <3>2
  <2>2. CASE WorkersEnded(d, p)
    <3>1. Becomes(d, p, Idle) /\ Idle \in ProcRecord
      BY <1>0, <2>2, RecordSteps DEF WorkersEnded
    <3>2. ASSUME d = c, p = q PROVE ProcMove(c, q)
      <4>1. proc'[c][q] = Idle
        BY <1>0, <3>1, <3>2, Updated
      <4> QED
        BY <4>1 DEF ProcMove, Idle
    <3> QED
      BY <1>2, <3>1, <3>2
  <2> QED
    BY <1>4, <2>1, <2>2 DEF DropStep
<1>5. ASSUME NEW d \in Consumers, CancelAnswered(d) PROVE ProcMove(c, q)
  <2>1. PICK r \in ProcRecord : Becomes(d, "unsubscribe", r) /\ r.pc = "draining"
    <3>1. [proc[d]["unsubscribe"] EXCEPT !.pc = "draining"] \in ProcRecord
          /\ [proc[d]["unsubscribe"] EXCEPT !.pc = "draining"].pc = "draining"
      BY <1>0 DEF ProcRecord, Procs
    <3> QED
      BY <1>5, <3>1 DEF CancelAnswered
  <2>2. "unsubscribe" \in Procs
    BY DEF Procs
  <2>3. ASSUME d = c, "unsubscribe" = q PROVE ProcMove(c, q)
    <3>1. proc'[c][q] = r
      BY <1>0, <2>1, <2>2, <2>3, Updated
    <3> QED
      BY <1>5, <2>1, <2>3, <3>1 DEF ProcMove
  <2> QED
    BY <1>2, <2>1, <2>2, <2>3
<1>6. ASSUME NEW t \in 1..MaxTags, Unsubscribe(t) PROVE ProcMove(c, q)
  <2>1. PICK d \in Consumers : d = OwnerOf(t)
    BY <1>0, TypeParts DEF OwnerOf, BrokerTypes
  <2>2. PICK r \in ProcRecord : Becomes(d, "unsubscribe", r) /\ r.pc = "cancelling" /\ r.tag = info[d].tag
    BY <1>0, <1>6, <2>1, CallMoves
  <2>3. "unsubscribe" \in Procs
    BY DEF Procs
  <2>4. ASSUME d = c, "unsubscribe" = q PROVE ProcMove(c, q)
    <3>1. proc'[c][q] = r
      BY <1>0, <2>2, <2>3, <2>4, Updated
    <3>2. info'[c].cancelled /\ info'[c].tag = info[c].tag
      BY <1>0, <1>6, <2>1, <2>4 DEF Unsubscribe, InfoTypes, InfoRecord
    <3> QED
      BY <2>2, <2>4, <3>1, <3>2 DEF ProcMove
  <2> QED
    BY <1>2, <2>2, <2>3, <2>4
<1>7. ASSUME NEW d \in Consumers, LoopStarts(d) \/ UNCHANGED proc PROVE ProcMove(c, q)
  <2>1. CASE UNCHANGED proc
    BY <1>1, <2>1
  <2>2. ASSUME NEW p \in Loops, NEW r \in ProcRecord, Becomes(d, p, r), r.pc = "sleeping"
        PROVE  ProcMove(c, q)
    <3>1. p \in Procs
      BY DEF Procs, Setups
    <3>2. ASSUME d = c, p = q PROVE ProcMove(c, q)
      <4>1. proc'[c][q] = r
        BY <1>0, <2>2, <3>1, <3>2, Updated
      <4> QED
        BY <2>2, <4>1 DEF ProcMove
    <3> QED
      BY <1>2, <2>2, <3>1, <3>2
  <2> QED
    BY <1>0, <1>7, <2>1, <2>2, LossIs
<1>8. ASSUME NEW t \in 1..MaxTags, BrokerCancels(t) PROVE ProcMove(c, q)
  <2>1. consume[t].by \in Consumers /\ LoopStarts(consume[t].by)
    BY <1>0, <1>8, TypeParts DEF BrokerCancels, BrokerTypes
  <2> QED
    BY <1>7, <2>1
<1>9. ASSUME NEW k \in 1..MaxChannels, ChannelCloses(k) PROVE ProcMove(c, q)
  <2>1. chan[k].owner \in Consumers /\ (LoopStarts(chan[k].owner) \/ UNCHANGED proc)
    BY <1>0, <1>9, TypeParts DEF ChannelCloses, BrokerTypes
  <2> QED
    BY <1>7, <2>1
<1>10. ASSUME NEW d \in Consumers, NEW parallel \in BOOLEAN, Subscribe(d, parallel)
       PROVE  ProcMove(c, q)
  <2>1. PICK r \in ProcRecord :
          Becomes(d, "subscribe", r) /\ r.pc \in {"draining", "opening", "consuming"}
    BY <1>0, <1>10, CallMoves
  <2>2. "subscribe" \in Procs
    BY DEF Procs, Setups
  <2>3. ASSUME d = c, "subscribe" = q PROVE ProcMove(c, q)
    BY <1>10, <2>3 DEF ProcMove
  <2> QED
    BY <1>2, <2>1, <2>2, <2>3
<1>11. CASE RecreateAll
  <2>1. \/ proc'[c] = proc[c]
        \/ /\ Active(c) /\ pool # 0
           /\ \A p \in Procs \ {"recreate"} : proc'[c][p] = proc[c][p]
           /\ proc'[c]["recreate"].pc \in {"opening", "consuming"}
    BY <1>0, <1>11, RecreateMoves
  <2>2. CASE proc'[c][q] = proc[c][q]
    BY <1>1, <2>2
  <2>3. CASE Active(c) /\ pool # 0 /\ q = "recreate" /\ proc'[c][q].pc \in {"opening", "consuming"}
    BY <1>11, <2>3 DEF ProcMove
  <2> QED
    BY <2>1, <2>2, <2>3
<1>12. CASE \/ \E t \in 1..MaxTags : Deliver(t) \/ HandlerEnds(t)
            \/ RefusalChanges \/ ConnectionDrops \/ PoolInstalled \/ DisposeAll \/ DisposeEnds
            \/ UNCHANGED vars
  BY <1>1, <1>12 DEF Deliver, HandlerEnds, RefusalChanges, ConnectionDrops, PoolInstalled, DisposeAll,
                     DisposeEnds, vars
<1> QED
  BY <1>3, <1>4, <1>5, <1>6, <1>8, <1>9, <1>10, <1>11, <1>12 DEF Next

-----------------------------------------------------------------------------
\* A closed channel does not open again.
LEMMA NeverReopened ==
    ASSUME IInv, [Next]_vars, NEW k \in 1..MaxChannels, chan[k].state # "none", chan'[k].state = "open"
    PROVE  chan[k].state = "open"
<1>0. BrokerTypes
  BY TypeParts DEF IInv
<1>1. CASE UNCHANGED chan
  BY <1>1
<1>2. ASSUME NEW j \in 1..MaxChannels, CloseChannel(j) PROVE chan[k].state = "open"
  BY <1>0, <1>2 DEF CloseChannel, BrokerTypes
<1>3. ASSUME NEW c \in Consumers, NEW p \in Setups, ChannelOpened(c, p) PROVE chan[k].state = "open"
  <2>1. PICK j \in 1..MaxChannels : OpenedOn(c, p, j)
    BY <1>3, OpenedIs
  <2> QED
    BY <2>1 DEF OpenedOn
<1>4. CASE ConnectionDrops
  BY <1>0, <1>4 DEF ConnectionDrops, BrokerTypes
<1> QED
  BY <1>1, <1>2, <1>3, <1>4, BrokerMoves DEF BrokerMove, broker, ConsumeAnswered, Cancelled

\* A consumer that nothing serves and no setup works for is served again only after one starts.
LEMMA StaysQuiet ==
    ASSUME ~SubscribeInRestore, IInv, [Next]_vars, NEW c \in Consumers,
           Serving(c) = {}, \A q \in Setups : ~Live(c, q),
           \A q \in Setups : ~(LoopWakes(c, q) /\ LoopContinues(c, q)),
           \A parallel \in BOOLEAN : ~Subscribe(c, parallel),
           ~(RecreateAll /\ Active(c) /\ pool # 0)
    PROVE  Serving(c)' = {} /\ \A q \in Setups : ~Live(c, q)'
<1>0. /\ IInv' /\ TypeOK' /\ BrokerTypes
  <2>1. IInv'
    BY NextIInv
  <2>2. TypeOK'
    BY <2>1 DEF IInv
  <2> QED
    BY <2>1, <2>2, TypeParts DEF IInv
<1>1. CASE ConnectionDrops \/ PoolInstalled
  BY <1>0, <1>1, PoolGoneLocal
<1>2. CASE ~(ConnectionDrops \/ PoolInstalled)
  <2>1. UNCHANGED pool
    BY <1>2, PoolMoves
  <2>2. Serving(c)' = {}
    <3>1. CASE serving' \subseteq serving /\ UNCHANGED consume
      BY <3>1 DEF Serving
    <3>2. ASSUME NEW d \in Consumers, NEW p \in Setups, ConsumeAnswered(d, p) PROVE Serving(c)' = {}
      <4>1. d # c
        BY <3>2 DEF ConsumeAnswered, Live
      <4>2. BrokerStays(c)
        BY <3>2, <4>1, OtherBroker
      <4> QED
        BY <4>2 DEF BrokerStays
    <3>3. \/ serving' \subseteq serving /\ UNCHANGED consume
          \/ \E d \in Consumers : \E p \in Setups : ConsumeAnswered(d, p)
      BY <1>2, BrokerMoves DEF BrokerMove, broker, CloseChannel, ChannelOpened, Cancelled
    <3> QED
      BY <3>1, <3>2, <3>3
  <2>3. ASSUME NEW q \in Setups, Live(c, q)' PROVE FALSE
    <3>1. ProcRow(c, q)' /\ ProcRow(c, q) /\ proc[c][q] \in ProcRecord /\ q \in Procs
      <4>1. ProcRow(c, q)'
        BY <1>0 DEF IInv, Local, ProcPart
      <4> QED
        BY <4>1, TypeParts DEF IInv, Local, ProcPart, ProcTypes, Procs
    <3>2. proc'[c][q].pc \in {"opening", "consuming"}
      <4>1. CASE proc'[c][q].pc \in {"consumed", "revoking"}
        BY <2>2, <2>3, <3>1, <4>1 DEF Live, ProcRow, Serving
      <4> QED
        BY <2>3, <4>1 DEF Live
    <3>3. ~ChannelOpened(c, q)
      BY DEF ChannelOpened, Live
    <3>4. proc'[c][q] = proc[c][q]
      BY <3>1, <3>2, <3>3, ProcMoves DEF ProcMove
    <3>5. CASE proc[c][q].pc = "opening"
      BY <2>1, <2>3, <3>4, <3>5 DEF Live
    <3>6. CASE proc[c][q].pc = "consuming"
      <4>1. proc[c][q].chan \in 1..MaxChannels /\ chan[proc[c][q].chan].state # "none"
        BY <3>1, <3>6, BoundsAssumption DEF ProcRow, ProcRecord
      <4>2. chan'[proc[c][q].chan].state = "open"
        BY <2>3, <3>4, <3>6 DEF Live, IsOpen
      <4>3. chan[proc[c][q].chan].state = "open"
        BY <4>1, <4>2, NeverReopened
      <4> QED
        BY <3>6, <4>1, <4>3 DEF Live, IsOpen
    <3> QED
      BY <3>2, <3>4, <3>5, <3>6
  <2> QED
    BY <2>2, <2>3
<1> QED
  BY <1>1, <1>2

\* The history of the drops: what a step adds to it.
LEMMA DropNotes ==
    ASSUME IInv, [Next]_vars
    PROVE  /\ expired \subseteq expired'
           /\ \A t \in cut' \ cut : \E c \in Consumers : \E p \in Procs :
                DropStep(c, p) /\ t \in InFlight(c)
           /\ wronged' # wronged => \E c \in Consumers : \E p \in Loops :
                proc[c][p].pc = "draining" /\ Serving(c) # {}
<1>0. TypeOK /\ ChannelPart
  BY DEF IInv
<1>1. CASE UNCHANGED drops
  BY <1>1 DEF drops
<1>2. ASSUME NEW c \in Consumers, NEW p \in Procs, DropStep(c, p)
      PROVE  /\ expired \subseteq expired'
             /\ \A t \in cut' \ cut : t \in InFlight(c)
             /\ wronged' # wronged => p \in Loops /\ proc[c][p].pc = "draining" /\ Serving(c) # {}
  <2>1. CASE WorkersEnded(c, p)
    BY <1>0, <2>1, ReleaseIs DEF WorkersEnded
  <2>2. CASE Drained(c, p) \/ DrainTimesOut(c, p)
    <3>1. Drop(c, p) /\ proc[c][p].pc = "draining" /\ expired \subseteq expired'
      BY <2>2 DEF Drained, DrainTimesOut
    <3>2. \A t \in cut' \ cut : t \in InFlight(c)
      BY <1>0, <3>1, ReleaseIs DEF Drop
    <3>3. wronged' # wronged => p \in Loops /\ Serving(c) # {}
      BY <3>1 DEF Drop, NoteWronged
    <3> QED
      BY <3>1, <3>2, <3>3
  <2> QED
    BY <1>2, <2>1, <2>2 DEF DropStep
<1>3. ASSUME NEW c \in Consumers, NEW p \in Setups, SetupStep(c, p) PROVE UNCHANGED drops
  BY <1>3 DEF SetupStep, ChannelOpened, ChannelRefused, ConsumeAnswered, ConsumeFails, SetupSettles,
              ConsumeRevoked, LoopWakes, history
<1>4. \/ \E c \in Consumers : \E p \in Procs : DropStep(c, p)
      \/ UNCHANGED drops
  BY <1>3 DEF Next, Subscribe, CancelAnswered, Unsubscribe, Deliver, HandlerEnds, BrokerCancels,
              ChannelCloses, RefusalChanges, ConnectionDrops, PoolInstalled, RecreateAll, DisposeAll,
              DisposeEnds, history, vars
<1> QED
  BY <1>1, <1>2, <1>4

-----------------------------------------------------------------------------
(* The steps, one part of FencedInv at a time. *)

\* A worker pool is spawned, owned and terminated in step with its consumer's first setup.
LEMMA WorkersStep ==
    ASSUME ~Races, IInv, FencedInv, [Next]_vars
    PROVE  WorkersPart'
<1>0. /\ TypeOK /\ NumberPart /\ WorkersPart /\ InfoTypes /\ FacadeTypes
      /\ proc \in [Consumers -> [Procs -> ProcRecord]]
      /\ "subscribe" \in Setups /\ "subscribe" \in Procs /\ Setups \subseteq Procs
      /\ \A c \in Consumers : ProcPart(c) /\ AwaitPart(c)
  BY TypeParts DEF IInv, Local, ProcTypes, Procs, Setups, FencedInv
<1>1. CASE /\ UNCHANGED <<workers, disposing>>
           /\ \A c \in Consumers : /\ Active(c) => info'[c].status = "active"
                                   /\ proc'[c]["subscribe"].pc = "idle"
                                        <=> proc[c]["subscribe"].pc = "idle"
  BY <1>0, <1>1 DEF WorkersPart, Active
<1>2. ASSUME NEW d \in Consumers, NEW p \in Setups, SetupStep(d, p) PROVE WorkersPart'
  <2>1. /\ \A q \in Procs \ {p} : proc'[d][q] = proc[d][q]
        /\ \A c \in Consumers : c # d => proc'[c] = proc[c]
    BY <1>0, <1>2, SetupMoves, Updated
  <2>2. proc[d][p].pc # "idle" /\ UNCHANGED disposing
    BY <1>2 DEF SetupStep, ChannelOpened, ChannelRefused, ConsumeAnswered, ConsumeFails, SetupSettles,
                ConsumeRevoked, LoopWakes
  <2>3. CASE SetupSettles(d, p) /\ ~AbandonsConsume(d)
    <3>1. /\ info' = [info EXCEPT ![d].tag = proc[d][p].tag] /\ Becomes(d, p, Idle) /\ Active(d)
          /\ workers' = IF p = "subscribe" /\ workers[d] = "spawned"
                          THEN [workers EXCEPT ![d] = "owned"] ELSE workers
      BY <2>3 DEF SetupSettles, TrackConsumerTag, AbandonsConsume
    <3>2. proc'[d][p].pc = "idle"
      <4>1. proc'[d][p] = Idle
        BY <1>0, <3>1, RecordSteps, Updated
      <4> QED
        BY <4>1 DEF Idle
    <3>3. \A c \in Consumers : info'[c].status = info[c].status
      BY <1>0, <3>1 DEF InfoTypes, InfoRecord
    <3>4. ASSUME NEW c \in Consumers, c # d
          PROVE  workers'[c] = workers[c] /\ proc'[c]["subscribe"] = proc[c]["subscribe"]
      BY <1>0, <2>1, <3>1, <3>4 DEF FacadeTypes
    <3>5. CASE p = "subscribe"
      <4>1. workers[d] # "owned" /\ ~disposing
        BY <1>0, <2>2, <3>5 DEF WorkersPart
      <4>2. workers'[d] # "spawned"
        BY <1>0, <3>1, <3>5 DEF FacadeTypes
      <4> QED
        BY <1>0, <2>2, <3>1, <3>2, <3>3, <3>4, <3>5, <4>1, <4>2 DEF WorkersPart, Active
    <3>6. CASE p # "subscribe"
      BY <1>0, <1>1, <2>1, <2>2, <3>1, <3>3, <3>4, <3>6 DEF Active
    <3> QED
      BY <3>5, <3>6
  <2>4. CASE ~(SetupSettles(d, p) /\ ~AbandonsConsume(d))
    <3>1. UNCHANGED workers
      BY <1>2, <2>4 DEF SetupStep, ChannelOpened, ChannelRefused, ConsumeAnswered, ConsumeFails,
                        SetupSettles, ConsumeRevoked, LoopWakes, manager
    <3>2. \A c \in Consumers : info'[c].status = info[c].status
      BY <1>0, <1>2, <2>4, StampedIs DEF SetupStep, ChannelOpened, ChannelRefused, ConsumeAnswered,
                        ConsumeFails, SetupSettles, ConsumeRevoked, LoopWakes, manager, InfoTypes, InfoRecord
    <3>3. p = "subscribe" => proc'[d][p].pc # "idle"
      <4> SUFFICES ASSUME p = "subscribe" PROVE proc'[d][p].pc # "idle"
        OBVIOUS
      <4>1. ASSUME SetupFails(d, p) PROVE proc'[d][p].pc # "idle"
        <5>1. /\ AfterFailure(d, p) \in ProcRecord /\ AfterFailure(d, p).pc = "draining"
              /\ Becomes(d, p, AfterFailure(d, p))
          BY <1>0, <4>1, FailureIs DEF SetupFails
        <5>2. proc'[d][p] = AfterFailure(d, p)
          BY <1>0, <5>1, Updated
        <5> QED
          BY <5>1, <5>2
      <4>2. ASSUME ~SetupFails(d, p)
            PROVE  \/ Becomes(d, p, [proc[d][p] EXCEPT !.pc = "consuming", !.chan = NextChannel])
                   \/ Becomes(d, p, [proc[d][p] EXCEPT !.pc = "consumed", !.tag = NextTag])
                   \/ Becomes(d, p, [proc[d][p] EXCEPT !.pc = "revoking"])
        BY <1>2, <2>4, <4>2 DEF SetupStep, ChannelOpened, ChannelRefused, ConsumeAnswered, ConsumeFails,
                                SetupSettles, ConsumeRevoked, LoopWakes, Loops
      <4>3. CASE Becomes(d, p, [proc[d][p] EXCEPT !.pc = "consuming", !.chan = NextChannel])
        <5>1. proc'[d][p] = [proc[d][p] EXCEPT !.pc = "consuming", !.chan = NextChannel]
          BY <1>0, <4>3 DEF Becomes
        <5> QED
          BY <1>0, <5>1 DEF ProcRecord
      <4>4. CASE Becomes(d, p, [proc[d][p] EXCEPT !.pc = "consumed", !.tag = NextTag])
        <5>1. proc'[d][p] = [proc[d][p] EXCEPT !.pc = "consumed", !.tag = NextTag]
          BY <1>0, <4>4 DEF Becomes
        <5> QED
          BY <1>0, <5>1 DEF ProcRecord
      <4>5. CASE Becomes(d, p, [proc[d][p] EXCEPT !.pc = "revoking"])
        <5>1. proc'[d][p] = [proc[d][p] EXCEPT !.pc = "revoking"]
          BY <1>0, <4>5 DEF Becomes
        <5> QED
          BY <1>0, <5>1 DEF ProcRecord
      <4> QED
        BY <4>1, <4>2, <4>3, <4>4, <4>5
    <3>4. \A c \in Consumers : proc'[c]["subscribe"].pc = "idle" <=> proc[c]["subscribe"].pc = "idle"
      BY <1>0, <2>1, <2>2, <3>3
    <3> QED
      BY <1>1, <2>2, <3>1, <3>2, <3>4 DEF Active
  <2> QED
    BY <2>3, <2>4
<1>3. ASSUME NEW d \in Consumers, NEW p \in Procs, proc[d][p].pc = "draining", Drop(d, p)
      PROVE  WorkersPart'
  <2>1. PICK r \in ProcRecord : Becomes(d, p, r)
    BY <1>0, <1>3, DropMoves
  <2>2. /\ \A q \in Procs \ {p} : proc'[d][q] = proc[d][q]
        /\ \A c \in Consumers : c # d => proc'[c] = proc[c]
    BY <1>0, <2>1, Updated
  <2>3. /\ UNCHANGED disposing /\ info' = [info EXCEPT ![d].status = "gone"]
        /\ workers' = IF workers[d] = "owned" \/ (p = "subscribe" /\ workers[d] = "spawned")
                        THEN [workers EXCEPT ![d] = "terminated"] ELSE workers
    BY <1>3 DEF Drop, OwnsWorkers
  <2>4. \A c \in Consumers : c # d => workers'[c] = workers[c] /\ info'[c] = info[c]
    BY <1>0, <2>3 DEF InfoTypes, FacadeTypes
  <2>5. workers'[d] # "owned" /\ (workers'[d] = "spawned" => p # "subscribe" /\ workers[d] = "spawned")
    BY <1>0, <2>3 DEF FacadeTypes
  <2>6. disposing => p # "subscribe"
    BY <1>0, <1>3 DEF WorkersPart
  <2> QED
    BY <1>0, <2>2, <2>3, <2>4, <2>5, <2>6 DEF WorkersPart, Active
<1>4. ASSUME NEW d \in Consumers, NEW p \in Procs, DropStep(d, p) PROVE WorkersPart'
  <2>1. CASE WorkersEnded(d, p)
    <3>1. p # "subscribe" /\ Becomes(d, p, Idle) /\ UNCHANGED <<workers, disposing, info>>
      BY <1>0, <2>1 DEF WorkersEnded, AwaitPart, manager
    <3>2. \A c \in Consumers : proc'[c]["subscribe"] = proc[c]["subscribe"]
      BY <1>0, <3>1 DEF Becomes
    <3> QED
      BY <1>1, <3>1, <3>2 DEF Active
  <2> QED
    BY <1>3, <1>4, <2>1 DEF DropStep, Drained, DrainTimesOut
<1>5. ASSUME UNCHANGED <<workers, disposing, info>>,
             \A c \in Consumers : proc'[c]["subscribe"] = proc[c]["subscribe"]
      PROVE  WorkersPart'
  BY <1>1, <1>5 DEF Active
<1>6. ASSUME NEW d \in Consumers, CancelAnswered(d) PROVE WorkersPart'
  <2>1. \A c \in Consumers : proc'[c]["subscribe"] = proc[c]["subscribe"]
    BY <1>0, <1>6 DEF CancelAnswered, Becomes
  <2> QED
    BY <1>5, <1>6, <2>1 DEF CancelAnswered, manager
<1>7. ASSUME NEW t \in 1..MaxTags, Unsubscribe(t) PROVE WorkersPart'
  <2>1. \A c \in Consumers : /\ proc'[c]["subscribe"] = proc[c]["subscribe"]
                             /\ info'[c].status = info[c].status
    BY <1>0, <1>7 DEF Unsubscribe, Becomes, InfoTypes, InfoRecord
  <2> QED
    BY <1>1, <1>7, <2>1 DEF Unsubscribe, Active
<1>8. ASSUME NEW d \in Consumers, LoopStarts(d) \/ UNCHANGED proc, UNCHANGED <<workers, disposing, info>>
      PROVE  WorkersPart'
  <2>1. ASSUME NEW p \in Loops, NEW r \in ProcRecord, Becomes(d, p, r)
        PROVE  \A c \in Consumers : proc'[c]["subscribe"] = proc[c]["subscribe"]
    BY <1>0, <2>1 DEF Becomes, Loops
  <2> QED
    BY <1>0, <1>5, <1>8, <2>1, LossIs
<1>9. ASSUME NEW t \in 1..MaxTags, BrokerCancels(t) PROVE WorkersPart'
  <2>1. consume[t].by \in Consumers
    BY <1>0, TypeParts DEF BrokerTypes
  <2> QED
    BY <1>8, <1>9, <2>1 DEF BrokerCancels, manager
<1>10. ASSUME NEW k \in 1..MaxChannels, ChannelCloses(k) PROVE WorkersPart'
  <2>1. chan[k].owner \in Consumers
    BY <1>0, TypeParts DEF BrokerTypes
  <2> QED
    BY <1>8, <1>10, <2>1 DEF ChannelCloses, manager
<1>11. ASSUME NEW d \in Consumers, NEW parallel \in BOOLEAN, Subscribe(d, parallel) PROVE WorkersPart'
  <2>1. PICK r \in ProcRecord :
          Becomes(d, "subscribe", r) /\ r.pc \in {"draining", "opening", "consuming"}
    BY <1>0, <1>11, CallMoves
  <2>2. proc'[d]["subscribe"].pc # "idle" /\ \A c \in Consumers : c # d => proc'[c] = proc[c]
    BY <1>0, <2>1, Updated
  <2>3. /\ workers' = [workers EXCEPT ![d] = IF parallel THEN "spawned" ELSE "none"] /\ disposing' = FALSE
        /\ \A c \in Consumers : c # d => info'[c] = info[c]
    BY <1>0, <1>11 DEF Subscribe, InfoTypes, FacadeTypes
  <2>4. workers'[d] # "owned" /\ \A c \in Consumers : c # d => workers'[c] = workers[c]
    BY <1>0, <2>3 DEF FacadeTypes
  <2> QED
    BY <1>0, <2>2, <2>3, <2>4 DEF WorkersPart, Active
<1>12. CASE RecreateAll
  <2>1. \A c \in Consumers : proc'[c]["subscribe"] = proc[c]["subscribe"]
    BY <1>0, <1>12, RecreateMoves
  <2>2. \A c \in Consumers : info'[c].status = info[c].status
    BY <1>0, <1>12, StampedIs DEF RecreateAll
  <2> QED
    BY <1>1, <1>12, <2>1, <2>2 DEF RecreateAll, Active
<1>13. CASE DisposeAll
  <2>1. /\ \A c \in Consumers : proc[c]["subscribe"].pc = "idle" /\ UNCHANGED proc
        /\ workers' = [c \in Consumers |-> IF workers[c] = "owned" THEN "terminated" ELSE workers[c]]
    BY <1>13 DEF DisposeAll
  <2>2. \A c \in Consumers : workers'[c] \notin {"owned", "spawned"}
    BY <1>0, <2>1 DEF WorkersPart
  <2> QED
    BY <2>1, <2>2 DEF WorkersPart
<1>14. CASE DisposeEnds
  <2>1. disposing /\ UNCHANGED <<workers, proc>> /\ ~disposing'
    BY <1>14 DEF DisposeEnds
  <2> QED
    BY <1>0, <2>1 DEF WorkersPart
<1>15. CASE \/ \E t \in 1..MaxTags : Deliver(t) \/ HandlerEnds(t)
            \/ RefusalChanges \/ ConnectionDrops \/ PoolInstalled \/ UNCHANGED vars
  BY <1>5, <1>15 DEF Deliver, HandlerEnds, RefusalChanges, ConnectionDrops, PoolInstalled, manager, vars
<1> QED
  BY <1>2, <1>4, <1>6, <1>7, <1>9, <1>10, <1>11, <1>12, <1>13, <1>14, <1>15 DEF Next

\* The tag of a consumer that is cancelled or gone stays what it is.
LEMMA TagStays ==
    ASSUME IInv, [Next]_vars, NEW c \in Consumers, info[c].cancelled \/ ~Active(c)
    PROVE  info'[c].tag = info[c].tag
BY TagSteps DEF TagMoves, Active

\* A consume whose tag was given is not served anew.
LEMMA ServedBefore ==
    ASSUME IInv, [Next]_vars, NEW t \in 1..MaxTags, Given(t), t \in serving'
    PROVE  t \in serving
<1>1. ASSUME NEW c \in Consumers, NEW p \in Setups, ConsumeAnswered(c, p) PROVE t \in serving
  <2>1. PICK n \in 1..MaxTags : AnsweredWith(c, p, n)
    BY <1>1, AnsweredIs
  <2> QED
    BY <2>1 DEF AnsweredWith
<1> QED
  BY <1>1, BrokerMoves DEF BrokerMove, broker, CloseChannel, ChannelOpened, Cancelled, ConnectionDrops

\* unsubscribe() goes on to the drain with its consume revoked, and none follows it.
LEMMA CancelStep ==
    ASSUME ~SubscribeInRestore, IInv, FencedInv, [Next]_vars, NEW c \in Consumers
    PROVE  CancelPart(c)'
<1>0. /\ TypeOK /\ NumberPart /\ InfoTypes /\ BrokerTypes /\ CancelPart(c) /\ "unsubscribe" \in Procs
      /\ info[c].tag \in 0..MaxTags /\ serving' \subseteq 1..MaxTags
      /\ proc \in [Consumers -> [Procs -> ProcRecord]]
  <2>1. BrokerTypes'
    BY TypesStep, TypeParts, PTL
  <2> QED
    BY <2>1, TypeParts DEF IInv, Procs, FencedInv, InfoTypes, InfoRecord, BrokerTypes, ProcTypes
<1>1. ProcMove(c, "unsubscribe") /\ InfoMove(c)
  BY <1>0, ProcMoves, InfoSteps
<1>2. info[c].tag \notin serving => info[c].tag \notin serving'
  <2> SUFFICES ASSUME info[c].tag \in serving' PROVE info[c].tag \in serving
    OBVIOUS
  <2>1. info[c].tag \in 1..MaxTags /\ Given(info[c].tag)
    BY <1>0, BoundsAssumption DEF NumberPart
  <2> QED
    BY <2>1, ServedBefore
<1>3. CASE proc'[c]["unsubscribe"].pc \in {"idle", "sleeping", "opening", "consuming", "consumed", "revoking"}
  <2>1. IInv'
    BY NextIInv
  <2>2. proc'[c]["unsubscribe"].pc = "idle"
    BY <1>3, <2>1 DEF IInv, Local, ProcPart
  <2> QED
    BY <2>2 DEF CancelPart
<1>4. CASE proc'[c]["unsubscribe"] = proc[c]["unsubscribe"] /\ proc[c]["unsubscribe"].pc # "idle"
  <2>1. info[c].cancelled /\ info'[c].cancelled
    BY <1>0, <1>1, <1>4 DEF CancelPart, InfoMove
  <2>2. info'[c].tag = info[c].tag
    BY <2>1, TagStays
  <2> QED
    BY <1>0, <1>2, <1>4, <2>1, <2>2 DEF CancelPart
<1>5. CASE CancelAnswered(c) /\ proc'[c]["unsubscribe"].pc = "draining"
  <2>1. /\ info[c].cancelled /\ proc[c]["unsubscribe"].tag = info[c].tag /\ UNCHANGED info
        /\ serving' = serving \ {info[c].tag}
    BY <1>0, <1>5 DEF CancelAnswered, CancelPart, manager
  <2> QED
    BY <1>5, <2>1 DEF CancelPart
<1>6. CASE /\ info'[c].cancelled /\ info'[c].tag = info[c].tag
           /\ proc'[c]["unsubscribe"].pc = "cancelling" /\ proc'[c]["unsubscribe"].tag = info[c].tag
  BY <1>6 DEF CancelPart
<1>7. CASE /\ Drained(c, "unsubscribe") \/ DrainTimesOut(c, "unsubscribe")
           /\ proc'[c]["unsubscribe"].pc = "terminating"
  <2>1. proc[c]["unsubscribe"].pc = "draining"
    BY <1>7 DEF Drained, DrainTimesOut
  <2>2. info[c].cancelled /\ info'[c].cancelled /\ info[c].tag \notin serving
    BY <1>0, <1>1, <2>1 DEF CancelPart, InfoMove
  <2>3. info'[c].tag = info[c].tag
    BY <2>2, TagStays
  <2> QED
    BY <1>2, <1>7, <2>2, <2>3 DEF CancelPart
<1>8. proc'[c]["unsubscribe"].pc \in {"idle", "sleeping", "opening", "consuming", "consumed", "revoking",
                                      "cancelling", "draining", "terminating"}
  <2>1. ProcTypes'
    BY TypesStep, TypeParts, PTL
  <2> QED
    BY <1>0, <2>1 DEF ProcTypes, ProcRecord
<1> QED
  BY <1>1, <1>3, <1>4, <1>5, <1>6, <1>7, <1>8 DEF ProcMove, Loops

\* Without races, a loop that gave up is alone with its consumer until it has dropped it.
LEMMA GiveStep ==
    ASSUME ~Races, ~SubscribeInRestore, IInv, FencedInv, [Next]_vars, NEW c \in Consumers
    PROVE  GivePart(c)'
<1>0. /\ TypeOK /\ RestorePart /\ ProcPart(c) /\ SetupPart(c) /\ LoopPart(c) /\ GivePart(c) /\ AwaitPart(c)
      /\ pool \in {0, pools} /\ Loops \subseteq Setups /\ Loops \subseteq Procs /\ Setups \subseteq Procs
      /\ InfoTypes
  BY TypeParts DEF IInv, Local, NumberPart, Procs, Setups, FencedInv
<1> SUFFICES ASSUME NEW p \in Loops, proc'[c][p].pc \in {"draining", "terminating"}
             PROVE  /\ proc'[c][p].pc = "draining" =>
                         proc'[c][p].home = pool' /\ pool' # 0 /\ ~restoring'
                    /\ Serving(c)' = {} /\ \A q \in Setups : ~Live(c, q)'
  BY DEF GivePart
<1>1. CASE proc[c][p].pc \in {"draining", "terminating"}
  <2>1. Serving(c) = {} /\ \A q \in Setups : ~Live(c, q)
    BY <1>0, <1>1 DEF GivePart
  <2>2. proc[c][p].pc = "draining" => GivingUp(c)
    BY DEF GivingUp
  <2>3. \A q \in Setups : ~(LoopWakes(c, q) /\ LoopContinues(c, q))
    <3> SUFFICES ASSUME NEW q \in Setups, LoopWakes(c, q), LoopContinues(c, q) PROVE FALSE
      OBVIOUS
    <3>1. ~GivingUp(c) /\ Active(c)
      BY DEF LoopWakes, LoopContinues, StillOurs
    <3> QED
      BY <1>0, <1>1, <2>2, <3>1 DEF AwaitPart
  <2>4. \A parallel \in BOOLEAN : ~Subscribe(c, parallel)
    BY <1>0, <1>1 DEF Subscribe, ProcPart, UnusedPart
  <2>5. ~(RecreateAll /\ Active(c) /\ pool # 0)
    <3>1. proc[c][p].pc = "draining" => ~restoring
      BY <1>0 DEF GivePart
    <3>2. proc[c][p].pc = "terminating" => ~Active(c)
      BY <1>0 DEF AwaitPart
    <3> QED
      BY <1>1, <3>1, <3>2 DEF RecreateAll
  <2>6. Serving(c)' = {} /\ \A q \in Setups : ~Live(c, q)'
    BY <2>1, <2>3, <2>4, <2>5, StaysQuiet
  <2>7. ASSUME proc'[c][p].pc = "draining"
        PROVE  proc'[c][p].home = pool' /\ pool' # 0 /\ ~restoring'
    <3>1. proc'[c][p] = proc[c][p]
      <4>1. ~ChannelOpened(c, p) /\ ~LoopWakes(c, p) /\ ~ChannelRefused(c, p) /\ ~ConsumeFails(c, p)
        BY <1>1 DEF ChannelOpened, LoopWakes, ChannelRefused, ConsumeFails
      <4>2. ProcMove(c, p)
        BY <1>0, ProcMoves
      <4> QED
        BY <2>7, <4>1, <4>2 DEF ProcMove, Loops
    <3>2. GivingUp(c) /\ proc[c][p].home = pool /\ pool # 0 /\ ~restoring
      BY <1>0, <2>2, <2>7, <3>1 DEF GivePart
    <3>3. ~ConnectionDrops /\ ~PoolInstalled
      BY <3>2 DEF ConnectionDrops, PoolInstalled
    <3>4. UNCHANGED pool /\ ~restoring'
      BY <3>2, <3>3, PoolMoves
    <3> QED
      BY <3>1, <3>2, <3>4
  <2> QED
    BY <2>6, <2>7
<1>2. CASE proc[c][p].pc \notin {"draining", "terminating"}
  <2>1. /\ ChannelRefused(c, p) \/ ConsumeFails(c, p)
        /\ proc'[c][p].pc = "draining" /\ proc'[c][p].home = proc[c][p].home /\ StillOurs(c, p)
    <3>1. ~Drained(c, p) /\ ~DrainTimesOut(c, p)
      BY <1>2 DEF Drained, DrainTimesOut
    <3>2. ProcMove(c, p) /\ proc'[c][p] # proc[c][p]
      BY <1>0, <1>2, ProcMoves
    <3> QED
      BY <3>1, <3>2 DEF ProcMove, Loops
  <2>2. proc[c][p].pc \in {"opening", "consuming"} /\ UNCHANGED <<facade, broker>> /\ SetupStep(c, p)
    BY <2>1 DEF ChannelRefused, ConsumeFails, SetupStep
  <2>3. UNCHANGED <<pool, restoring, chan, serving, consume>>
    BY <2>2 DEF facade, broker
  <2>4. proc'[c][p].home = pool' /\ pool' # 0 /\ ~restoring'
    <3>1. proc[c][p].home = pool /\ pool # 0
      BY <1>0, <2>1, <2>2 DEF StillOurs, ProcPart, ProcRow
    <3> QED
      BY <1>0, <2>1, <2>3, <3>1 DEF RestorePart
  <2>5. Serving(c) = {} /\ \A q \in Setups \ {p} : ~Live(c, q)
    BY <1>0, <2>1, <2>2 DEF LoopPart
  <2>6. \A q \in Setups \ {p} : proc'[c][q] = proc[c][q]
    BY <1>0, <2>2, SetupMoves, Updated DEF IInv
  <2>7. \A q \in Setups \ {p} : ~Live(c, q)'
    BY <2>3, <2>5, <2>6 DEF Live, IsOpen
  <2>8. Serving(c)' = {} /\ ~Live(c, p)'
    BY <2>1, <2>3, <2>5 DEF Serving, Live
  <2> QED
    BY <2>4, <2>7, <2>8
<1> QED
  BY <1>1, <1>2

\* A drop that awaits the worker threads has waited for the handlers first.
LEMMA AwaitStep ==
    ASSUME IInv, FencedInv, [Next]_vars, NEW c \in Consumers
    PROVE  AwaitPart(c)'
<1>0. /\ TypeOK /\ NumberPart /\ WorkersPart /\ ProcPart(c) /\ GivePart(c) /\ AwaitPart(c) /\ CancelPart(c)
      /\ InfoTypes /\ info[c].tag \in 0..MaxTags /\ "subscribe" \in Setups
  BY TypeParts DEF IInv, Local, FencedInv, InfoTypes, InfoRecord, Setups
<1>1. InfoMove(c) /\ TagMoves /\ expired \subseteq expired'
  BY InfoSteps, TagSteps, DropNotes
<1> SUFFICES ASSUME NEW p \in Procs, proc'[c][p].pc = "terminating"
             PROVE  /\ ~Active(c)' /\ p # "subscribe"
                    /\ c \in expired' \/ info'[c].tag \notin running'
  BY DEF AwaitPart
<1>2. CASE proc'[c][p] = proc[c][p]
  <2>1. /\ ~Active(c) /\ p # "subscribe" /\ proc[c][p].pc = "terminating"
        /\ c \in expired \/ info[c].tag \notin running
    BY <1>0, <1>2 DEF AwaitPart
  <2>2. ~Active(c)'
    <3>1. info[c].status \in {"gone", "disposed"}
      BY <1>0, <2>1 DEF ProcPart, UnusedPart, InfoTypes, InfoRecord, Active
    <3> QED
      BY <1>1, <3>1 DEF InfoMove, Active
  <2>3. info'[c].tag = info[c].tag
    BY <2>1, TagStays
  <2>4. info[c].tag \notin serving
    <3>1. CASE p = "unsubscribe"
      BY <1>0, <2>1, <3>1 DEF CancelPart
    <3>2. CASE p \in Loops
      <4>1. Serving(c) = {}
        BY <1>0, <2>1, <3>2 DEF GivePart
      <4> QED
        <5> SUFFICES ASSUME info[c].tag \in serving PROVE FALSE
          OBVIOUS
        <5>1. info[c].tag # 0
          BY <1>0, BoundsAssumption DEF TypeOK
        <5>2. consume[info[c].tag].by = c
          BY <1>0, <5>1 DEF NumberPart
        <5> QED
          BY <4>1, <5>2 DEF Serving
    <3>3. CASE p = "recreate"
      BY <1>0, <2>1, <3>3 DEF ProcPart, ProcRow, Setups
    <3> QED
      BY <2>1, <3>1, <3>2, <3>3 DEF Procs, Setups
  <2> QED
    BY <1>1, <2>1, <2>2, <2>3, <2>4 DEF TagMoves
<1>3. CASE (Drained(c, p) \/ DrainTimesOut(c, p)) /\ OwnsWorkers(c, p)
  <2>1. /\ proc[c][p].pc = "draining" /\ info' = [info EXCEPT ![c].status = "gone"]
        /\ UNCHANGED running
    BY <1>3 DEF Drained, DrainTimesOut, Drop
  <2>2. p # "subscribe"
    BY <1>0, <1>3, <2>1 DEF OwnsWorkers, WorkersPart
  <2>3. ~Active(c)' /\ info'[c].tag = info[c].tag
    BY <1>0, <2>1 DEF Active, InfoTypes, InfoRecord
  <2>4. CASE Drained(c, p)
    <3>1. InFlight(c) = {} /\ running \subseteq 1..MaxTags
      BY <1>0, <2>4 DEF Drained, MayDrop, InfoTypes
    <3>2. info[c].tag \notin running
      BY <1>0, <3>1, BoundsAssumption DEF InFlight, NumberPart
    <3> QED
      BY <2>1, <2>2, <2>3, <3>2
  <2>5. CASE DrainTimesOut(c, p)
    BY <2>2, <2>3, <2>5 DEF DrainTimesOut
  <2> QED
    BY <1>3, <2>4, <2>5
<1>4. ASSUME NEW parallel \in BOOLEAN, Subscribe(c, parallel), p = "subscribe" PROVE FALSE
  <2>1. PICK r \in ProcRecord :
          Becomes(c, "subscribe", r) /\ r.pc \in {"draining", "opening", "consuming"}
    BY <1>0, <1>4, CallMoves
  <2>2. proc'[c][p] = r
    BY <1>0, <1>4, <2>1, Updated
  <2> QED
    BY <2>1, <2>2
<1> QED
  BY <1>2, <1>3, <1>4, ProcMoves DEF ProcMove

\* A handler's channel is closed by the drop of its consumer, which is then gone.
LEMMA CutStep ==
    ASSUME IInv, FencedInv, [Next]_vars
    PROVE  CutPart'
<1>0. TypeOK /\ NumberPart /\ InfoTypes /\ BrokerTypes /\ CutPart
  BY TypeParts DEF IInv, FencedInv
<1>1. ASSUME NEW t \in cut' PROVE info'[consume'[t].by].status \in {"gone", "disposed"}
  <2>1. CASE t \in cut
    <3>1. Given(t) /\ t \in 1..MaxTags
      BY <1>0, <2>1 DEF NumberPart, InfoTypes
    <3>2. consume'[t] = consume[t] /\ consume[t].by \in Consumers
      BY <1>0, <3>1, TypesStep, ChannelStep DEF BrokerTypes
    <3>3. info[consume[t].by].status \in {"gone", "disposed"}
      BY <1>0, <2>1 DEF CutPart
    <3> QED
      BY <3>2, <3>3, InfoSteps DEF InfoMove
  <2>2. CASE t \notin cut
    <3>1. PICK c \in Consumers, p \in Procs : DropStep(c, p) /\ t \in InFlight(c)
      BY <2>2, DropNotes
    <3>2. t \in 1..MaxTags /\ Given(t) /\ consume[t].by = c
      BY <1>0, <3>1 DEF InFlight, NumberPart, InfoTypes
    <3>3. consume'[t].by = c
      BY <3>2, TypesStep, ChannelStep
    <3>4. CASE Drop(c, p)
      <4>1. info'[c].status = "gone"
        BY <1>0, <3>4 DEF Drop, InfoTypes, InfoRecord
      <4> QED
        BY <3>3, <4>1
    <3>5. CASE WorkersEnded(c, p)
      <4>1. ~Active(c) /\ info[c].status # "unused" /\ UNCHANGED info
        BY <3>5 DEF WorkersEnded, FencedInv, AwaitPart, IInv, Local, ProcPart, UnusedPart, manager
      <4>2. info[c].status \in {"gone", "disposed"}
        BY <1>0, <4>1 DEF InfoTypes, InfoRecord, Active
      <4> QED
        BY <3>3, <4>1, <4>2
    <3> QED
      BY <3>1, <3>4, <3>5 DEF DropStep, Drained, DrainTimesOut
  <2> QED
    BY <2>1, <2>2
<1> QED
  BY <1>1 DEF CutPart

\* A drop waits for the handlers of the consume it tracks, or for the grace period.
LEMMA ProtectStep ==
    ASSUME IInv, FencedInv, [Next]_vars
    PROVE  DrainProtects'
<1>0. TypeOK /\ NumberPart /\ InfoTypes /\ BrokerTypes /\ CutPart /\ DrainProtects /\ TypeOK'
  BY TypesStep, TypeParts DEF IInv, FencedInv
<1>1. ASSUME NEW t \in cut', NEW d \in Consumers, t = info'[d].tag PROVE consume'[t].by \in expired'
  <2>1. t \in 1..MaxTags /\ Given(t)
    BY <1>0, TagSteps, DropNotes DEF TagMoves, NumberPart, InfoTypes
  <2>2. consume'[t] = consume[t]
    BY <1>0, <2>1, ChannelStep
  <2>3. consume[t].by = d
    <3>1. NumberPart' /\ t # 0
      BY <1>0, <2>1, NumberStep, BoundsAssumption
    <3> QED
      BY <1>1, <2>2, <3>1 DEF NumberPart
  <2>4. CASE t \in cut
    <3>1. info[d].status \in {"gone", "disposed"}
      BY <1>0, <2>3, <2>4 DEF CutPart
    <3>2. info[d].tag = t
      BY <1>1, <3>1, TagStays DEF Active
    <3> QED
      BY <1>0, <2>2, <2>4, <3>2, DropNotes DEF DrainProtects
  <2>5. CASE t \notin cut
    <3>1. PICK c \in Consumers, p \in Procs : DropStep(c, p) /\ t \in InFlight(c)
      BY <2>5, DropNotes
    <3>2. c = d /\ t \in running
      BY <2>3, <3>1 DEF InFlight
    <3>3. info[d].tag = t
      <4>1. UNCHANGED info \/ info' = [info EXCEPT ![c].status = "gone"]
        BY <3>1 DEF DropStep, Drained, DrainTimesOut, WorkersEnded, Drop, manager
      <4> QED
        BY <1>0, <1>1, <4>1 DEF InfoTypes, InfoRecord
    <3>4. CASE Drained(c, p)
      BY <3>1, <3>4 DEF Drained, MayDrop
    <3>5. CASE DrainTimesOut(c, p)
      BY <2>2, <2>3, <3>2, <3>5 DEF DrainTimesOut
    <3>6. CASE WorkersEnded(c, p)
      <4>1. d \in expired
        BY <3>2, <3>3, <3>6 DEF WorkersEnded, FencedInv, AwaitPart
      <4> QED
        BY <2>2, <2>3, <4>1, DropNotes
    <3> QED
      BY <3>1, <3>4, <3>5, <3>6 DEF DropStep
  <2> QED
    BY <2>4, <2>5
<1> QED
  BY <1>1 DEF DrainProtects

\* Without races the two invariants are inductive together.
LEMMA FencedStep ==
    ASSUME ~Races, ~SubscribeInRestore, IInv, FencedInv, [Next]_vars
    PROVE  FencedInv'
<1>1. GiveUpOnlyOnLost'
  <2>1. \A c \in Consumers : \A p \in Loops : proc[c][p].pc = "draining" => Serving(c) = {}
    BY DEF FencedInv, GivePart
  <2> QED
    BY <2>1, DropNotes DEF FencedInv, GiveUpOnlyOnLost
<1> QED
  BY <1>1, WorkersStep, GiveStep, AwaitStep, CancelStep, CutStep, ProtectStep DEF FencedInv

\* With nothing under way there is no race either.
LEMMA InitFenced == Init => FencedInv
BY DEF Init, Idle, Procs, Setups, Loops, FencedInv, WorkersPart, GivePart, AwaitPart, CancelPart, CutPart,
       DrainProtects, GiveUpOnlyOnLost, Serving, Live

\* Without the two races and a subscribe() during a restore, both invariants hold in every
\* reachable state.
THEOREM FencedInvariance ==
    ASSUME ~Races, ~SubscribeInRestore PROVE Spec => [](IInv /\ FencedInv)
<1>1. Init => IInv /\ FencedInv
  BY InitIInv, InitFenced
<1>2. IInv /\ FencedInv /\ [Next]_vars => (IInv /\ FencedInv)'
  <2> SUFFICES ASSUME IInv, FencedInv, [Next]_vars PROVE IInv' /\ FencedInv'
    OBVIOUS
  <2> QED
    BY NextIInv, FencedStep
<1> QED
  BY <1>1, <1>2, PTL DEF Spec

-----------------------------------------------------------------------------
(* What the run checks with the races held back, for any number of everything.          *)

\* A tag that unsubscribe() can still be called with is of a registered consumer, and a dropped
\* consumer leaves no open channel behind, with the two races let happen.  A subscribe() during
\* a restore is not: its consumer's two setups open two channels, and one stays open.
THEOREM NothingDangles ==
    ASSUME ~SubscribeInRestore PROVE Spec => [](TagsResolve /\ NoLeakedChannel)
BY Resolved, Invariance, PTL

\* NothingOutlives for every instance: the tags, the channel and the worker pool go with the
\* consumer, whichever process drops it.  disposeAll() may not overtake a first setup here:
\* that one would give the worker pool to a consumer that is no longer registered; and no
\* subscribe() falls into a restore, which would leave a channel open.
THEOREM NothingOutlivesHolds ==
    ASSUME ~Races, ~SubscribeInRestore PROVE Spec => []NothingOutlives
<1>1. IInv /\ FencedInv => NothingOutlives
  <2> SUFFICES ASSUME IInv, FencedInv PROVE NothingOutlives
    OBVIOUS
  <2>1. TagsResolve /\ NoLeakedChannel
    BY Resolved
  <2>2. WorkersReaped
    <3> SUFFICES ASSUME NEW c \in Consumers, info[c].status \in {"gone", "disposed"},
                        proc[c]["subscribe"].pc = "idle"
                 PROVE  workers[c] \in {"none", "terminated"}
      BY DEF WorkersReaped
    <3>1. workers[c] \in {"none", "spawned", "owned", "terminated"}
      BY DEF IInv, TypeOK
    <3> QED
      BY <3>1 DEF FencedInv, WorkersPart, Active
  <2> QED
    BY <2>1, <2>2 DEF NothingOutlives
<1> QED
  BY <1>1, FencedInvariance, PTL

\* DrainProtects for every instance: #dropConsumer() closes the channel under a handler of the
\* current consume only after the grace period, also when the worker threads are awaited first.
THEOREM DrainProtectsHolds ==
    ASSUME ~Races, ~SubscribeInRestore PROVE Spec => []DrainProtects
<1>1. FencedInv => DrainProtects
  BY DEF FencedInv
<1> QED
  BY <1>1, FencedInvariance, PTL

\* GiveUpOnlyOnLost for every instance: handleConsumerLoss() gives up on a consumer only while
\* nothing serves it and no other setup is about to.
THEOREM GiveUpOnlyOnLostHolds ==
    ASSUME ~Races, ~SubscribeInRestore PROVE Spec => []GiveUpOnlyOnLost
<1>1. FencedInv => GiveUpOnlyOnLost
  BY DEF FencedInv
<1> QED
  BY <1>1, FencedInvariance, PTL
=============================================================================
