---------------------------- MODULE PublisherProofs ----------------------------
(***************************************************************************)
(* Proofs about Publisher, for any number of calls, any size of batch, any *)
(* retry budget and thresholds, and any number of channels, resets and     *)
(* faults; and, in the second part, about the rate limiter that admits its *)
(* calls, for any limits, costs, block durations and clock.                *)
(***************************************************************************)
EXTENDS Publisher, RateLimiter, NaturalsInduction, WellFoundedInduction, TLAPS

CallRecord ==
    [kind : Kinds, mandatory : BOOLEAN,
     pc : {"idle", "generating", "limiting", "encoding", "awaiting",
           "writing", "full", "backoff"} \cup Done,
     chan : 0..MaxChannels, tries : {0, 1} \cup 1..MaxRetries, policy : Policies, size : 0..Batch]

BreakerRecord == [state : {"closed", "open", "half"}, failures : Nat, successes : Nat, probes : Nat]

\* A call in state r with these messages unconfirmed, sent, taken, returned, accepted and
\* known: what is known to be confirmed is never among what is still to be confirmed, the
\* two make up the call, and a mandatory message is only confirmed once it is in a queue.
Sound(r, u, s, t, q, a, k) ==
    /\ r \in CallRecord
    /\ u \subseteq Messages /\ s \subseteq Messages /\ t \subseteq Messages
    /\ q \subseteq Messages /\ a \subseteq Messages /\ k \subseteq Messages
    /\ r.pc = "idle" => u = {} /\ s = {} /\ t = {} /\ q = {} /\ a = {} /\ k = {}
    /\ r.pc # "awaiting" => s = {}
    /\ r.pc \in {"writing", "full"} => r.kind = "async"
    /\ r.pc = "backoff" => r.tries < Attempts(r.kind)
    /\ u \cap k = {} /\ t \subseteq a /\ t \cap q = {}
    /\ r.mandatory => k \subseteq a
    /\ r.kind # "async" /\ r.pc \notin {"idle", "rejected"} => 1..r.size \subseteq u \cup k
    /\ r.kind # "async" /\ r.pc = "resolved" => u = {}

CallPart ==
    \A c \in Calls : Sound(call[c], unconfirmed[c], sent[c], taken[c], returned[c], accepted[c], known[c])

\* The registry holds the tokens of the mandatory messages in flight, and no other.
RegistryPart ==
    registry = {p \in Calls \X Messages : call[p[1]].mandatory /\ p[2] \in sent[p[1]]}

\* The types of the calls and their messages, and of everything else.
CallTypes ==
    /\ call \in [Calls -> CallRecord]
    /\ unconfirmed \in [Calls -> SUBSET Messages] /\ sent \in [Calls -> SUBSET Messages]
    /\ taken \in [Calls -> SUBSET Messages] /\ returned \in [Calls -> SUBSET Messages]
    /\ accepted \in [Calls -> SUBSET Messages] /\ known \in [Calls -> SUBSET Messages]

RestTypes ==
    /\ channel \in 0..MaxChannels /\ channels \in 0..MaxChannels
    /\ breaker \in [Policies -> BreakerRecord]
    /\ policy \in Policies /\ cache \in Calls \cup {NoCall} /\ faults \in 0..MaxFaults
    /\ resent \in BOOLEAN /\ staleRefusal \in BOOLEAN

\* The inductive invariant.
IInv == CallTypes /\ RestTypes /\ CallPart /\ RegistryPart /\ NoRepublish

-----------------------------------------------------------------------------
\* The constants, as the leaves use them.
LEMMA Bounds ==
    /\ Batch \in Nat /\ Batch >= 1 /\ MaxRetries \in Int /\ MaxChannels \in Nat /\ MaxChannels >= 1
    /\ MaxResets \in Nat /\ MaxFaults \in Nat /\ FailureThreshold \in Nat /\ SuccessThreshold \in Nat
    /\ 1 \in Policies
BY BoundsAssumption DEF Policies

\* retry() makes at least one attempt.
LEMMA AttemptsPositive ==
    ASSUME NEW kind
    PROVE  /\ Attempts(kind) \in Nat /\ Attempts(kind) >= 1
           /\ \A n \in Nat : n + 1 <= Attempts(kind) => n + 1 \in {0, 1} \cup 1..MaxRetries
BY Bounds DEF Attempts

\* A call before it starts, and one that was rejected.
LEMMA NewCalls ==
    /\ New \in CallRecord /\ New.pc = "idle"
    /\ LET r == [New EXCEPT !.pc = "rejected"]
       IN  r \in CallRecord /\ r.pc = "rejected" /\ r.mandatory = FALSE
<1>1. 0 \in 0..MaxChannels /\ 0 \in 0..Batch /\ 1 \in Policies /\ 0 \in {0, 1} \cup 1..MaxRetries
  BY Bounds
<1>2. New \in CallRecord /\ New.pc = "idle" /\ New.mandatory = FALSE
  BY <1>1 DEF New, CallRecord, Kinds, Done
<1>3. [New EXCEPT !.pc = "rejected"] \in CallRecord
  BY <1>2 DEF CallRecord, Done
<1> QED
  BY <1>2, <1>3 DEF New

\* The call that changes is the only one whose soundness is in question.
LEMMA PointKeeps ==
    ASSUME CallTypes, CallPart, NEW c \in Calls, NEW r, NEW u, NEW s, NEW t, NEW q, NEW a, NEW k,
           call' = [call EXCEPT ![c] = r], unconfirmed' = [unconfirmed EXCEPT ![c] = u],
           sent' = [sent EXCEPT ![c] = s], taken' = [taken EXCEPT ![c] = t],
           returned' = [returned EXCEPT ![c] = q], accepted' = [accepted EXCEPT ![c] = a],
           known' = [known EXCEPT ![c] = k], Sound(r, u, s, t, q, a, k)
    PROVE  CallTypes' /\ CallPart'
<1>1. /\ r \in CallRecord
      /\ u \in SUBSET Messages /\ s \in SUBSET Messages /\ t \in SUBSET Messages
      /\ q \in SUBSET Messages /\ a \in SUBSET Messages /\ k \in SUBSET Messages
  BY DEF Sound
<1>2. CallTypes'
  BY <1>1 DEF CallTypes
<1>3. CallPart'
  <2> SUFFICES ASSUME NEW d \in Calls
               PROVE  Sound(call'[d], unconfirmed'[d], sent'[d], taken'[d], returned'[d],
                            accepted'[d], known'[d])
    BY DEF CallPart, Sound, CallRecord
  <2>1. CASE d = c
    BY <2>1 DEF CallTypes
  <2>2. CASE d # c
    BY <2>2 DEF CallTypes, CallPart
  <2> QED
    BY <2>1, <2>2
<1> QED
  BY <1>2, <1>3

\* What did not change has its old value in the place of the call.
LEMMA Same ==
    ASSUME NEW f, NEW S, f \in [Calls -> S], NEW c \in Calls
    PROVE  f = [f EXCEPT ![c] = f[c]]
OBVIOUS

\* A call that moves on while its messages stay as they are.
LEMMA AdvanceKeeps ==
    ASSUME IInv, NEW c \in Calls, NEW r, call' = [call EXCEPT ![c] = r],
           Sound(r, unconfirmed[c], sent[c], taken[c], returned[c], accepted[c], known[c]),
           r.mandatory = call[c].mandatory, UNCHANGED <<progress, sent, registry>>
    PROVE  CallTypes' /\ CallPart' /\ RegistryPart'
<1>1. CallTypes /\ CallPart /\ UNCHANGED <<unconfirmed, taken, returned, known, accepted, sent>>
  BY DEF IInv, progress
<1>2. call' \in [Calls -> CallRecord] /\ \A d \in Calls : d # c => call'[d] = call[d]
  BY <1>1 DEF CallTypes, Sound
<1>3. CallTypes' /\ CallPart'
  <2>1. CallTypes'
    BY <1>1, <1>2 DEF CallTypes
  <2>2. ASSUME NEW d \in Calls
        PROVE  Sound(call'[d], unconfirmed'[d], sent'[d], taken'[d], returned'[d], accepted'[d], known'[d])
    <3>1. CASE d = c
      <4>1. call'[d] = r
        BY <1>1, <3>1 DEF CallTypes
      <4> QED
        BY <1>1, <3>1, <4>1
    <3>2. CASE d # c
      BY <1>1, <1>2, <3>2 DEF CallPart
    <3> QED
      BY <3>1, <3>2
  <2> QED
    BY <2>1, <2>2 DEF CallPart, Sound, CallRecord
<1>4. RegistryPart'
  <2>1. \A d \in Calls : call'[d].mandatory = call[d].mandatory
    BY <1>1 DEF CallTypes
  <2> QED
    BY <1>1, <2>1 DEF IInv, RegistryPart
<1> QED
  BY <1>3, <1>4

\* A call that rejects leaves nothing behind.
LEMMA RejectKeeps ==
    ASSUME IInv, NEW c \in Calls, sent[c] = {}, Reject(c), UNCHANGED <<sent, registry>>
    PROVE  CallTypes' /\ CallPart' /\ RegistryPart'
<1> DEFINE r == [New EXCEPT !.pc = "rejected"]
<1>1. CallTypes /\ CallPart
  BY DEF IInv
<1>2. sent' = [sent EXCEPT ![c] = {}]
  BY <1>1, Same DEF CallTypes
<1>3. r \in CallRecord /\ r.pc = "rejected" /\ r.mandatory = FALSE
  BY NewCalls
<1>4. Sound(r, {}, {}, {}, {}, {}, {})
  BY <1>3 DEF Sound
<1>5. CallTypes' /\ CallPart'
  BY <1>1, <1>2, <1>4, PointKeeps DEF Reject, Set
<1>6. RegistryPart'
  <2>1. \A d \in Calls : d # c => call'[d] = call[d]
    BY <1>1 DEF CallTypes, Reject, Set
  <2>2. \A d \in Calls : \A m \in Messages :
           (call'[d].mandatory /\ m \in sent'[d]) <=> (call[d].mandatory /\ m \in sent[d])
    BY <2>1
  <2> QED
    BY <2>2 DEF IInv, RegistryPart
<1> QED
  BY <1>5, <1>6

\* A call begins.
LEMMA StartKeeps ==
    ASSUME IInv, NEW c \in Calls, NEW kind \in Kinds, NEW mandatory \in BOOLEAN, NEW size \in 0..Batch,
           NEW pc \in {"rejected", "limiting", "generating", "encoding", "resolved"},
           pc = "resolved" => size = 0, Start(c, kind, mandatory, size, pc)
    PROVE  IInv'
<1> DEFINE r == IF pc = "rejected" THEN [New EXCEPT !.pc = pc]
                ELSE [New EXCEPT !.kind = kind, !.mandatory = mandatory, !.size = size,
                                 !.pc = pc, !.chan = IF pc = "encoding" THEN channel ELSE 0]
           u == IF pc = "rejected" THEN {} ELSE 1..size
<1>1. /\ CallTypes /\ CallPart /\ RegistryPart /\ call[c].pc = "idle"
      /\ call' = [call EXCEPT ![c] = r]
      /\ UNCHANGED <<channel, channels, sent, taken, returned, registry, breaker, policy, cache,
                     faults, history>>
  BY DEF IInv, Start, Fresh, Set
<1>2. /\ unconfirmed[c] = {} /\ sent[c] = {} /\ taken[c] = {} /\ returned[c] = {}
      /\ accepted[c] = {} /\ known[c] = {}
  BY <1>1 DEF CallPart, Sound
<1>3. unconfirmed' = [unconfirmed EXCEPT ![c] = u]
  BY <1>1, <1>2 DEF Start, CallTypes
<1>4. r \in CallRecord /\ r.pc = pc /\ (pc # "rejected" => r.size = size)
  <2>1. New \in CallRecord /\ channel \in 0..MaxChannels /\ 0 \in 0..MaxChannels
    BY NewCalls, Bounds DEF IInv, RestTypes
  <2> QED
    BY <2>1 DEF CallRecord, Done
<1>5. u \subseteq Messages /\ (pc = "resolved" => u = {}) /\ (pc # "rejected" => u = 1..size)
  BY Bounds DEF Messages
<1> HIDE DEF r, u
<1>6. Sound(r, u, {}, {}, {}, {}, {})
  BY <1>4, <1>5 DEF Sound
<1>7. /\ sent' = [sent EXCEPT ![c] = {}] /\ taken' = [taken EXCEPT ![c] = {}]
      /\ returned' = [returned EXCEPT ![c] = {}] /\ accepted' = [accepted EXCEPT ![c] = {}]
      /\ known' = [known EXCEPT ![c] = {}]
  BY <1>1, <1>2 DEF CallTypes, history
<1>8. CallTypes' /\ CallPart'
  BY <1>1, <1>3, <1>6, <1>7, PointKeeps
<1>9. RegistryPart'
  <2>1. \A d \in Calls : d # c => call'[d] = call[d]
    BY <1>1 DEF CallTypes
  <2>2. \A d \in Calls : \A m \in Messages :
           (call'[d].mandatory /\ m \in sent'[d]) <=> (call[d].mandatory /\ m \in sent[d])
    BY <1>1, <1>2, <2>1
  <2> QED
    BY <1>1, <2>2 DEF RegistryPart
<1>10. RestTypes' /\ NoRepublish'
  BY <1>1 DEF IInv, RestTypes, NoRepublish, history
<1> QED
  BY <1>8, <1>9, <1>10 DEF IInv

\* The breaker after an outcome is a breaker.
LEMMA BreakerTypes ==
    ASSUME RestTypes, NEW r \in CallRecord, NEW ok \in BOOLEAN
    PROVE  Counted(r, ok) \in [Policies -> BreakerRecord]
<1>1. ASSUME NEW b \in BreakerRecord PROVE Outcome(b, ok) \in BreakerRecord
  <2>1. Closed \in BreakerRecord
    BY DEF Closed, BreakerRecord
  <2>2. b.failures + 1 \in Nat /\ b.successes + 1 \in Nat /\ b.state \in {"closed", "open", "half"}
    BY DEF BreakerRecord
  <2> QED
    BY <2>1, <2>2 DEF Outcome, BreakerRecord
<1>2. breaker \in [Policies -> BreakerRecord] /\ r.policy \in Policies
  BY DEF RestTypes, CallRecord
<1> QED
  BY <1>1, <1>2 DEF Counted

\* An attempt fails: the call backs off within its budget, or rejects.
LEMMA AttemptFailsKeeps ==
    ASSUME IInv, NEW c \in Calls, NEW r \in CallRecord, r.kind = call[c].kind,
           r.mandatory = call[c].mandatory, r.size = call[c].size,
           call[c].pc \notin {"idle", "resolved", "rejected"}, sent[c] = {}, AttemptFails(c, r),
           UNCHANGED <<sent, registry>>
    PROVE  /\ CallTypes' /\ CallPart' /\ RegistryPart'
           /\ breaker' \in [Policies -> BreakerRecord] /\ cache' \in Calls \cup {NoCall}
<1>1. breaker' \in [Policies -> BreakerRecord] /\ cache' \in Calls \cup {NoCall}
  <2>1. breaker' = Counted(r, FALSE) /\ cache' = CacheAfter(c, FALSE) /\ RestTypes
    BY DEF AttemptFails, IInv
  <2>2. Counted(r, FALSE) \in [Policies -> BreakerRecord]
    BY <2>1, BreakerTypes
  <2> QED
    BY <2>1, <2>2 DEF CacheAfter, RestTypes
<1>2. CASE r.tries < Attempts(r.kind)
  <2> DEFINE s == [r EXCEPT !.chan = 0, !.pc = "backoff"]
  <2>1. /\ s \in CallRecord /\ s.pc = "backoff" /\ s.tries = r.tries /\ s.kind = r.kind
        /\ s.mandatory = r.mandatory /\ s.size = r.size
    <3>1. 0 \in 0..MaxChannels
      BY Bounds
    <3> QED
      BY <3>1 DEF CallRecord
  <2>2. call' = [call EXCEPT ![c] = s] /\ UNCHANGED <<progress, sent, registry>>
    BY <1>2 DEF AttemptFails, Set
  <2> HIDE DEF s
  <2>3. Sound(call[c], unconfirmed[c], sent[c], taken[c], returned[c], accepted[c], known[c])
    BY DEF IInv, CallPart
  <2>4. Sound(s, unconfirmed[c], sent[c], taken[c], returned[c], accepted[c], known[c])
    BY <1>2, <2>1, <2>3 DEF Sound
  <2> QED
    BY <1>1, <2>1, <2>2, <2>4, AdvanceKeeps
<1>3. CASE ~(r.tries < Attempts(r.kind))
  <2>1. Reject(c)
    BY <1>3 DEF AttemptFails
  <2> QED
    BY <1>1, <2>1, RejectKeeps
<1> QED
  BY <1>2, <1>3

\* An attempt starts: it is refused, fails at once, or takes the channel.
LEMMA AttemptStartsKeeps ==
    ASSUME IInv, NEW c \in Calls, NEW r \in CallRecord, r.kind = call[c].kind,
           r.mandatory = call[c].mandatory, r.size = call[c].size,
           call[c].pc \in {"limiting", "backoff"}, AttemptStarts(c, r)
    PROVE  IInv'
<1> DEFINE b == breaker[r.policy]
<1>1. /\ Sound(call[c], unconfirmed[c], sent[c], taken[c], returned[c], accepted[c], known[c])
      /\ RestTypes /\ sent[c] = {} /\ r.policy \in Policies /\ b \in BreakerRecord
      /\ breaker \in [Policies -> BreakerRecord]
  BY DEF IInv, CallPart, Sound, RestTypes, CallRecord
<1>2. UNCHANGED <<channel, channels, sent, registry, policy, faults, resent>> /\ staleRefusal' \in BOOLEAN
  BY <1>1 DEF AttemptStarts, RestTypes
<1>3. Admits(b) \in BOOLEAN
  BY DEF Admits
<1>4. CASE ~Admits(b)
  <2>1. Reject(c) /\ UNCHANGED <<breaker, cache>>
    BY <1>3, <1>4 DEF AttemptStarts
  <2>2. CallTypes' /\ CallPart' /\ RegistryPart'
    BY <1>1, <1>2, <2>1, RejectKeeps
  <2> QED
    BY <1>1, <1>2, <2>1, <2>2 DEF IInv, RestTypes, NoRepublish
<1>5. CASE Admits(b) /\ NotConnected
  <2>1. AttemptFails(c, r)
    BY <1>3, <1>5 DEF AttemptStarts
  <2>2. /\ CallTypes' /\ CallPart' /\ RegistryPart'
        /\ breaker' \in [Policies -> BreakerRecord] /\ cache' \in Calls \cup {NoCall}
    BY <1>1, <1>2, <2>1, AttemptFailsKeeps
  <2> QED
    BY <1>1, <1>2, <2>2 DEF IInv, RestTypes, NoRepublish
<1>6. CASE Admits(b) /\ ~NotConnected
  <2> DEFINE s == [r EXCEPT !.pc = "encoding", !.chan = channel]
  <2>1. /\ call' = [call EXCEPT ![c] = s] /\ UNCHANGED <<cache, progress>>
        /\ breaker' = [breaker EXCEPT ![r.policy].probes = IF b.state = "half" THEN @ + 1 ELSE @]
    BY <1>3, <1>6 DEF AttemptStarts, Set
  <2>2. /\ s \in CallRecord /\ s.pc = "encoding" /\ s.kind = r.kind
        /\ s.mandatory = r.mandatory /\ s.size = r.size
    BY <1>1 DEF CallRecord, RestTypes
  <2> HIDE DEF s
  <2>3. Sound(s, unconfirmed[c], sent[c], taken[c], returned[c], accepted[c], known[c])
    BY <1>1, <2>2 DEF Sound
  <2>4. CallTypes' /\ CallPart' /\ RegistryPart'
    BY <1>2, <2>1, <2>2, <2>3, AdvanceKeeps
  <2>5. breaker' \in [Policies -> BreakerRecord]
    BY <1>1, <2>1 DEF BreakerRecord
  <2> QED
    BY <1>1, <1>2, <2>1, <2>4, <2>5 DEF IInv, RestTypes, NoRepublish
<1> QED
  BY <1>4, <1>5, <1>6

\* The payloads are encoded, and a confirmed attempt writes what is unconfirmed.
LEMMA EncodedKeeps ==
    ASSUME IInv, NEW c \in Calls, Encoded(c)
    PROVE  IInv'
<1>1. /\ Sound(call[c], unconfirmed[c], sent[c], taken[c], returned[c], accepted[c], known[c])
      /\ CallTypes /\ CallPart /\ RestTypes /\ NoRepublish /\ call[c] \in CallRecord /\ call[c].pc = "encoding"
      /\ sent[c] = {} /\ UNCHANGED <<channel, channels, policy, faults, staleRefusal>>
  BY DEF IInv, CallPart, Sound, Encoded
<1>2. CASE call[c].kind = "async"
  <2> DEFINE r == [call[c] EXCEPT !.pc = "writing"]
  <2>1. /\ call' = [call EXCEPT ![c] = r]
        /\ UNCHANGED <<sent, registry, resent, breaker, cache, progress>>
    BY <1>2 DEF Encoded, Set
  <2>2. /\ r \in CallRecord /\ r.pc = "writing" /\ r.kind = "async" /\ r.mandatory = call[c].mandatory
    BY <1>1, <1>2 DEF CallRecord
  <2> HIDE DEF r
  <2>3. Sound(r, unconfirmed[c], sent[c], taken[c], returned[c], accepted[c], known[c])
    BY <1>1, <2>2 DEF Sound
  <2>4. CallTypes' /\ CallPart' /\ RegistryPart'
    BY <2>1, <2>2, <2>3, AdvanceKeeps
  <2> QED
    BY <1>1, <2>1, <2>4 DEF IInv, RestTypes, NoRepublish
<1>3. CASE call[c].kind # "async" /\ call[c].chan # channel
  <2>1. AttemptFails(c, call[c]) /\ UNCHANGED <<sent, registry, resent>>
    BY <1>3 DEF Encoded
  <2>2. /\ CallTypes' /\ CallPart' /\ RegistryPart'
        /\ breaker' \in [Policies -> BreakerRecord] /\ cache' \in Calls \cup {NoCall}
    BY <1>1, <2>1, AttemptFailsKeeps
  <2> QED
    BY <1>1, <2>1, <2>2 DEF IInv, RestTypes, NoRepublish
<1>4. CASE call[c].kind # "async" /\ call[c].chan = channel
  <2> DEFINE r == [call[c] EXCEPT !.pc = "awaiting"]
             u == unconfirmed[c]
             a == accepted[c]
             k == known[c]
  <2>1. /\ call' = [call EXCEPT ![c] = r] /\ sent' = [sent EXCEPT ![c] = u]
        /\ registry' = registry \cup IF call[c].mandatory THEN Tokens(c, u) ELSE {}
        /\ taken' = [taken EXCEPT ![c] = {}] /\ returned' = [returned EXCEPT ![c] = {}]
        /\ resent' = (resent \/ u \cap known[c] # {})
        /\ UNCHANGED <<breaker, cache, unconfirmed, known, accepted>>
    BY <1>4 DEF Encoded, Set, ToWrite
  <2>2. /\ r \in CallRecord /\ r.pc = "awaiting" /\ r.kind = call[c].kind
        /\ r.mandatory = call[c].mandatory /\ r.size = call[c].size
    BY <1>1 DEF CallRecord
  <2> HIDE DEF r
  <2>3. Sound(r, u, u, {}, {}, a, k)
    BY <1>1, <2>2 DEF Sound
  <2>4. resent' = FALSE
    BY <1>1, <2>1 DEF Sound, NoRepublish
  <2>5. /\ unconfirmed' = [unconfirmed EXCEPT ![c] = u] /\ accepted' = [accepted EXCEPT ![c] = a]
        /\ known' = [known EXCEPT ![c] = k]
    BY <1>1, <2>1 DEF CallTypes
  <2>6. CallTypes' /\ CallPart'
    <3> HIDE DEF u, a, k
    <3> QED
      BY <1>1, <2>1, <2>3, <2>5, PointKeeps
  <2>7. RegistryPart'
    <3>1. /\ \A d \in Calls : call'[d].mandatory = call[d].mandatory
          /\ \A d \in Calls : sent'[d] = IF d = c THEN u ELSE sent[d]
          /\ u \subseteq Messages
      BY <1>1, <2>1, <2>2 DEF CallTypes, Sound
    <3>2. registry = {p \in Calls \X Messages : call[p[1]].mandatory /\ p[2] \in sent[p[1]]}
      BY DEF IInv, RegistryPart
    <3>3. \A p \in Calls \X Messages :
             p \in registry' <=> call'[p[1]].mandatory /\ p[2] \in sent'[p[1]]
      BY <1>1, <2>1, <3>1, <3>2 DEF Tokens
    <3>4. registry' \subseteq Calls \X Messages
      BY <2>1, <3>1, <3>2 DEF Tokens
    <3> QED
      BY <3>3, <3>4 DEF RegistryPart
  <2> QED
    BY <1>1, <2>1, <2>4, <2>6, <2>7 DEF IInv, RestTypes, NoRepublish
<1> QED
  BY <1>2, <1>3, <1>4

\* The broker routes or returns a mandatory message.
LEMMA RoutesKeeps ==
    ASSUME IInv, NEW c \in Calls, NEW m \in Messages, BrokerRoutes(c, m) \/ BrokerReturns(c, m)
    PROVE  IInv'
<1>0. CallTypes /\ CallPart
  BY DEF IInv
<1>1. /\ Sound(call[c], unconfirmed[c], sent[c], taken[c], returned[c], accepted[c], known[c])
      /\ CallTypes /\ CallPart /\ RestTypes /\ NoRepublish /\ RegistryPart
      /\ call[c].mandatory /\ m \in sent[c] \ (taken[c] \cup returned[c])
      /\ UNCHANGED <<channel, channels, call, unconfirmed, sent, registry, breaker, policy,
                     cache, faults, known, resent, staleRefusal>>
  BY DEF IInv, CallPart, BrokerRoutes, BrokerReturns, history
<1>2. RestTypes' /\ NoRepublish' /\ RegistryPart'
  BY <1>1 DEF RestTypes, NoRepublish, RegistryPart
<1> DEFINE r == call[c]
           u == unconfirmed[c]
           s == sent[c]
           k == known[c]
<1>3. /\ call' = [call EXCEPT ![c] = r] /\ unconfirmed' = [unconfirmed EXCEPT ![c] = u]
      /\ sent' = [sent EXCEPT ![c] = s] /\ known' = [known EXCEPT ![c] = k]
  BY <1>1 DEF CallTypes
<1>4. CASE BrokerRoutes(c, m)
  <2> DEFINE t == taken[c] \cup {m}
             q == returned[c]
             a == accepted[c] \cup {m}
  <2>1. /\ taken' = [taken EXCEPT ![c] = t] /\ accepted' = [accepted EXCEPT ![c] = a]
        /\ returned' = [returned EXCEPT ![c] = q]
    BY <1>1, <1>4 DEF BrokerRoutes, CallTypes
  <2>2. Sound(r, u, s, t, q, a, k)
    BY <1>1 DEF Sound
  <2> HIDE DEF r, u, s, t, q, a, k
  <2>3. CallTypes' /\ CallPart'
    BY <1>0, <1>3, <2>1, <2>2, PointKeeps
  <2> QED
    BY <1>2, <2>3 DEF IInv
<1>5. CASE BrokerReturns(c, m)
  <2> DEFINE q == returned[c] \cup {m}
             t == taken[c]
             a == accepted[c]
  <2>1. <<c, m>> \in registry
    BY <1>1 DEF RegistryPart
  <2>2. /\ taken' = [taken EXCEPT ![c] = t] /\ accepted' = [accepted EXCEPT ![c] = a]
    BY <1>1, <1>5 DEF BrokerReturns, CallTypes, history
  <2>3. \A d \in Calls : {n \in Messages : <<d, n>> \in Marked(c, m)} = IF d = c THEN {m} ELSE {}
    BY <2>1 DEF Marked, Tokens
  <2>4. returned' = [returned EXCEPT ![c] = q]
    <3>1. returned' = [d \in Calls |-> returned[d] \cup {n \in Messages : <<d, n>> \in Marked(c, m)}]
      BY <1>5 DEF BrokerReturns
    <3>2. \A d \in Calls : returned'[d] = IF d = c THEN q ELSE returned[d]
      BY <2>3, <3>1
    <3>3. DOMAIN returned' = Calls /\ returned' = [d \in Calls |-> returned'[d]]
      BY <3>1
    <3> QED
      BY <1>1, <3>2, <3>3 DEF CallTypes
  <2>5. Sound(r, u, s, t, q, a, k)
    BY <1>1 DEF Sound
  <2> HIDE DEF r, u, s, t, q, a, k
  <2>6. CallTypes' /\ CallPart'
    BY <1>0, <1>3, <2>2, <2>4, <2>5, PointKeeps
  <2> QED
    BY <1>2, <2>6 DEF IInv
<1> QED
  BY <1>4, <1>5

\* The broker confirms or refuses a message.
LEMMA ConfirmsKeeps ==
    ASSUME IInv, NEW c \in Calls, NEW m \in Messages, BrokerConfirms(c, m) \/ BrokerNacks(c, m)
    PROVE  IInv'
<1> DEFINE s == sent[c] \ {m}
           ok == BrokerConfirms(c, m) /\ m \notin returned[c]
           u == IF ok THEN unconfirmed[c] \ {m} ELSE unconfirmed[c]
           k == IF ok THEN known[c] \cup {m} ELSE known[c]
           r == call[c]
           t == taken[c]
           q == returned[c]
           a == accepted[c]
<1>0. CallTypes /\ CallPart
  BY DEF IInv
<1>1. /\ Sound(call[c], unconfirmed[c], sent[c], taken[c], returned[c], accepted[c], known[c])
      /\ CallTypes /\ CallPart /\ RestTypes /\ NoRepublish /\ RegistryPart
      /\ m \in sent[c] /\ sent' = [sent EXCEPT ![c] = s] /\ registry' = registry \ Tokens(c, {m})
      /\ UNCHANGED <<channel, channels, call, taken, returned, breaker, policy, cache,
                     accepted, resent, staleRefusal>>
  BY DEF IInv, CallPart, BrokerConfirms, BrokerNacks, history, Unwatched
<1>2. faults' \in 0..MaxFaults
  <2>1. faults \in 0..MaxFaults
    BY DEF IInv, RestTypes
  <2>2. faults' = faults \/ Fault
    BY DEF BrokerConfirms, BrokerNacks
  <2> QED
    BY <2>1, <2>2, Bounds DEF Fault
<1>3. unconfirmed' = [unconfirmed EXCEPT ![c] = u] /\ known' = [known EXCEPT ![c] = k]
  <2>1. CASE BrokerConfirms(c, m)
    BY <2>1 DEF BrokerConfirms
  <2>2. CASE ~BrokerConfirms(c, m)
    <3>1. /\ unconfirmed' = [unconfirmed EXCEPT ![c] = Kept(c, {m})] /\ known' = known
      BY <2>2 DEF BrokerNacks, history
    <3> QED
      BY <1>1, <2>2, <3>1 DEF Kept, CallTypes
  <2> QED
    BY <2>1, <2>2
<1>4. ok /\ call[c].mandatory => m \in accepted[c]
  BY <1>1 DEF BrokerConfirms, Sound
<1> HIDE DEF ok
<1>5. Sound(r, u, s, t, q, a, k)
  <2>1. call[c].pc = "awaiting" /\ s \subseteq Messages
    BY <1>1 DEF Sound
  <2>2. /\ u \subseteq Messages /\ k \subseteq Messages /\ u \cap k = {}
        /\ unconfirmed[c] \cup known[c] \subseteq u \cup k
    BY <1>1 DEF Sound
  <2>3. call[c].mandatory => k \subseteq accepted[c]
    BY <1>1, <1>4 DEF Sound
  <2> HIDE DEF u, k, s
  <2> QED
    BY <1>1, <2>1, <2>2, <2>3 DEF Sound
<1>6. /\ call' = [call EXCEPT ![c] = r] /\ taken' = [taken EXCEPT ![c] = t]
      /\ returned' = [returned EXCEPT ![c] = q] /\ accepted' = [accepted EXCEPT ![c] = a]
      /\ sent' = [sent EXCEPT ![c] = s]
  BY <1>1 DEF CallTypes
<1>7. CallTypes' /\ CallPart'
  <2> HIDE DEF r, u, s, t, q, a, k
  <2> QED
    BY <1>0, <1>3, <1>5, <1>6, PointKeeps
<1>8. RegistryPart'
  <2>1. \A d \in Calls : sent'[d] = IF d = c THEN sent[c] \ {m} ELSE sent[d]
    BY <1>1 DEF CallTypes
  <2>2. registry = {p \in Calls \X Messages : call[p[1]].mandatory /\ p[2] \in sent[p[1]]}
    BY <1>1 DEF RegistryPart
  <2>3. \A p \in Calls \X Messages :
           p \in registry' <=> call'[p[1]].mandatory /\ p[2] \in sent'[p[1]]
    BY <1>1, <2>1, <2>2 DEF Tokens
  <2>4. registry' \subseteq Calls \X Messages
    BY <1>1, <2>2
  <2> QED
    BY <2>3, <2>4 DEF RegistryPart
<1>9. RestTypes' /\ NoRepublish'
  BY <1>1, <1>2 DEF RestTypes, NoRepublish
<1> QED
  BY <1>7, <1>8, <1>9 DEF IInv

\* An attempt succeeds: nothing of a confirmed call is left to confirm.
LEMMA AttemptSucceedsKeeps ==
    ASSUME IInv, NEW c \in Calls, call[c].pc \notin {"idle", "rejected"}, sent[c] = {},
           unconfirmed[c] = {}, AttemptSucceeds(c), UNCHANGED <<sent, registry>>
    PROVE  /\ CallTypes' /\ CallPart' /\ RegistryPart'
           /\ breaker' \in [Policies -> BreakerRecord] /\ cache' \in Calls \cup {NoCall}
<1> DEFINE r == [call[c] EXCEPT !.pc = "resolved", !.chan = 0, !.tries = 0, !.policy = 1]
<1>1. /\ Sound(call[c], unconfirmed[c], sent[c], taken[c], returned[c], accepted[c], known[c])
      /\ call[c] \in CallRecord /\ RestTypes
  BY DEF IInv, CallPart, Sound
<1>2. /\ breaker' = Counted(call[c], TRUE) /\ cache' = CacheAfter(c, TRUE)
      /\ call' = [call EXCEPT ![c] = r] /\ UNCHANGED progress
  BY DEF AttemptSucceeds, Set
<1>3. breaker' \in [Policies -> BreakerRecord]
  BY <1>1, <1>2, BreakerTypes
<1>4. cache' \in Calls \cup {NoCall}
  BY <1>1, <1>2 DEF CacheAfter, RestTypes
<1>5. /\ r \in CallRecord /\ r.pc = "resolved" /\ r.kind = call[c].kind
      /\ r.mandatory = call[c].mandatory /\ r.size = call[c].size
  <2>1. 0 \in 0..MaxChannels /\ 1 \in Policies
    BY Bounds
  <2> QED
    BY <1>1, <2>1 DEF CallRecord, Done
<1> HIDE DEF r
<1>6. Sound(r, unconfirmed[c], sent[c], taken[c], returned[c], accepted[c], known[c])
  BY <1>1, <1>5 DEF Sound
<1>7. CallTypes' /\ CallPart' /\ RegistryPart'
  BY <1>2, <1>5, <1>6, AdvanceKeeps
<1> QED
  BY <1>3, <1>4, <1>7

\* The generator of publishWithCache() and the rate limiter.
LEMMA PreflightKeeps ==
    ASSUME IInv, NEW c \in Calls, NEW allowed \in BOOLEAN, NEW throws \in BOOLEAN,
           GeneratorEnds(c, throws) \/ RateLimited(c, allowed) \/ BackoffEnds(c)
    PROVE  IInv'
<1>1. /\ Sound(call[c], unconfirmed[c], sent[c], taken[c], returned[c], accepted[c], known[c])
      /\ call[c] \in CallRecord /\ RestTypes /\ sent[c] = {}
  BY DEF IInv, CallPart, Sound, GeneratorEnds, RateLimited, BackoffEnds
<1>2. CASE GeneratorEnds(c, throws)
  <2> DEFINE r == [call[c] EXCEPT !.pc = "limiting"]
  <2>1. UNCHANGED <<channel, channels, sent, registry, breaker, policy, cache, faults, resent, staleRefusal>>
    BY <1>2 DEF GeneratorEnds
  <2>2. CASE throws \/ Preflight(TRUE) = "rejected"
    <3>1. CallTypes' /\ CallPart' /\ RegistryPart'
      BY <1>1, <1>2, <2>1, <2>2, RejectKeeps DEF GeneratorEnds
    <3> QED
      BY <2>1, <3>1 DEF IInv, RestTypes, NoRepublish
  <2>3. CASE ~(throws \/ Preflight(TRUE) = "rejected")
    <3>1. call' = [call EXCEPT ![c] = r] /\ UNCHANGED progress /\ call[c].pc = "generating"
      BY <1>2, <2>3 DEF GeneratorEnds, Set
    <3>2. /\ r \in CallRecord /\ r.pc = "limiting" /\ r.kind = call[c].kind
          /\ r.mandatory = call[c].mandatory /\ r.size = call[c].size
      BY <1>1 DEF CallRecord
    <3> HIDE DEF r
    <3>3. Sound(r, unconfirmed[c], sent[c], taken[c], returned[c], accepted[c], known[c])
      BY <1>1, <3>1, <3>2 DEF Sound
    <3>4. CallTypes' /\ CallPart' /\ RegistryPart'
      BY <2>1, <3>1, <3>2, <3>3, AdvanceKeeps
    <3> QED
      BY <2>1, <3>4 DEF IInv, RestTypes, NoRepublish
  <2> QED
    BY <2>2, <2>3
<1>3. CASE RateLimited(c, allowed) /\ allowed
  <2> DEFINE r == [call[c] EXCEPT !.tries = 1, !.policy = policy]
  <2>1. call[c].pc = "limiting" /\ AttemptStarts(c, r)
    BY <1>3 DEF RateLimited
  <2>2. /\ r \in CallRecord /\ r.kind = call[c].kind
        /\ r.mandatory = call[c].mandatory /\ r.size = call[c].size
    BY <1>1 DEF CallRecord, RestTypes
  <2> HIDE DEF r
  <2> QED
    BY <2>1, <2>2, AttemptStartsKeeps
<1>4. CASE RateLimited(c, allowed) /\ ~allowed
  <2>1. /\ Reject(c)
        /\ UNCHANGED <<channel, channels, sent, registry, breaker, policy, cache, faults, resent, staleRefusal>>
    BY <1>4 DEF RateLimited
  <2>2. CallTypes' /\ CallPart' /\ RegistryPart'
    BY <1>1, <2>1, RejectKeeps
  <2> QED
    BY <2>1, <2>2 DEF IInv, RestTypes, NoRepublish
<1>5. CASE BackoffEnds(c)
  <2> DEFINE r == [call[c] EXCEPT !.tries = @ + 1]
  <2>1. call[c].pc = "backoff" /\ AttemptStarts(c, r)
    BY <1>5 DEF BackoffEnds
  <2>2. call[c].tries + 1 \in {0, 1} \cup 1..MaxRetries
    <3>1. call[c].tries < Attempts(call[c].kind) /\ call[c].tries \in Nat
      BY <1>1, <2>1, Bounds DEF Sound, CallRecord
    <3>2. Attempts(call[c].kind) \in Nat
      BY AttemptsPositive
    <3>3. call[c].tries + 1 <= Attempts(call[c].kind)
      BY <3>1, <3>2
    <3> QED
      BY <3>1, <3>3, AttemptsPositive
  <2>3. /\ r \in CallRecord /\ r.kind = call[c].kind
        /\ r.mandatory = call[c].mandatory /\ r.size = call[c].size
    BY <1>1, <2>2 DEF CallRecord
  <2> HIDE DEF r
  <2> QED
    BY <2>1, <2>3, AttemptStartsKeeps
<1> QED
  BY <1>2, <1>3, <1>4, <1>5

\* An attempt ends: its publishes have settled, its serializer threw, its channel closed
\* under its writes, or they are all done.
LEMMA AttemptEndsKeeps ==
    ASSUME IInv, NEW c \in Calls, AttemptSettles(c) \/ EncodeFails(c) \/ WriteFails(c) \/ WritesDone(c)
    PROVE  IInv'
<1>1. /\ Sound(call[c], unconfirmed[c], sent[c], taken[c], returned[c], accepted[c], known[c])
      /\ call[c] \in CallRecord /\ RestTypes /\ sent[c] = {}
      /\ call[c].pc \notin {"idle", "resolved", "rejected"}
      /\ UNCHANGED <<channel, channels, sent, registry, policy, resent, staleRefusal>>
  BY DEF IInv, CallPart, Sound, AttemptSettles, EncodeFails, WriteFails, WritesDone
<1>2. faults' \in 0..MaxFaults
  <2>1. faults \in 0..MaxFaults
    BY <1>1 DEF RestTypes
  <2>2. faults' = faults \/ Fault
    BY DEF AttemptSettles, EncodeFails, WriteFails, WritesDone
  <2> QED
    BY <2>1, <2>2, Bounds DEF Fault
<1>3. AttemptFails(c, call[c]) \/ (AttemptSucceeds(c) /\ unconfirmed[c] = {})
  BY DEF AttemptSettles, EncodeFails, WriteFails, WritesDone, AllConfirmed
<1>4. /\ CallTypes' /\ CallPart' /\ RegistryPart'
      /\ breaker' \in [Policies -> BreakerRecord] /\ cache' \in Calls \cup {NoCall}
  <2>1. CASE AttemptFails(c, call[c])
    BY <1>1, <2>1, AttemptFailsKeeps
  <2>2. CASE AttemptSucceeds(c) /\ unconfirmed[c] = {}
    BY <1>1, <2>2, AttemptSucceedsKeeps
  <2> QED
    BY <1>3, <2>1, <2>2
<1> QED
  BY <1>1, <1>2, <1>4 DEF IInv, RestTypes, NoRepublish

\* A fire-and-forget call writes a message, and goes on after 'drain'.
LEMMA WritesKeeps ==
    ASSUME IInv, NEW c \in Calls, NEW full \in BOOLEAN, WriteNext(c, full) \/ Drains(c)
    PROVE  IInv'
<1>1. /\ Sound(call[c], unconfirmed[c], sent[c], taken[c], returned[c], accepted[c], known[c])
      /\ call[c] \in CallRecord /\ CallTypes /\ CallPart /\ RestTypes /\ call[c].pc \in {"writing", "full"}
      /\ UNCHANGED <<channel, channels, sent, taken, returned, registry, breaker, policy, cache, history>>
  BY DEF IInv, CallPart, Sound, WriteNext, Drains, wire
<1>2. faults' \in 0..MaxFaults
  <2>1. faults \in 0..MaxFaults
    BY <1>1 DEF RestTypes
  <2>2. faults' = faults \/ Fault
    BY DEF WriteNext, Drains
  <2> QED
    BY <2>1, <2>2, Bounds DEF Fault
<1>3. PICK pc \in {"writing", "full"} : call' = [call EXCEPT ![c] = [call[c] EXCEPT !.pc = pc]]
  BY DEF WriteNext, Drains, Set
<1>4. PICK u \in SUBSET unconfirmed[c] : unconfirmed' = [unconfirmed EXCEPT ![c] = u]
  <2>1. CASE WriteNext(c, full)
    BY <2>1 DEF WriteNext
  <2>2. CASE Drains(c)
    <3>1. unconfirmed' = [unconfirmed EXCEPT ![c] = unconfirmed[c]]
      BY <1>1, <2>2 DEF Drains, wire, CallTypes
    <3> QED
      BY <3>1
  <2> QED
    BY <2>1, <2>2
<1> DEFINE r == [call[c] EXCEPT !.pc = pc]
           s == sent[c]
           t == taken[c]
           q == returned[c]
           a == accepted[c]
           k == known[c]
<1>5. /\ r \in CallRecord /\ r.pc = pc /\ r.kind = "async" /\ r.mandatory = call[c].mandatory
  BY <1>1 DEF CallRecord, Sound
<1>6. /\ sent' = [sent EXCEPT ![c] = s] /\ taken' = [taken EXCEPT ![c] = t]
      /\ returned' = [returned EXCEPT ![c] = q] /\ accepted' = [accepted EXCEPT ![c] = a]
      /\ known' = [known EXCEPT ![c] = k] /\ call' = [call EXCEPT ![c] = r]
  BY <1>1, <1>3 DEF CallTypes, history
<1> HIDE DEF r
<1>7. Sound(r, u, s, t, q, a, k)
  BY <1>1, <1>5 DEF Sound
<1>8. CallTypes' /\ CallPart'
  <2>1. CallTypes /\ CallPart
    BY <1>1
  <2> HIDE DEF r, s, t, q, a, k
  <2> QED
    BY <1>4, <1>6, <1>7, <2>1, PointKeeps
<1>9. RegistryPart'
  <2>1. \A d \in Calls : call'[d].mandatory = call[d].mandatory
    BY <1>1, <1>5, <1>6 DEF CallTypes
  <2> QED
    BY <1>1, <2>1 DEF IInv, RegistryPart
<1> QED
  BY <1>1, <1>2, <1>8, <1>9 DEF IInv, RestTypes, NoRepublish, history

\* The channel closes under everybody.
LEMMA ClosesKeeps ==
    ASSUME IInv, ChannelCloses
    PROVE  IInv'
<1>1. /\ channel' = 0 /\ sent' = Nothing /\ registry' = {}
      /\ unconfirmed' = [c \in Calls |-> unconfirmed[c]]
      /\ UNCHANGED <<channels, call, taken, returned, breaker, policy, cache, faults, history>>
  BY DEF ChannelCloses, Unwatched, Kept
<1>2. CallTypes /\ CallPart /\ RestTypes
  BY DEF IInv
<1>3. CallTypes'
  BY <1>1, <1>2 DEF CallTypes, Nothing, history
<1>4. CallPart'
  <2>1. ASSUME NEW c \in Calls
        PROVE  Sound(call'[c], unconfirmed'[c], sent'[c], taken'[c], returned'[c], accepted'[c], known'[c])
    <3>1. Sound(call[c], unconfirmed[c], sent[c], taken[c], returned[c], accepted[c], known[c])
      BY <1>2 DEF CallPart
    <3>2. /\ call'[c] = call[c] /\ unconfirmed'[c] = unconfirmed[c] /\ sent'[c] = {}
          /\ taken'[c] = taken[c] /\ returned'[c] = returned[c] /\ accepted'[c] = accepted[c]
          /\ known'[c] = known[c]
      BY <1>1, <1>2 DEF CallTypes, Nothing, history
    <3>3. Sound(call[c], unconfirmed[c], {}, taken[c], returned[c], accepted[c], known[c])
      BY <3>1 DEF Sound
    <3> QED
      BY <3>2, <3>3
  <2> QED
    BY <2>1 DEF CallPart, Sound, CallRecord
<1>5. RegistryPart'
  BY <1>1 DEF RegistryPart, Nothing
<1>6. RestTypes' /\ NoRepublish'
  BY <1>1, <1>2, Bounds DEF IInv, RestTypes, NoRepublish, history
<1> QED
  BY <1>3, <1>4, <1>5, <1>6 DEF IInv

\* Steps that touch no call: the breaker cools, a channel opens, the cache expires.
LEMMA RestKeeps ==
    ASSUME IInv,
           \/ \E g \in Policies : BreakerCools(g)
           \/ \E restored \in BOOLEAN : ChannelOpens(restored)
           \/ InvalidateCache
           \/ UNCHANGED vars
    PROVE  IInv'
<1>1. UNCHANGED <<call, wire, history>>
  BY DEF BreakerCools, ChannelOpens, InvalidateCache, vars
<1>2. CallTypes' /\ CallPart' /\ RegistryPart' /\ NoRepublish'
  BY <1>1 DEF IInv, CallTypes, CallPart, RegistryPart, NoRepublish, wire, history
<1>3. resent' \in BOOLEAN /\ staleRefusal' \in BOOLEAN
  BY <1>1 DEF IInv, RestTypes, history
<1>4. ASSUME NEW g \in Policies, BreakerCools(g) PROVE RestTypes'
  <2>1. [Closed EXCEPT !.state = "half"] \in BreakerRecord
    BY DEF Closed, BreakerRecord
  <2> QED
    BY <1>3, <1>4, <2>1 DEF IInv, RestTypes, BreakerCools
<1>5. ASSUME NEW restored \in BOOLEAN, ChannelOpens(restored) PROVE RestTypes'
  <2>1. channels' \in 0..MaxChannels /\ channel' \in 0..MaxChannels
    BY <1>5, Bounds DEF IInv, RestTypes, ChannelOpens
  <2>2. policy' \in Policies
    BY <1>5, Bounds DEF IInv, RestTypes, ChannelOpens, Policies
  <2> QED
    BY <1>3, <1>5, <2>1, <2>2 DEF IInv, RestTypes, ChannelOpens
<1>6. ASSUME InvalidateCache PROVE RestTypes'
  BY <1>3, <1>6 DEF IInv, RestTypes, InvalidateCache
<1>7. ASSUME UNCHANGED vars PROVE RestTypes'
  BY <1>7 DEF IInv, RestTypes, vars, history
<1> QED
  BY <1>2, <1>4, <1>5, <1>6, <1>7 DEF IInv

\* Every operation starts its call as StartKeeps expects it.
LEMMA StartsKeeps ==
    ASSUME IInv, NEW c \in Calls, Starts(c)
    PROVE  IInv'
<1>1. /\ 0 \in 0..Batch /\ 1 \in 0..Batch /\ Batch \in 0..Batch
      /\ \A valid : Preflight(valid) \in {"rejected", "limiting"}
      /\ {"confirmed", "async", "cached", "move"} \subseteq Kinds
  BY Bounds DEF Preflight, Kinds
<1>2. ASSUME NEW mandatory \in BOOLEAN, NEW valid, Publish(c, mandatory, valid) PROVE IInv'
  BY <1>1, <1>2, StartKeeps DEF Publish
<1>3. ASSUME NEW mandatory \in BOOLEAN, NEW valid, PublishDelayed(c, mandatory, valid) PROVE IInv'
  BY <1>1, <1>3, StartKeeps DEF PublishDelayed
<1>4. ASSUME NEW mandatory \in BOOLEAN, NEW valid, PublishAsync(c, mandatory, valid) PROVE IInv'
  BY <1>1, <1>4, StartKeeps DEF PublishAsync
<1>5. ASSUME NEW mandatory \in BOOLEAN, NEW size \in {0, Batch}, NEW valid,
             PublishBatch(c, mandatory, size, valid)
      PROVE  IInv'
  BY <1>1, <1>5, StartKeeps DEF PublishBatch
<1>6. ASSUME NEW mandatory \in BOOLEAN, NEW size \in {0, Batch}, NEW valid,
             PublishAsyncBatch(c, mandatory, size, valid)
      PROVE  IInv'
  BY <1>1, <1>6, StartKeeps DEF PublishAsyncBatch
<1>7. CASE PublishWithCache(c)
  BY <1>1, <1>7, StartKeeps DEF PublishWithCache
<1>8. CASE MoveToDeadLetter(c)
  BY <1>1, <1>8, StartKeeps DEF MoveToDeadLetter
<1> QED
  BY <1>2, <1>3, <1>4, <1>5, <1>6, <1>7, <1>8 DEF Starts

\* The initial states.
LEMMA InitHolds == ASSUME Init PROVE IInv
<1>1. CallTypes
  BY NewCalls DEF Init, CallTypes, Nothing
<1>2. CallPart
  <2>1. Sound(New, {}, {}, {}, {}, {}, {})
    BY NewCalls DEF Sound
  <2> QED
    BY <2>1 DEF Init, CallPart, Nothing
<1>3. RegistryPart
  BY DEF Init, RegistryPart, Nothing
<1>4. RestTypes /\ NoRepublish
  <2>1. Closed \in BreakerRecord
    BY DEF Closed, BreakerRecord
  <2>2. 1 \in 0..MaxChannels /\ 0 \in 0..MaxFaults
    BY Bounds
  <2> QED
    BY <2>1, <2>2, Bounds DEF Init, RestTypes, NoRepublish
<1> QED
  BY <1>1, <1>2, <1>3, <1>4 DEF IInv

\* Every step keeps the invariant.
LEMMA StepKeeps == ASSUME IInv, [Next]_vars PROVE IInv'
<1>1. ASSUME NEW c \in Calls, CallStep(c) PROVE IInv'
  <2>1. CASE \/ \E throws \in BOOLEAN : GeneratorEnds(c, throws)
             \/ \E allowed \in BOOLEAN : RateLimited(c, allowed)
             \/ BackoffEnds(c)
    BY <2>1, PreflightKeeps
  <2>2. CASE Encoded(c)
    BY <2>2, EncodedKeeps
  <2>3. CASE AttemptSettles(c) \/ EncodeFails(c) \/ WriteFails(c) \/ WritesDone(c)
    BY <2>3, AttemptEndsKeeps
  <2>4. CASE (\E full \in BOOLEAN : WriteNext(c, full)) \/ Drains(c)
    BY <2>4, WritesKeeps
  <2> QED
    BY <1>1, <2>1, <2>2, <2>3, <2>4 DEF CallStep
<1>2. ASSUME NEW c \in Calls, NEW m \in Messages, BrokerStep(c, m) PROVE IInv'
  BY <1>2, RoutesKeeps, ConfirmsKeeps DEF BrokerStep
<1>3. ASSUME NEW c \in Calls, Starts(c) PROVE IInv'
  BY <1>3, StartsKeeps
<1>4. CASE ChannelCloses
  BY <1>4, ClosesKeeps
<1>5. CASE \/ \E g \in Policies : BreakerCools(g)
           \/ \E restored \in BOOLEAN : ChannelOpens(restored)
           \/ InvalidateCache
           \/ UNCHANGED vars
  BY <1>5, RestKeeps
<1> QED
  BY <1>1, <1>2, <1>3, <1>4, <1>5 DEF Next, Progress

-----------------------------------------------------------------------------
\* The inductive invariant holds in every reachable state.
THEOREM Invariance == Spec => []IInv
<1>1. Init => IInv
  BY InitHolds
<1>2. IInv /\ [Next]_vars => IInv'
  BY StepKeeps
<1> QED
  BY <1>1, <1>2, PTL DEF Spec

\* The state of the publisher, of its breaker and of the calls keeps its types; no call
\* makes more attempts than maxRetries.
THEOREM TypeCorrect == Spec => []TypeOK
<1>1. IInv => TypeOK
  BY DEF IInv, CallTypes, RestTypes, RegistryPart, TypeOK, CallRecord, BreakerRecord
<1> QED
  BY <1>1, Invariance, PTL

\* However often a batch is retried, and whichever channels close under it, publishBatch()
\* never writes a message again whose confirm it has seen.
THEOREM RepublishHolds == Spec => []NoRepublish
<1>1. IInv => NoRepublish
  BY DEF IInv
<1> QED
  BY <1>1, Invariance, PTL

\* A basic.return fails the publish whose token it carries and no other, and the registry
\* of a channel holds no token of a publish that has settled (routable-publish.js).
THEOREM ReturnsHold == Spec => []ReturnsMatched
<1>1. ASSUME IInv PROVE ReturnsMatched
  <2>1. \A c \in Calls : taken[c] \cap returned[c] = {} /\ sent[c] \subseteq Messages
    BY <1>1 DEF IInv, CallPart, Sound
  <2>2. registry = UNION {Tokens(c, sent[c]) : c \in {d \in Calls : call[d].mandatory}}
    BY <1>1, <2>1 DEF IInv, RegistryPart, Tokens
  <2> QED
    BY <2>1, <2>2 DEF ReturnsMatched
<1>2. IInv => ReturnsMatched
  BY <1>1
<1> QED
  BY <1>2, Invariance, PTL

\* A confirmed publish that resolves has had every one of its messages confirmed, and a
\* mandatory one has them all in a queue, for every size of batch and every retry budget.
THEOREM DeliveredHolds == Spec => []ResolvedMeansDelivered
<1>1. ASSUME IInv PROVE ResolvedMeansDelivered
  <2> SUFFICES ASSUME NEW c \in Calls, call[c].pc = "resolved", call[c].kind # "async"
               PROVE  /\ 1..call[c].size \subseteq known[c]
                      /\ call[c].mandatory => 1..call[c].size \subseteq accepted[c]
    BY DEF ResolvedMeansDelivered
  <2> QED
    BY <1>1 DEF IInv, CallPart, Sound
<1>2. IInv => ResolvedMeansDelivered
  BY <1>1
<1> QED
  BY <1>2, Invariance, PTL

-----------------------------------------------------------------------------
(***************************************************************************)
(* The rate limiter, which preflight() asks before a call goes any         *)
(* further.  Neither touches the other's state, so RateLimiter is a model  *)
(* of its own, with a specification of its own: of any costs, durations    *)
(* and clock, and of any limits that LimitsAssumption allows.              *)
(***************************************************************************)

\* A nonempty set of natural numbers has a minimum.
LEMMA MinExists ==
    ASSUME NEW I \in SUBSET Nat, I # {}
    PROVE  \E x \in I : \A y \in I : x <= y
<1> DEFINE R == OpToRel(<, Nat)
<1>1. IsWellFoundedOn(R, Nat)
  BY NatLessThanWellFounded, Zenon
<1>2. \A x, y \in Nat : x < y => <<x, y>> \in R
  BY DEF OpToRel
<1> HIDE DEF R
<1>3. PICK x \in I : \A y \in I : ~ (<<y, x>> \in R)
  BY <1>1, WFMin, Zenon
<1>4. \A y \in I : ~(y < x)
  BY <1>2, <1>3
<1>5. \A y \in I : x <= y
  BY <1>4
<1> QED
  BY <1>5

\* Induction, on a set of natural numbers.
LEMMA Induction ==
    ASSUME NEW P, 0 \in P, \A n \in Nat : n \in P => n + 1 \in P
    PROVE  \A n \in Nat : n \in P
<1> DEFINE I == {n \in Nat : n \notin P}
<1> SUFFICES ASSUME I # {} PROVE FALSE
  OBVIOUS
<1>1. I \in SUBSET Nat
  OBVIOUS
<1>2. PICK n \in I : \A y \in I : n <= y
  <2> HIDE DEF I
  <2> QED
    BY <1>1, MinExists
<1>3. n \in Nat \ {0} /\ n - 1 \in Nat /\ n - 1 \notin I
  BY <1>2
<1>4. n - 1 \in P /\ n = (n - 1) + 1
  BY <1>3
<1> QED
  BY <1>2, <1>3, <1>4

\* A set of indices has a maximum.
LEMMA MaxExists ==
    ASSUME NEW b \in Nat, NEW I \in SUBSET (0 .. b), I # {}
    PROVE  Max(I) \in I /\ \A y \in I : Max(I) >= y
<1> DEFINE J == {b - y : y \in I}
<1>1. J \in SUBSET Nat /\ J # {}
  <2>1. \A y \in I : b - y \in Nat
    OBVIOUS
  <2> QED
    BY <2>1
<1>2. PICK x \in J : \A y \in J : x <= y
  <2> HIDE DEF J
  <2> QED
    BY <1>1, MinExists
<1>3. PICK m \in I : x = b - m
  BY <1>2
<1>4. ASSUME NEW y \in I PROVE m >= y
  BY <1>2, <1>3, <1>4
<1> QED
  BY <1>4 DEF Max

\* The sums that Before and CostOf define exist.
LEMMA SumExists ==
    ASSUME NEW n \in Nat, NEW w \in [1 .. n -> Nat]
    PROVE  \E f \in [0 .. n -> Nat] : f = [i \in 0 .. n |-> IF i = 0 THEN 0 ELSE f[i - 1] + w[i]]
<1> DEFINE Step(f, i) == IF i = 0 THEN 0 ELSE f[i - 1] + w[i]
           Fits(f, m) == f \in [0 .. m -> Nat] /\ \A i \in 0 .. m : f[i] = Step(f, i)
           Good == {m \in Nat : m <= n => \E f : Fits(f, m)}
<1>1. n \in Good
  <2>1. 0 \in Good
    <3>1. Fits([i \in 0 .. 0 |-> 0], 0)
      OBVIOUS
    <3> HIDE DEF Fits
    <3> QED
      BY <3>1
  <2>2. ASSUME NEW m \in Nat, m \in Good, m + 1 <= n
        PROVE  \E f : Fits(f, m + 1)
    <3>1. PICK f : Fits(f, m)
      <4> HIDE DEF Fits
      <4> QED
        BY <2>2
    <3> DEFINE g == [i \in 0 .. m + 1 |-> IF i = m + 1 THEN Step(f, i) ELSE f[i]]
    <3>2. Step(f, m + 1) \in Nat
      BY <2>2, <3>1
    <3>3. g \in [0 .. m + 1 -> Nat]
      <4>1. ASSUME NEW i \in 0 .. m + 1, i # m + 1 PROVE f[i] \in Nat
        <5>1. i \in 0 .. m
          BY <4>1
        <5> QED
          BY <3>1, <5>1
      <4> HIDE DEF Step
      <4> QED
        BY <3>2, <4>1
    <3>4. ASSUME NEW i \in 0 .. m + 1 PROVE g[i] = Step(g, i)
      <4>1. CASE i = 0
        <5>1. g[i] = f[i] /\ i \in 0 .. m
          BY <4>1
        <5> QED
          BY <3>1, <4>1, <5>1
      <4>2. CASE i \in 1 .. m + 1
        <5>1. g[i - 1] = f[i - 1] /\ i # 0
          BY <4>2
        <5>2. g[i] = Step(f, i)
          <6>1. CASE i = m + 1
            BY <6>1
          <6>2. CASE i # m + 1
            <7>1. i \in 0 .. m /\ g[i] = f[i]
              BY <4>2, <6>2
            <7> HIDE DEF g
            <7> QED
              BY <3>1, <7>1
          <6> QED
            BY <6>1, <6>2
        <5> QED
          BY <5>1, <5>2
      <4> QED
        BY <4>1, <4>2
    <3> QED
      BY <3>3, <3>4, Zenon
  <2>3. \A m \in Nat : m \in Good => m + 1 \in Good
    <3> HIDE DEF Fits
    <3> QED
      BY <2>2
  <2> HIDE DEF Good
  <2> QED
    BY <2>1, <2>3, Induction
<1>2. PICK f : Fits(f, n)
  <2> HIDE DEF Fits
  <2> QED
    BY <1>1
<1>3. f = [i \in 0 .. n |-> Step(f, i)]
  BY <1>2
<1> QED
  BY <1>2, <1>3

Requests == [at : Nat, cost : Nat]

\* The cost of a log, by its prefixes.
LEMMA CostSteps ==
    ASSUME NEW e \in Seq(Requests)
    PROVE  /\ CostOf(e, 0) = 0
           /\ \A n \in 0 .. Len(e) : CostOf(e, n) \in Nat
           /\ \A n \in Nat : n + 1 <= Len(e) => CostOf(e, n + 1) = CostOf(e, n) + e[n + 1].cost
<1> DEFINE N == 0 .. Len(e)
           Step(f, i) == IF i = 0 THEN 0 ELSE f[i - 1] + e[i].cost
           w == [i \in 1 .. Len(e) |-> e[i].cost]
<1>0. Len(e) \in Nat /\ \A k \in 1 .. Len(e) : e[k].cost \in Nat
  <2>1. \A k \in 1 .. Len(e) : e[k] \in Requests
    OBVIOUS
  <2> QED
    BY <2>1 DEF Requests
<1>1. w \in [1 .. Len(e) -> Nat]
  BY <1>0
<1>2. PICK f \in [N -> Nat] : f = [i \in N |-> IF i = 0 THEN 0 ELSE f[i - 1] + w[i]]
  <2> HIDE DEF w
  <2> QED
    BY <1>0, <1>1, SumExists
<1>3. f = [i \in N |-> Step(f, i)]
  <2>1. \A i \in N : (IF i = 0 THEN 0 ELSE f[i - 1] + w[i]) = Step(f, i)
    BY <1>0
  <2> HIDE DEF w, Step
  <2> QED
    BY <1>2, <2>1
<1> DEFINE g == CHOOSE h : h = [i \in N |-> Step(h, i)]
<1>4. g = [i \in N |-> Step(g, i)]
  <2> HIDE DEF N, Step
  <2> QED
    BY <1>3, Zenon
<1>5. \A n : CostOf(e, n) = g[n]
  BY Zenon DEF CostOf
<1> HIDE DEF g
<1>6. g[0] = 0 /\ \A n \in Nat : n + 1 <= Len(e) => g[n + 1] = g[n] + e[n + 1].cost
  <2>1. g[0] = Step(g, 0)
    BY <1>0, <1>4
  <2>2. ASSUME NEW n \in Nat, n + 1 <= Len(e) PROVE g[n + 1] = g[n] + e[n + 1].cost
    <3>1. n + 1 \in N /\ n + 1 # 0 /\ (n + 1) - 1 = n
      BY <1>0, <2>2
    <3>2. g[n + 1] = Step(g, n + 1)
      BY <1>4, <3>1
    <3> QED
      BY <3>1, <3>2
  <2> QED
    BY <2>1, <2>2
<1>7. \A n \in 0 .. Len(e) : g[n] \in Nat
  <2> DEFINE P == {n \in Nat : n <= Len(e) => g[n] \in Nat}
  <2>1. 0 \in P
    BY <1>6
  <2>2. ASSUME NEW n \in Nat, n \in P PROVE n + 1 \in P
    <3> SUFFICES ASSUME n + 1 <= Len(e) PROVE g[n + 1] \in Nat
      OBVIOUS
    <3>1. g[n] \in Nat /\ e[n + 1].cost \in Nat
      BY <1>0, <2>2
    <3> QED
      BY <1>6, <3>1
  <2> HIDE DEF P
  <2>3. \A n \in Nat : n \in P
    BY <2>1, <2>2, Induction
  <2> QED
    BY <1>0, <2>3 DEF P
<1> QED
  BY <1>5, <1>6, <1>7

\* A log whose total is what its requests cost.
LogOK(s) ==
    /\ s \in [present : BOOLEAN, amount : Nat, at : Nat, entries : Seq(Requests)]
    /\ s.amount = CostOf(s.entries, Len(s.entries))

\* What is left of a log when its first n requests are gone.
LEMMA CostOfRest ==
    ASSUME NEW e \in Seq(Requests), NEW n \in 0 .. Len(e)
    PROVE  LET rest == SubSeq(e, n + 1, Len(e)) IN
           /\ rest \in Seq(Requests) /\ Len(rest) = Len(e) - n
           /\ \A k \in 1 .. Len(rest) : rest[k] = e[k + n]
           /\ CostOf(rest, Len(rest)) = CostOf(e, Len(e)) - CostOf(e, n)
           /\ CostOf(e, Len(e)) - CostOf(e, n) \in Nat
           /\ \A k \in 0 .. Len(rest) : CostOf(rest, k) = CostOf(e, k + n) - CostOf(e, n)
<1> DEFINE rest == SubSeq(e, n + 1, Len(e))
<1>1. rest \in Seq(Requests) /\ Len(rest) = Len(e) - n
  OBVIOUS
<1>2. \A k \in 1 .. Len(e) - n : rest[k] = e[k + n]
  OBVIOUS
<1> HIDE DEF rest
<1> DEFINE P == {k \in Nat : k <= Len(e) - n => CostOf(rest, k) = CostOf(e, k + n) - CostOf(e, n)}
<1>3. 0 \in P
  BY <1>1, CostSteps
<1>4. ASSUME NEW k \in Nat, k \in P PROVE k + 1 \in P
  <2> SUFFICES ASSUME k + 1 <= Len(e) - n
               PROVE  CostOf(rest, k + 1) = CostOf(e, (k + 1) + n) - CostOf(e, n)
    OBVIOUS
  <2>1. CostOf(rest, k + 1) = CostOf(rest, k) + rest[k + 1].cost
    BY <1>1, CostSteps
  <2>2. CostOf(e, (n + k) + 1) = CostOf(e, n + k) + e[(n + k) + 1].cost
    <3>1. n + k \in Nat /\ (n + k) + 1 <= Len(e)
      OBVIOUS
    <3> QED
      BY <3>1, CostSteps
  <2>3. rest[k + 1] = e[(n + k) + 1] /\ (k + 1) + n = (n + k) + 1
    BY <1>2
  <2>4. CostOf(rest, k) = CostOf(e, n + k) - CostOf(e, n) /\ n + k = k + n
    BY <1>4
  <2>5. CostOf(e, n + k) \in Nat /\ CostOf(e, n) \in Nat /\ e[(n + k) + 1].cost \in Nat
    <3>1. n + k \in 0 .. Len(e) /\ (n + k) + 1 \in 1 .. Len(e)
      OBVIOUS
    <3>2. e[(n + k) + 1] \in Requests
      BY <3>1
    <3> QED
      BY <3>1, <3>2, CostSteps DEF Requests
  <2> QED
    BY <2>1, <2>2, <2>3, <2>4, <2>5
<1> HIDE DEF P
<1>5. \A k \in Nat : k \in P
  BY <1>3, <1>4, Induction
<1>6. CostOf(rest, Len(rest)) = CostOf(e, Len(e)) - CostOf(e, n) /\ CostOf(rest, Len(rest)) \in Nat
  <2>1. CostOf(rest, Len(e) - n) = CostOf(e, (Len(e) - n) + n) - CostOf(e, n)
        /\ (Len(e) - n) + n = Len(e)
    BY <1>5 DEF P
  <2>2. Len(rest) \in 0 .. Len(rest)
    BY <1>1
  <2> QED
    BY <1>1, <2>1, <2>2, CostSteps
<1>7. \A k \in 1 .. Len(rest) : rest[k] = e[k + n]
  BY <1>1, <1>2
<1>8. \A k \in 0 .. Len(rest) : CostOf(rest, k) = CostOf(e, k + n) - CostOf(e, n)
  BY <1>1, <1>5 DEF P
<1> QED
  BY <1>1, <1>6, <1>7, <1>8 DEF rest

\* A request more at the end of a log.
LEMMA CostOfMore ==
    ASSUME NEW e \in Seq(Requests), NEW x \in Requests
    PROVE  /\ CostOf(Append(e, x), Len(e) + 1) = CostOf(e, Len(e)) + x.cost
           /\ \A k \in 0 .. Len(e) : CostOf(Append(e, x), k) = CostOf(e, k)
<1> DEFINE more == Append(e, x)
<1>1. more \in Seq(Requests) /\ Len(more) = Len(e) + 1 /\ more[Len(e) + 1] = x
      /\ \A k \in 1 .. Len(e) : more[k] = e[k]
  OBVIOUS
<1> HIDE DEF more
<1> DEFINE P == {k \in Nat : k <= Len(e) => CostOf(more, k) = CostOf(e, k)}
<1>2. 0 \in P
  BY <1>1, CostSteps
<1>3. ASSUME NEW k \in Nat, k \in P PROVE k + 1 \in P
  <2> SUFFICES ASSUME k + 1 <= Len(e) PROVE CostOf(more, k + 1) = CostOf(e, k + 1)
    OBVIOUS
  <2>1. CostOf(more, k + 1) = CostOf(more, k) + more[k + 1].cost
    BY <1>1, CostSteps
  <2>2. CostOf(e, k + 1) = CostOf(e, k) + e[k + 1].cost
    BY CostSteps
  <2>3. more[k + 1] = e[k + 1] /\ CostOf(more, k) = CostOf(e, k)
    BY <1>1, <1>3
  <2> QED
    BY <2>1, <2>2, <2>3
<1> HIDE DEF P
<1>4. \A k \in Nat : k \in P
  BY <1>2, <1>3, Induction
<1>5. CostOf(more, Len(e) + 1) = CostOf(more, Len(e)) + more[Len(e) + 1].cost
  BY <1>1, CostSteps
<1>6. \A k \in 0 .. Len(e) : CostOf(more, k) = CostOf(e, k)
  BY <1>4 DEF P
<1>7. CostOf(more, Len(e)) = CostOf(e, Len(e))
  BY <1>6
<1> QED
  BY <1>1, <1>5, <1>6, <1>7 DEF more

\* #evictExpired() takes n requests from the front of a log: all of them have expired, and the
\* next has not.
LEMMA EvictsFront ==
    ASSUME NEW s, LogOK(s), NEW now \in Int
    PROVE  LET w == Evict(s, now) IN
           \E n \in 0 .. Len(s.entries) :
             /\ \A j \in 1 .. n : Expired(s.entries[j], now)
             /\ n < Len(s.entries) => ~Expired(s.entries[n + 1], now)
             /\ w = [s EXCEPT !.entries = SubSeq(s.entries, n + 1, Len(s.entries)),
                               !.amount = s.amount - CostOf(s.entries, n)]
             /\ Len(w.entries) = Len(s.entries) - n
             /\ \A k \in 1 .. Len(w.entries) : w.entries[k] = s.entries[k + n]
             /\ \A k \in 0 .. Len(w.entries) :
                  CostOf(w.entries, k) = CostOf(s.entries, k + n) - CostOf(s.entries, n)
<1> DEFINE e == s.entries
           I == {0} \cup {i \in 1 .. Len(e) : \A j \in 1 .. i : Expired(e[j], now)}
           n == Max(I)
           rest == SubSeq(e, n + 1, Len(e))
           w == Evict(s, now)
<1>1. e \in Seq(Requests) /\ s.amount = CostOf(e, Len(e)) /\ s.amount \in Nat
  BY DEF LogOK
<1>2. n \in I /\ n \in 0 .. Len(e) /\ \A y \in I : n >= y
  <2>1. I \in SUBSET (0 .. Len(e)) /\ I # {} /\ Len(e) \in Nat
    BY <1>1
  <2> HIDE DEF I, e
  <2>2. Max(I) \in I /\ \A y \in I : Max(I) >= y
    BY <2>1, MaxExists
  <2> QED
    BY <2>1, <2>2
<1>3. w = [s EXCEPT !.entries = rest, !.amount = s.amount - CostOf(e, n)]
  BY Zenon DEF Evict
<1>4. \A j \in 1 .. n : Expired(e[j], now)
  BY <1>2
<1>5. n < Len(e) => ~Expired(e[n + 1], now)
  <2> SUFFICES ASSUME n < Len(e), Expired(e[n + 1], now) PROVE FALSE
    OBVIOUS
  <2>1. n + 1 \in 1 .. Len(e) /\ \A j \in 1 .. n + 1 : j \in 1 .. n \/ j = n + 1
    <3>1. Len(e) \in Nat
      BY <1>1
    <3> HIDE DEF e, n, I
    <3> QED
      BY <1>2, <3>1
  <2>2. n + 1 \in I
    BY <1>4, <2>1
  <2> HIDE DEF n, I
  <2> QED
    BY <1>2, <2>2
<1> HIDE DEF n, I
<1>6. /\ Len(rest) = Len(e) - n
      /\ \A k \in 1 .. Len(rest) : rest[k] = e[k + n]
      /\ \A k \in 0 .. Len(rest) : CostOf(rest, k) = CostOf(e, k + n) - CostOf(e, n)
  BY <1>1, <1>2, CostOfRest
<1> HIDE DEF rest, w
<1>7. w.entries = rest
  BY <1>3 DEF LogOK
<1> QED
  BY <1>2, <1>3, <1>4, <1>5, <1>6, <1>7 DEF rest, w

\* What is left of a log is a log, without an expired request in front.
LEMMA EvictIs ==
    ASSUME NEW s, LogOK(s), NEW now \in Int
    PROVE  LET w == Evict(s, now) IN
           /\ LogOK(w) /\ w.present = s.present /\ w.at = s.at /\ w.amount <= s.amount
           /\ \A i \in 1 .. Len(w.entries) : \E k \in 1 .. Len(s.entries) : w.entries[i] = s.entries[k]
           /\ w.entries # <<>> => ~Expired(w.entries[1], now)
           /\ w.entries = <<>> => w.amount = 0
           /\ (\A i \in 1 .. Len(s.entries) : Expired(s.entries[i], now)) => w.entries = <<>>
           /\ (s.entries # <<>> => ~Expired(s.entries[1], now)) => w = s
<1> DEFINE e == s.entries
           w == Evict(s, now)
<1>1. e \in Seq(Requests) /\ s.amount = CostOf(e, Len(e)) /\ s.amount \in Nat
  BY DEF LogOK
<1>2. PICK n \in 0 .. Len(e) :
        /\ \A j \in 1 .. n : Expired(e[j], now)
        /\ n < Len(e) => ~Expired(e[n + 1], now)
        /\ w = [s EXCEPT !.entries = SubSeq(e, n + 1, Len(e)), !.amount = s.amount - CostOf(e, n)]
  <2>1. \E n \in 0 .. Len(s.entries) :
          /\ \A j \in 1 .. n : Expired(s.entries[j], now)
          /\ n < Len(s.entries) => ~Expired(s.entries[n + 1], now)
          /\ Evict(s, now) = [s EXCEPT !.entries = SubSeq(s.entries, n + 1, Len(s.entries)),
                                       !.amount = s.amount - CostOf(s.entries, n)]
    BY EvictsFront
  <2> QED
    BY <2>1
<1> DEFINE rest == SubSeq(e, n + 1, Len(e))
<1>3. w = [s EXCEPT !.entries = rest, !.amount = s.amount - CostOf(e, n)]
  BY <1>2
<1>4. \A j \in 1 .. n : Expired(e[j], now)
  BY <1>2
<1>5. n < Len(e) => ~Expired(e[n + 1], now)
  BY <1>2
<1>6. /\ rest \in Seq(Requests) /\ Len(rest) = Len(e) - n
      /\ \A k \in 1 .. Len(rest) : rest[k] = e[k + n]
      /\ CostOf(rest, Len(rest)) = CostOf(e, Len(e)) - CostOf(e, n)
      /\ CostOf(e, Len(e)) - CostOf(e, n) \in Nat
  BY <1>1, <1>2, CostOfRest
<1> HIDE DEF rest, w
<1>7. w.entries = rest /\ w.amount = s.amount - CostOf(e, n) /\ w.present = s.present /\ w.at = s.at
  BY <1>3 DEF LogOK
<1>8. LogOK(w)
  BY <1>1, <1>3, <1>6, <1>7 DEF LogOK
<1>9. w.amount <= s.amount
  <2>1. CostOf(e, n) \in Nat
    BY <1>1, <1>2, CostSteps
  <2> QED
    BY <1>1, <1>7, <2>1
<1>10. \A i \in 1 .. Len(w.entries) : \E k \in 1 .. Len(e) : w.entries[i] = e[k]
  <2>1. ASSUME NEW i \in 1 .. Len(rest) PROVE i + n \in 1 .. Len(e) /\ rest[i] = e[i + n]
    BY <1>1, <1>2, <1>6
  <2> QED
    BY <1>7, <2>1
<1>11. w.entries # <<>> => ~Expired(w.entries[1], now)
  <2> SUFFICES ASSUME rest # <<>> PROVE ~Expired(rest[1], now)
    BY <1>7
  <2>1. 1 \in 1 .. Len(rest) /\ n < Len(e) /\ rest[1] = e[1 + n] /\ 1 + n = n + 1
    <3>1. Len(e) \in Nat /\ n \in Nat
      BY <1>1
    <3>2. Len(rest) # 0
      BY <1>6
    <3> QED
      BY <1>6, <3>1, <3>2
  <2> QED
    BY <1>5, <2>1
<1>12. w.entries = <<>> => w.amount = 0
  <2>1. w.amount = CostOf(rest, Len(rest))
    BY <1>1, <1>6, <1>7
  <2>2. rest = <<>> => Len(rest) = 0
    OBVIOUS
  <2> QED
    BY <1>6, <1>7, <2>1, <2>2, CostSteps
<1>13. (\A i \in 1 .. Len(e) : Expired(e[i], now)) => w.entries = <<>>
  <2> SUFFICES ASSUME \A i \in 1 .. Len(e) : Expired(e[i], now) PROVE rest = <<>>
    BY <1>7
  <2>1. ~(n < Len(e))
    <3>1. n < Len(e) => n + 1 \in 1 .. Len(e)
      BY <1>1, <1>2
    <3> QED
      BY <1>5, <3>1
  <2>2. Len(rest) = 0
    BY <1>1, <1>2, <1>6, <2>1
  <2> QED
    BY <1>6, <2>2
<1>14. (e # <<>> => ~Expired(e[1], now)) => w = s
  <2> SUFFICES ASSUME e # <<>> => ~Expired(e[1], now) PROVE w = s
    OBVIOUS
  <2>1. n = 0
    <3>1. e = <<>> => n = 0
      BY <1>2
    <3>2. n # 0 => 1 \in 1 .. n
      BY <1>2
    <3> QED
      BY <1>4, <3>1, <3>2
  <2>2. rest = e /\ CostOf(e, n) = 0
    <3>1. CostOf(e, n) = 0
      BY <1>1, <2>1, CostSteps
    <3>2. rest = e
      BY <1>1, <2>1 DEF rest
    <3> QED
      BY <3>1, <3>2
  <2>3. s.amount - 0 = s.amount
    BY <1>1
  <2> QED
    BY <1>3, <2>2, <2>3 DEF LogOK
<1> QED
  BY <1>7, <1>8, <1>9, <1>10, <1>11, <1>12, <1>13, <1>14 DEF w

\* The limiter around it.
LimiterTypes ==
    /\ strategy \in Strategies /\ burst \in {NoBurst} \cup BurstLimits
    /\ blocked \in {NoBlock} \cup Nat /\ sweeping \in BOOLEAN
    /\ time \in Times /\ skew \in 0..MaxSkew
    /\ granted \in [Times -> Nat] /\ held \in Nat

Entries == [present : BOOLEAN, amount : Nat, at : Nat, entries : Seq(Requests)]

\* An entry of the key, strategy by strategy, as check(), a read and cleanup() leave it.  Nothing
\* in it is stamped later than the clock would be, had it never been set back.
EntrySound(s) ==
    /\ s \in Entries
    /\ strategy \in Logs => LogOK(s)
    /\ s.at <= MaxSkew + time
    /\ ~s.present => s = NoEntry
    /\ strategy = "token-bucket" => s.amount <= BucketSize * Window
    /\ strategy = "fixed-window" => s.amount <= MaxRequests
    /\ IF strategy \in Logs
         THEN /\ s.amount <= Capacity
              /\ \A i \in 1 .. Len(s.entries) :
                   s.entries[i].at <= MaxSkew + time /\ s.entries[i].cost \in Costs
         ELSE s.entries = <<>>

\* The inductive invariant.
LimiterInv == LimiterTypes /\ EntrySound(state)

\* The limits are positive numbers.
LEMMA LimitsAre ==
    ASSUME LimiterTypes
    PROVE  /\ Window \in Nat \ {0} /\ MaxRequests \in Nat \ {0}
           /\ QueueLimit \in Nat \ {0} /\ Capacity \in Nat \ {0} /\ BucketSize \in Nat \ {0}
           /\ (strategy = "token-bucket" => Capacity = BucketSize)
           /\ TwoWindows \in Nat /\ TwoWindows >= 2 * MaxRequests /\ TwoWindows >= BucketSize
           /\ Now \in Nat /\ Now <= MaxSkew + time /\ time \in Nat /\ MaxSkew \in Nat /\ MaxTime \in Nat
           /\ MaxSkew + time <= Now + MaxSkew /\ time <= MaxTime
<1>1. Window \in Nat \ {0} /\ MaxRequests \in Nat \ {0} /\ QueueLimit \in Nat \ {0}
      /\ BurstLimits \subseteq Nat \ {0} /\ MaxTime \in Nat /\ MaxSkew \in Nat
  BY LimitsAssumption
<1>2. BucketSize \in Nat \ {0}
  BY <1>1 DEF BucketSize, NoBurst, LimiterTypes
<1>3. /\ Capacity \in Nat \ {0} /\ (strategy = "token-bucket" => Capacity = BucketSize)
      /\ TwoWindows \in Nat /\ TwoWindows >= 2 * MaxRequests /\ TwoWindows >= BucketSize
  BY <1>1, <1>2 DEF Capacity, TwoWindows, Larger
<1>4. /\ Now \in Nat /\ Now <= MaxSkew + time /\ time \in Nat
      /\ MaxSkew + time <= Now + MaxSkew /\ time <= MaxTime
  BY <1>1 DEF LimiterTypes, Times, Now
<1> QED
  BY <1>1, <1>2, <1>3, <1>4

\* The window of a moment begins no later than it, and less than a window before.
LEMMA WindowIs ==
    ASSUME NEW now \in Nat, Window \in Nat \ {0}
    PROVE  /\ WindowStart(now) \in Nat /\ WindowStart(now) <= now
           /\ now < WindowStart(now) + Window
BY DEF WindowStart

\* An empty log costs nothing.
LEMMA NoEntryIs == NoEntry \in Entries /\ LogOK(NoEntry)
<1>1. <<>> \in Seq(Requests) /\ Len(<<>>) = 0
  OBVIOUS
<1>2. CostOf(<<>>, 0) = 0
  BY <1>1, CostSteps
<1> QED
  BY <1>1, <1>2 DEF NoEntry, Entries, LogOK

\* A refill only adds, at most maxRequests per window, and stops at a full bucket.
LEMMA BucketIs ==
    ASSUME NEW s \in Entries, NEW now \in Nat, LimiterTypes, s.amount <= BucketSize * Window
    PROVE  LET b == Bucket(s, now) IN
           /\ b \in Entries /\ b.present
           /\ b.amount \in Nat /\ b.amount <= BucketSize * Window
           /\ b.entries = (IF s.present THEN s.entries ELSE <<>>)
           /\ s.present => b.at \in {s.at, now}
           /\ ~s.present => b.at = now /\ b.amount = BucketSize * Window
           /\ s.present /\ now > s.at => /\ b.amount <= s.amount + (now - s.at) * MaxRequests
                                         /\ (now - s.at) * MaxRequests >= BucketSize * Window
                                              => b.amount = BucketSize * Window
<1> DEFINE full == BucketSize * Window
           more == (now - s.at) * MaxRequests
           b == Bucket(s, now)
<1>1. Window \in Nat \ {0} /\ MaxRequests \in Nat \ {0} /\ BucketSize \in Nat \ {0}
  BY LimitsAre
<1>2. full \in Nat
  BY <1>1
<1>3. s.at \in Nat /\ s.amount \in Nat /\ s.amount <= full /\ s.entries \in Seq(Requests) /\ s.present \in BOOLEAN
  BY DEF Entries
<1>4. now > s.at => more \in Nat
  <2>1. now > s.at => now - s.at \in Nat
    BY <1>3
  <2> QED
    BY <1>1, <2>1
<1> HIDE DEF full, more
<1>6. CASE ~s.present
  <2>1. b = [NoEntry EXCEPT !.present = TRUE, !.amount = full, !.at = now]
    BY <1>6 DEF Bucket, full
  <2>2. /\ b \in Entries /\ b.present /\ b.amount = full /\ b.entries = <<>> /\ b.at = now
    <3>1. NoEntry = [present |-> FALSE, amount |-> 0, at |-> 0, entries |-> <<>>]
      BY DEF NoEntry
    <3>2. b = [present |-> TRUE, amount |-> full, at |-> now, entries |-> <<>>]
      BY <2>1, <3>1
    <3>3. <<>> \in Seq(Requests)
      OBVIOUS
    <3> HIDE DEF b
    <3> QED
      BY <1>2, <3>2, <3>3 DEF Entries
  <2>3. full = BucketSize * Window /\ full <= full
    BY <1>2 DEF full
  <2> HIDE DEF b
  <2>4. b.amount \in Nat /\ b.amount <= BucketSize * Window /\ b.amount = BucketSize * Window
    BY <1>2, <2>2, <2>3
  <2>5. b.entries = (IF s.present THEN s.entries ELSE <<>>)
    BY <1>6, <2>2
  <2> QED
    BY <1>6, <2>2, <2>4, <2>5 DEF b
<1>7. CASE s.present /\ now <= s.at
  <2>1. b = s
    BY <1>7 DEF Bucket
  <2> QED
    BY <1>3, <1>7, <2>1 DEF full
<1>8. CASE s.present /\ now > s.at
  <2>1. b = [s EXCEPT !.amount = Smaller(full, s.amount + more), !.at = now]
    BY <1>3, <1>8 DEF Bucket, full, more
  <2>2. /\ Smaller(full, s.amount + more) \in Nat /\ Smaller(full, s.amount + more) <= full
        /\ Smaller(full, s.amount + more) <= s.amount + more
        /\ more >= full => Smaller(full, s.amount + more) = full
    BY <1>2, <1>3, <1>4, <1>8 DEF Smaller
  <2>3. b \in Entries /\ b.present /\ b.amount = Smaller(full, s.amount + more)
        /\ b.entries = s.entries /\ b.at = now
    BY <1>3, <1>8, <2>1, <2>2 DEF Entries
  <2> HIDE DEF b
  <2> QED
    BY <1>3, <1>8, <2>2, <2>3 DEF full, more, b
<1> QED
  BY <1>3, <1>6, <1>7, <1>8

\* A key nothing is known of.
LEMMA NoEntrySound ==
    ASSUME LimiterTypes
    PROVE  EntrySound(NoEntry)
<1>1. NoEntry.present = FALSE /\ NoEntry.amount = 0 /\ NoEntry.at = 0 /\ NoEntry.entries = <<>>
  BY DEF NoEntry
<1>2. Len(NoEntry.entries) = 0
  BY <1>1
<1>3. BucketSize * Window \in Nat
  BY LimitsAre
<1> QED
  BY <1>1, <1>2, <1>3, NoEntryIs, LimitsAre DEF EntrySound

\* Eviction keeps a log sound.
LEMMA EvictSound ==
    ASSUME LimiterTypes, strategy \in Logs, NEW s, EntrySound(s), s.present, NEW now \in Nat
    PROVE  EntrySound(Evict(s, now)) /\ LogOK(s) /\ LogOK(Evict(s, now)) /\ Evict(s, now).present
<1>1. LogOK(s) /\ s \in Entries /\ now \in Int
  BY DEF EntrySound
<1>2. PICK w : /\ w = Evict(s, now)
               /\ LogOK(w) /\ w.present = s.present /\ w.at = s.at /\ w.amount <= s.amount
               /\ \A i \in 1 .. Len(w.entries) : \E k \in 1 .. Len(s.entries) : w.entries[i] = s.entries[k]
  <2>1. LET w == Evict(s, now) IN
        /\ LogOK(w) /\ w.present = s.present /\ w.at = s.at /\ w.amount <= s.amount
        /\ \A i \in 1 .. Len(w.entries) : \E k \in 1 .. Len(s.entries) : w.entries[i] = s.entries[k]
    BY <1>1, EvictIs
  <2> QED
    BY <2>1, Zenon
<1>3. w \in Entries /\ w.amount \in Nat /\ s.amount \in Nat
  BY <1>1, <1>2 DEF LogOK, Entries
<1>4. w.amount <= Capacity
  BY <1>2, <1>3, LimitsAre DEF EntrySound
<1>5. \A i \in 1 .. Len(w.entries) : w.entries[i].at <= MaxSkew + time /\ w.entries[i].cost \in Costs
  BY <1>2 DEF EntrySound
<1>6. strategy # "token-bucket" /\ strategy # "fixed-window"
  BY DEF Logs
<1>7. EntrySound(w)
  BY <1>2, <1>3, <1>4, <1>5, <1>6 DEF EntrySound
<1> QED
  BY <1>1, <1>2, <1>7

\* What the parameters of a check are.
LEMMA CheckArgs ==
    ASSUME LimiterTypes, EntrySound(state), NEW cost \in Costs
    PROVE  /\ cost \in Nat \ {0} /\ Now \in Nat /\ Now <= MaxSkew + time /\ state \in Entries
           /\ Window \in Nat \ {0} /\ MaxRequests \in Nat \ {0} /\ strategy \in Strategies
BY LimitsAre, LimitsAssumption DEF EntrySound, LimiterTypes

\* A bucket after a read, as the limiter keeps it.
LEMMA BucketSound ==
    ASSUME LimiterTypes, EntrySound(state), strategy = "token-bucket"
    PROVE  EntrySound(Bucket(state, Now)) /\ Bucket(state, Now).present
<1>1. PICK b : /\ b = Bucket(state, Now)
               /\ b \in Entries /\ b.present
               /\ b.amount \in Nat /\ b.amount <= BucketSize * Window
               /\ b.entries = (IF state.present THEN state.entries ELSE <<>>)
               /\ b.at \in {state.at, Now}
  <2>1. state \in Entries /\ Now \in Nat /\ state.amount <= BucketSize * Window
    BY LimitsAre DEF EntrySound
  <2>2. state.present \in BOOLEAN
    BY <2>1 DEF Entries
  <2> QED
    BY <2>1, <2>2, BucketIs
<1>2. b.entries = <<>> /\ b.at <= MaxSkew + time
  BY <1>1, LimitsAre DEF EntrySound, Logs
<1> QED
  BY <1>1, <1>2 DEF EntrySound, Logs

\* Tokens that are taken.
LEMMA TokensSound ==
    ASSUME LimiterTypes, EntrySound(state), NEW cost \in Costs, strategy = "token-bucket",
           NEW r, r = TakeTokens(state, cost, Now)
    PROVE  EntrySound(r.s) /\ r.ok \in BOOLEAN
<1>1. PICK b : b = Bucket(state, Now) /\ EntrySound(b) /\ b.present
  BY BucketSound
<1>2. PICK c \in Nat : c = cost * Window
  BY CheckArgs
<1>3. r = IF b.amount < c THEN [ok |-> FALSE, s |-> b]
                          ELSE [ok |-> TRUE, s |-> [b EXCEPT !.amount = b.amount - c]]
  BY <1>1, <1>2 DEF TakeTokens
<1>4. b \in Entries /\ b.amount \in Nat /\ b.amount <= BucketSize * Window
  BY <1>1 DEF EntrySound, Entries
<1>5. CASE b.amount < c
  BY <1>1, <1>3, <1>5
<1>6. CASE ~(b.amount < c)
  <2>1. b.amount - c \in Nat /\ b.amount - c <= BucketSize * Window
    <3>1. BucketSize * Window \in Nat
      BY LimitsAre
    <3> QED
      BY <1>2, <1>4, <1>6, <3>1
  <2>2. r = [ok |-> TRUE, s |-> [b EXCEPT !.amount = b.amount - c]]
    BY <1>3, <1>6
  <2>3. /\ r.s \in Entries /\ r.s.present /\ r.s.amount = b.amount - c /\ r.s.at = b.at
        /\ r.s.entries = b.entries /\ r.ok = TRUE
    BY <1>1, <1>4, <2>1, <2>2 DEF Entries
  <2> QED
    BY <1>1, <2>1, <2>3 DEF EntrySound, Logs
<1> QED
  BY <1>5, <1>6

\* A request that is counted in its window.
LEMMA CountSound ==
    ASSUME LimiterTypes, EntrySound(state), NEW cost \in Costs, strategy = "fixed-window",
           NEW r, r = CountRequest(state, cost, Now)
    PROVE  EntrySound(r.s) /\ r.ok \in BOOLEAN
<1>1. PICK count : count = IF state.present /\ ~WindowOver(state, Now) THEN state.amount ELSE 0
  OBVIOUS
<1>2. count \in Nat /\ count <= MaxRequests
  BY <1>1, CheckArgs DEF EntrySound, Entries
<1>3. PICK start \in Nat : start = WindowStart(Now) /\ start <= MaxSkew + time
  BY WindowIs, LimitsAre
<1>4. r = IF count + cost > MaxRequests
            THEN [ok |-> FALSE, s |-> IF state.present THEN [state EXCEPT !.amount = count, !.at = start]
                                                       ELSE state]
            ELSE [ok |-> TRUE, s |-> [NoEntry EXCEPT !.present = TRUE, !.amount = count + cost, !.at = start]]
  BY <1>1, <1>3 DEF CountRequest
<1>5. CASE count + cost > MaxRequests /\ ~state.present
  <2>1. r = [ok |-> FALSE, s |-> state]
    BY <1>4, <1>5
  <2> QED
    BY <2>1
<1>6. CASE count + cost > MaxRequests /\ state.present
  <2>1. r = [ok |-> FALSE, s |-> [state EXCEPT !.amount = count, !.at = start]]
    BY <1>4, <1>6
  <2>2. /\ r.s \in Entries /\ r.s.present /\ r.s.amount = count /\ r.s.at = start
        /\ r.s.entries = state.entries /\ r.ok = FALSE
    <3>1. state \in Entries
      BY DEF EntrySound
    <3>2. r.s = [state EXCEPT !.amount = count, !.at = start] /\ r.ok = FALSE
      BY <2>1
    <3>3. LET c == [state EXCEPT !.amount = count, !.at = start] IN
          c \in Entries /\ c.present = state.present /\ c.amount = count /\ c.at = start /\ c.entries = state.entries
      BY <1>2, <1>3, <3>1 DEF Entries
    <3> QED
      BY <1>6, <3>2, <3>3, Zenon
  <2> QED
    BY <1>2, <1>3, <2>2 DEF EntrySound, Logs
<1>7. CASE ~(count + cost > MaxRequests)
  <2>1. r = [ok |-> TRUE, s |-> [NoEntry EXCEPT !.present = TRUE, !.amount = count + cost, !.at = start]]
    BY <1>4, <1>7
  <2>2. /\ r.s = [NoEntry EXCEPT !.present = TRUE, !.amount = count + cost, !.at = start]
        /\ r.ok = TRUE /\ NoEntry.entries = <<>>
    BY <2>1 DEF NoEntry
  <2>3. count + cost \in Nat /\ count + cost <= MaxRequests
    BY <1>2, <1>7, CheckArgs
  <2>4. /\ r.s \in Entries /\ r.s.present /\ r.s.amount = count + cost /\ r.s.at = start
        /\ r.s.entries = <<>> /\ r.ok = TRUE
    <3>1. <<>> \in Seq(Requests)
      OBVIOUS
    <3>2. LET c == [NoEntry EXCEPT !.present = TRUE, !.amount = count + cost, !.at = start] IN
          c \in Entries /\ c.present /\ c.amount = count + cost /\ c.at = start /\ c.entries = NoEntry.entries
      BY <1>3, <2>3, <3>1, NoEntryIs DEF Entries
    <3> QED
      BY <2>2, <3>2, Zenon
  <2> QED
    BY <1>3, <2>3, <2>4 DEF EntrySound, Logs
<1> QED
  BY <1>5, <1>6, <1>7

\* A request that is logged.
LEMMA OccupySound ==
    ASSUME LimiterTypes, EntrySound(state), NEW cost \in Costs, strategy \in Logs,
           NEW r, r = Occupy(state, cost, Now)
    PROVE  EntrySound(r.s) /\ r.ok \in BOOLEAN
<1>1. PICK s : s = [state EXCEPT !.present = TRUE]
  OBVIOUS
<1>2. EntrySound(s) /\ s.present
  <2>1. /\ s \in Entries /\ s.present /\ s.amount = state.amount /\ s.at = state.at
        /\ s.entries = state.entries
    BY <1>1, CheckArgs DEF Entries
  <2> QED
    BY <2>1 DEF EntrySound, LogOK, Entries
<1>3. PICK w : w = Evict(s, Now) /\ EntrySound(w) /\ LogOK(w) /\ w.present
  BY <1>2, EvictSound, CheckArgs
<1>4. PICK x \in Requests : x = [at |-> Now, cost |-> cost]
  BY CheckArgs DEF Requests
<1>5. r = IF w.amount + cost > Capacity
            THEN [ok |-> FALSE, s |-> w]
            ELSE [ok |-> TRUE, s |-> [w EXCEPT !.amount = w.amount + cost,
                                               !.entries = Append(w.entries, x)]]
  BY <1>1, <1>3, <1>4, Zenon DEF Occupy
<1>6. CASE w.amount + cost > Capacity
  BY <1>3, <1>5, <1>6
<1>7. CASE ~(w.amount + cost > Capacity)
  <2>1. PICK e : e = w.entries
    OBVIOUS
  <2>2. w \in Entries /\ e \in Seq(Requests) /\ w.amount \in Nat
    BY <1>3, <2>1 DEF EntrySound, Entries
  <2>3. x.at <= MaxSkew + time /\ x.cost = cost
    BY <1>4, CheckArgs
  <2>4. /\ Append(e, x) \in Seq(Requests) /\ Len(Append(e, x)) = Len(e) + 1
        /\ \A i \in 1 .. Len(e) + 1 : Append(e, x)[i] = x \/ (i \in 1 .. Len(e) /\ Append(e, x)[i] = e[i])
    BY <2>2
  <2>5. PICK more \in Seq(Requests) :
          /\ more = Append(e, x) /\ CostOf(more, Len(more)) = w.amount + cost
          /\ \A i \in 1 .. Len(more) : more[i] = x \/ \E k \in 1 .. Len(e) : more[i] = e[k]
    <3>1. CostOf(Append(e, x), Len(e) + 1) = w.amount + cost
      BY <1>3, <2>1, <2>2, <2>3, CostOfMore DEF LogOK
    <3> QED
      BY <2>4, <3>1
  <2>6. r = [ok |-> TRUE, s |-> [w EXCEPT !.amount = w.amount + cost, !.entries = more]]
    BY <1>5, <1>7, <2>1, <2>5
  <2>7. w.amount + cost \in Nat /\ w.amount + cost <= Capacity
    <3>1. cost \in Nat /\ Capacity \in Nat
      BY CheckArgs, LimitsAre
    <3> QED
      BY <1>7, <2>2, <3>1
  <2>8. /\ r.s \in Entries /\ r.s.present = w.present /\ r.s.amount = w.amount + cost /\ r.s.at = w.at
        /\ r.s.entries = more /\ r.ok = TRUE
    <3>1. PICK total \in Nat : total = w.amount + cost
      BY <2>7
    <3>2. r = [ok |-> TRUE, s |-> [w EXCEPT !.amount = total, !.entries = more]]
      BY <2>6, <3>1
    <3>3. r.s = [w EXCEPT !.amount = total, !.entries = more] /\ r.ok = TRUE
      BY <3>2
    <3>4. r.s \in Entries /\ r.s.present = w.present /\ r.s.amount = total /\ r.s.at = w.at
          /\ r.s.entries = more /\ r.ok = TRUE
      <4>1. LET c == [w EXCEPT !.amount = total, !.entries = more] IN
            c \in Entries /\ c.present = w.present /\ c.amount = total /\ c.at = w.at /\ c.entries = more
        BY <2>2, <2>5, <3>1 DEF Entries
      <4> QED
        BY <3>3, <4>1, Zenon
    <3> QED
      BY <3>1, <3>4
  <2>9. LogOK(r.s)
    BY <2>5, <2>8 DEF LogOK, Entries
  <2>10. \A i \in 1 .. Len(more) : more[i].at <= MaxSkew + time /\ more[i].cost \in Costs
    BY <1>3, <2>1, <2>3, <2>5 DEF EntrySound
  <2>11. strategy # "token-bucket" /\ strategy # "fixed-window" /\ r.s.present
    BY <1>3, <2>8 DEF Logs
  <2> QED
    BY <1>3, <2>7, <2>8, <2>9, <2>10, <2>11 DEF EntrySound
<1> QED
  BY <1>6, <1>7

\* A request that is checked, whatever the strategy.
LEMMA CheckSound ==
    ASSUME LimiterTypes, EntrySound(state), NEW cost \in Costs, NEW r, r = Check(state, cost, Now)
    PROVE  EntrySound(r.s) /\ r.ok \in BOOLEAN
<1>1. CASE strategy = "token-bucket"
  BY <1>1, TokensSound DEF Check, Logs
<1>2. CASE strategy = "fixed-window"
  BY <1>2, CountSound DEF Check, Logs
<1>3. CASE strategy \in Logs
  BY <1>3, OccupySound DEF Check, Logs
<1> QED
  BY <1>1, <1>2, <1>3 DEF LimiterTypes, Strategies, Logs

\* A read.
LEMMA ReadSound ==
    ASSUME LimiterTypes, EntrySound(state)
    PROVE  EntrySound(Read(state, Now))
<1>1. CASE strategy = "token-bucket"
  BY <1>1, BucketSound DEF Read, Logs
<1>2. CASE strategy = "fixed-window"
  BY <1>2 DEF Read, Logs
<1>3. CASE strategy \in Logs /\ state.present
  <2>1. EntrySound(Evict(state, Now))
    BY <1>3, EvictSound, LimitsAre
  <2> QED
    BY <1>3, <2>1 DEF Read, Logs
<1>4. CASE strategy \in Logs /\ ~state.present
  BY <1>4 DEF Read, Logs
<1> QED
  BY <1>1, <1>2, <1>3, <1>4 DEF LimiterTypes, Strategies, Logs

\* Without an entry there is nothing to evict.
LEMMA EvictNothing == ASSUME NEW now \in Int PROVE Evict(NoEntry, now) = NoEntry
<1>1. LogOK(NoEntry) /\ NoEntry.entries = <<>>
  BY NoEntryIs DEF NoEntry
<1> QED
  BY <1>1, EvictIs

\* A sweep.
LEMMA CleanupSound ==
    ASSUME LimiterTypes, EntrySound(state)
    PROVE  EntrySound(Cleanup(state, Now))
<1>1. CASE strategy = "token-bucket"
  BY <1>1, NoEntrySound DEF Cleanup, Logs
<1>2. CASE strategy = "fixed-window"
  BY <1>2, NoEntrySound DEF Cleanup, Logs
<1>3. CASE strategy \in Logs
  <2>1. EntrySound(Evict(state, Now))
    <3>1. CASE state.present
      BY <1>3, <3>1, EvictSound, LimitsAre
    <3>2. CASE ~state.present
      <4>1. state = NoEntry
        BY <3>2 DEF EntrySound
      <4> QED
        BY <4>1, EvictNothing, NoEntrySound, LimitsAre
    <3> QED
      BY <3>1, <3>2
  <2>2. Cleanup(state, Now) \in {NoEntry, Evict(state, Now)}
    BY <1>3 DEF Cleanup, Logs
  <2> QED
    BY <2>1, <2>2, NoEntrySound
<1> QED
  BY <1>1, <1>2, <1>3 DEF LimiterTypes, Strategies, Logs

\* The entry the limiter starts with is none.
LEMMA LimiterStarts ==
    ASSUME LimiterInit
    PROVE  LimiterInv
<1>1. LimiterTypes
  <2>1. granted \in [Times -> Nat] /\ burst \in {NoBurst} \cup BurstLimits
    BY DEF LimiterInit
  <2>2. 0 \in Times /\ 0 \in 0 .. MaxSkew
    BY LimitsAssumption DEF Times
  <2> QED
    BY <2>1, <2>2 DEF LimiterInit, LimiterTypes
<1>2. EntrySound(state)
  BY <1>1, NoEntrySound DEF LimiterInit
<1> QED
  BY <1>1, <1>2 DEF LimiterInv

\* Every step of the limiter keeps its invariant.
LEMMA LimiterStepKeeps == LimiterInv /\ [LimiterNext]_limiterVars => LimiterInv'
<1> SUFFICES ASSUME LimiterInv, [LimiterNext]_limiterVars PROVE LimiterInv'
  OBVIOUS
<1>0. LimiterTypes /\ EntrySound(state) /\ Now \in Nat /\ time \in Nat /\ MaxSkew \in Nat /\ MaxTime \in Nat
  BY LimitsAre DEF LimiterInv
<1>1. LimiterInv' <=> LimiterTypes' /\ EntrySound(state)'
  BY DEF LimiterInv
<1>2. ASSUME time' = time, strategy' = strategy, burst' = burst, EntrySound(state')
      PROVE  EntrySound(state)'
  BY <1>2 DEF EntrySound, BucketSize, Capacity
<1>3. ASSUME NEW cost \in Costs, CheckRateLimit(cost) PROVE LimiterInv'
  <2>1. CASE cost > Capacity
    <3>1. UNCHANGED limiterVars
      BY <1>3, <2>1 DEF CheckRateLimit
    <3>2. LimiterTypes' /\ EntrySound(state')
      BY <1>0, <3>1 DEF limiterVars, LimiterTypes
    <3> QED
      BY <1>1, <1>2, <3>1, <3>2 DEF limiterVars
  <2>2. CASE ~(cost > Capacity)
    <3>1. /\ blocked' = Unblocked(Now)
          /\ \/ UNCHANGED <<state, granted>>
             \/ /\ state' = Check(state, cost, Now).s
                /\ granted' = [granted EXCEPT ![time] = IF Check(state, cost, Now).ok THEN @ + cost ELSE @]
          /\ UNCHANGED <<strategy, burst, sweeping, time, skew, held>>
      BY <1>3, <2>2, Zenon DEF CheckRateLimit
    <3>2. EntrySound(state')
      BY <1>0, <3>1, CheckSound
    <3>3. granted' \in [Times -> Nat]
      <4>1. cost \in Nat
        BY LimitsAssumption
      <4> QED
        BY <1>0, <3>1, <4>1 DEF LimiterTypes
    <3>4. LimiterTypes'
      BY <1>0, <3>1, <3>3 DEF LimiterTypes, Unblocked
    <3> QED
      BY <1>1, <1>2, <3>1, <3>2, <3>4
  <2> QED
    BY <2>1, <2>2
<1>4. ASSUME NEW duration \in Durations, BlockKey(duration) PROVE LimiterInv'
  <2>1. duration \in Nat
    BY LimitsAssumption
  <2>2. LimiterTypes'
    BY <1>0, <1>4, <2>1 DEF BlockKey, LimiterTypes
  <2>3. EntrySound(state')
    BY <1>0, <1>4 DEF BlockKey
  <2> QED
    BY <1>1, <1>2, <1>4, <2>2, <2>3 DEF BlockKey
<1>5. ASSUME GetStatus PROVE LimiterInv'
  <2>1. LimiterTypes'
    BY <1>0, <1>5 DEF GetStatus, LimiterTypes
  <2>2. EntrySound(state')
    BY <1>0, <1>5, ReadSound DEF GetStatus
  <2> QED
    BY <1>1, <1>2, <1>5, <2>1, <2>2 DEF GetStatus
<1>6. ASSUME Reset \/ Dispose PROVE LimiterInv'
  <2>1. LimiterTypes'
    <3>1. granted' = [t \in Times |-> 0] /\ sweeping' \in {sweeping, FALSE}
      BY <1>6 DEF Reset, Dispose
    <3>2. granted' \in [Times -> Nat]
      BY <3>1
    <3>3. sweeping' \in BOOLEAN
      BY <1>0, <3>1 DEF LimiterTypes
    <3>4. blocked' = NoBlock /\ held' = 0 /\ UNCHANGED <<strategy, burst, time, skew>>
      BY <1>6 DEF Reset, Dispose
    <3> QED
      BY <1>0, <3>2, <3>3, <3>4 DEF LimiterTypes
  <2>2. EntrySound(state')
    BY <1>0, <1>6, NoEntrySound DEF Reset, Dispose
  <2> QED
    BY <1>1, <1>2, <1>6, <2>1, <2>2 DEF Reset, Dispose
<1>7. ASSUME Sweep PROVE LimiterInv'
  <2>1. LimiterTypes'
    BY <1>0, <1>7 DEF Sweep, LimiterTypes, Unblocked
  <2>2. EntrySound(state')
    BY <1>0, <1>7, CleanupSound DEF Sweep
  <2> QED
    BY <1>1, <1>2, <1>7, <2>1, <2>2 DEF Sweep
<1>8. ASSUME Tick PROVE LimiterInv'
  <2>1. LimiterTypes' /\ time' = time + 1 /\ UNCHANGED <<strategy, burst, state>>
    BY <1>0, <1>8 DEF Tick, LimiterTypes, Times
  <2>2. EntrySound(state)'
    <3>1. state.at \in Nat
      BY <1>0 DEF EntrySound, Entries
    <3>2. strategy \in Logs => \A i \in 1 .. Len(state.entries) : state.entries[i].at \in Nat
      <4>1. state.entries \in Seq(Requests)
        BY <1>0 DEF EntrySound, Entries
      <4>2. \A i \in 1 .. Len(state.entries) : state.entries[i] \in Requests
        BY <4>1
      <4> QED
        BY <4>2 DEF Requests
    <3> QED
      BY <1>0, <2>1, <3>1, <3>2 DEF EntrySound, BucketSize, Capacity
  <2> QED
    BY <1>1, <2>1, <2>2
<1>9. ASSUME ClockSetBack PROVE LimiterInv'
  <2>1. LimiterTypes'
    BY <1>0, <1>9 DEF ClockSetBack, LimiterTypes
  <2>2. EntrySound(state')
    BY <1>0, <1>9 DEF ClockSetBack
  <2> QED
    BY <1>1, <1>2, <1>9, <2>1, <2>2 DEF ClockSetBack
<1>10. ASSUME UNCHANGED limiterVars PROVE LimiterInv'
  <2>1. LimiterTypes' /\ EntrySound(state')
    BY <1>0, <1>10 DEF limiterVars, LimiterTypes
  <2> QED
    BY <1>1, <1>2, <1>10, <2>1 DEF limiterVars
<1> QED
  BY <1>3, <1>4, <1>5, <1>6, <1>7, <1>8, <1>9, <1>10, Zenon DEF LimiterNext

\* The inductive invariant of the limiter.
THEOREM LimiterInvariance == LimiterSpec => []LimiterInv
<1>1. LimiterInit => LimiterInv
  BY LimiterStarts
<1> QED
  BY <1>1, LimiterStepKeeps, PTL DEF LimiterSpec

\* Every reachable state is well typed.
THEOREM LimiterTypeCorrect == LimiterSpec => []LimiterTypeOK
<1>1. LimiterInv => LimiterTypeOK
  <2> SUFFICES ASSUME LimiterInv PROVE LimiterTypeOK
    OBVIOUS
  <2>1. LimiterTypes /\ EntrySound(state)
    BY DEF LimiterInv
  <2>2. /\ state.present \in BOOLEAN /\ state.amount \in Nat /\ state.at \in Nat
        /\ state.at <= MaxSkew + time
    BY <2>1 DEF EntrySound, Entries
  <2>3. state.amount <= Capacity * Window
    <3>1. /\ Capacity \in Nat \ {0} /\ Window \in Nat \ {0} /\ MaxRequests \in Nat \ {0}
          /\ (strategy = "token-bucket" => Capacity = BucketSize)
      BY <2>1, LimitsAre
    <3>2. Capacity * Window >= Capacity
      BY <3>1
    <3>3. CASE strategy = "token-bucket"
      BY <2>1, <3>1, <3>3 DEF EntrySound
    <3>4. CASE strategy = "fixed-window"
      BY <2>1, <2>2, <3>1, <3>2, <3>4 DEF EntrySound, Capacity
    <3>5. CASE strategy \in Logs
      BY <2>1, <2>2, <3>1, <3>2, <3>5 DEF EntrySound
    <3> QED
      BY <2>1, <3>3, <3>4, <3>5 DEF LimiterTypes, Strategies, Logs
  <2>4. state.at \in 0 .. (MaxSkew + MaxTime) /\ state.amount \in 0 .. (Capacity * Window)
    BY <2>1, <2>2, <2>3, LimitsAre
  <2>5. \A i \in 1 .. Len(state.entries) : state.entries[i].cost \in Costs
    BY <2>1 DEF EntrySound
  <2> QED
    BY <2>1, <2>2, <2>4, <2>5 DEF LimiterTypeOK, LimiterTypes
<1> QED
  BY LimiterInvariance, <1>1, PTL

-----------------------------------------------------------------------------
(* What a sweep and a retry do. *)

\* The sweep only bounds memory: a window that is dropped would have been restarted, of a log
\* only what has expired goes, and a bucket that is dropped comes back full, as it would have
\* been by now if two windows fill it.
LEMMA SweepIs == ASSUME LimiterInv PROVE SweepInvisible
<1>0. LimiterTypes /\ EntrySound(state) /\ state \in Entries /\ Now \in Nat
  BY LimitsAre DEF LimiterInv, EntrySound
<1>1. NoEntry.present = FALSE /\ NoEntry.amount = 0
  BY DEF NoEntry
<1>2. CASE strategy = "token-bucket"
  <2>0. \A s : Remaining(s, Now) = Bucket(s, Now).amount
    BY <1>2 DEF Remaining, Read, Logs
  <2>1. PICK full \in Nat, left \in Nat :
          full = BucketSize * Window /\ left = Bucket(state, Now).amount /\ left <= full
    <3>1. state.amount <= BucketSize * Window /\ BucketSize * Window \in Nat
      BY <1>0, <1>2, LimitsAre DEF EntrySound
    <3>2. Bucket(state, Now).amount \in Nat /\ Bucket(state, Now).amount <= BucketSize * Window
      BY <1>0, <3>1, BucketIs
    <3> QED
      BY <3>1, <3>2
  <2>2. CASE state.present /\ BucketIdle(state, Now)
    <3>1. Cleanup(state, Now) = NoEntry
      BY <1>2, <2>2 DEF Cleanup, Logs
    <3>2. Bucket(NoEntry, Now).amount = full
      <4>1. NoEntry.amount <= BucketSize * Window
        BY <1>1, <2>1
      <4> QED
        BY <1>0, <1>1, <2>1, <4>1, NoEntryIs, BucketIs
    <3>3. ModestBurst => left = full
      <4> SUFFICES ASSUME ModestBurst PROVE left = full
        OBVIOUS
      <4>1. Window \in Nat \ {0} /\ MaxRequests \in Nat /\ BucketSize \in Nat /\ BucketSize <= 2 * MaxRequests
        BY <1>0, LimitsAre DEF ModestBurst
      <4>2. PICK gap \in Nat : gap = Now - state.at /\ gap >= 2 * Window /\ Now > state.at
        BY <1>0, <2>2, <4>1 DEF BucketIdle, Entries
      <4>3. gap * MaxRequests >= (2 * Window) * MaxRequests
        BY <4>1, <4>2
      <4>4. (2 * Window) * MaxRequests = (2 * MaxRequests) * Window
        BY <4>1
      <4>5. (2 * MaxRequests) * Window >= BucketSize * Window
        BY <4>1
      <4>6. gap * MaxRequests >= BucketSize * Window
        <5>1. PICK x \in Nat, y \in Nat, z \in Nat :
                x = gap * MaxRequests /\ y = (2 * Window) * MaxRequests /\ z = BucketSize * Window
          BY <4>1, <4>2
        <5> QED
          BY <4>3, <4>4, <4>5, <5>1
      <4>7. state.amount <= BucketSize * Window
        BY <1>0, <1>2 DEF EntrySound
      <4> QED
        BY <1>0, <2>1, <2>2, <4>2, <4>6, <4>7, BucketIs
    <3> QED
      BY <1>2, <2>0, <2>1, <3>1, <3>2, <3>3 DEF SweepInvisible
  <2>3. CASE ~(state.present /\ BucketIdle(state, Now))
    <3>1. Cleanup(state, Now) = state
      BY <1>2, <2>3 DEF Cleanup, Logs
    <3> QED
      BY <2>0, <2>1, <3>1 DEF SweepInvisible
  <2> QED
    BY <2>2, <2>3
<1> DEFINE Unseen == /\ Remaining(state, Now) \in Int
                     /\ Remaining(Cleanup(state, Now), Now) = Remaining(state, Now)
<1>3. ASSUME strategy = "fixed-window" PROVE Unseen
  <2>0. MaxRequests \in Nat /\ state.amount \in Nat
    BY <1>0, LimitsAre DEF Entries
  <2>3. \A s : Remaining(s, Now) =
          IF s.present /\ ~WindowOver(s, Now) THEN MaxRequests - s.amount ELSE MaxRequests
    BY <1>3 DEF Remaining, Read, Logs
  <2>4. Remaining(state, Now) \in Int
    BY <2>0, <2>3
  <2>1. CASE WindowOver(state, Now)
    <3>1. Cleanup(state, Now) = NoEntry
      BY <1>3, <2>1 DEF Cleanup, Logs
    <3> QED
      BY <1>1, <2>1, <2>3, <2>4, <3>1
  <2>2. CASE ~WindowOver(state, Now)
    <3>1. Cleanup(state, Now) = state
      BY <1>3, <2>2 DEF Cleanup, Logs
    <3> QED
      BY <2>4, <3>1
  <2> QED
    BY <2>1, <2>2
<1>4. ASSUME strategy \in Logs PROVE Unseen
  <2>0. Capacity \in Nat
    BY <1>0, LimitsAre
  <2>1. \A s : Remaining(s, Now) = Capacity - (IF s.present THEN Evict(s, Now) ELSE s).amount
    BY <1>4 DEF Remaining, Read, Logs
  <2>2. Cleanup(state, Now) = IF Evict(state, Now).entries = <<>> THEN NoEntry ELSE Evict(state, Now)
    BY <1>4 DEF Cleanup, Logs
  <2>3. CASE ~state.present
    <3>1. state = NoEntry /\ Evict(NoEntry, Now) = NoEntry
      BY <1>0, <2>3, EvictNothing DEF EntrySound
    <3>2. Cleanup(state, Now) = state
      BY <2>2, <3>1
    <3>3. Remaining(state, Now) = Capacity - 0
      BY <1>1, <2>1, <2>3, <3>1
    <3> QED
      BY <2>0, <3>2, <3>3
  <2>4. CASE state.present
    <3>1. LogOK(state) /\ Now \in Int
      BY <1>0, <1>4 DEF EntrySound
    <3>2. PICK w : /\ w = Evict(state, Now) /\ LogOK(w) /\ w.present
                   /\ w.entries # <<>> => ~Expired(w.entries[1], Now)
                   /\ w.entries = <<>> => w.amount = 0
      <4>1. LET w == Evict(state, Now) IN
            /\ LogOK(w) /\ w.present = state.present
            /\ w.entries # <<>> => ~Expired(w.entries[1], Now)
            /\ w.entries = <<>> => w.amount = 0
        BY <3>1, EvictIs
      <4> QED
        BY <2>4, <4>1, Zenon
    <3>3. Remaining(state, Now) = Capacity - w.amount /\ w.amount \in Nat
      BY <2>1, <2>4, <3>2 DEF LogOK
    <3>4. CASE w.entries = <<>>
      <4>1. Cleanup(state, Now) = NoEntry
        BY <2>2, <3>2, <3>4
      <4>2. Remaining(NoEntry, Now) = Capacity - 0 /\ w.amount = 0
        BY <1>1, <2>1, <3>2, <3>4
      <4> QED
        BY <2>0, <3>3, <4>1, <4>2
    <3>5. CASE w.entries # <<>>
      <4>1. Cleanup(state, Now) = w
        BY <2>2, <3>2, <3>5
      <4>2. Evict(w, Now) = w
        BY <3>1, <3>2, EvictIs
      <4>3. Remaining(w, Now) = Capacity - w.amount
        BY <2>1, <3>2, <4>2
      <4> QED
        BY <2>0, <3>3, <4>1, <4>3
    <3> QED
      BY <3>4, <3>5
  <2> QED
    BY <2>3, <2>4
<1>5. ASSUME strategy # "token-bucket" PROVE SweepInvisible
  <2>1. Unseen
    BY <1>0, <1>3, <1>4, <1>5 DEF LimiterTypes, Strategies, Logs
  <2> QED
    BY <2>1 DEF SweepInvisible
<1> QED
  BY <1>2, <1>5

\* What a quotient leaves out is less than its divisor.
LEMMA Quotient ==
    ASSUME NEW n \in Nat, NEW m \in Nat \ {0}
    PROVE  n \div m \in Nat /\ n < m * (n \div m + 1)
OBVIOUS

\* A request that fits is admitted once everything the limiter holds of the key is two windows
\* old by its clock, however far that was set back, and its bucket has had the time to fill.
LEMMA RetryIs == ASSUME LimiterInv PROVE RetryHelps
<1>0. /\ LimiterTypes /\ EntrySound(state) /\ state \in Entries /\ Now \in Nat /\ Window \in Nat \ {0}
      /\ MaxRequests \in Nat \ {0} /\ Capacity \in Nat \ {0} /\ MaxSkew \in Nat /\ time \in Nat
      /\ MaxSkew + time <= Now + MaxSkew /\ state.at \in Nat /\ state.at <= MaxSkew + time
  BY LimitsAre DEF LimiterInv, EntrySound, Entries
<1> SUFFICES ASSUME NEW cost \in Costs, cost <= Capacity
             PROVE  \E wait \in 0..(MaxSkew + Patience) : Check(state, cost, Now + wait).ok
  BY DEF RetryHelps
<1>1. cost \in Nat \ {0}
  BY LimitsAssumption
<1>2. PICK wait \in Nat : wait = MaxSkew + Patience /\ wait > MaxSkew + 2 * Window
  <2>1. BucketSize * Window \in Nat
    BY <1>0, LimitsAre
  <2>2. PICK turns \in Nat : turns = (BucketSize * Window) \div MaxRequests
    <3>1. PICK full \in Nat : full = BucketSize * Window
      BY <2>1
    <3>2. full \div MaxRequests \in Nat
      BY <1>0, Quotient
    <3> QED
      BY <3>1, <3>2
  <2>3. Patience = Larger(2 * Window, turns) + 1
    BY <2>2 DEF Patience
  <2>4. Patience \in Nat /\ Patience > 2 * Window
    BY <1>0, <2>3 DEF Larger
  <2> QED
    BY <1>0, <2>4
<1>3. PICK now \in Nat : now = Now + wait
  BY <1>0
<1>4. /\ now - state.at > 2 * Window
      /\ \A t \in Nat : t <= MaxSkew + time => now - t > 2 * Window
  BY <1>0, <1>2, <1>3
<1>5. CASE strategy = "token-bucket"
  <2>1. state.amount <= BucketSize * Window
    BY <1>0, <1>5 DEF EntrySound
  <2>2. Bucket(state, now).amount = BucketSize * Window
    <3>1. PICK full \in Nat : full = BucketSize * Window
      BY <1>0, LimitsAre
    <3>2. PICK turns \in Nat : turns = full \div MaxRequests /\ full < MaxRequests * (turns + 1)
      BY <1>0, <3>1, Quotient
    <3>3. PICK gap \in Nat : gap = now - state.at /\ gap >= turns + 1
      <4>1. Patience >= turns + 1 /\ Patience \in Nat
        BY <1>0, <3>1, <3>2 DEF Patience, Larger
      <4> QED
        BY <1>0, <1>2, <1>3, <4>1
    <3>4. gap * MaxRequests >= MaxRequests * (turns + 1)
      <4>1. PICK more \in Nat : gap = (turns + 1) + more
        BY <3>3
      <4>2. gap * MaxRequests = MaxRequests * (turns + 1) + more * MaxRequests /\ more * MaxRequests \in Nat
            /\ MaxRequests * (turns + 1) \in Nat
        BY <1>0, <4>1
      <4> QED
        BY <4>2
    <3>5. gap * MaxRequests >= BucketSize * Window
      <4>1. PICK x \in Nat, y \in Nat : x = gap * MaxRequests /\ y = MaxRequests * (turns + 1)
        BY <1>0, <3>3
      <4> QED
        BY <3>1, <3>2, <3>4, <4>1
    <3>6. now > state.at /\ (now - state.at) * MaxRequests >= BucketSize * Window
      BY <1>0, <3>3, <3>5
    <3>7. state.present \in BOOLEAN
      BY <1>0 DEF Entries
    <3> QED
      BY <1>0, <2>1, <3>6, <3>7, BucketIs
  <2>3. Capacity = BucketSize
    BY <1>0, <1>5, LimitsAre
  <2>4. cost * Window <= Capacity * Window
    BY <1>0, <1>1
  <2>5. ~(Bucket(state, now).amount < cost * Window)
    <3>1. PICK a \in Nat, b \in Nat : a = cost * Window /\ b = Capacity * Window
      BY <1>0, <1>1
    <3> QED
      BY <2>2, <2>3, <2>4, <3>1
  <2>6. TakeTokens(state, cost, now).ok
    BY <2>5 DEF TakeTokens
  <2>7. Check(state, cost, now).ok
    BY <1>5, <2>6 DEF Check, Logs
  <2> QED
    BY <1>2, <1>3, <2>7
<1>6. CASE strategy = "fixed-window"
  <2>1. WindowStart(now) > state.at
    BY <1>0, <1>4, WindowIs
  <2>2. state.present => WindowOver(state, now)
    BY <1>0, <2>1 DEF WindowOver
  <2>3. Capacity = MaxRequests
    BY <1>6 DEF Capacity
  <2>4. ~(0 + cost > MaxRequests)
    BY <1>0, <1>1, <2>3
  <2>5. CountRequest(state, cost, now).ok
    BY <2>2, <2>4 DEF CountRequest
  <2>6. Check(state, cost, now).ok
    BY <1>6, <2>5 DEF Check, Logs
  <2> QED
    BY <1>2, <1>3, <2>6
<1>7. CASE strategy \in Logs
  <2>1. PICK s : /\ s = [state EXCEPT !.present = TRUE]
                 /\ s \in Entries /\ s.amount = state.amount /\ s.entries = state.entries
    BY <1>0 DEF Entries
  <2>2. LogOK(s)
    BY <1>0, <1>7, <2>1 DEF EntrySound, LogOK, Entries
  <2>3. \A i \in 1 .. Len(s.entries) : Expired(s.entries[i], now)
    <3> SUFFICES ASSUME NEW i \in 1 .. Len(s.entries) PROVE Expired(s.entries[i], now)
      OBVIOUS
    <3>1. s.entries \in Seq(Requests)
      BY <2>1 DEF Entries
    <3>2. s.entries[i] \in Requests
      BY <3>1
    <3>3. s.entries[i].at \in Nat /\ s.entries[i].at <= MaxSkew + time
      BY <1>0, <1>7, <2>1, <3>2 DEF EntrySound, Requests
    <3>4. now - s.entries[i].at > 2 * Window
      BY <1>4, <3>3
    <3> QED
      BY <1>0, <3>3, <3>4 DEF Expired
  <2>4. Evict(s, now).amount = 0
    BY <2>2, <2>3, EvictIs
  <2>5. ~(0 + cost > Capacity)
    BY <1>0, <1>1
  <2>6. Occupy(state, cost, now).ok
    BY <2>1, <2>4, <2>5 DEF Occupy
  <2>7. Check(state, cost, now).ok
    BY <1>7, <2>6 DEF Check, Logs
  <2> QED
    BY <1>2, <1>3, <2>7
<1> QED
  BY <1>0, <1>5, <1>6, <1>7 DEF LimiterTypes, Strategies, Logs

\* The sweep takes nothing from what is left of a key, and changes it only for a bucket that
\* two windows do not fill.
THEOREM SweepHolds == LimiterSpec => []SweepInvisible
<1>1. LimiterInv => SweepInvisible
  BY SweepIs
<1> QED
  BY LimiterInvariance, <1>1, PTL

\* Retrying later succeeds.
THEOREM RetryHolds == LimiterSpec => []RetryHelps
<1>1. LimiterInv => RetryHelps
  BY RetryIs
<1> QED
  BY LimiterInvariance, <1>1, PTL

-----------------------------------------------------------------------------
(* What is admitted stays within the rate. *)

\* What is granted before a moment, moment by moment.
LEMMA BeforeSteps ==
    ASSUME NEW g \in [Times -> Nat]
    PROVE  /\ Before(g, 0) = 0
           /\ \A t \in Times : Before(g, t + 1) = Before(g, t) + g[t]
           /\ \A t \in 0 .. MaxTime + 1 : Before(g, t) \in Nat
<1> DEFINE N == 0 .. MaxTime + 1
           Step(f, i) == IF i = 0 THEN 0 ELSE f[i - 1] + g[i - 1]
           w == [i \in 1 .. MaxTime + 1 |-> g[i - 1]]
<1>0. MaxTime \in Nat
  BY LimitsAssumption
<1>1. w \in [1 .. MaxTime + 1 -> Nat]
  BY <1>0 DEF Times
<1>2. PICK f \in [N -> Nat] : f = [i \in N |-> IF i = 0 THEN 0 ELSE f[i - 1] + w[i]]
  <2> HIDE DEF w
  <2>1. MaxTime + 1 \in Nat
    BY <1>0
  <2> QED
    BY <1>1, <2>1, SumExists
<1>3. f = [i \in N |-> Step(f, i)]
  <2>1. \A i \in N : (IF i = 0 THEN 0 ELSE f[i - 1] + w[i]) = Step(f, i)
    BY <1>0
  <2> HIDE DEF w, Step
  <2> QED
    BY <1>2, <2>1
<1> DEFINE sum == CHOOSE h : h = [i \in N |-> Step(h, i)]
<1>4. sum = [i \in N |-> Step(sum, i)]
  <2> HIDE DEF N, Step
  <2> QED
    BY <1>3, Zenon
<1>5. \A t : Before(g, t) = sum[t]
  BY Zenon DEF Before
<1> HIDE DEF sum
<1>6. sum[0] = 0
  BY <1>0, <1>4
<1>7. ASSUME NEW t \in Times PROVE sum[t + 1] = sum[t] + g[t]
  <2>1. t + 1 \in N /\ t + 1 # 0 /\ (t + 1) - 1 = t
    BY <1>0 DEF Times
  <2>2. sum[t + 1] = Step(sum, t + 1)
    BY <1>4, <2>1
  <2> QED
    BY <2>1, <2>2
<1>8. \A t \in N : sum[t] \in Nat
  <2> DEFINE P == {t \in Nat : t <= MaxTime + 1 => sum[t] \in Nat}
  <2>1. 0 \in P
    BY <1>6
  <2>2. ASSUME NEW t \in Nat, t \in P PROVE t + 1 \in P
    <3> SUFFICES ASSUME t + 1 <= MaxTime + 1 PROVE sum[t + 1] \in Nat
      OBVIOUS
    <3>1. sum[t] \in Nat /\ t \in Times /\ g[t] \in Nat
      BY <1>0, <2>2 DEF Times
    <3> QED
      BY <1>7, <3>1
  <2> HIDE DEF P
  <2>3. \A t \in Nat : t \in P
    BY <2>1, <2>2, Induction
  <2> QED
    BY <1>0, <2>3 DEF P
<1> QED
  BY <1>5, <1>6, <1>7, <1>8

\* Two grants that agree up to a moment.
LEMMA BeforeSame ==
    ASSUME NEW g \in [Times -> Nat], NEW h \in [Times -> Nat], NEW b \in 0 .. MaxTime + 1,
           \A t \in Times : t < b => g[t] = h[t]
    PROVE  Before(h, b) = Before(g, b)
<1> DEFINE P == {t \in Nat : t <= b => Before(h, t) = Before(g, t)}
<1>0. MaxTime \in Nat
  BY LimitsAssumption
<1>1. 0 \in P
  BY BeforeSteps
<1>2. ASSUME NEW t \in Nat, t \in P PROVE t + 1 \in P
  <2> SUFFICES ASSUME t + 1 <= b PROVE Before(h, t + 1) = Before(g, t + 1)
    OBVIOUS
  <2>1. t \in Times /\ t < b
    BY <1>0 DEF Times
  <2>2. Before(h, t) = Before(g, t) /\ g[t] = h[t]
    BY <1>2, <2>1
  <2> QED
    BY <2>1, <2>2, BeforeSteps
<1> HIDE DEF P
<1>3. \A t \in Nat : t \in P
  BY <1>1, <1>2, Induction
<1> QED
  BY <1>0, <1>3 DEF P

\* Nothing is granted from a moment on.
LEMMA BeforeQuiet ==
    ASSUME NEW g \in [Times -> Nat], NEW a \in 0 .. MaxTime + 1,
           \A t \in Times : t >= a => g[t] = 0
    PROVE  \A t \in a .. MaxTime + 1 : Before(g, t) = Before(g, a)
<1> DEFINE P == {t \in Nat : a <= t /\ t <= MaxTime + 1 => Before(g, t) = Before(g, a)}
<1>0. MaxTime \in Nat
  BY LimitsAssumption
<1>1. 0 \in P
  <2>1. a <= 0 => a = 0
    OBVIOUS
  <2> QED
    BY <2>1
<1>2. ASSUME NEW t \in Nat, t \in P PROVE t + 1 \in P
  <2> SUFFICES ASSUME a <= t + 1, t + 1 <= MaxTime + 1 PROVE Before(g, t + 1) = Before(g, a)
    OBVIOUS
  <2>1. CASE a = t + 1
    BY <2>1
  <2>2. CASE a <= t
    <3>1. t \in Times /\ g[t] = 0
      BY <1>0, <2>2 DEF Times
    <3>2. Before(g, t) = Before(g, a) /\ Before(g, a) \in Nat
      BY <1>0, <1>2, <2>2, BeforeSteps
    <3> QED
      BY <3>1, <3>2, BeforeSteps
  <2> QED
    BY <2>1, <2>2
<1> HIDE DEF P
<1>3. \A t \in Nat : t \in P
  BY <1>1, <1>2, Induction
<1> QED
  BY <1>0, <1>3 DEF P

-----------------------------------------------------------------------------
\* Nothing has been granted at a moment to come.
FuturePart == \A t \in Times : t > time => granted[t] = 0

\* A block that has not been waited for is in force, however far the clock was set back.
BlockPart == IF blocked = NoBlock THEN held <= time ELSE held + Now <= blocked + time

\* What g admits from the moment u up to now.
Since(g, u) == Before(g, time + 1) - Before(g, u)

\* How long, by the clock, the bucket has not been refilled.
Idle(s) == Larger(0, Now - s.at)

\* x, admitted since the moment d ago, is what the rate allows: nothing was admitted since the
\* last refill, up to which the tokens left are what the rate had left; and of a key that is
\* not known so much time has passed that a full bucket is within the rate again.
Fits(x, s, idle, d) ==
    IF ~s.present THEN 2 * Window * x <= TwoWindows * d
    ELSE IF idle > d THEN x = 0
    ELSE 2 * Window * x + 2 * s.amount <= 2 * Window * BucketSize + TwoWindows * (d - idle)

BucketFits(g, s) == \A u \in 0 .. time : Fits(Since(g, u), s, Idle(s), time - u)

\* Whatever was admitted within the window is in the log; without the requests stamped before
\* u, all that was admitted since u still is.
LogFits(g, log) ==
    \A u \in 0 .. time : \A n \in 0 .. Len(log) :
        u + Window >= time /\ (\A j \in 1 .. n : log[j].at + skew < MaxSkew + u)
          => Since(g, u) <= CostOf(log, Len(log)) - CostOf(log, n)

\* The counter has everything admitted in the current window.
InWindow(s) == IF s.present /\ ~WindowOver(s, Now) THEN s.amount ELSE 0

WindowFits(g, s) ==
    skew = 0 => \A u \in 0 .. time :
        WindowStart(MaxSkew + u) = WindowStart(Now) => Since(g, u) <= InWindow(s)

\* What the limiter holds of the key bounds what it has admitted.
RateFits(g, s) ==
    /\ strategy = "token-bucket" => BucketFits(g, s)
    /\ strategy \in Logs => LogFits(g, s.entries)
    /\ strategy = "fixed-window" => WindowFits(g, s)

\* AdmittedRate, of any record of what is granted.
RateOf(g) ==
    \A s \in Times : \A t \in s .. MaxTime :
        LET admitted == Before(g, t + 1) - Before(g, s) IN
        /\ strategy = "token-bucket" =>
             2 * Window * admitted <= 2 * Window * BucketSize + TwoWindows * (t - s)
        /\ strategy \in Logs => (t - s <= Window => admitted <= Capacity)
        /\ strategy = "fixed-window" =>
             (skew = 0 /\ WindowStart(MaxSkew + t) = WindowStart(MaxSkew + s) => admitted <= MaxRequests)

\* The inductive invariant of what is admitted.
RateInv == LimiterInv /\ FuturePart /\ BlockPart /\ RateFits(granted, state) /\ RateOf(granted)

-----------------------------------------------------------------------------
\* A bucket that was refilled is not refilled again at the same moment.
LEMMA BucketHolds ==
    ASSUME NEW s \in Entries, NEW now \in Nat
    PROVE  /\ s.present /\ now <= s.at => Bucket(s, now) = s
           /\ Bucket(s, now).present /\ now <= Bucket(s, now).at
<1>1. s.at \in Nat /\ s.present \in BOOLEAN
  BY DEF Entries
<1>2. CASE ~s.present
  <2>1. Bucket(s, now) = [NoEntry EXCEPT !.present = TRUE, !.amount = BucketSize * Window, !.at = now]
    BY <1>2 DEF Bucket
  <2>2. Bucket(s, now).present /\ Bucket(s, now).at = now
    BY <2>1 DEF NoEntry
  <2> QED
    BY <1>2, <2>2
<1>3. CASE s.present /\ now <= s.at
  BY <1>3 DEF Bucket
<1>4. CASE s.present /\ ~(now <= s.at)
  <2>1. Bucket(s, now) = [s EXCEPT !.amount = Smaller(BucketSize * Window, @ + (now - s.at) * MaxRequests),
                                   !.at = now]
    BY <1>4 DEF Bucket
  <2>2. Bucket(s, now).present = s.present /\ Bucket(s, now).at = now
    BY <2>1 DEF Entries
  <2> QED
    BY <1>1, <1>4, <2>2
<1> QED
  BY <1>1, <1>2, <1>3, <1>4

\* What a bucket gains in a while.
LEMMA Gains ==
    ASSUME LimiterTypes, NEW n \in Nat
    PROVE  /\ TwoWindows * n \in Nat /\ 2 * (n * MaxRequests) <= TwoWindows * n
           /\ TwoWindows * (n + 1) = TwoWindows * n + TwoWindows
           /\ n > 2 * Window => 2 * Window * BucketSize <= TwoWindows * n
           /\ \A m \in Nat : m <= n => TwoWindows * (n - m) + TwoWindows * m = TwoWindows * n
<1>1. /\ TwoWindows \in Nat /\ MaxRequests \in Nat /\ Window \in Nat /\ BucketSize \in Nat
      /\ TwoWindows >= 2 * MaxRequests /\ TwoWindows >= BucketSize
  BY LimitsAre
<1>2. TwoWindows * n \in Nat /\ TwoWindows * (n + 1) = TwoWindows * n + TwoWindows
  BY <1>1
<1>3. 2 * (n * MaxRequests) <= TwoWindows * n
  <2>1. PICK more \in Nat : TwoWindows = 2 * MaxRequests + more
    BY <1>1
  <2>2. (2 * MaxRequests + more) * n = 2 * (n * MaxRequests) + more * n
    BY <1>1, <2>1
  <2>3. more * n \in Nat /\ n * MaxRequests \in Nat
    BY <1>1
  <2> QED
    BY <2>1, <2>2, <2>3
<1>4. ASSUME n > 2 * Window PROVE 2 * Window * BucketSize <= TwoWindows * n
  <2>1. PICK more \in Nat : n = 2 * Window + more
    BY <1>1, <1>4
  <2>2. PICK size \in Nat : TwoWindows = BucketSize + size
    BY <1>1
  <2>3. TwoWindows * n = TwoWindows * (2 * Window) + TwoWindows * more /\ TwoWindows * more \in Nat
    BY <1>1, <2>1
  <2>4. TwoWindows * (2 * Window) = 2 * Window * BucketSize + size * (2 * Window)
    BY <1>1, <2>2
  <2>5. size * (2 * Window) \in Nat /\ 2 * Window * BucketSize \in Nat
    BY <1>1
  <2> QED
    BY <2>3, <2>4, <2>5
<1>5. ASSUME NEW m \in Nat, m <= n PROVE TwoWindows * (n - m) + TwoWindows * m = TwoWindows * n
  <2>1. PICK k \in Nat : k = n - m /\ n = k + m
    BY <1>5
  <2>2. TwoWindows * (k + m) = TwoWindows * k + TwoWindows * m
    BY <1>1
  <2> QED
    BY <2>1, <2>2
<1> QED
  BY <1>2, <1>3, <1>4, <1>5

\* The products of the rate are numbers.
LEMMA Products ==
    ASSUME LimiterTypes, NEW x \in Int
    PROVE  /\ 2 * Window * x \in Int /\ 2 * Window * BucketSize \in Nat /\ 2 * Window * 0 = 0
           /\ 2 * (BucketSize * Window) = 2 * Window * BucketSize /\ TwoWindows * 0 = 0
           /\ BucketSize * Window \in Nat
<1>1. TwoWindows \in Nat /\ Window \in Nat /\ BucketSize \in Nat
  BY LimitsAre
<1> QED
  BY <1>1

\* What fits is within the rate.
LEMMA FitsRate ==
    ASSUME LimiterTypes, NEW s \in Entries, NEW x \in Int, NEW idle \in Nat, NEW d \in Nat,
           Fits(x, s, idle, d)
    PROVE  2 * Window * x <= 2 * Window * BucketSize + TwoWindows * d
<1>1. PICK X \in Int, full \in Nat, rate \in Nat :
        X = 2 * Window * x /\ full = 2 * Window * BucketSize /\ rate = TwoWindows * d
  BY Products, Gains
<1>2. CASE ~s.present
  BY <1>1, <1>2 DEF Fits
<1>3. CASE s.present /\ idle > d
  BY <1>1, <1>3, Products DEF Fits
<1>4. CASE s.present /\ ~(idle > d)
  <2>1. PICK k \in Nat : k = d - idle
    BY <1>4
  <2>2. X + 2 * s.amount <= full + TwoWindows * k /\ s.amount \in Nat
    BY <1>1, <1>4, <2>1 DEF Fits, Entries
  <2>3. TwoWindows * k + TwoWindows * idle = rate /\ TwoWindows * k \in Nat /\ TwoWindows * idle \in Nat
    BY <1>1, <1>4, <2>1, Gains
  <2> QED
    BY <1>1, <2>2, <2>3
<1> QED
  BY <1>2, <1>3, <1>4

\* A refill, or a new bucket, is what the rate allows by now.
LEMMA FitsRefill ==
    ASSUME LimiterTypes, EntrySound(state), strategy = "token-bucket", NEW x \in Int, NEW d \in Nat,
           Fits(x, state, Idle(state), d)
    PROVE  Fits(x, Bucket(state, Now), 0, d) /\ Idle(Bucket(state, Now)) = 0
<1>0. /\ state \in Entries /\ state.amount \in Nat /\ state.at \in Nat /\ state.present \in BOOLEAN
      /\ Now \in Nat /\ state.amount <= BucketSize * Window
  BY LimitsAre DEF EntrySound, Entries
<1>1. PICK X \in Int, full \in Nat, rate \in Nat :
        /\ X = 2 * Window * x /\ full = 2 * Window * BucketSize /\ rate = TwoWindows * d
        /\ 2 * (BucketSize * Window) = full
  BY Products, Gains
<1>2. PICK b : /\ b = Bucket(state, Now) /\ b \in Entries /\ b.present /\ b.amount \in Nat /\ Now <= b.at
               /\ 2 * b.amount <= full /\ b.at \in Nat
  <2>1. /\ Bucket(state, Now) \in Entries /\ Bucket(state, Now).present /\ Bucket(state, Now).amount \in Nat
        /\ Bucket(state, Now).amount <= BucketSize * Window
    BY <1>0, BucketIs
  <2>2. Now <= Bucket(state, Now).at
    BY <1>0, BucketHolds
  <2>3. 2 * Bucket(state, Now).amount <= full
    BY <1>1, <2>1, Products
  <2>4. Bucket(state, Now).at \in Nat
    BY <2>1 DEF Entries
  <2> QED
    BY <2>1, <2>2, <2>3, <2>4
<1>3. Idle(b) = 0
  BY <1>0, <1>2 DEF Idle, Larger
<1>4. Fits(x, b, 0, d) <=> X + 2 * b.amount <= full + rate
  <2>1. d - 0 = d /\ ~(0 > d)
    OBVIOUS
  <2> QED
    BY <1>1, <1>2, <2>1 DEF Fits
<1>5. CASE ~state.present
  <2>1. X <= rate
    BY <1>1, <1>5 DEF Fits
  <2> QED
    BY <1>1, <1>2, <1>3, <1>4, <2>1
<1>6. CASE state.present /\ Now <= state.at
  <2>1. b = state /\ Idle(state) = 0
    BY <1>0, <1>2, <1>6, BucketHolds DEF Idle, Larger
  <2> QED
    BY <1>2, <1>3, <2>1
<1>7. CASE state.present /\ Now > state.at
  <2>1. PICK idle \in Nat : idle = Idle(state) /\ idle = Now - state.at
    BY <1>0, <1>7 DEF Idle, Larger
  <2>2. CASE idle > d
    <3>1. X = 0
      BY <1>1, <1>7, <2>1, <2>2, Products DEF Fits
    <3> QED
      BY <1>1, <1>2, <1>3, <1>4, <3>1
  <2>3. CASE ~(idle > d)
    <3>1. PICK k \in Nat : k = d - idle
      BY <2>3
    <3>2. X + 2 * state.amount <= full + TwoWindows * k
      BY <1>1, <1>7, <2>1, <2>3, <3>1 DEF Fits
    <3>3. /\ TwoWindows * k + TwoWindows * idle = rate /\ TwoWindows * k \in Nat /\ TwoWindows * idle \in Nat
          /\ 2 * (idle * MaxRequests) <= TwoWindows * idle
      <4>1. idle <= d /\ k \in Nat
        BY <2>3
      <4>2. TwoWindows * (d - idle) + TwoWindows * idle = TwoWindows * d
        BY <4>1, Gains
      <4>3. TwoWindows * k \in Nat /\ TwoWindows * idle \in Nat /\ 2 * (idle * MaxRequests) <= TwoWindows * idle
        BY Gains
      <4> QED
        BY <1>1, <3>1, <4>2, <4>3
    <3>4. PICK more \in Nat : more = idle * MaxRequests
      BY LimitsAre
    <3>5. b.amount <= state.amount + more
      BY <1>0, <1>2, <1>7, <2>1, <3>4, BucketIs
    <3> QED
      BY <1>0, <1>1, <1>2, <1>3, <1>4, <3>2, <3>3, <3>4, <3>5
  <2> QED
    BY <2>2, <2>3
<1> QED
  BY <1>0, <1>2, <1>5, <1>6, <1>7

\* A bucket the sweep drops has been idle for so long that a full one is within the rate.
LEMMA FitsDropped ==
    ASSUME LimiterTypes, EntrySound(state), NEW x \in Int, NEW d \in Nat, state.present,
           BucketIdle(state, Now), Fits(x, state, Idle(state), d)
    PROVE  2 * Window * x <= TwoWindows * d
<1>0. state \in Entries /\ state.amount \in Nat /\ state.at \in Nat /\ Now \in Nat /\ Window \in Nat
  BY LimitsAre DEF EntrySound, Entries
<1>1. PICK X \in Int, full \in Nat, rate \in Nat :
        X = 2 * Window * x /\ full = 2 * Window * BucketSize /\ rate = TwoWindows * d
  BY Products, Gains
<1>2. PICK idle \in Nat : idle = Idle(state) /\ idle > 2 * Window
  BY <1>0 DEF Idle, Larger, BucketIdle
<1>3. CASE idle > d
  BY <1>1, <1>2, <1>3, Products DEF Fits
<1>4. CASE ~(idle > d)
  <2>1. PICK k \in Nat : k = d - idle
    BY <1>4
  <2>2. X + 2 * state.amount <= full + TwoWindows * k
    BY <1>1, <1>2, <1>4, <2>1 DEF Fits
  <2>3. TwoWindows * k + TwoWindows * idle = rate /\ TwoWindows * k \in Nat /\ TwoWindows * idle \in Nat
        /\ full <= TwoWindows * idle
    BY <1>1, <1>2, <1>4, <2>1, Gains
  <2> QED
    BY <1>0, <1>1, <2>2, <2>3
<1> QED
  BY <1>3, <1>4

\* A moment that passes, and a clock that is set back, only let the rate allow more.
LEMMA FitsLater ==
    ASSUME LimiterTypes, NEW s \in Entries, NEW x \in Int, NEW i \in Nat, NEW j \in Nat,
           NEW d \in Nat, NEW e \in Nat, e = d \/ e = d + 1, j - i <= e - d,
           s.amount <= BucketSize * Window, Fits(x, s, i, d)
    PROVE  Fits(x, s, j, e)
<1>0. s.present \in BOOLEAN /\ s.amount \in Nat
  BY DEF Entries
<1>1. PICK X \in Int, full \in Nat :
        X = 2 * Window * x /\ full = 2 * Window * BucketSize /\ 2 * s.amount <= full
  <2>1. 2 * (BucketSize * Window) = 2 * Window * BucketSize /\ BucketSize * Window \in Nat
    BY Products
  <2>2. 2 * s.amount <= 2 * (BucketSize * Window)
    BY <1>0, <2>1
  <2> QED
    BY <2>1, <2>2, Products
<1>2. CASE ~s.present
  <2>1. X <= TwoWindows * d
    BY <1>1, <1>2 DEF Fits
  <2>2. TwoWindows * d \in Nat /\ TwoWindows * (d + 1) = TwoWindows * d + TwoWindows /\ TwoWindows \in Nat
    BY Gains, LimitsAre
  <2>3. X <= TwoWindows * e
    BY <1>1, <2>1, <2>2
  <2> QED
    BY <1>1, <1>2, <2>3 DEF Fits
<1>3. CASE s.present /\ j > e
  BY <1>3 DEF Fits
<1>4. CASE s.present /\ ~(j > e) /\ i > d
  <2>1. X = 0
    BY <1>1, <1>4, Products DEF Fits
  <2>2. e - j \in Nat
    BY <1>4
  <2>3. TwoWindows * (e - j) \in Nat
    BY <2>2, Gains
  <2>4. X + 2 * s.amount <= full + TwoWindows * (e - j)
    BY <1>0, <1>1, <2>1, <2>3
  <2> QED
    BY <1>1, <1>4, <2>4 DEF Fits
<1>5. CASE s.present /\ ~(j > e) /\ ~(i > d)
  <2>1. PICK k \in Nat, l \in Nat : k = d - i /\ l = e - j /\ k <= l
    BY <1>5
  <2>2. TwoWindows * k \in Nat /\ TwoWindows * l \in Nat /\ TwoWindows * k <= TwoWindows * l
    <3>1. PICK m \in Nat : m = l - k /\ m <= l /\ l - m = k
      BY <2>1
    <3>2. TwoWindows * (l - m) + TwoWindows * m = TwoWindows * l /\ TwoWindows * m \in Nat
          /\ TwoWindows * k \in Nat /\ TwoWindows * l \in Nat
      BY <3>1, Gains
    <3> QED
      BY <3>1, <3>2
  <2>3. X + 2 * s.amount <= full + TwoWindows * k
    BY <1>1, <1>5, <2>1 DEF Fits
  <2>4. X + 2 * s.amount <= full + TwoWindows * l
    BY <1>0, <1>1, <2>2, <2>3
  <2> QED
    BY <1>1, <1>5, <2>1, <2>4 DEF Fits
<1> QED
  BY <1>0, <1>2, <1>3, <1>4, <1>5

\* Nothing that was admitted fits what is left.
LEMMA FitsNothing ==
    ASSUME LimiterTypes, NEW s \in Entries, NEW idle \in Nat, NEW d \in Nat,
           s.amount <= BucketSize * Window
    PROVE  Fits(0, s, idle, d)
<1>0. s.present \in BOOLEAN /\ s.amount \in Nat
  BY DEF Entries
<1>1. PICK full \in Nat : full = 2 * Window * BucketSize /\ 2 * s.amount <= full
  <2>1. 2 * (BucketSize * Window) = 2 * Window * BucketSize /\ BucketSize * Window \in Nat
    BY Products
  <2>2. 2 * s.amount <= 2 * (BucketSize * Window)
    BY <1>0, <2>1
  <2> QED
    BY <2>1, <2>2, Products
<1>2. TwoWindows * d \in Nat /\ 2 * Window * 0 = 0
  BY Gains, Products
<1>3. CASE ~(idle > d)
  <2>1. d - idle \in Nat
    BY <1>3
  <2>2. TwoWindows * (d - idle) \in Nat
    BY <2>1, Gains
  <2> QED
    BY <1>0, <1>1, <1>2, <1>3, <2>2 DEF Fits
<1>4. CASE idle > d
  BY <1>0, <1>2, <1>4 DEF Fits
<1> QED
  BY <1>3, <1>4

\* What is admitted now counts from every moment on, up to every moment to come.
LEMMA SinceMore ==
    ASSUME LimiterTypes, FuturePart, NEW cost \in Nat,
           NEW h, h = [granted EXCEPT ![time] = granted[time] + cost]
    PROVE  /\ h \in [Times -> Nat]
           /\ \A u \in 0 .. time :
                /\ Since(granted, u) \in Int /\ Since(h, u) = Since(granted, u) + cost
                /\ Before(h, u) = Before(granted, u)
           /\ \A t \in time + 1 .. MaxTime + 1 : Before(h, t) = Before(h, time + 1)
           /\ Before(h, time + 1) \in Nat
<1>0. MaxTime \in Nat /\ time \in Nat /\ time <= MaxTime /\ granted \in [Times -> Nat] /\ time \in Times
  BY LimitsAssumption DEF LimiterTypes, Times
<1>1. h \in [Times -> Nat] /\ h[time] = granted[time] + cost /\ \A t \in Times : t # time => h[t] = granted[t]
  BY <1>0
<1>2. \A t \in Times : t >= time + 1 => h[t] = 0
  BY <1>0, <1>1 DEF FuturePart, Times
<1>3. ASSUME NEW u \in 0 .. time
      PROVE  Before(h, u) = Before(granted, u) /\ Before(granted, u) \in Nat
  <2>1. \A t \in Times : t < u => granted[t] = h[t]
    BY <1>0, <1>1 DEF Times
  <2>2. u \in 0 .. MaxTime + 1
    BY <1>0
  <2>3. Before(h, u) = Before(granted, u)
    BY <1>0, <1>1, <2>1, <2>2, BeforeSame
  <2> QED
    BY <1>0, <2>2, <2>3, BeforeSteps
<1>4. PICK x \in Nat : x = Before(granted, time + 1) /\ Before(h, time + 1) = x + cost
  <2>1. Before(h, time + 1) = Before(h, time) + h[time]
    BY <1>0, <1>1, BeforeSteps
  <2>2. Before(granted, time + 1) = Before(granted, time) + granted[time]
    BY <1>0, BeforeSteps
  <2>3. Before(h, time) = Before(granted, time) /\ Before(granted, time) \in Nat /\ granted[time] \in Nat
    <3>1. time \in 0 .. time
      BY <1>0
    <3> QED
      BY <1>0, <1>3, <3>1
  <2> QED
    BY <1>1, <2>1, <2>2, <2>3
<1>5. ASSUME NEW u \in 0 .. time
      PROVE  Since(granted, u) \in Int /\ Since(h, u) = Since(granted, u) + cost
  <2>1. PICK y \in Nat : y = Before(granted, u)
    BY <1>3
  <2>2. Before(h, u) = y
    BY <1>3, <2>1
  <2> QED
    BY <1>4, <2>1, <2>2 DEF Since
<1>6. \A t \in time + 1 .. MaxTime + 1 : Before(h, t) = Before(h, time + 1)
  <2>1. time + 1 \in 0 .. MaxTime + 1
    BY <1>0
  <2> QED
    BY <1>1, <1>2, <2>1, BeforeQuiet
<1>7. Before(h, time + 1) \in Nat
  BY <1>4
<1> QED
  BY <1>1, <1>3, <1>5, <1>6, <1>7

\* The tokens of a request are tokens less.
LEMMA TokensOf ==
    ASSUME NEW w \in Nat, NEW x \in Int, NEW c \in Nat, NEW b \in Int, NEW y \in Int,
           2 * w * x + 2 * b <= y
    PROVE  2 * w * (x + c) + 2 * (b - c * w) <= y
<1>1. 2 * w * (x + c) = 2 * w * x + 2 * (c * w)
  OBVIOUS
<1>2. PICK p \in Int, q \in Int : p = 2 * w * x /\ q = c * w
  OBVIOUS
<1> QED
  BY <1>1, <1>2

\* Tokens that are taken are tokens less.
LEMMA TokensFit ==
    ASSUME LimiterTypes, EntrySound(state), FuturePart, strategy = "token-bucket",
           BucketFits(granted, state), NEW cost \in Costs, NEW r, r = TakeTokens(state, cost, Now),
           NEW h, h = [granted EXCEPT ![time] = IF r.ok THEN granted[time] + cost ELSE granted[time]]
    PROVE  BucketFits(h, r.s)
<1>1. PICK b : b = Bucket(state, Now) /\ b \in Entries /\ b.present /\ b.amount \in Nat /\ Now <= b.at
  <2>1. Bucket(state, Now) \in Entries /\ Bucket(state, Now).present
    BY BucketSound DEF EntrySound
  <2>2. Now <= Bucket(state, Now).at
    BY BucketHolds, CheckArgs
  <2> QED
    BY <2>1, <2>2 DEF Entries
<1>2. cost \in Nat /\ Window \in Nat /\ Now \in Nat /\ time \in Times /\ granted \in [Times -> Nat]
  BY CheckArgs DEF LimiterTypes
<1>3. PICK c \in Nat : c = cost * Window
  BY <1>2
<1>4. r = IF b.amount < c THEN [ok |-> FALSE, s |-> b]
                          ELSE [ok |-> TRUE, s |-> [b EXCEPT !.amount = b.amount - c]]
  BY <1>1, <1>3 DEF TakeTokens
<1>5. ASSUME NEW u \in 0 .. time
      PROVE  /\ Since(granted, u) \in Int /\ time - u \in Nat
             /\ Fits(Since(granted, u), b, 0, time - u) /\ Idle(b) = 0
  <2>1. Since(granted, u) \in Int
    <3>1. 0 \in Nat
      OBVIOUS
    <3> QED
      BY <3>1, SinceMore
  <2>2. time - u \in Nat
    BY LimitsAre
  <2>3. Fits(Since(granted, u), state, Idle(state), time - u)
    BY DEF BucketFits
  <2> QED
    BY <1>1, <2>1, <2>2, <2>3, FitsRefill
<1>6. CASE b.amount < c
  <2>1. r.ok = FALSE /\ r.s = b
    BY <1>4, <1>6
  <2>2. h = granted
    BY <1>2, <2>1
  <2> QED
    BY <1>5, <2>1, <2>2 DEF BucketFits
<1>7. CASE ~(b.amount < c)
  <2>1. r.ok = TRUE /\ r.s = [b EXCEPT !.amount = b.amount - c]
    BY <1>4, <1>7
  <2>2. r.s.present /\ r.s.at = b.at /\ r.s.amount = b.amount - cost * Window
    BY <1>1, <1>3, <2>1 DEF Entries
  <2>3. h = [granted EXCEPT ![time] = granted[time] + cost]
    BY <2>1
  <2>4. ASSUME NEW u \in 0 .. time
        PROVE  Fits(Since(h, u), r.s, Idle(r.s), time - u)
    <3>1. Since(granted, u) \in Int /\ Since(h, u) = Since(granted, u) + cost
      BY <1>2, <2>3, SinceMore
    <3>2. PICK d \in Nat : d = time - u /\ d - 0 = d /\ ~(0 > d)
      BY <1>5
    <3>3. PICK y \in Int : y = 2 * Window * BucketSize + TwoWindows * d
      <4>1. 2 * Window * BucketSize \in Nat
        BY <3>1, Products
      <4>2. TwoWindows * d \in Nat
        BY Gains
      <4> QED
        BY <4>1, <4>2
    <3>4. 2 * Window * Since(granted, u) + 2 * b.amount <= y
      BY <1>1, <1>5, <3>2, <3>3 DEF Fits
    <3>5. 2 * Window * (Since(granted, u) + cost) + 2 * (b.amount - cost * Window) <= y
      BY <1>1, <1>2, <3>1, <3>4, TokensOf
    <3>6. Idle(r.s) = 0
      BY <1>5, <2>2 DEF Idle
    <3> QED
      BY <2>2, <3>1, <3>2, <3>3, <3>5, <3>6 DEF Fits
  <2> QED
    BY <2>4 DEF BucketFits
<1> QED
  BY <1>6, <1>7

\* An eviction forgets nothing of the window.
LEMMA EvictFits ==
    ASSUME LimiterTypes, FuturePart, NEW s, LogOK(s), LogFits(granted, s.entries)
    PROVE  LogFits(granted, Evict(s, Now).entries)
<1>0. /\ Now \in Int /\ time \in Nat /\ MaxSkew \in Nat /\ skew \in Nat /\ Window \in Nat
      /\ Now = MaxSkew + time - skew
  BY LimitsAre DEF LimiterTypes, Now
<1>1. PICK w : w = Evict(s, Now)
  OBVIOUS
<1>2. PICK m \in 0 .. Len(s.entries) :
        /\ \A j \in 1 .. m : Expired(s.entries[j], Now)
        /\ Len(w.entries) = Len(s.entries) - m
        /\ \A k \in 1 .. Len(w.entries) : w.entries[k] = s.entries[k + m]
        /\ \A k \in 0 .. Len(w.entries) :
             CostOf(w.entries, k) = CostOf(s.entries, k + m) - CostOf(s.entries, m)
  <2>1. LET v == Evict(s, Now) IN
        \E m \in 0 .. Len(s.entries) :
          /\ \A j \in 1 .. m : Expired(s.entries[j], Now)
          /\ Len(v.entries) = Len(s.entries) - m
          /\ \A k \in 1 .. Len(v.entries) : v.entries[k] = s.entries[k + m]
          /\ \A k \in 0 .. Len(v.entries) :
               CostOf(v.entries, k) = CostOf(s.entries, k + m) - CostOf(s.entries, m)
    BY <1>0, EvictsFront
  <2> QED
    BY <1>1, <2>1, Zenon
<1>3. s.entries \in Seq(Requests) /\ Len(s.entries) \in Nat
  BY DEF LogOK
<1> SUFFICES ASSUME NEW u \in 0 .. time, NEW n \in 0 .. Len(w.entries), u + Window >= time,
                    \A j \in 1 .. n : w.entries[j].at + skew < MaxSkew + u
             PROVE  Since(granted, u) <= CostOf(w.entries, Len(w.entries)) - CostOf(w.entries, n)
  BY <1>1 DEF LogFits
<1>4. ASSUME NEW j \in 1 .. n + m PROVE s.entries[j].at + skew < MaxSkew + u
  <2>1. s.entries[j] \in Requests
    BY <1>2, <1>3
  <2>2. s.entries[j].at \in Nat
    BY <2>1 DEF Requests
  <2>3. CASE j \in 1 .. m
    <3>1. Now - s.entries[j].at > Window
      BY <1>2, <2>3 DEF Expired
    <3>2. PICK a \in Nat : a = s.entries[j].at
      BY <2>2
    <3>3. MaxSkew + time - skew - a > Window /\ u \in Nat
      BY <1>0, <3>1, <3>2
    <3>4. a + skew < MaxSkew + u
      BY <1>0, <3>3
    <3> QED
      BY <3>2, <3>4
  <2>4. CASE j \notin 1 .. m
    <3>1. j - m \in 1 .. n /\ j - m \in 1 .. Len(w.entries) /\ (j - m) + m = j
      BY <1>2, <1>3, <2>4
    <3>2. w.entries[j - m] = s.entries[j]
      BY <1>2, <3>1
    <3> QED
      BY <3>1, <3>2
  <2> QED
    BY <2>3, <2>4
<1>5. n + m \in 0 .. Len(s.entries) /\ Len(w.entries) \in 0 .. Len(w.entries) /\ Len(w.entries) + m = Len(s.entries)
  BY <1>2, <1>3
<1>6. Since(granted, u) <= CostOf(s.entries, Len(s.entries)) - CostOf(s.entries, n + m)
  BY <1>4, <1>5 DEF LogFits
<1>7. /\ CostOf(w.entries, n) = CostOf(s.entries, n + m) - CostOf(s.entries, m)
      /\ CostOf(w.entries, Len(w.entries)) = CostOf(s.entries, Len(s.entries)) - CostOf(s.entries, m)
  BY <1>2, <1>5
<1>8. /\ CostOf(s.entries, n + m) \in Nat /\ CostOf(s.entries, m) \in Nat
      /\ CostOf(s.entries, Len(s.entries)) \in Nat
  <2>1. Len(s.entries) \in 0 .. Len(s.entries)
    BY <1>3
  <2> QED
    BY <1>2, <1>3, <1>5, <2>1, CostSteps
<1>9. Since(granted, u) \in Int
  BY SinceMore
<1> QED
  BY <1>6, <1>7, <1>8, <1>9

\* A request that is logged is counted for as long as its stamp is in the window.
LEMMA OccupyFits ==
    ASSUME LimiterTypes, EntrySound(state), FuturePart, strategy \in Logs,
           LogFits(granted, state.entries), NEW cost \in Costs, NEW r, r = Occupy(state, cost, Now),
           NEW h, h = [granted EXCEPT ![time] = IF r.ok THEN granted[time] + cost ELSE granted[time]]
    PROVE  LogFits(h, r.s.entries)
<1>0. /\ cost \in Nat /\ time \in Nat /\ MaxSkew \in Nat /\ skew \in Nat
      /\ Now = MaxSkew + time - skew /\ Now \in Nat /\ granted \in [Times -> Nat]
  BY LimitsAre, CheckArgs DEF LimiterTypes, Now
<1>1. PICK s : s = [state EXCEPT !.present = TRUE]
  OBVIOUS
<1>2. EntrySound(s) /\ s.present /\ s.entries = state.entries
  <2>1. /\ s \in Entries /\ s.present /\ s.amount = state.amount /\ s.at = state.at
        /\ s.entries = state.entries
    BY <1>1, CheckArgs DEF Entries
  <2> QED
    BY <2>1 DEF EntrySound, LogOK, Entries
<1>3. PICK w : w = Evict(s, Now) /\ LogOK(w)
  BY <1>0, <1>2, EvictSound
<1>4. LogFits(granted, w.entries)
  <2>1. LogOK(s)
    BY <1>2 DEF EntrySound
  <2> QED
    BY <1>2, <1>3, <2>1, EvictFits
<1>5. PICK x \in Requests : x = [at |-> Now, cost |-> cost]
  BY <1>0 DEF Requests
<1>6. r = IF w.amount + cost > Capacity
            THEN [ok |-> FALSE, s |-> w]
            ELSE [ok |-> TRUE, s |-> [w EXCEPT !.amount = w.amount + cost,
                                               !.entries = Append(w.entries, x)]]
  BY <1>1, <1>3, <1>5, Zenon DEF Occupy
<1>7. CASE w.amount + cost > Capacity
  <2>1. r.ok = FALSE /\ r.s = w
    BY <1>6, <1>7
  <2>2. h = granted
    BY <1>0, <2>1
  <2> QED
    BY <1>4, <2>1, <2>2
<1>8. CASE ~(w.amount + cost > Capacity)
  <2>1. PICK e : e = w.entries /\ e \in Seq(Requests)
    BY <1>3 DEF LogOK
  <2>2. PICK more : more = Append(e, x)
    OBVIOUS
  <2>3. /\ Len(more) = Len(e) + 1 /\ more[Len(e) + 1] = x /\ Len(e) \in Nat
        /\ \A j \in 1 .. Len(e) : more[j] = e[j]
    BY <2>1, <2>2
  <2>4. r.ok = TRUE /\ r.s.entries = more
    <3>1. r = [ok |-> TRUE, s |-> [w EXCEPT !.amount = w.amount + cost, !.entries = more]]
      BY <1>6, <1>8, <2>1, <2>2
    <3>2. r.ok = TRUE /\ r.s = [w EXCEPT !.amount = w.amount + cost, !.entries = more]
      BY <3>1
    <3>3. LET c == [w EXCEPT !.amount = w.amount + cost, !.entries = more] IN c.entries = more
      BY <1>3 DEF LogOK
    <3> QED
      BY <3>2, <3>3, Zenon
  <2>5. h = [granted EXCEPT ![time] = granted[time] + cost]
    BY <2>4
  <2>6. /\ CostOf(more, Len(e) + 1) = CostOf(e, Len(e)) + cost
        /\ \A k \in 0 .. Len(e) : CostOf(more, k) = CostOf(e, k)
    <3>1. x.cost = cost
      BY <1>5
    <3> QED
      BY <2>1, <2>2, <3>1, CostOfMore
  <2> SUFFICES ASSUME NEW u \in 0 .. time, NEW n \in 0 .. Len(more), u + Window >= time,
                      \A j \in 1 .. n : more[j].at + skew < MaxSkew + u
               PROVE  Since(h, u) <= CostOf(more, Len(more)) - CostOf(more, n)
    BY <2>4 DEF LogFits
  <2>7. n \in 0 .. Len(e)
    <3> SUFFICES ASSUME n = Len(e) + 1 PROVE FALSE
      BY <2>3
    <3>1. n \in 1 .. n
      BY <2>3
    <3>2. Now + skew < MaxSkew + u
      BY <1>5, <2>3, <3>1
    <3> QED
      BY <1>0, <3>2
  <2>8. Since(granted, u) <= CostOf(e, Len(e)) - CostOf(e, n)
    <3>1. ASSUME NEW j \in 1 .. n PROVE e[j].at + skew < MaxSkew + u
      <4>1. j \in 1 .. Len(e)
        BY <2>7
      <4> QED
        BY <2>3, <4>1
    <3>2. LogFits(granted, e)
      BY <1>4, <2>1
    <3> QED
      BY <2>7, <3>1, <3>2 DEF LogFits
  <2>9. Since(granted, u) \in Int /\ Since(h, u) = Since(granted, u) + cost
    BY <1>0, <2>5, SinceMore
  <2>10. PICK a \in Nat, b \in Nat : a = CostOf(e, Len(e)) /\ b = CostOf(e, n)
    <3>1. Len(e) \in 0 .. Len(e)
      BY <2>3
    <3> QED
      BY <2>1, <2>7, <3>1, CostSteps
  <2>11. CostOf(more, Len(more)) = a + cost /\ CostOf(more, n) = b
    BY <2>3, <2>6, <2>7, <2>10
  <2> QED
    BY <1>0, <2>8, <2>9, <2>10, <2>11
<1> QED
  BY <1>7, <1>8

\* A request that is counted is counted in the window it is made in.
LEMMA CountFits ==
    ASSUME LimiterTypes, EntrySound(state), FuturePart, strategy = "fixed-window",
           WindowFits(granted, state), NEW cost \in Costs, NEW r, r = CountRequest(state, cost, Now),
           NEW h, h = [granted EXCEPT ![time] = IF r.ok THEN granted[time] + cost ELSE granted[time]]
    PROVE  WindowFits(h, r.s)
<1>0. cost \in Nat /\ Now \in Nat /\ granted \in [Times -> Nat] /\ state \in Entries /\ state.amount \in Nat
  BY CheckArgs DEF LimiterTypes, Entries
<1>1. PICK count \in Nat : count = InWindow(state)
  BY <1>0 DEF InWindow
<1>2. PICK start : start = WindowStart(Now)
  OBVIOUS
<1>3. r = IF count + cost > MaxRequests
            THEN [ok |-> FALSE, s |-> IF state.present THEN [state EXCEPT !.amount = count, !.at = start]
                                                       ELSE state]
            ELSE [ok |-> TRUE, s |-> [NoEntry EXCEPT !.present = TRUE, !.amount = count + cost, !.at = start]]
  BY <1>1, <1>2 DEF CountRequest, InWindow
<1>4. CASE count + cost > MaxRequests
  <2>1. r.ok = FALSE /\ r.s = IF state.present THEN [state EXCEPT !.amount = count, !.at = start] ELSE state
    BY <1>3, <1>4
  <2>2. h = granted
    BY <1>0, <2>1
  <2>3. InWindow(r.s) = count
    <3>1. CASE state.present
      <4>1. r.s = [state EXCEPT !.amount = count, !.at = start]
        BY <2>1, <3>1
      <4>2. r.s.present /\ r.s.amount = count /\ r.s.at = start
        BY <1>0, <3>1, <4>1 DEF Entries
      <4> QED
        BY <1>2, <4>2 DEF InWindow, WindowOver
    <3>2. CASE ~state.present
      BY <1>1, <2>1, <3>2 DEF InWindow
    <3> QED
      BY <3>1, <3>2
  <2> QED
    BY <1>1, <2>2, <2>3 DEF WindowFits
<1>5. CASE ~(count + cost > MaxRequests)
  <2>1. r.ok = TRUE /\ r.s = [NoEntry EXCEPT !.present = TRUE, !.amount = count + cost, !.at = start]
    BY <1>3, <1>5
  <2>2. h = [granted EXCEPT ![time] = granted[time] + cost]
    BY <2>1
  <2>3. r.s.present /\ r.s.amount = count + cost /\ r.s.at = start
    BY <2>1 DEF NoEntry
  <2>4. InWindow(r.s) = count + cost
    BY <1>2, <2>3 DEF InWindow, WindowOver
  <2> SUFFICES ASSUME skew = 0, NEW u \in 0 .. time, WindowStart(MaxSkew + u) = WindowStart(Now)
               PROVE  Since(h, u) <= count + cost
    BY <2>4 DEF WindowFits
  <2>5. Since(granted, u) <= count
    BY <1>1 DEF WindowFits
  <2>6. Since(granted, u) \in Int /\ Since(h, u) = Since(granted, u) + cost
    BY <1>0, <2>2, SinceMore
  <2> QED
    BY <1>0, <2>5, <2>6
<1> QED
  BY <1>4, <1>5

\* A request, whatever the strategy.
LEMMA CheckFits ==
    ASSUME LimiterTypes, EntrySound(state), FuturePart, RateFits(granted, state),
           NEW cost \in Costs, NEW r, r = Check(state, cost, Now),
           NEW h, h = [granted EXCEPT ![time] = IF r.ok THEN granted[time] + cost ELSE granted[time]]
    PROVE  RateFits(h, r.s)
<1>1. CASE strategy = "token-bucket"
  <2>1. r = TakeTokens(state, cost, Now) /\ BucketFits(granted, state)
    BY <1>1 DEF Check, Logs, RateFits
  <2>2. BucketFits(h, r.s)
    BY <1>1, <2>1, TokensFit
  <2> QED
    BY <1>1, <2>2 DEF RateFits, Logs
<1>2. CASE strategy = "fixed-window"
  <2>1. r = CountRequest(state, cost, Now) /\ WindowFits(granted, state)
    BY <1>2 DEF Check, Logs, RateFits
  <2>2. WindowFits(h, r.s)
    BY <1>2, <2>1, CountFits
  <2> QED
    BY <1>2, <2>2 DEF RateFits, Logs
<1>3. CASE strategy \in Logs
  <2>1. r = Occupy(state, cost, Now) /\ LogFits(granted, state.entries)
    BY <1>3 DEF Check, Logs, RateFits
  <2>2. LogFits(h, r.s.entries)
    BY <1>3, <2>1, OccupyFits
  <2> QED
    BY <1>3, <2>2 DEF RateFits, Logs
<1> QED
  BY <1>1, <1>2, <1>3 DEF LimiterTypes, Strategies, Logs

\* A key nothing is known of, of which nothing was admitted.
LEMMA EmptyFits ==
    ASSUME LimiterTypes
    PROVE  RateFits([t \in Times |-> 0], NoEntry)
<1> DEFINE none == [t \in Times |-> 0]
<1>0. MaxTime \in Nat /\ time \in Nat /\ time <= MaxTime /\ none \in [Times -> Nat] /\ Now \in Nat
  BY LimitsAre DEF Times
<1>1. NoEntry.present = FALSE /\ NoEntry.entries = <<>> /\ NoEntry.amount = 0
  BY DEF NoEntry
<1>2. ASSUME NEW u \in 0 .. time PROVE Since(none, u) = 0
  <2>1. 0 \in 0 .. MaxTime + 1 /\ u \in 0 .. MaxTime + 1 /\ time + 1 \in 0 .. MaxTime + 1
    BY <1>0
  <2>2. \A t \in Times : t >= 0 => none[t] = 0
    OBVIOUS
  <2> HIDE DEF none
  <2>3. Before(none, u) = Before(none, 0) /\ Before(none, time + 1) = Before(none, 0)
    BY <1>0, <2>1, <2>2, BeforeQuiet
  <2>4. Before(none, 0) = 0
    BY <1>0, BeforeSteps
  <2> QED
    BY <2>3, <2>4 DEF Since
<1> HIDE DEF none
<1>3. strategy = "token-bucket" => BucketFits(none, NoEntry)
  <2>1. NoEntry.amount <= BucketSize * Window
    BY <1>1, Products
  <2>2. Idle(NoEntry) \in Nat
    BY <1>0 DEF Idle, Larger, NoEntry
  <2>3. ASSUME NEW u \in 0 .. time PROVE Fits(Since(none, u), NoEntry, Idle(NoEntry), time - u)
    <3>1. time - u \in Nat /\ Since(none, u) = 0
      BY <1>0, <1>2
    <3> QED
      BY <2>1, <2>2, <3>1, NoEntryIs, FitsNothing
  <2> QED
    BY <2>3 DEF BucketFits
<1>4. LogFits(none, NoEntry.entries)
  <2>1. Len(<<>>) = 0 /\ <<>> \in Seq(Requests)
    OBVIOUS
  <2>2. CostOf(<<>>, 0) = 0
    BY <2>1, CostSteps
  <2> QED
    BY <1>1, <1>2, <2>1, <2>2 DEF LogFits
<1>5. WindowFits(none, NoEntry)
  BY <1>1, <1>2 DEF WindowFits, InWindow
<1> QED
  BY <1>3, <1>4, <1>5 DEF RateFits, none

\* A read.
LEMMA ReadFits ==
    ASSUME LimiterTypes, EntrySound(state), FuturePart, RateFits(granted, state)
    PROVE  RateFits(granted, Read(state, Now))
<1>1. CASE strategy = "token-bucket"
  <2>1. Read(state, Now) = Bucket(state, Now)
    BY <1>1 DEF Read, Logs
  <2>2. ASSUME NEW u \in 0 .. time
        PROVE  Fits(Since(granted, u), Bucket(state, Now), Idle(Bucket(state, Now)), time - u)
    <3>1. Since(granted, u) \in Int
      <4>1. 0 \in Nat
        OBVIOUS
      <4> QED
        BY <4>1, SinceMore
    <3>2. time - u \in Nat
      BY LimitsAre
    <3>3. Fits(Since(granted, u), state, Idle(state), time - u)
      BY <1>1 DEF RateFits, BucketFits
    <3> QED
      BY <1>1, <3>1, <3>2, <3>3, FitsRefill
  <2>3. BucketFits(granted, Bucket(state, Now))
    BY <2>2 DEF BucketFits
  <2> QED
    BY <1>1, <2>1, <2>3 DEF RateFits, Logs
<1>2. CASE strategy = "fixed-window"
  BY <1>2 DEF Read, Logs
<1>3. CASE strategy \in Logs /\ state.present
  <2>1. LogFits(granted, Evict(state, Now).entries)
    BY <1>3, EvictFits DEF EntrySound, RateFits
  <2> QED
    BY <1>3, <2>1 DEF RateFits, Read, Logs
<1>4. CASE strategy \in Logs /\ ~state.present
  BY <1>4 DEF Read, Logs
<1> QED
  BY <1>1, <1>2, <1>3, <1>4 DEF LimiterTypes, Strategies, Logs

\* A sweep.
LEMMA CleanupFits ==
    ASSUME LimiterInv, FuturePart, RateFits(granted, state)
    PROVE  RateFits(granted, Cleanup(state, Now))
<1>0. LimiterTypes /\ EntrySound(state) /\ NoEntry.present = FALSE /\ NoEntry.entries = <<>>
  BY DEF LimiterInv, NoEntry
<1>1. CASE strategy = "token-bucket"
  <2>1. CASE state.present /\ BucketIdle(state, Now)
    <3>1. Cleanup(state, Now) = NoEntry
      BY <1>1, <2>1 DEF Cleanup, Logs
    <3>2. ASSUME NEW u \in 0 .. time PROVE Fits(Since(granted, u), NoEntry, Idle(NoEntry), time - u)
      <4>1. Since(granted, u) \in Int
        <5>1. 0 \in Nat
          OBVIOUS
        <5> QED
          BY <1>0, <5>1, SinceMore
      <4>2. time - u \in Nat
        BY <1>0, LimitsAre
      <4>3. Fits(Since(granted, u), state, Idle(state), time - u)
        BY <1>1 DEF RateFits, BucketFits
      <4>4. 2 * Window * Since(granted, u) <= TwoWindows * (time - u)
        BY <1>0, <2>1, <4>1, <4>2, <4>3, FitsDropped
      <4> QED
        BY <1>0, <4>4 DEF Fits
    <3>3. BucketFits(granted, NoEntry)
      BY <3>2 DEF BucketFits
    <3> QED
      BY <1>1, <3>1, <3>3 DEF RateFits, Logs
  <2>2. CASE ~(state.present /\ BucketIdle(state, Now))
    <3>1. Cleanup(state, Now) = state
      BY <1>1, <2>2 DEF Cleanup, Logs
    <3> QED
      BY <3>1
  <2> QED
    BY <2>1, <2>2
<1>2. CASE strategy = "fixed-window"
  <2>1. InWindow(Cleanup(state, Now)) = InWindow(state)
    BY <1>0, <1>2 DEF Cleanup, InWindow, WindowOver, Logs
  <2> QED
    BY <1>2, <2>1 DEF RateFits, WindowFits, Logs
<1>3. CASE strategy \in Logs
  <2>1. LogFits(granted, Evict(state, Now).entries)
    BY <1>0, <1>3, EvictFits DEF EntrySound, RateFits
  <2>2. Cleanup(state, Now).entries = Evict(state, Now).entries
    BY <1>0, <1>3 DEF Cleanup, Logs
  <2> QED
    BY <1>3, <2>1, <2>2 DEF RateFits, Logs
<1> QED
  BY <1>0, <1>1, <1>2, <1>3 DEF LimiterTypes, Strategies, Logs

\* What is admitted is within the rate just if the limits hold of it.
LEMMA RateIs == ASSUME LimiterTypes PROVE AdmittedRate <=> RateOf(granted)
BY DEF AdmittedRate, Admitted, RateOf, LimiterTypes, Strategies, Logs

\* Between two moments of a window there are only moments of it.
LEMMA WindowConvex ==
    ASSUME NEW a \in Nat, NEW b \in Nat, NEW c \in Nat, a <= b, b <= c,
           WindowStart(a) = WindowStart(c)
    PROVE  WindowStart(b) = WindowStart(a)
<1>1. Window \in Nat \ {0}
  BY LimitsAssumption
<1>2. a \div Window <= b \div Window /\ b \div Window <= c \div Window
      /\ a \div Window \in Nat /\ b \div Window \in Nat /\ c \div Window \in Nat
  BY <1>1
<1>3. a \div Window = c \div Window
  BY <1>1, <1>2 DEF WindowStart
<1> QED
  BY <1>2, <1>3 DEF WindowStart

\* What is admitted at a step stays within the rate, if the entry it leaves counts it.
LEMMA AdmissionRate ==
    ASSUME LimiterTypes, FuturePart, RateOf(granted), NEW cost \in Nat,
           NEW h, h = [granted EXCEPT ![time] = granted[time] + cost],
           NEW e, EntrySound(e), RateFits(h, e)
    PROVE  RateOf(h)
<1>0. /\ MaxTime \in Nat /\ MaxSkew \in Nat /\ time \in Nat /\ Now \in Nat /\ Window \in Nat
      /\ MaxRequests \in Nat /\ BucketSize \in Nat /\ Capacity \in Nat /\ h \in [Times -> Nat]
      /\ skew \in Nat /\ Now = MaxSkew + time - skew
  BY LimitsAre, SinceMore DEF LimiterTypes, Now
<1> SUFFICES ASSUME NEW s \in Times, NEW t \in s .. MaxTime
             PROVE  LET admitted == Before(h, t + 1) - Before(h, s) IN
                    /\ strategy = "token-bucket" =>
                         2 * Window * admitted <= 2 * Window * BucketSize + TwoWindows * (t - s)
                    /\ strategy \in Logs => (t - s <= Window => admitted <= Capacity)
                    /\ strategy = "fixed-window" =>
                         (skew = 0 /\ WindowStart(MaxSkew + t) = WindowStart(MaxSkew + s)
                            => admitted <= MaxRequests)
  BY DEF RateOf
<1>1. s \in Nat /\ t \in Nat /\ s <= t /\ t <= MaxTime /\ t - s \in Nat
  BY <1>0 DEF Times
<1>2. CASE t < time
  <2>1. t + 1 \in 0 .. time /\ s \in 0 .. time
    BY <1>0, <1>1, <1>2
  <2>2. Before(h, t + 1) = Before(granted, t + 1) /\ Before(h, s) = Before(granted, s)
    BY <2>1, SinceMore
  <2> QED
    BY <2>2 DEF RateOf
<1>3. CASE t >= time /\ s > time
  <2>1. t + 1 \in time + 1 .. MaxTime + 1 /\ s \in time + 1 .. MaxTime + 1
    BY <1>0, <1>1, <1>3
  <2>2. Before(h, t + 1) = Before(h, time + 1) /\ Before(h, s) = Before(h, time + 1) /\ Before(h, time + 1) \in Nat
    BY <2>1, SinceMore
  <2>3. Before(h, t + 1) - Before(h, s) = 0
    BY <2>2
  <2>4. 2 * Window * 0 <= 2 * Window * BucketSize + TwoWindows * (t - s)
    BY <1>1, Products, Gains
  <2> QED
    BY <1>0, <2>3, <2>4
<1>4. CASE t >= time /\ s <= time
  <2>1. s \in 0 .. time /\ t + 1 \in time + 1 .. MaxTime + 1
    BY <1>0, <1>1, <1>4
  <2>2. PICK x \in Int : x = Since(h, s) /\ x = Before(h, t + 1) - Before(h, s)
    <3>1. Before(h, t + 1) = Before(h, time + 1)
      BY <2>1, SinceMore
    <3>2. Since(granted, s) \in Int /\ Since(h, s) = Since(granted, s) + cost
      BY <2>1, SinceMore
    <3>3. Since(h, s) \in Int
      BY <3>2
    <3> QED
      BY <3>1, <3>3 DEF Since
  <2>3. ASSUME strategy = "token-bucket"
        PROVE  2 * Window * x <= 2 * Window * BucketSize + TwoWindows * (t - s)
    <3>1. PICK d \in Nat, k \in Nat, l \in Nat :
            d = time - s /\ k = t - time /\ l = t - s /\ l - k = d /\ k <= l
      BY <1>0, <1>1, <1>4
    <3>2. Fits(x, e, Idle(e), d)
      BY <2>1, <2>2, <2>3, <3>1 DEF RateFits, BucketFits
    <3>3. e \in Entries /\ Idle(e) \in Nat
      BY <1>0 DEF EntrySound, Entries, Idle, Larger
    <3>4. PICK X \in Int, full \in Nat : X = 2 * Window * x /\ full = 2 * Window * BucketSize
      BY Products
    <3>5. X <= full + TwoWindows * d
      BY <3>2, <3>3, <3>4, FitsRate
    <3>6. TwoWindows * (l - k) + TwoWindows * k = TwoWindows * l /\ TwoWindows * d \in Nat
          /\ TwoWindows * k \in Nat /\ TwoWindows * l \in Nat
      BY <3>1, Gains
    <3>7. X <= full + TwoWindows * l
      BY <3>1, <3>4, <3>5, <3>6
    <3> QED
      BY <3>1, <3>4, <3>7
  <2>4. ASSUME strategy \in Logs, t - s <= Window
        PROVE  x <= Capacity
    <3>1. s + Window >= time
      BY <1>0, <1>1, <1>4, <2>4
    <3>2. e.entries \in Seq(Requests) /\ e.amount = CostOf(e.entries, Len(e.entries)) /\ e.amount \in Nat
      BY <2>4 DEF EntrySound, LogOK
    <3>3. 0 \in 0 .. Len(e.entries) /\ \A j \in 1 .. 0 : e.entries[j].at + skew < MaxSkew + s
      BY <3>2
    <3>4. x <= CostOf(e.entries, Len(e.entries)) - CostOf(e.entries, 0)
      BY <2>1, <2>2, <2>4, <3>1, <3>3 DEF RateFits, LogFits
    <3>5. CostOf(e.entries, 0) = 0 /\ e.amount <= Capacity
      BY <2>4, <3>2, CostSteps DEF EntrySound
    <3> QED
      BY <1>0, <3>2, <3>4, <3>5
  <2>5. ASSUME strategy = "fixed-window", skew = 0, WindowStart(MaxSkew + t) = WindowStart(MaxSkew + s)
        PROVE  x <= MaxRequests
    <3>1. Now = MaxSkew + time /\ MaxSkew + s \in Nat /\ MaxSkew + t \in Nat
          /\ MaxSkew + s <= Now /\ Now <= MaxSkew + t
      BY <1>0, <1>1, <1>4, <2>5
    <3>2. WindowStart(MaxSkew + s) = WindowStart(Now)
      BY <1>0, <2>5, <3>1, WindowConvex
    <3>3. x <= InWindow(e)
      BY <2>1, <2>2, <2>5, <3>2 DEF RateFits, WindowFits
    <3>4. InWindow(e) \in Nat /\ InWindow(e) <= MaxRequests
      BY <1>0, <2>5 DEF InWindow, EntrySound, Entries
    <3> QED
      BY <1>0, <3>3, <3>4
  <2> QED
    BY <2>2, <2>3, <2>4, <2>5
<1> QED
  BY <1>0, <1>1, <1>2, <1>3, <1>4

\* A moment that passes.
LEMMA TickFits ==
    ASSUME LimiterInv, FuturePart, RateFits(granted, state), Tick
    PROVE  RateFits(granted, state)'
<1>0. /\ LimiterTypes /\ EntrySound(state)
      /\ MaxTime \in Nat /\ MaxSkew \in Nat /\ time \in Nat /\ Now \in Nat /\ Window \in Nat \ {0}
      /\ MaxRequests \in Nat /\ BucketSize \in Nat /\ granted \in [Times -> Nat] /\ skew \in Nat
      /\ Now = MaxSkew + time - skew
  <2>1. LimiterTypes /\ EntrySound(state)
    BY DEF LimiterInv
  <2>2. granted \in [Times -> Nat] /\ skew \in Nat /\ Now = MaxSkew + time - skew
    BY <2>1 DEF LimiterTypes, Now
  <2> QED
    BY <2>1, <2>2, LimitsAre
<1>1. /\ time < MaxTime /\ time' = time + 1 /\ BucketSize' = BucketSize
      /\ strategy' = strategy /\ burst' = burst /\ state' = state /\ skew' = skew
      /\ granted' = granted
  BY DEF Tick, BucketSize
<1>2. Now' = Now + 1
  BY <1>0, <1>1 DEF Now
<1>3. Before(granted, (time + 1) + 1) = Before(granted, time + 1) /\ Before(granted, time + 1) \in Nat
  <2>1. time + 1 \in Times /\ granted[time + 1] = 0
    BY <1>0, <1>1 DEF Times, FuturePart
  <2>2. Before(granted, time + 1) \in Nat
    BY <1>0, <1>1, BeforeSteps
  <2>3. Before(granted, (time + 1) + 1) = Before(granted, time + 1) + granted[time + 1]
    BY <1>0, <2>1, BeforeSteps
  <2> QED
    BY <2>1, <2>2, <2>3
<1> DEFINE Later(u) == Before(granted, (time + 1) + 1) - Before(granted, u)
<1>4. ASSUME NEW u \in 0 .. time
      PROVE  Later(u) = Since(granted, u) /\ Since(granted, u) \in Int
  <2>1. Before(granted, u) \in Nat
    BY <1>0, <1>1, BeforeSteps
  <2> QED
    BY <1>3, <2>1 DEF Since
<1>5. Later(time + 1) = 0
  BY <1>3
<1> HIDE DEF Later
<1>6. \A u \in 0 .. time + 1 : u \in 0 .. time \/ u = time + 1
  BY <1>0
<1>7. strategy = "token-bucket" =>
        \A u \in 0 .. time + 1 : Fits(Later(u), state, Larger(0, (Now + 1) - state.at), (time + 1) - u)
  <2> SUFFICES ASSUME strategy = "token-bucket", NEW u \in 0 .. time + 1
               PROVE  Fits(Later(u), state, Larger(0, (Now + 1) - state.at), (time + 1) - u)
    OBVIOUS
  <2>1. state \in Entries /\ state.amount <= BucketSize * Window /\ state.at \in Nat
    BY <1>0 DEF EntrySound, Entries
  <2>2. PICK i \in Nat, j \in Nat :
          i = Idle(state) /\ j = Larger(0, (Now + 1) - state.at) /\ j - i <= 1
    BY <1>0, <2>1 DEF Idle, Larger
  <2>3. CASE u \in 0 .. time
    <3>1. PICK d \in Nat, e \in Nat : d = time - u /\ e = (time + 1) - u /\ e = d + 1 /\ j - i <= e - d
      BY <1>0, <2>2, <2>3
    <3>2. Fits(Since(granted, u), state, i, d)
      BY <2>2, <2>3, <3>1 DEF RateFits, BucketFits
    <3>3. Later(u) = Since(granted, u) /\ Since(granted, u) \in Int
      BY <1>4, <2>3
    <3>4. Fits(Since(granted, u), state, j, e)
      BY <1>0, <2>1, <3>1, <3>2, <3>3, FitsLater
    <3> QED
      BY <2>2, <3>1, <3>3, <3>4
  <2>4. CASE u = time + 1
    <3>1. (time + 1) - u = 0 /\ Later(u) = 0 /\ 0 \in Nat
      BY <1>0, <1>5, <2>4
    <3>2. Fits(0, state, j, 0)
      BY <1>0, <2>1, <3>1, FitsNothing
    <3> QED
      BY <2>2, <3>1, <3>2
  <2> QED
    BY <1>6, <2>3, <2>4
<1>8. strategy \in Logs =>
        \A u \in 0 .. time + 1 : \A n \in 0 .. Len(state.entries) :
          u + Window >= time + 1 /\ (\A j \in 1 .. n : state.entries[j].at + skew < MaxSkew + u)
            => Later(u) <= CostOf(state.entries, Len(state.entries)) - CostOf(state.entries, n)
  <2> SUFFICES ASSUME strategy \in Logs, NEW u \in 0 .. time + 1, NEW n \in 0 .. Len(state.entries),
                      u + Window >= time + 1,
                      \A j \in 1 .. n : state.entries[j].at + skew < MaxSkew + u
               PROVE  Later(u) <= CostOf(state.entries, Len(state.entries)) - CostOf(state.entries, n)
    OBVIOUS
  <2>1. CASE u \in 0 .. time
    <3>1. u + Window >= time /\ Later(u) = Since(granted, u)
      BY <1>0, <1>4, <2>1
    <3> QED
      BY <2>1, <3>1 DEF RateFits, LogFits
  <2>2. CASE u = time + 1
    <3>1. state.entries \in Seq(Requests)
      BY <1>0 DEF EntrySound, Entries
    <3>2. CostOf(state.entries, Len(state.entries)) - CostOf(state.entries, n) \in Nat
      BY <3>1, CostOfRest
    <3> QED
      BY <1>5, <2>2, <3>2
  <2> QED
    BY <1>6, <2>1, <2>2
<1>9. strategy = "fixed-window" /\ skew = 0 =>
        \A u \in 0 .. time + 1 :
          WindowStart(MaxSkew + u) = WindowStart(Now + 1)
            => Later(u) <= IF state.present /\ state.at = WindowStart(Now + 1) THEN state.amount ELSE 0
  <2> SUFFICES ASSUME strategy = "fixed-window", skew = 0, NEW u \in 0 .. time + 1,
                      WindowStart(MaxSkew + u) = WindowStart(Now + 1)
               PROVE  Later(u) <= IF state.present /\ state.at = WindowStart(Now + 1)
                                   THEN state.amount ELSE 0
    OBVIOUS
  <2>1. CASE u \in 0 .. time
    <3>1. MaxSkew + u \in Nat /\ Now + 1 \in Nat /\ MaxSkew + u <= Now /\ Now <= Now + 1
      BY <1>0, <2>1
    <3>2. WindowStart(Now) = WindowStart(MaxSkew + u)
      BY <1>0, <3>1, WindowConvex
    <3>3. Since(granted, u) <= InWindow(state)
      BY <2>1, <3>2 DEF RateFits, WindowFits
    <3> QED
      BY <1>4, <2>1, <3>2, <3>3 DEF InWindow, WindowOver
  <2>2. CASE u = time + 1
    <3>1. state.amount \in Nat
      BY <1>0 DEF EntrySound, Entries
    <3> QED
      BY <1>5, <2>2, <3>1
  <2> QED
    BY <1>6, <2>1, <2>2
<1>10. \A u : Since(granted, u)' = Later(u)
  BY <1>1 DEF Since, Later, Before
<1>11. /\ Idle(state)' = Larger(0, (Now + 1) - state.at)
       /\ \A x, i, d : Fits(x, state, i, d)' = Fits(x, state, i, d)
  <2>1. TwoWindows' = TwoWindows
    BY <1>1 DEF TwoWindows
  <2>2. Idle(state)' = Larger(0, (Now + 1) - state.at)
    BY <1>1, <1>2 DEF Idle
  <2> QED
    BY <1>1, <2>1, <2>2 DEF Fits
<1>12. (strategy = "token-bucket" => BucketFits(granted, state))'
  BY <1>1, <1>7, <1>10, <1>11 DEF BucketFits
<1>13. (strategy \in Logs => LogFits(granted, state.entries))'
  <2>1. \A n : CostOf(state.entries, n)' = CostOf(state.entries, n)
    BY <1>1 DEF CostOf
  <2>2. CostOf(state.entries, Len(state.entries))' = CostOf(state.entries, Len(state.entries))
    BY <1>1 DEF CostOf
  <2> QED
    BY <1>1, <1>8, <1>10, <2>1, <2>2 DEF LogFits, Logs
<1>14. (strategy = "fixed-window" => WindowFits(granted, state))'
  <2>1. (strategy = "fixed-window" /\ skew = 0)' => strategy = "fixed-window" /\ skew = 0
    BY <1>1
  <2>2. InWindow(state)' = IF state.present /\ state.at = WindowStart(Now + 1) THEN state.amount ELSE 0
    BY <1>1, <1>2 DEF InWindow, WindowOver, WindowStart
  <2>3. \A u : WindowStart(MaxSkew + u)' = WindowStart(MaxSkew + u)
    BY DEF WindowStart
  <2>4. WindowStart(Now)' = WindowStart(Now + 1)
    BY <1>2 DEF WindowStart
  <2> QED
    BY <1>1, <1>9, <1>10, <2>1, <2>2, <2>3, <2>4 DEF WindowFits
<1> QED
  BY <1>12, <1>13, <1>14 DEF RateFits

\* A clock that is set back: a bucket has no more than it had, a log is asked for less, and a
\* window promises nothing any more.
LEMMA SetBackFits ==
    ASSUME LimiterInv, FuturePart, RateFits(granted, state), ClockSetBack
    PROVE  RateFits(granted, state)'
<1>0. /\ LimiterTypes /\ EntrySound(state)
      /\ MaxTime \in Nat /\ MaxSkew \in Nat /\ time \in Nat /\ Now \in Nat /\ Window \in Nat \ {0}
      /\ MaxRequests \in Nat /\ BucketSize \in Nat /\ granted \in [Times -> Nat] /\ skew \in Nat
      /\ Now = MaxSkew + time - skew
  <2>1. LimiterTypes /\ EntrySound(state)
    BY DEF LimiterInv
  <2>2. granted \in [Times -> Nat] /\ skew \in Nat /\ Now = MaxSkew + time - skew
    BY <2>1 DEF LimiterTypes, Now
  <2> QED
    BY <2>1, <2>2, LimitsAre
<1>1. /\ skew < MaxSkew /\ time' = time /\ BucketSize' = BucketSize
      /\ strategy' = strategy /\ burst' = burst /\ state' = state /\ skew' = skew + 1
      /\ granted' = granted
  BY DEF ClockSetBack, BucketSize
<1>2. Now' = Now - 1 /\ Now - 1 \in Nat
  BY <1>0, <1>1 DEF Now
<1>3. \A u : Since(granted, u)' = Since(granted, u)
  BY <1>1 DEF Since, Before
<1>4. ASSUME NEW u \in 0 .. time PROVE Since(granted, u) \in Int
  <2>1. 0 \in Nat
    OBVIOUS
  <2> QED
    BY <1>0, <2>1, SinceMore
<1>5. (strategy = "token-bucket" => BucketFits(granted, state))'
  <2> SUFFICES ASSUME strategy = "token-bucket", NEW u \in 0 .. time
               PROVE  Fits(Since(granted, u), state, Larger(0, (Now - 1) - state.at), time - u)
    <3>1. TwoWindows' = TwoWindows
      BY <1>1 DEF TwoWindows
    <3>2. Idle(state)' = Larger(0, (Now - 1) - state.at)
      BY <1>1, <1>2 DEF Idle
    <3>3. \A x, i, d : Fits(x, state, i, d)' = Fits(x, state, i, d)
      BY <1>1, <3>1 DEF Fits
    <3> QED
      BY <1>1, <1>3, <3>2, <3>3 DEF BucketFits
  <2>1. state \in Entries /\ state.amount <= BucketSize * Window /\ state.at \in Nat
    BY <1>0 DEF EntrySound, Entries
  <2>2. PICK d \in Nat : d = time - u
    BY <1>0
  <2>3. PICK i \in Nat, j \in Nat :
          i = Idle(state) /\ j = Larger(0, (Now - 1) - state.at) /\ j - i <= d - d
    BY <1>0, <2>1 DEF Idle, Larger
  <2>4. Fits(Since(granted, u), state, i, d) /\ Since(granted, u) \in Int
    BY <1>4, <2>2, <2>3 DEF RateFits, BucketFits
  <2>5. Fits(Since(granted, u), state, j, d)
    BY <1>0, <2>1, <2>3, <2>4, FitsLater
  <2> QED
    BY <2>2, <2>3, <2>5
<1>6. (strategy \in Logs => LogFits(granted, state.entries))'
  <2> SUFFICES ASSUME strategy \in Logs, NEW u \in 0 .. time, NEW n \in 0 .. Len(state.entries),
                      u + Window >= time,
                      \A j \in 1 .. n : state.entries[j].at + (skew + 1) < MaxSkew + u
               PROVE  Since(granted, u) <= CostOf(state.entries, Len(state.entries)) - CostOf(state.entries, n)
    <3>1. \A m : CostOf(state.entries, m)' = CostOf(state.entries, m)
      BY <1>1 DEF CostOf
    <3>2. CostOf(state.entries, Len(state.entries))' = CostOf(state.entries, Len(state.entries))
      BY <1>1 DEF CostOf
    <3> QED
      BY <1>1, <1>3, <3>1, <3>2 DEF LogFits, Logs
  <2>1. ASSUME NEW j \in 1 .. n PROVE state.entries[j].at + skew < MaxSkew + u
    <3>1. state.entries \in Seq(Requests)
      BY <1>0 DEF EntrySound, Entries
    <3>2. state.entries[j] \in Requests /\ state.entries[j].at + (skew + 1) < MaxSkew + u
      BY <3>1
    <3> QED
      BY <1>0, <3>2 DEF Requests
  <2> QED
    BY <2>1 DEF RateFits, LogFits
<1>7. (strategy = "fixed-window" => WindowFits(granted, state))'
  BY <1>0, <1>1 DEF WindowFits
<1> QED
  BY <1>5, <1>6, <1>7 DEF RateFits

\* A step that changes neither the clock nor the options.
LEMMA RateStays ==
    ASSUME UNCHANGED <<time, skew, strategy, burst>>
    PROVE  /\ RateFits(granted', state') => RateFits(granted, state)'
           /\ RateOf(granted') => RateOf(granted)'
<1>1. time' = time /\ skew' = skew /\ strategy' = strategy /\ burst' = burst
  OBVIOUS
<1>2. Now' = Now /\ BucketSize' = BucketSize /\ Capacity' = Capacity /\ TwoWindows' = TwoWindows
  BY <1>1 DEF Now, BucketSize, Capacity, TwoWindows
<1>3. \A u : Since(granted, u)' = Since(granted', u)
  BY <1>1 DEF Since, Before
<1>4. (strategy = "token-bucket" => BucketFits(granted', state'))
       => (strategy = "token-bucket" => BucketFits(granted, state))'
  <2>1. Idle(state)' = Idle(state')
    BY <1>1, <1>2 DEF Idle
  <2>2. \A x, i, d : Fits(x, state, i, d)' = Fits(x, state', i, d)
    BY <1>2 DEF Fits
  <2> QED
    BY <1>1, <1>2, <1>3, <2>1, <2>2 DEF BucketFits
<1>5. (strategy \in Logs => LogFits(granted', state'.entries))
       => (strategy \in Logs => LogFits(granted, state.entries))'
  <2>1. \A n : CostOf(state.entries, n)' = CostOf(state'.entries, n)
    BY DEF CostOf
  <2>2. CostOf(state.entries, Len(state.entries))' = CostOf(state'.entries, Len(state'.entries))
    BY DEF CostOf
  <2> QED
    BY <1>1, <1>3, <2>1, <2>2 DEF LogFits, Logs
<1>6. (strategy = "fixed-window" => WindowFits(granted', state'))
       => (strategy = "fixed-window" => WindowFits(granted, state))'
  <2>1. InWindow(state)' = InWindow(state')
    BY <1>1, <1>2 DEF InWindow, WindowOver, WindowStart
  <2>2. WindowStart(Now)' = WindowStart(Now)
    BY <1>2 DEF WindowStart
  <2>3. \A u : WindowStart(MaxSkew + u)' = WindowStart(MaxSkew + u)
    BY DEF WindowStart
  <2> QED
    BY <1>1, <1>3, <2>1, <2>2, <2>3 DEF WindowFits
<1>7. RateFits(granted', state') => RateFits(granted, state)'
  BY <1>4, <1>5, <1>6 DEF RateFits
<1>8. RateOf(granted') => RateOf(granted)'
  <2>1. \A t : Before(granted, t)' = Before(granted', t)
    BY DEF Before
  <2>2. \A t : WindowStart(t)' = WindowStart(t)
    BY DEF WindowStart
  <2> QED
    BY <1>1, <1>2, <2>1, <2>2 DEF RateOf, Logs, Times
<1> QED
  BY <1>7, <1>8

\* A block is looked at, set, and waited for, by a clock that may be set back meanwhile.
LEMMA BlockKeeps ==
    ASSUME LimiterInv, BlockPart, [LimiterNext]_limiterVars
    PROVE  BlockPart'
<1>0. /\ LimiterTypes /\ time \in Nat /\ skew \in Nat /\ MaxSkew \in Nat /\ Now \in Nat /\ held \in Nat
      /\ Now = MaxSkew + time - skew /\ blocked \in {NoBlock} \cup Nat
  BY LimitsAre DEF LimiterInv, LimiterTypes, Now
<1>1. ASSUME blocked' \in {blocked, Unblocked(Now)}, UNCHANGED <<held, time, skew>>
      PROVE  BlockPart'
  <2>1. held' = held /\ time' = time /\ Now' = Now
    BY <1>1 DEF Now
  <2>2. blocked' = blocked \/ (blocked' = NoBlock /\ blocked # NoBlock /\ Now >= blocked)
    BY <1>1 DEF Unblocked
  <2>3. held <= time \/ (blocked' = blocked /\ blocked # NoBlock)
    BY <1>0, <2>2 DEF BlockPart, NoBlock
  <2> QED
    BY <1>0, <2>1, <2>2, <2>3 DEF BlockPart
<1>2. ASSUME NEW cost \in Costs, CheckRateLimit(cost) PROVE BlockPart'
  <2>1. blocked' \in {blocked, Unblocked(Now)} /\ UNCHANGED <<held, time, skew>>
    BY <1>2 DEF CheckRateLimit, limiterVars
  <2> QED
    BY <1>1, <2>1
<1>3. ASSUME NEW duration \in Durations, BlockKey(duration) PROVE BlockPart'
  <2>1. duration \in Nat
    BY LimitsAssumption
  <2>2. blocked' = Now + duration /\ held' = time + duration /\ time' = time /\ Now' = Now
    BY <1>3 DEF BlockKey, Now
  <2> QED
    BY <1>0, <2>1, <2>2 DEF BlockPart, NoBlock
<1>4. ASSUME GetStatus \/ Sweep \/ UNCHANGED limiterVars PROVE BlockPart'
  <2>1. blocked' \in {blocked, Unblocked(Now)} /\ UNCHANGED <<held, time, skew>>
    BY <1>4 DEF GetStatus, Sweep, limiterVars
  <2> QED
    BY <1>1, <2>1
<1>5. ASSUME Reset \/ Dispose PROVE BlockPart'
  <2>1. blocked' = NoBlock /\ held' = 0 /\ time' = time
    BY <1>5 DEF Reset, Dispose
  <2> QED
    BY <1>0, <2>1 DEF BlockPart
<1>6. ASSUME Tick PROVE BlockPart'
  <2>1. blocked' = blocked /\ held' = held /\ time' = time + 1 /\ Now' = Now + 1
    <3>1. blocked' = blocked /\ held' = held /\ time' = time + 1 /\ skew' = skew
      BY <1>6 DEF Tick
    <3> QED
      BY <1>0, <3>1 DEF Now
  <2> QED
    BY <1>0, <2>1 DEF BlockPart
<1>7. ASSUME ClockSetBack PROVE BlockPart'
  <2>1. blocked' = blocked /\ held' = held /\ time' = time /\ Now' = Now - 1
    <3>1. blocked' = blocked /\ held' = held /\ time' = time /\ skew' = skew + 1
      BY <1>7 DEF ClockSetBack
    <3> QED
      BY <1>0, <3>1 DEF Now
  <2> QED
    BY <1>0, <2>1 DEF BlockPart
<1> QED
  BY <1>2, <1>3, <1>4, <1>5, <1>6, <1>7 DEF LimiterNext

\* What checkRateLimit() grants, it grants now; nothing is granted of a key that is blocked.
LEMMA Grants ==
    ASSUME LimiterInv, BlockPart, NEW cost \in Costs, CheckRateLimit(cost)
    PROVE  \/ granted' = granted /\ state' = state
           \/ \E r : /\ r = Check(state, cost, Now) /\ state' = r.s
                     /\ granted' = [granted EXCEPT ![time] = IF r.ok THEN granted[time] + cost
                                                                     ELSE granted[time]]
                     /\ held <= time
<1>0. /\ time \in Nat /\ Now \in Nat /\ held \in Nat /\ blocked \in {NoBlock} \cup Nat
  BY LimitsAre DEF LimiterInv, LimiterTypes
<1>1. CASE cost > Capacity \/ Unblocked(Now) # NoBlock
  BY <1>1 DEF CheckRateLimit, limiterVars
<1>2. CASE ~(cost > Capacity) /\ Unblocked(Now) = NoBlock
  <2>1. held <= time
    BY <1>0, <1>2 DEF Unblocked, BlockPart, NoBlock
  <2>2. PICK r : r = Check(state, cost, Now)
    OBVIOUS
  <2>3. state' = r.s /\ granted' = [granted EXCEPT ![time] = IF r.ok THEN granted[time] + cost
                                                                     ELSE granted[time]]
    BY <1>2, <2>2, Zenon DEF CheckRateLimit
  <2> QED
    BY <2>1, <2>2, <2>3
<1> QED
  BY <1>1, <1>2

\* A request is granted within the rate, or refused.
LEMMA CheckRates ==
    ASSUME RateInv, NEW cost \in Costs, CheckRateLimit(cost)
    PROVE  FuturePart' /\ RateFits(granted, state)' /\ RateOf(granted)'
<1>0. /\ LimiterTypes /\ EntrySound(state) /\ FuturePart /\ RateFits(granted, state) /\ RateOf(granted)
      /\ cost \in Nat /\ time \in Nat /\ time \in Times /\ granted \in [Times -> Nat]
      /\ LimiterInv /\ BlockPart
  BY LimitsAssumption DEF RateInv, LimiterInv, LimiterTypes, Times
<1>1. UNCHANGED <<time, skew, strategy, burst>>
  BY DEF CheckRateLimit, limiterVars
<1>2. CASE granted' = granted /\ state' = state
  <2>1. RateFits(granted', state') /\ RateOf(granted')
    BY <1>0, <1>2
  <2>2. FuturePart'
    BY <1>0, <1>1, <1>2 DEF FuturePart
  <2> QED
    BY <1>1, <2>1, <2>2, RateStays
<1>3. ASSUME NEW r, r = Check(state, cost, Now), state' = r.s,
             granted' = [granted EXCEPT ![time] = IF r.ok THEN granted[time] + cost ELSE granted[time]]
      PROVE  FuturePart' /\ RateFits(granted, state)' /\ RateOf(granted)'
  <2>1. EntrySound(r.s)
    BY <1>0, <1>3, CheckSound
  <2>2. PICK h : h = granted'
    OBVIOUS
  <2>3. h = [granted EXCEPT ![time] = IF r.ok THEN granted[time] + cost ELSE granted[time]]
    BY <1>3, <2>2
  <2>4. RateFits(h, r.s)
    BY <1>0, <1>3, <2>3, CheckFits
  <2>5. RateOf(h)
    <3>1. CASE r.ok
      <4>1. h = [granted EXCEPT ![time] = granted[time] + cost]
        BY <2>3, <3>1
      <4> QED
        BY <1>0, <2>1, <2>4, <4>1, AdmissionRate
    <3>2. CASE ~r.ok
      <4>1. h = granted
        BY <1>0, <2>3, <3>2
      <4> QED
        BY <1>0, <4>1
    <3> QED
      BY <3>1, <3>2
  <2>6. FuturePart'
    <3>1. \A t \in Times : t > time => granted'[t] = granted[t]
      BY <1>0, <1>3
    <3> QED
      BY <1>0, <1>1, <3>1 DEF FuturePart
  <2>7. RateFits(granted', state') /\ RateOf(granted')
    BY <1>3, <2>2, <2>4, <2>5
  <2> QED
    BY <1>1, <2>6, <2>7, RateStays
<1>4. \/ granted' = granted /\ state' = state
      \/ \E r : /\ r = Check(state, cost, Now) /\ state' = r.s
                /\ granted' = [granted EXCEPT ![time] = IF r.ok THEN granted[time] + cost
                                                                ELSE granted[time]]
  BY <1>0, Grants
<1> QED
  BY <1>2, <1>3, <1>4

\* A key that starts again starts within the rate.
LEMMA EmptyRates ==
    ASSUME LimiterTypes
    PROVE  RateOf([t \in Times |-> 0])
<1> DEFINE none == [t \in Times |-> 0]
<1>0. /\ MaxTime \in Nat /\ Window \in Nat /\ MaxRequests \in Nat /\ BucketSize \in Nat /\ Capacity \in Nat
      /\ none \in [Times -> Nat]
  BY LimitsAre
<1>1. ASSUME NEW t \in 0 .. MaxTime + 1 PROVE Before(none, t) = 0
  <2>1. \A u \in Times : u >= 0 => none[u] = 0
    OBVIOUS
  <2>2. 0 \in 0 .. MaxTime + 1
    BY <1>0
  <2> HIDE DEF none
  <2>3. Before(none, t) = Before(none, 0)
    BY <1>0, <2>1, <2>2, BeforeQuiet
  <2> QED
    BY <1>0, <2>3, BeforeSteps
<1> HIDE DEF none
<1>2. ASSUME NEW s \in Times, NEW t \in s .. MaxTime
      PROVE  /\ Before(none, t + 1) - Before(none, s) = 0
             /\ 2 * Window * 0 <= 2 * Window * BucketSize + TwoWindows * (t - s)
  <2>1. t + 1 \in 0 .. MaxTime + 1 /\ s \in 0 .. MaxTime + 1 /\ t - s \in Nat
    BY <1>0 DEF Times
  <2>2. 2 * Window * 0 = 0 /\ 2 * Window * BucketSize \in Nat /\ TwoWindows * (t - s) \in Nat
    BY <2>1, Products, Gains
  <2> QED
    BY <1>1, <2>1, <2>2
<1>3. RateOf(none)
  BY <1>0, <1>2 DEF RateOf
<1> QED
  BY <1>3 DEF none

\* Every step of the limiter keeps what is admitted within the rate.
LEMMA RateStepKeeps == RateInv /\ [LimiterNext]_limiterVars => RateInv'
<1> SUFFICES ASSUME RateInv, [LimiterNext]_limiterVars PROVE RateInv'
  OBVIOUS
<1>0. /\ LimiterTypes /\ EntrySound(state) /\ FuturePart /\ RateFits(granted, state) /\ RateOf(granted)
      /\ LimiterInv /\ BlockPart /\ time \in Nat /\ granted \in [Times -> Nat]
  BY LimitsAre DEF RateInv, LimiterInv, LimiterTypes
<1>1. LimiterInv' /\ BlockPart'
  BY <1>0, LimiterStepKeeps, BlockKeeps
<1>2. (FuturePart' /\ RateFits(granted, state)' /\ RateOf(granted)') => RateInv'
  BY <1>1 DEF RateInv
<1>3. ASSUME UNCHANGED <<time, skew, strategy, burst>>, granted' = granted, RateFits(granted, state')
      PROVE  RateInv'
  <2>1. FuturePart'
    BY <1>0, <1>3 DEF FuturePart
  <2>2. RateFits(granted', state') /\ RateOf(granted')
    BY <1>0, <1>3
  <2> QED
    BY <1>2, <1>3, <2>1, <2>2, RateStays
<1>4. ASSUME NEW cost \in Costs, CheckRateLimit(cost) PROVE RateInv'
  BY <1>2, <1>4, CheckRates
<1>5. ASSUME NEW duration \in Durations, BlockKey(duration) PROVE RateInv'
  <2>1. state' = state /\ granted' = granted /\ UNCHANGED <<time, skew, strategy, burst>>
    BY <1>5 DEF BlockKey
  <2> QED
    BY <1>0, <1>3, <2>1
<1>6. ASSUME GetStatus PROVE RateInv'
  <2>1. state' = Read(state, Now) /\ granted' = granted /\ UNCHANGED <<time, skew, strategy, burst>>
    BY <1>6 DEF GetStatus
  <2> QED
    BY <1>0, <1>3, <2>1, ReadFits
<1>7. ASSUME Sweep PROVE RateInv'
  <2>1. state' = Cleanup(state, Now) /\ granted' = granted /\ UNCHANGED <<time, skew, strategy, burst>>
    BY <1>7 DEF Sweep
  <2> QED
    BY <1>0, <1>3, <2>1, CleanupFits
<1>8. ASSUME Reset \/ Dispose PROVE RateInv'
  <2>1. /\ state' = NoEntry /\ granted' = [t \in Times |-> 0]
        /\ UNCHANGED <<time, skew, strategy, burst>>
    BY <1>8 DEF Reset, Dispose
  <2>2. RateFits(granted', state') /\ RateOf(granted')
    BY <1>0, <2>1, EmptyFits, EmptyRates
  <2>3. FuturePart'
    BY <2>1 DEF FuturePart
  <2> QED
    BY <1>2, <2>1, <2>2, <2>3, RateStays
<1>9. ASSUME Tick PROVE RateInv'
  <2>1. RateFits(granted, state)'
    BY <1>0, <1>9, TickFits
  <2>2. time' = time + 1 /\ granted' = granted
    BY <1>9 DEF Tick
  <2>3. FuturePart'
    BY <1>0, <2>2 DEF FuturePart, Times
  <2>4. RateOf(granted)'
    BY <1>0, <1>9 DEF Tick, RateOf, BucketSize, TwoWindows, Capacity, Logs, Before
  <2> QED
    BY <1>2, <2>1, <2>3, <2>4
<1>10. ASSUME ClockSetBack PROVE RateInv'
  <2>1. RateFits(granted, state)'
    BY <1>0, <1>10, SetBackFits
  <2>2. FuturePart'
    BY <1>0, <1>10 DEF ClockSetBack, FuturePart
  <2>3. RateOf(granted)'
    <3>1. /\ skew' # 0 /\ strategy' = strategy /\ BucketSize' = BucketSize /\ Capacity' = Capacity
          /\ TwoWindows' = TwoWindows
      <4>1. skew \in Nat
        BY <1>0 DEF LimiterTypes
      <4> QED
        BY <1>10, <4>1 DEF ClockSetBack, BucketSize, TwoWindows, Capacity
    <3>2. \A t : Before(granted, t)' = Before(granted, t)
      BY <1>10 DEF ClockSetBack, Before
    <3> QED
      BY <1>0, <3>1, <3>2 DEF RateOf, Logs
  <2> QED
    BY <1>2, <2>1, <2>2, <2>3
<1>11. ASSUME UNCHANGED limiterVars PROVE RateInv'
  <2>1. state' = state /\ granted' = granted /\ UNCHANGED <<time, skew, strategy, burst>>
    BY <1>11 DEF limiterVars
  <2> QED
    BY <1>0, <1>3, <2>1
<1> QED
  BY <1>4, <1>5, <1>6, <1>7, <1>8, <1>9, <1>10, <1>11, Zenon DEF LimiterNext

\* Whatever is granted is granted within the rate, and to a key that is not blocked.
THEOREM LimitsProved == LimiterSpec => LimitsHold
<1>1. LimiterInit => RateInv
  <2> SUFFICES ASSUME LimiterInit PROVE RateInv
    OBVIOUS
  <2>1. LimiterInv
    BY LimiterStarts
  <2>2. LimiterTypes /\ state = NoEntry /\ granted = [t \in Times |-> 0] /\ held = 0 /\ time = 0
        /\ blocked = NoBlock
    BY <2>1 DEF LimiterInv, LimiterInit
  <2>3. FuturePart /\ BlockPart
    BY <2>2 DEF FuturePart, BlockPart
  <2> QED
    BY <2>1, <2>2, <2>3, EmptyFits, EmptyRates DEF RateInv
<1>2. RateInv => AdmittedRate
  BY RateIs DEF RateInv, LimiterInv
<1>3. RateInv /\ [LimiterNext]_limiterVars => ((\E t \in Times : granted'[t] > granted[t]) => time >= held)
  <2> SUFFICES ASSUME RateInv, [LimiterNext]_limiterVars, NEW t \in Times, granted'[t] > granted[t]
               PROVE  time >= held
    OBVIOUS
  <2>1. LimiterInv /\ BlockPart /\ granted \in [Times -> Nat] /\ time \in Nat /\ held \in Nat
    BY LimitsAre DEF RateInv, LimiterInv, LimiterTypes
  <2>2. granted' # granted /\ granted' # [u \in Times |-> 0]
    BY <2>1
  <2>3. PICK cost \in Costs : CheckRateLimit(cost)
    BY <2>2 DEF LimiterNext, BlockKey, GetStatus, Sweep, Reset, Dispose, Tick, ClockSetBack, limiterVars
  <2>4. held <= time
    BY <2>1, <2>2, <2>3, Grants
  <2> QED
    BY <2>1, <2>4
<1> QED
  BY <1>1, <1>2, <1>3, RateStepKeeps, PTL DEF LimiterSpec, LimitsHold
==============================================================================
