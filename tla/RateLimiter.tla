----------------------------- MODULE RateLimiter -----------------------------
(***************************************************************************)
(* The rate limiter: src/resilience/rate-limiter.js and the strategies     *)
(* under src/resilience/strategies/.                                       *)
(*                                                                         *)
(* All limits are kept per key, so the model has one key.  A strategy's    *)
(* entry for the key is one record for all of them: `amount` is the bucket *)
(* (in 1/Window of a token, so that the refill is a whole number), the     *)
(* count or the running total; `at` is the last refill or the window's     *)
(* start; `entries` is the log.  The clock is Date.now(), which may be set *)
(* back; `time` is what really passes.  The delay that an admitted         *)
(* leaky-bucket request sleeps is part of its caller's wait (Publisher).   *)
(***************************************************************************)
EXTENDS Integers, Sequences, FiniteSets, FiniteSetsExt

CONSTANTS
    Window,      \* options.windowMs
    MaxRequests, \* options.maxRequests
    BurstLimits, \* the burst limits a token bucket is configured with
    QueueLimit,  \* options.queueLimit
    Costs,       \* bound: the costs asked for
    Durations,   \* bound: the durations given to blockKey()
    MaxTime,     \* bound: how long the system is watched
    MaxSkew      \* bound: how far the clock is set back altogether

ASSUME LimitsAssumption ==
    /\ {Window, MaxRequests, QueueLimit} \cup BurstLimits \subseteq Nat \ {0}
    /\ Costs \subseteq Nat \ {0} /\ Durations \subseteq Nat
    /\ MaxTime \in Nat /\ MaxSkew \in Nat

VARIABLES
    strategy,  \* options.strategy
    burst,     \* options.burstLimit where options.burstable is set, or NoBurst
    state,     \* the strategy's entry for the key
    blocked,   \* `blocked` at the key: the clock time the block ends, or NoBlock
    sweeping,  \* is the cleanup interval running?
    time, skew,
    granted,   \* history: the cost admitted at each moment, since the last reset
    held       \* history: when the key may be used again after a block

limiterVars == <<strategy, burst, state, blocked, sweeping, time, skew, granted, held>>

Strategies == {"token-bucket", "leaky-bucket", "fixed-window", "sliding-window"}
Logs == {"leaky-bucket", "sliding-window"}
NoBlock == -1
NoBurst == 0
NoEntry == [present |-> FALSE, amount |-> 0, at |-> 0, entries |-> <<>>]
Times == 0..MaxTime
Now == MaxSkew + time - skew

Smaller(a, b) == IF a < b THEN a ELSE b
Larger(a, b) == IF a > b THEN a ELSE b

BucketSize == IF burst # NoBurst THEN burst ELSE MaxRequests

\* Mutant of Capacity: a bucket that may not burst is given the default burst limit.
CapacityBurst == IF strategy = "token-bucket" THEN Larger(burst, (3 * MaxRequests) \div 2) ELSE
                 IF strategy = "leaky-bucket" THEN QueueLimit ELSE MaxRequests

\* The strategy's `capacity`: the most one request can ever be granted.
Capacity ==
    CASE strategy = "token-bucket" -> BucketSize
      [] strategy = "leaky-bucket" -> QueueLimit
      [] OTHER -> MaxRequests

-----------------------------------------------------------------------------
(* The token bucket. *)

\* #bucket(): a new bucket is full; an old one is refilled, unless the clock was set back.
Bucket(s, now) ==
    IF ~s.present
      THEN [NoEntry EXCEPT !.present = TRUE, !.amount = BucketSize * Window, !.at = now]
      ELSE IF now <= s.at THEN s
      ELSE [s EXCEPT !.amount = Smaller(BucketSize * Window, @ + (now - s.at) * MaxRequests), !.at = now]

TakeTokens(s, cost, now) ==
    LET b == Bucket(s, now) IN
    IF b.amount < cost * Window THEN [ok |-> FALSE, s |-> b]
                                ELSE [ok |-> TRUE, s |-> [b EXCEPT !.amount = @ - cost * Window]]

\* Mutant of BucketIdle: a bucket is dropped after one window.
BucketIdleOneWindow(s, now) == now - s.at > Window

BucketIdle(s, now) == now - s.at > 2 * Window

-----------------------------------------------------------------------------
(* The fixed window, which begins at a multiple of windowMs. *)

WindowStart(now) == (now \div Window) * Window

\* The counter is not of the window that `now` is in: the next request restarts it, and
\* cleanup() drops it.
WindowOver(s, now) == s.present /\ s.at # WindowStart(now)

CountRequest(s, cost, now) ==
    LET count == IF s.present /\ ~WindowOver(s, now) THEN s.amount ELSE 0 IN
    IF count + cost > MaxRequests
      THEN [ok |-> FALSE, s |-> IF s.present THEN [s EXCEPT !.amount = count, !.at = WindowStart(now)]
                                             ELSE s]
      ELSE [ok |-> TRUE, s |-> [NoEntry EXCEPT !.present = TRUE, !.amount = count + cost,
                                               !.at = WindowStart(now)]]

-----------------------------------------------------------------------------
(* The log of the sliding window and of the leaky bucket. *)

\* Mutant of Expired: an entry leaves the window while it still counts.
ExpiredEarly(e, now) == now - e.at >= Window

Expired(e, now) == now - e.at > Window

\* What the first n requests of a log cost.
CostOf(entries, n) ==
    LET total[i \in 0 .. Len(entries)] == IF i = 0 THEN 0 ELSE total[i - 1] + entries[i].cost
    IN  total[n]

\* #evictExpired(): from the front, up to the first entry that has not expired.
Evict(s, now) ==
    LET n == Max({0} \cup {i \in 1..Len(s.entries) : \A j \in 1..i : Expired(s.entries[j], now)}) IN
    [s EXCEPT !.entries = SubSeq(@, n + 1, Len(@)),
              !.amount = @ - CostOf(s.entries, n)]

Occupy(s, cost, now) ==
    LET w == Evict([s EXCEPT !.present = TRUE], now) IN
    IF w.amount + cost > Capacity
      THEN [ok |-> FALSE, s |-> w]
      ELSE [ok |-> TRUE, s |-> [w EXCEPT !.amount = @ + cost,
                                         !.entries = Append(@, [at |-> now, cost |-> cost])]]

-----------------------------------------------------------------------------
(* What every strategy offers: check(), remaining(), cleanup(). *)

Check(s, cost, now) ==
    CASE strategy = "token-bucket" -> TakeTokens(s, cost, now)
      [] strategy = "fixed-window" -> CountRequest(s, cost, now)
      [] strategy \in Logs -> Occupy(s, cost, now)

\* A read refills a bucket (or makes one) and evicts from a log.
Read(s, now) ==
    CASE strategy = "token-bucket" -> Bucket(s, now)
      [] strategy = "fixed-window" -> s
      [] strategy \in Logs -> IF s.present THEN Evict(s, now) ELSE s

Remaining(s, now) ==
    LET r == Read(s, now) IN
    CASE strategy = "token-bucket" -> r.amount
      [] strategy = "fixed-window" ->
           IF r.present /\ ~WindowOver(r, now) THEN MaxRequests - r.amount ELSE MaxRequests
      [] strategy \in Logs -> Capacity - r.amount

Cleanup(s, now) ==
    CASE strategy = "token-bucket" -> IF s.present /\ BucketIdle(s, now) THEN NoEntry ELSE s
      [] strategy = "fixed-window" -> IF WindowOver(s, now) THEN NoEntry ELSE s
      [] strategy \in Logs -> LET w == Evict(s, now) IN IF w.entries = <<>> THEN NoEntry ELSE w

-----------------------------------------------------------------------------
(* The limiter. *)

LimiterTypeOK ==
    /\ strategy \in Strategies /\ burst \in {NoBurst} \cup BurstLimits
    /\ state.present \in BOOLEAN /\ state.amount \in 0..(Capacity * Window)
    /\ state.at \in 0..(MaxSkew + MaxTime)
    /\ \A i \in 1..Len(state.entries) : state.entries[i].cost \in Costs
    /\ blocked \in {NoBlock} \cup Nat /\ sweeping \in BOOLEAN
    /\ time \in Times /\ skew \in 0..MaxSkew
    /\ granted \in [Times -> Nat] /\ held \in Nat

\* Only the token bucket looks at burstable and burstLimit.
LimiterInit ==
    /\ strategy \in Strategies
    /\ burst \in IF strategy = "token-bucket" THEN {NoBurst} \cup BurstLimits ELSE {NoBurst}
    /\ state = NoEntry /\ blocked = NoBlock /\ sweeping = TRUE
    /\ time = 0 /\ skew = 0
    /\ granted = [t \in Times |-> 0] /\ held = 0

\* The block after it has been looked at: an expired one is deleted.
Unblocked(now) == IF blocked # NoBlock /\ now >= blocked THEN NoBlock ELSE blocked

\* checkRateLimit(): a cost above the capacity throws, a blocked key is refused, and the
\* strategy decides the rest.
CheckRateLimit(cost) ==
    IF cost > Capacity THEN UNCHANGED limiterVars ELSE
    /\ blocked' = Unblocked(Now)
    /\ IF blocked' # NoBlock
         THEN UNCHANGED <<state, granted>>
         ELSE LET r == Check(state, cost, Now) IN
              /\ state' = r.s
              /\ granted' = [granted EXCEPT ![time] = IF r.ok THEN @ + cost ELSE @]
    /\ UNCHANGED <<strategy, burst, sweeping, time, skew, held>>

\* getStatus() and getRemainingTokens().
GetStatus ==
    /\ state' = Read(state, Now)
    /\ UNCHANGED <<strategy, burst, blocked, sweeping, time, skew, granted, held>>

\* blockKey(): a later call replaces the block of an earlier one.
BlockKey(duration) ==
    /\ blocked' = Now + duration /\ held' = time + duration
    /\ UNCHANGED <<strategy, burst, state, sweeping, time, skew, granted>>

\* reset(): the key starts again, its block included.
Reset ==
    /\ state' = NoEntry /\ blocked' = NoBlock
    /\ granted' = [t \in Times |-> 0] /\ held' = 0
    /\ UNCHANGED <<strategy, burst, sweeping, time, skew>>

\* #cleanup(), at any phase of the interval.
Sweep ==
    /\ sweeping
    /\ state' = Cleanup(state, Now) /\ blocked' = Unblocked(Now)
    /\ UNCHANGED <<strategy, burst, sweeping, time, skew, granted, held>>

\* dispose(): the interval ends for good; a limiter that is used again works without it.
Dispose ==
    /\ sweeping' = FALSE
    /\ state' = NoEntry /\ blocked' = NoBlock
    /\ granted' = [t \in Times |-> 0] /\ held' = 0
    /\ UNCHANGED <<strategy, burst, time, skew>>

Tick ==
    /\ time < MaxTime
    /\ time' = time + 1
    /\ UNCHANGED <<strategy, burst, state, blocked, sweeping, skew, granted, held>>

ClockSetBack ==
    /\ skew < MaxSkew
    /\ skew' = skew + 1
    /\ UNCHANGED <<strategy, burst, state, blocked, sweeping, time, granted, held>>

LimiterNext ==
    \/ \E cost \in Costs : CheckRateLimit(cost)
    \/ \E duration \in Durations : BlockKey(duration)
    \/ GetStatus \/ Reset \/ Sweep \/ Dispose \/ Tick \/ ClockSetBack

LimiterSpec == LimiterInit /\ [][LimiterNext]_limiterVars

-----------------------------------------------------------------------------
\* What g admits before the moment t, and what the key was admitted from s to t.
Before(g, t) ==
    LET sum[i \in 0..MaxTime + 1] == IF i = 0 THEN 0 ELSE sum[i - 1] + g[i - 1]
    IN  sum[t]

Admitted(s, t) == Before(granted, t + 1) - Before(granted, s)

\* What a bucket gains in two windows: the refill, or all of a larger burst, as a bucket that is
\* left alone for so long is dropped by the sweep and comes back full.
TwoWindows == Larger(2 * MaxRequests, BucketSize)

\* What is admitted of a key never exceeds what its strategy promises, whatever reads,
\* sweeps, blocks and steps back of the clock come between: over any span a bucket gives
\* its size and what it gains in that time, any window of a log holds at most its limit, and
\* a fixed window (of a clock that is never set back) at most maxRequests.
AdmittedRate ==
    \A s \in Times : \A t \in s..MaxTime :
      CASE strategy = "token-bucket" ->
             2 * Window * Admitted(s, t) <= 2 * Window * BucketSize + TwoWindows * (t - s)
        [] strategy \in Logs -> t - s <= Window => Admitted(s, t) <= Capacity
        [] strategy = "fixed-window" ->
             skew = 0 /\ WindowStart(MaxSkew + t) = WindowStart(MaxSkew + s)
               => Admitted(s, t) <= MaxRequests

\* The refill of two windows fills the bucket.
ModestBurst == BucketSize <= 2 * MaxRequests

\* "The sweep only bounds memory": whenever it runs, it takes nothing from what is left of a
\* key, and it changes nothing but for a bucket that two windows do not fill.
SweepInvisible ==
    LET swept == Remaining(Cleanup(state, Now), Now) IN
    /\ swept >= Remaining(state, Now)
    /\ strategy # "token-bucket" \/ ModestBurst => swept = Remaining(state, Now)

\* The longest that a key can have to wait: two windows, or until an empty bucket is full.
Patience == Larger(2 * Window, (BucketSize * Window) \div MaxRequests) + 1

\* "Retrying later succeeds": whatever was refused is admitted once it is asked again
\* late enough, if it is not above the capacity.
RetryHelps ==
    \A cost \in Costs : cost <= Capacity =>
        \E wait \in 0..(MaxSkew + Patience) : Check(state, cost, Now + wait).ok

\* A request is let through only within the limits set, by the strategy and by blockKey(): a
\* blocked key is given nothing until the time it was blocked for has passed.
LimitsHold ==
    [][(\E t \in Times : granted'[t] > granted[t]) => AdmittedRate' /\ time >= held]_limiterVars
==============================================================================
