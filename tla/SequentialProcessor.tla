-------------------------- MODULE SequentialProcessor --------------------------
(***************************************************************************)
(* SequentialProcessor (src/consumers/sequential-processor.js) and the     *)
(* consumer that drives it (subscribeSequential): a message that depends   *)
(* on one still being processed is parked until that one completes, or     *)
(* until it has waited for staleTimeout.                                   *)
(*                                                                         *)
(* A delivery carries a message id; two deliveries with one id are         *)
(* duplicates.  Time is abstracted to what the sweep compares: an entry is *)
(* "fresh" until more than staleTimeout has passed, then "stale".  The      *)
(* subscription acknowledges (noAck is not set).                           *)
(***************************************************************************)
EXTENDS Naturals, FiniteSets, Sequences, SequencesExt

CONSTANTS
    Deliveries,      \* the deliveries of the run
    None,            \* JavaScript undefined or null
    MessageId,       \* MessageId[d]: properties.messageId of delivery d
    Headers,         \* the choices for dependsOn
    Compressed,      \* the deliveries whose content has to be inflated
    Prefetch,        \* prefetchCount
    CancelRecovery   \* may a broker cancel be recovered on the same channel?

Messages == {MessageId[d] : d \in Deliveries}

ASSUME NoneAssumption == None \notin Deliveries /\ None \notin Messages
ASSUME HeadersAssumption == Headers \subseteq [Messages -> Messages \cup {None}]
ASSUME LimitsAssumption ==
    /\ Prefetch \in Nat \ {0}
    /\ CancelRecovery \in BOOLEAN
    /\ Compressed \subseteq Deliveries

VARIABLES
    dependsOn,  \* the depends-on header of each message, or None; never changes
    pc,         \* where each delivery is
    processing, \* processing: "none" or the age of a message's entry
    pending,    \* pending: the delivery parked under each message id, or None
    queuedAt,   \* the age of that entry
    dependents, \* pendingByDependency
    releasing,  \* the dependents a finished delivery has yet to release
    child,      \* the one it is awaiting
    settled,    \* "no", "ack" or "nack", for each delivery
    channel,    \* the channel the deliveries came on
    disposed,   \* has dispose() been called?
    behind,     \* history: the deliveries that came after one of their dependency
    swept       \* history: messages whose processing entry was collected

tables == <<processing, pending, queuedAt, dependents>>
loops == <<releasing, child>>
vars == <<dependsOn, pc, tables, loops, settled, channel, disposed, behind, swept>>

Ages == {"none", "fresh", "stale"}

\* A delivery is decoded, handled (run, parked, or dropped as a duplicate) and,
\* when its callback succeeds, goes on to release its dependents.
States == {"new", "decoding", "parked", "running", "releasing", "dropped", "done"}

TypeOK ==
    /\ dependsOn \in Headers
    /\ pc \in [Deliveries -> States]
    /\ processing \in [Messages -> Ages]
    /\ pending \in [Messages -> Deliveries \cup {None}]
    /\ queuedAt \in [Messages -> Ages]
    /\ dependents \in [Messages -> Seq(Messages)]
    /\ releasing \in [Deliveries -> Seq(Messages)]
    /\ child \in [Deliveries -> Deliveries \cup {None}]
    /\ settled \in [Deliveries -> {"no", "ack", "nack"}]
    /\ channel \in {"open", "closing", "closed"}
    /\ disposed \in BOOLEAN
    /\ behind \in SUBSET Deliveries
    /\ swept \in SUBSET Messages
    /\ \A m \in Messages : /\ (pending[m] = None) = (queuedAt[m] = "none")
                           /\ pending[m] # None => MessageId[pending[m]] = m

Init ==
    /\ dependsOn \in Headers
    /\ pc = [d \in Deliveries |-> "new"]
    /\ processing = [m \in Messages |-> "none"]
    /\ pending = [m \in Messages |-> None]
    /\ queuedAt = [m \in Messages |-> "none"]
    /\ dependents = [m \in Messages |-> <<>>]
    /\ releasing = [d \in Deliveries |-> <<>>]
    /\ child = [d \in Deliveries |-> None]
    /\ settled = [d \in Deliveries |-> "no"]
    /\ channel = "open"
    /\ disposed = FALSE
    /\ behind = {}
    /\ swept = {}

-----------------------------------------------------------------------------
(* handle(). *)

\* Mutant of Unresolved: only a parked dependency is waited for.
UnresolvedParked(m) == m # None /\ pending[m] # None

\* dependencyUnresolved: the dependency is being processed, or parked itself.
Unresolved(m) ==
    m # None /\ (processing[m] # "none" \/ pending[m] # None)

\* Mutant of Parked: a second delivery overwrites the one that is parked.
ParkedIgnored(m) == FALSE

\* Is a delivery of m parked already?
Parked(m) == pending[m] # None

\* settleAck(): a settlement on a closed channel throws and is logged.
Settle(s, d, how) == IF channel # "closed" /\ s[d] = "no" THEN [s EXCEPT ![d] = how] ELSE s

\* #indexPending(): a Set keeps the first insertion of a member.
Indexed(index, m) ==
    [index EXCEPT ![dependsOn[m]] = IF m \in ToSet(@) THEN @ ELSE Append(@, m)]

\* handle(d): drop a duplicate of a parked message, park behind an unresolved
\* dependency, or start the callback.
Handle(d) ==
    LET m == MessageId[d]
    IN  \/ /\ Unresolved(dependsOn[m])
           /\ Parked(m)
           /\ pc' = [pc EXCEPT ![d] = "dropped"]
           /\ settled' = Settle(settled, d, "ack")
           /\ UNCHANGED tables
        \/ /\ Unresolved(dependsOn[m])
           /\ ~Parked(m)
           /\ pc' = [pc EXCEPT ![d] = "parked"]
           /\ pending' = [pending EXCEPT ![m] = d]
           /\ queuedAt' = [queuedAt EXCEPT ![m] = "fresh"]
           /\ dependents' = Indexed(dependents, m)
           /\ UNCHANGED <<processing, settled>>
        \/ /\ ~Unresolved(dependsOn[m])
           /\ pc' = [pc EXCEPT ![d] = "running"]
           /\ processing' = [processing EXCEPT ![m] = "fresh"]
           /\ UNCHANGED <<pending, queuedAt, dependents, settled>>

DeliveriesOf(m) == {d \in Deliveries : MessageId[d] = m}

Unsettled == {d \in Deliveries : pc[d] # "new" /\ settled[d] = "no"}

\* The broker delivers d, within the prefetch: it is inflated first when it is
\* compressed, and handled at once when it is not.
Deliver(d) ==
    /\ channel = "open" /\ ~disposed
    /\ pc[d] = "new"
    /\ Cardinality(Unsettled) < Prefetch
    /\ behind' = IF \E e \in DeliveriesOf(dependsOn[MessageId[d]]) : pc[e] # "new"
                   THEN behind \cup {d} ELSE behind
    /\ \/ /\ d \in Compressed
          /\ pc' = [pc EXCEPT ![d] = "decoding"]
          /\ UNCHANGED <<tables, settled>>
       \/ /\ d \notin Compressed
          /\ Handle(d)
    /\ UNCHANGED <<dependsOn, loops, channel, disposed, swept>>

\* gunzip resolves.
Decoded(d) ==
    /\ pc[d] = "decoding"
    /\ Handle(d)
    /\ UNCHANGED <<dependsOn, loops, channel, disposed, behind, swept>>

\* gunzip rejects: the delivery is nacked and never reaches the processor.
DecodeFails(d) ==
    /\ pc[d] = "decoding"
    /\ pc' = [pc EXCEPT ![d] = "done"]
    /\ settled' = Settle(settled, d, "nack")
    /\ UNCHANGED <<dependsOn, tables, loops, channel, disposed, behind, swept>>

-----------------------------------------------------------------------------
(* #process() and #processDependents(). *)

\* #processDependents() of delivery d, from the dependents in `list` on, with `proc`
\* and `index` the maps as its caller left them.  Dependents that are no longer
\* parked are passed over; the first that is gets unparked and handled again: it is
\* parked once more if its dependency is back, else it runs and the loop awaits it.
ReleaseNext(d, list, proc, index) ==
    LET i == SelectInSeq(list, LAMBDA m : pending[m] # None)
        m == list[i]
        e == pending[m]
        back == proc[dependsOn[m]] # "none" \/ pending[dependsOn[m]] \notin {None, e}
    IN  \/ /\ i = 0
           /\ pc' = [pc EXCEPT ![d] = "done"]
           /\ processing' = proc
           /\ dependents' = index
           /\ releasing' = [releasing EXCEPT ![d] = <<>>]
           /\ child' = [child EXCEPT ![d] = None]
           /\ UNCHANGED <<pending, queuedAt>>
        \/ /\ i # 0 /\ back
           /\ pc' = [pc EXCEPT ![d] = "releasing"]
           /\ processing' = proc
           /\ queuedAt' = [queuedAt EXCEPT ![m] = "fresh"]
           /\ dependents' = Indexed(index, m)
           /\ releasing' = [releasing EXCEPT ![d] = SubSeq(list, i + 1, Len(list))]
           /\ child' = [child EXCEPT ![d] = None]
           /\ UNCHANGED pending
        \/ /\ i # 0 /\ ~back
           /\ pc' = [pc EXCEPT ![d] = "releasing", ![e] = "running"]
           /\ processing' = [proc EXCEPT ![m] = "fresh"]
           /\ pending' = [pending EXCEPT ![m] = None]
           /\ queuedAt' = [queuedAt EXCEPT ![m] = "none"]
           /\ dependents' = index
           /\ releasing' = [releasing EXCEPT ![d] = SubSeq(list, i + 1, Len(list))]
           /\ child' = [child EXCEPT ![d] = e]

\* The callback resolves: the message is acked, its dependents are taken off the
\* index, and the first of them is released in the same turn.
CallbackSucceeds(d) ==
    LET m == MessageId[d]
    IN  /\ pc[d] = "running"
        /\ settled' = Settle(settled, d, "ack")
        /\ ReleaseNext(d, dependents[m], [processing EXCEPT ![m] = "none"],
                       [dependents EXCEPT ![m] = <<>>])
        /\ UNCHANGED <<dependsOn, channel, disposed, behind, swept>>

\* The callback throws: the message is nacked, its dependents stay parked.
CallbackFails(d) ==
    /\ pc[d] = "running"
    /\ processing' = [processing EXCEPT ![MessageId[d]] = "none"]
    /\ settled' = Settle(settled, d, "nack")
    /\ pc' = [pc EXCEPT ![d] = "done"]
    /\ UNCHANGED <<dependsOn, pending, queuedAt, dependents, loops, channel, disposed, behind, swept>>

\* The dependent it awaited, and that one's own dependents, are through: the loop
\* goes on.
ReleaseResumes(d) ==
    /\ pc[d] = "releasing"
    /\ child[d] \in {None} \cup {e \in Deliveries : pc[e] = "done"}
    /\ ReleaseNext(d, releasing[d], processing, dependents)
    /\ UNCHANGED <<dependsOn, settled, channel, disposed, behind, swept>>

-----------------------------------------------------------------------------
(* cleanup() and dispose(). *)

\* More than staleTimeout passes.
TimePasses ==
    LET Older(age) == IF age = "fresh" THEN "stale" ELSE age
    IN  /\ \E m \in Messages : "fresh" \in {processing[m], queuedAt[m]}
        /\ processing' = [m \in Messages |-> Older(processing[m])]
        /\ queuedAt' = [m \in Messages |-> Older(queuedAt[m])]
        /\ UNCHANGED <<dependsOn, pc, pending, dependents, loops, settled, channel, disposed, behind, swept>>

\* The messages the sweep expires.
Expired == {m \in Messages : queuedAt[m] = "stale"}

\* Mutant of SweptPending: the expired messages stay parked.
SweptPendingKept == pending

\* The members of s that are not in X, in their order.
Without(s, X) ==
    LET kept[i \in 0 .. Len(s)] ==
          IF i = 0 THEN <<>>
          ELSE IF s[i] \in X THEN kept[i - 1] ELSE Append(kept[i - 1], s[i])
    IN  kept[Len(s)]

\* #removePending() for the expired messages, in the map ...
SweptPending == [m \in Messages |-> IF m \in Expired THEN None ELSE pending[m]]

\* ... and in the index.
SweptDependents == [m \in Messages |-> Without(dependents[m], Expired)]

\* cleanup(): stale processing entries are forgotten; stale parked messages are
\* settled as failures.
Cleanup ==
    /\ ~disposed
    /\ \E m \in Messages : "stale" \in {processing[m], queuedAt[m]}
    /\ processing' = [m \in Messages |-> IF processing[m] = "stale" THEN "none" ELSE processing[m]]
    /\ swept' = swept \cup {m \in Messages : processing[m] = "stale"}
    /\ pending' = SweptPending
    /\ queuedAt' = [m \in Messages |-> IF m \in Expired THEN "none" ELSE queuedAt[m]]
    /\ dependents' = SweptDependents
    /\ pc' = [d \in Deliveries |-> IF \E m \in Expired : pending[m] = d THEN "done" ELSE pc[d]]
    /\ settled' = [d \in Deliveries |->
                     IF \E m \in Expired : pending[m] = d
                       THEN Settle(settled, d, "nack")[d] ELSE settled[d]]
    /\ UNCHANGED <<dependsOn, loops, channel, disposed, behind>>

\* dispose(): because the channel closed (the broker takes every unsettled delivery
\* back), because the consumer is dropped and its channel will be closed, or because
\* the consumer is set up again after a broker cancel, on the channel it has.
Dispose ==
    /\ ~disposed
    /\ disposed' = TRUE
    /\ channel' \in {"closed", "closing"} \cup (IF CancelRecovery THEN {"open"} ELSE {})
    /\ processing' = [m \in Messages |-> "none"]
    /\ pending' = [m \in Messages |-> None]
    /\ queuedAt' = [m \in Messages |-> "none"]
    /\ dependents' = [m \in Messages |-> <<>>]
    /\ UNCHANGED <<dependsOn, pc, loops, settled, behind, swept>>

\* The channel of the dropped consumer closes.
ChannelCloses ==
    /\ channel = "closing"
    /\ channel' = "closed"
    /\ UNCHANGED <<dependsOn, pc, tables, loops, settled, disposed, behind, swept>>

-----------------------------------------------------------------------------
Next ==
    \/ \E d \in Deliveries : \/ Deliver(d)
                             \/ Decoded(d)
                             \/ DecodeFails(d)
                             \/ CallbackSucceeds(d)
                             \/ CallbackFails(d)
                             \/ ReleaseResumes(d)
    \/ TimePasses
    \/ Cleanup
    \/ Dispose
    \/ ChannelCloses

Spec == Init /\ [][Next]_vars

\* gunzip and callbacks end, promises resume, the clock and its interval go on.
FairSpec ==
    /\ Spec
    /\ \A d \in Deliveries : /\ WF_vars(Decoded(d) \/ DecodeFails(d))
                             /\ WF_vars(CallbackSucceeds(d) \/ CallbackFails(d))
                             /\ WF_vars(ReleaseResumes(d))
    /\ WF_vars(TimePasses)
    /\ WF_vars(Cleanup)
    /\ WF_vars(ChannelCloses)

-----------------------------------------------------------------------------
(* What the processor promises. *)

Running(d) == pc[d] # "running" /\ pc'[d] = "running"

\* A delivery that has been settled is not processed afterwards: an expired or
\* dropped message is gone from the map the release loop reads.
NoRunAfterSettle == [][\A d \in Deliveries : Running(d) => settled[d] = "no"]_vars

\* While the channel is up, a message whose dependency was delivered before it does
\* not start until a delivery of that dependency has run or failed, or its entry
\* was collected as stale ("Will process after msg-1").
OrderRespected ==
    [][\A d \in Deliveries :
         LET on == dependsOn[MessageId[d]]
         IN  (Running(d) /\ channel = "open" /\ d \in behind')
               => \/ on \in swept
                  \/ \E e \in DeliveriesOf(on) : pc'[e] \in {"releasing", "done"}]_vars

\* Every delivery is settled, unless its channel closes and the broker takes it
\* back: none is parked, or dropped, for ever.
EverySettles ==
    \A d \in Deliveries :
        (pc[d] # "new") ~> (settled[d] # "no" \/ channel = "closed")

\* A duplicate that comes while the original is parked is "acked and dropped", never
\* processed: the two would be settled with different outcomes.
DuplicateDropped ==
    [][\A d, e \in Deliveries :
         (d # e /\ MessageId[d] = MessageId[e] /\ pc[e] = "parked" /\ channel = "open")
           => ~Running(d)]_vars

=============================================================================
