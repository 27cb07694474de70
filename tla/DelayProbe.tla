------------------------------ MODULE DelayProbe ------------------------------
(***************************************************************************)
(* Topology's question whether the broker has the delayed-message plugin   *)
(* (isDelayPluginEnabled() and #probeChannel() in src/messaging/           *)
(* topology.js), composed with the channel pool it takes its channel from. *)
(*                                                                         *)
(* A probe asserts an exchange of the plugin's type.  A broker without the *)
(* plugin answers by closing the channel, so every probe has one of its    *)
(* own, under an id of its own, which it releases whatever the answer.     *)
(***************************************************************************)
EXTENDS ChannelPool

CONSTANT Probes \* bound: the isDelayPluginEnabled() calls, named by their probeId

ASSUME ProbesAssumption == Probes \subseteq Ids

VARIABLES
    probe,  \* where each call is, and what it answered
    probeOn \* the channel it was given

probeVars == <<probe, probeOn>>
allVars == <<vars, probeVars>>

Asking == {"asserting", "deleting"}

\* What isDelayPluginEnabled() came to; setupDelayPlugin() succeeds on the first only.
Answered == {"enabled", "disabled", "threw"}

ProbeTypeOK ==
    /\ TypeOK
    /\ probe \in [Probes -> {"idle", "opening"} \cup Asking \cup Answered]
    /\ probeOn \in [Probes -> Channels \cup {NoChannel}]

ProbeInit ==
    /\ Init
    /\ probe = [p \in Probes |-> "idle"]
    /\ probeOn = [p \in Probes |-> NoChannel]

Goes(p, to) == probe' = [probe EXCEPT ![p] = to]

-----------------------------------------------------------------------------
\* Mutant of ProbeId: every probe uses the same id.
ProbeIdShared(p) == CHOOSE q \in Probes : TRUE

\* `delay-probe-${++this.#probeSequence}`
ProbeId(p) == p

\* #probeChannel(), with a pool in place: up to its await.
ProbeStarts(p) ==
    /\ probe[p] = "idle"
    /\ phase = "ready"
    /\ IF dedicated[ProbeId(p)] # NoChannel
         THEN /\ Goes(p, "asserting")
              /\ probeOn' = [probeOn EXCEPT ![p] = dedicated[ProbeId(p)]]
              /\ UNCHANGED vars
         ELSE /\ Goes(p, "opening")
              /\ GetDedicated(ProbeId(p))
              /\ UNCHANGED probeOn

\* The channel is open, and assertExchange() is sent on it.
ProbeOpens(p) ==
    /\ probe[p] = "opening"
    /\ \E c \in Channels : DedicatedOpens(ProbeId(p), c) /\ probeOn' = [probeOn EXCEPT ![p] = c]
    /\ Goes(p, "asserting")

ProbeOpenFails(p) ==
    /\ probe[p] = "opening"
    /\ DedicatedFails(ProbeId(p))
    /\ Goes(p, "threw")
    /\ UNCHANGED probeOn

\* The `finally`: releaseDedicatedChannel() of the probe's id.
Release(p) ==
    IF dedicated[ProbeId(p)] # NoChannel THEN ReleaseDedicated(ProbeId(p)) ELSE UNCHANGED vars

\* The broker has the plugin: deleteExchange() follows, and then the answer.
Asserted(p) ==
    /\ probe[p] = "asserting"
    /\ amqp[probeOn[p]] = "open"
    /\ Goes(p, "deleting")
    /\ UNCHANGED <<vars, probeOn>>

Deleted(p) ==
    /\ probe[p] = "deleting"
    /\ amqp[probeOn[p]] = "open"
    /\ Goes(p, "enabled")
    /\ Release(p)
    /\ UNCHANGED probeOn

\* The broker has not: it closes the channel the assertion came on.
AssertRefused(p) ==
    /\ probe[p] = "asserting"
    /\ amqp[probeOn[p]] = "open"
    /\ Lose({probeOn[p]})
    /\ Goes(p, "disabled")
    /\ UNCHANGED <<connected, faults, probeOn>>

\* The channel is gone, or going, under the call: amqplib rejects it.
ProbeCut(p) ==
    /\ probe[p] \in Asking
    /\ amqp[probeOn[p]] # "open"
    /\ Goes(p, "threw")
    /\ Release(p)
    /\ UNCHANGED probeOn

\* setupDelayExchange() asserts on a channel of the pool: a broker without the plugin
\* closes that one.
DelayExchangeRefused(s) ==
    /\ faults < MaxFaults
    /\ channels[s] # NoChannel /\ amqp[channels[s]] = "open"
    /\ Lose({channels[s]})
    /\ faults' = faults + 1
    /\ UNCHANGED <<connected, probeVars>>

ProbeStep(p) ==
    \/ ProbeStarts(p)
    \/ ProbeOpens(p)
    \/ ProbeOpenFails(p)
    \/ Asserted(p)
    \/ Deleted(p)
    \/ AssertRefused(p)
    \/ ProbeCut(p)

-----------------------------------------------------------------------------
ProbeNext ==
    \/ PoolStep /\ UNCHANGED probeVars
    \/ \E i \in Ids \ Probes : OwnerStep(i) /\ UNCHANGED probeVars
    \/ \E p \in Probes : ProbeStep(p)
    \/ \E s \in Slots : DelayExchangeRefused(s)

ProbeSpec == ProbeInit /\ [][ProbeNext]_allVars

-----------------------------------------------------------------------------
(* Properties. *)

\* topology.js:154-157: no probe takes the channel away from another one, whose call
\* "then failed with a spurious channel-closed error instead of answering true/false";
\* only closing the whole pool may close a channel a probe waits on.
ProbesUndisturbed ==
    \A p \in Probes : probe[p] \in Asking /\ ~closed => amqp[probeOn[p]] # "closing"

\* "The probe channel is disposable either way" (topology.js:186): a probe that has
\* answered, or thrown, leaves no channel open behind, or repeated probes would use up
\* the connection's channels.
ProbesLeaveNothing ==
    \A p \in Probes : probe[p] \in Answered /\ probeOn[p] # NoChannel => amqp[probeOn[p]] # "open"

\* A probe's channel lives as long as the probe: it is neither taken away nor left behind.
ProbesContained == ProbesUndisturbed /\ ProbesLeaveNothing

=============================================================================
