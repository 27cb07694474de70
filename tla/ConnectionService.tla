-------------------------- MODULE ConnectionService --------------------------
(***************************************************************************)
(* What a user of RabbitMQConnection (src/connection/connection.js) may    *)
(* count on, without endpoints, timers, dials or budgets: a link that is   *)
(* looked for only on request, that is found again or given up when it is  *)
(* lost, and that stays down once it has been released.                    *)
(***************************************************************************)
VARIABLES
    link, \* down, seeking, up or gaveUp
    want  \* the last explicit call: nothing, connect or disconnect

Init == link = "down" /\ want = "nothing"

\* connect(): the link is sought, unless it is up already or an earlier attempt, which
\* a disconnect() has doomed, is still being wound up.
Ask ==
    /\ want' = "connect"
    /\ link' \in {link, "seeking"} /\ (link = "up" => link' = "up")

\* A link comes up only while it is wanted and sought.
Establish ==
    /\ link = "seeking" /\ want = "connect"
    /\ link' = "up" /\ UNCHANGED want

Lose ==
    /\ link = "up"
    /\ link' \in {"seeking", "gaveUp"} /\ UNCHANGED want

GiveUp ==
    /\ link = "seeking"
    /\ link' = "gaveUp" /\ UNCHANGED want

\* disconnect()
Release == link' = "down" /\ want' = "disconnect"

Next == Ask \/ Establish \/ Lose \/ GiveUp \/ Release

Spec == Init /\ [][Next]_<<link, want>>
====
