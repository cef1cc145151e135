------------------------------ MODULE Forwarder ------------------------------
(***************************************************************************)
(* What the gateway promises, without how: it takes one message at a time, *)
(* acknowledges it to its tracker, and only then hands it to the server,   *)
(* over Ethernet first and over the mobile network if it has to.  It may   *)
(* drop an acknowledged message, and a crash may make it forget the one in *)
(* hand, never one the server has.  In the end it is free again: Fairness, *)
(* which the gateway keeps only under a condition on the mobile network.   *)
(***************************************************************************)
EXTENDS Naturals

CONSTANTS
    Messages,
    NoMessage  \* not a message

VARIABLES
    stage,    \* "free", "taken" or "acknowledged"
    message,  \* the message in hand
    n,        \* messages taken so far
    server    \* what the server has: <<channel, number, message>>

vars == <<stage, message, n, server>>

Init ==
    /\ stage = "free"
    /\ message = NoMessage
    /\ n = 0
    /\ server = {}

Take(m) ==
    /\ stage = "free"
    /\ stage' = "taken"
    /\ message' = m
    /\ n' = n + 1
    /\ UNCHANGED server

Acknowledge ==
    /\ stage = "taken"
    /\ stage' = "acknowledged"
    /\ UNCHANGED <<message, n, server>>

\* A record reaches the server; on a channel it does so once, and Ethernet is
\* not returned to.
Deliver(channel) ==
    /\ stage = "acknowledged"
    /\ \A s \in server : s[2] = n => s[1] = "ethernet" /\ channel = "mobile"
    /\ server' = server \cup {<<channel, n, message>>}
    /\ UNCHANGED <<stage, message, n>>

Finish ==
    /\ stage = "acknowledged"
    /\ stage' = "free"
    /\ message' = NoMessage
    /\ UNCHANGED <<n, server>>

Crash ==
    /\ stage # "free"
    /\ stage' = "free"
    /\ message' = NoMessage
    /\ UNCHANGED <<n, server>>

Next ==
    \/ \E m \in Messages : Take(m)
    \/ Acknowledge
    \/ \E channel \in {"ethernet", "mobile"} : Deliver(channel)
    \/ Finish
    \/ Crash

Spec == Init /\ [][Next]_vars

\* Nothing that is taken is sat upon: it is acknowledged, and it is let go.
Fairness == WF_vars(Acknowledge) /\ WF_vars(Finish)
=============================================================================
