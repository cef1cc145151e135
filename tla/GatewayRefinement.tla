------------------------- MODULE GatewayRefinement -------------------------
(***************************************************************************)
(* The gateway's state machine implements Forwarder.  The message in hand  *)
(* is the one its fields were parsed from; what the server has is what the *)
(* records that reached it carry.                                          *)
(***************************************************************************)
EXTENDS Gateway

Stage ==
    IF state = "SendingAck" THEN "taken"
    ELSE IF state \in {"SensingBatteryStatus", "GettingGNSSPosition", "WaitingForMessage"}
           THEN "free"
    ELSE "acknowledged"

InHand == IF Stage = "free" THEN None ELSE rx["imei"]

AtServer ==
    UNION {{<<d[1], r.rxn, r.body["imei"]>> : r \in {q \in records : q.hash = d[2]}} :
             d \in delivered}

F == INSTANCE Forwarder
       WITH NoMessage <- None, stage <- Stage, message <- InHand, n <- rxn,
            server <- AtServer

\* An exchange over the mobile network ends.  The code does not see to this:
\* exchangeMessages is polled, a refused deactivation is repeated and an empty
\* response asked for again without a limit (module CellularTransceiver).
MobileExchangesEnd == transceiver = "Enabled" ~> transceiver # "Enabled"

\* The eleven states, the acknowledgement's repetitions, the Ethernet retries,
\* the fallback, refused replies and resets come to no more than this: a message
\* is acknowledged before the server can see it, the server sees the message in
\* hand and no other, and at most once a channel and never over Ethernet after
\* the mobile network.  And where exchanges over the mobile network end, every
\* message taken is acknowledged and let go of, so that the next one can be
\* taken: no order of retries, failures, fallbacks and resets leaves a static or
\* a status with which the round stands still.
ImplementsForwarder == F!Spec /\ (MobileExchangesEnd => F!Fairness)
=============================================================================
