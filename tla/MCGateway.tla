----------------------------- MODULE MCGateway -----------------------------
(***************************************************************************)
(* Two trackers' messages, one of each type, and small bounds.             *)
(***************************************************************************)
EXTENDS GatewayRefinement, TLC

CONSTANTS m1, m2

MCMessages == {m1, m2}
MCTypeOf   == (m1 :> "LORALORA") @@ (m2 :> "LORAGNSS")
=============================================================================
