-------------------------- MODULE MCLoRaReception --------------------------
(***************************************************************************)
(* Two trackers and three messages.  The frame of m1 splits between the    *)
(* two bars of its delimiter; the body of m2 has a bar inside, with which  *)
(* its last packet begins; that of m3 has the delimiter inside, twice, so  *)
(* that behind a bar its second packet leaves a backlog.                   *)
(***************************************************************************)
EXTENDS LoRaReception, TLC

CONSTANTS t1, t2, m1, m2, m3

MCTrackers == {t1, t2}

MCMessages == {m1, m2, m3}
MCBody     == (m1 :> <<"a", "b", "c">>) @@ (m2 :> <<"d", "e", "f", "g", Bar, "h">>)
              @@ (m3 :> <<"i", "j", "k", "l", Bar, Bar, Bar, "n">>)
MCMalformed == {m2}

\* Trackers differ in nothing but what they transmit.
MCSymmetry == Permutations(MCTrackers)
=============================================================================
