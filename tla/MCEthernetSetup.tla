-------------------------- MODULE MCEthernetSetup --------------------------
(* Two DHCP servers, one of them also the router and the DNS server.       *)
EXTENDS EthernetSetup

Leasing == [s \in Servers |-> IF s = "A" THEN "lease of A" ELSE "lease of B"]
=============================================================================
