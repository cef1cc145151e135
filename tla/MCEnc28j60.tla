----------------------------- MODULE MCEnc28j60 -----------------------------
(* Instances of Enc28j60 for TLC. *)
EXTENDS Enc28j60

Checked == {[kind |-> "tcp", tag |-> 1, len |-> 2], [kind |-> "udp", tag |-> 1, len |-> 1]}
Short == {[tag |-> 1, len |-> 1]}
Unchecked == {[kind |-> "udp0", tag |-> 1, len |-> 2]}
=============================================================================
