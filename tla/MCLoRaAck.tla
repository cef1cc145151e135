----------------------------- MODULE MCLoRaAck -----------------------------
(***************************************************************************)
(* Two acknowledgements of different length in the same number of blocks;  *)
(* a frame of seventeen cells.                                              *)
(***************************************************************************)
EXTENDS LoRaAck

MCAcks == {5, 8}
MCTextLength == [k \in MCAcks |-> k]
=============================================================================
