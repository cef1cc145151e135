------------------------------ MODULE MCCodecs ------------------------------
(***************************************************************************)
(* Messages of up to five bytes, that is two blocks and a half; payloads   *)
(* of up to five bytes, which end in each kind of quantum.                 *)
(***************************************************************************)
EXTENDS Codecs

MCSbox == [b \in Byte |-> <<1, 3, 0, 2>>[b + 1]]
MCKeys == {<< <<0, 0>>, <<0, 0>>, <<0, 0>> >>, << <<1, 2>>, <<3, 0>>, <<2, 3>> >>}
MCVectors == {<<0, 0>>, <<3, 1>>}
MCPayloads == UNION {[1..n -> {77, 170, 255}] : n \in 1..3} \cup [1..4 -> {1, 254}] \cup [1..5 -> {1, 254}]
MCHeader == <<123, 125>>
=============================================================================
