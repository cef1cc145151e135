------------------------------ MODULE Base64URL ------------------------------
(***************************************************************************)
(* Base64URL::base64urlEncode and base64urlDecode, byte for byte.  A       *)
(* character of the alphabet is its index in base64urlEncTable; any other  *)
(* is Outside.                                                             *)
(***************************************************************************)
EXTENDS Naturals, Sequences

Outside == 64

\* Characters a quantum of one, two or three bytes is written as.
Quantum1(x) == <<x \div 4, (x % 4) * 16>>

\* Mutant of Quantum2: the high nibble of the second byte is lost.
Quantum2Low(x, y) == <<x \div 4, (x % 4) * 16, (y % 16) * 4>>

Quantum2(x, y) == <<x \div 4, (x % 4) * 16 + y \div 16, (y % 16) * 4>>

Quantum3(x, y, z) ==
    <<x \div 4, (x % 4) * 16 + y \div 16, (y % 16) * 4 + z \div 64, z % 64>>

\* The final quantum is written first, the blocks of three from the last to
\* the first; the result is the sequence of all of them.
base64urlEncode(input) ==
    LET n     == Len(input) \div 3
        block == [i \in 1..n |-> Quantum3(input[3*i - 2], input[3*i - 1], input[3*i])]
        final == CASE Len(input) = 3*n + 1 -> Quantum1(input[3*n + 1])
                   [] Len(input) = 3*n + 2 -> Quantum2(input[3*n + 1], input[3*n + 2])
                   [] OTHER -> <<>>
    IN  [i \in 1..(4*n) |-> block[((i - 1) \div 4) + 1][((i - 1) % 4) + 1]] \o final

-----------------------------------------------------------------------------
\* The loop of base64urlDecode: the characters read, value and what is written.
DecodeStart == [i |-> 0, value |-> 0, output |-> <<>>]

BadLength(input) == Len(input) % 4 = 1

\* Every fourth character completes three bytes.
DecodeCharacter(d, c) ==
    LET value == d.value * 64 + c
    IN  IF d.i % 4 = 3
          THEN [i |-> d.i + 1, value |-> 0,
                output |-> d.output \o <<value \div 65536, (value \div 256) % 256, value % 256>>]
          ELSE [d EXCEPT !.i = @ + 1, !.value = value]

\* What the last two or three characters hold.
DecodeFinal(d) ==
    d.output \o CASE d.i % 4 = 2 -> <<(d.value \div 16) % 256>>
                  [] d.i % 4 = 3 -> <<(d.value \div 1024) % 256, (d.value \div 4) % 256>>
                  [] OTHER -> <<>>
=============================================================================
