--------------------------------- MODULE AES ---------------------------------
(***************************************************************************)
(* The AES class: block cipher, CBC chaining and ciphertext stealing, in   *)
(* place, on a scale a checker can enumerate.  A byte has two bits, a      *)
(* block two bytes, a column is a block; gmul works in the field of four   *)
(* elements, where x*x = x + 1.  The key schedule is any sequence of round *)
(* keys.                                                                   *)
(*                                                                         *)
(* An operation's state is a record: the buffer, m_CarryVector, the bytes  *)
(* done and the bytes left; an iteration of the loop maps it to the next.  *)
(***************************************************************************)
EXTENDS Naturals, Sequences

CONSTANTS
    Rounds,  \* m_Rounds (14)
    Sbox     \* m_Sbox: a permutation of the bytes

Byte  == 0..3
Block == 2

ASSUME AESAssumption ==
    /\ Rounds \in Nat \ {0}
    /\ Sbox \in [Byte -> Byte]
    /\ \A x, y \in Byte : Sbox[x] = Sbox[y] => x = y

InvSbox == [y \in Byte |-> CHOOSE x \in Byte : Sbox[x] = y]

Xor(a, b) == 2 * ((a \div 2 + b \div 2) % 2) + ((a + b) % 2)

XorBlock(s, t) == [i \in 1..Block |-> Xor(s[i], t[i])]

-----------------------------------------------------------------------------
(***************************************************************************)
(* The block cipher.                                                       *)
(***************************************************************************)
Doubled(a) == Xor((2 * a) % 4, IF a >= 2 THEN 3 ELSE 0)

gmul(a, b) == Xor(IF b % 2 = 1 THEN a ELSE 0, IF b \div 2 = 1 THEN Doubled(a) ELSE 0)

mixColumns(s) ==
    <<Xor(gmul(s[1], 2), gmul(s[2], 3)), Xor(gmul(s[1], 3), gmul(s[2], 2))>>

\* The inverse of the small matrix is the matrix itself.
invMixColumns(s) ==
    <<Xor(gmul(s[1], 2), gmul(s[2], 3)), Xor(gmul(s[1], 3), gmul(s[2], 2))>>

subBytes(s)     == [i \in 1..Block |-> Sbox[s[i]]]
invSubBytes(s)  == [i \in 1..Block |-> InvSbox[s[i]]]
shiftRows(s)    == [i \in 1..Block |-> s[(i % Block) + 1]]
invShiftRows(s) == [i \in 1..Block |-> s[((i + Block - 2) % Block) + 1]]

addRoundKey(s, key, r) == XorBlock(s, key[r + 1])

aesEncrypt(s, key) ==
    LET state[r \in 0..Rounds] ==
          IF r = 0 THEN addRoundKey(s, key, 0)
          ELSE LET t == shiftRows(subBytes(state[r - 1]))
               IN  addRoundKey(IF r < Rounds THEN mixColumns(t) ELSE t, key, r)
    IN  state[Rounds]

aesDecrypt(s, key) ==
    LET state[r \in 0..Rounds] ==
          IF r = Rounds THEN addRoundKey(s, key, r)
          ELSE LET t == addRoundKey(invSubBytes(invShiftRows(state[r + 1])), key, r)
               IN  IF r > 0 THEN invMixColumns(t) ELSE t
    IN  state[0]

-----------------------------------------------------------------------------
(***************************************************************************)
(* Chaining and stealing.                                                  *)
(***************************************************************************)
Slice(data, at, n) == SubSeq(data, at + 1, at + n)

Put(data, at, bytes) ==
    [i \in DOMAIN data |-> IF i > at /\ i <= at + Len(bytes) THEN bytes[i - at] ELSE data[i]]

Zeroes(n) == [i \in 1..n |-> 0]

setup(key, cbc, iv, data, length) ==
    [key |-> key, cbc |-> cbc, carry |-> iv, data |-> data, at |-> 0, left |-> length]

Chained(c, s) == IF c.cbc THEN XorBlock(s, c.carry) ELSE s

\* Less than a block: it is padded, and all of the block is written.
EncryptPartial(c) ==
    LET s == aesEncrypt(Chained(c, Slice(c.data, c.at, c.left) \o Zeroes(Block - c.left)), c.key)
    IN  [c EXCEPT !.data = Put(@, c.at, s), !.carry = IF c.cbc THEN s ELSE @, !.left = 0]

\* The last full block lends its tail to the partial one after it.
Stolen(c, s, left) ==
    LET temp == Slice(c.data, c.at + Block, left)
        tail == IF c.cbc THEN Zeroes(Block - left) ELSE SubSeq(s, left + 1, Block)
        last == aesEncrypt(Chained([c EXCEPT !.carry = s], temp \o tail), c.key)
    IN  Put(Put(c.data, c.at + Block, SubSeq(s, 1, left)), c.at, last)

EncryptBlock(c) ==
    LET s    == aesEncrypt(Chained(c, Slice(c.data, c.at, Block)), c.key)
        left == c.left - Block
        part == left > 0 /\ left < Block
    IN  [c EXCEPT !.carry = IF c.cbc THEN s ELSE @,
                  !.data  = IF part THEN Stolen(c, s, left) ELSE Put(@, c.at, s),
                  !.at    = @ + Block,
                  !.left  = IF part THEN 0 ELSE left]

encrypt(c) == IF c.at = 0 /\ c.left < Block THEN EncryptPartial(c) ELSE EncryptBlock(c)

DecryptPartial(c) ==
    LET block == Slice(c.data, c.at, Block)
        s     == Chained(c, aesDecrypt(block, c.key))
    IN  [c EXCEPT !.data = Put(@, c.at, SubSeq(s, 1, c.left)),
                  !.carry = IF c.cbc THEN block ELSE @, !.left = 0]

\* The partial block comes first; its ciphertext completes the full one's.
Returned(c, s, left) ==
    LET temp == Slice(c.data, c.at + Block, left)
        t    == IF c.cbc THEN XorBlock(s, temp \o Zeroes(Block - left)) ELSE s
        full == aesDecrypt(temp \o SubSeq(t, left + 1, Block), c.key)
    IN  Put(Put(c.data, c.at + Block, SubSeq(t, 1, left)), c.at, Chained(c, full))

\* Mutant of NextCarry: taken after the block was overwritten in place.
CarryAfterWrite(block, s) == s

NextCarry(block, s) == block

DecryptBlock(c) ==
    LET block == Slice(c.data, c.at, Block)
        s     == aesDecrypt(block, c.key)
        left  == c.left - Block
        part  == left > 0 /\ left < Block
    IN  [c EXCEPT !.data  = IF part THEN Returned(c, s, left) ELSE Put(@, c.at, Chained(c, s)),
                  !.carry = IF c.cbc THEN NextCarry(block, Chained(c, s)) ELSE @,
                  !.at    = @ + Block,
                  !.left  = IF part THEN 0 ELSE left]

decrypt(c) == IF c.at = 0 /\ c.left < Block THEN DecryptPartial(c) ELSE DecryptBlock(c)
=============================================================================
