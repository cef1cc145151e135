------------------------------- MODULE Codecs -------------------------------
(***************************************************************************)
(* The codings the gateway applies to whole messages, one loop iteration a *)
(* step: AES in place, for every length and both modes, and a JWT built,   *)
(* carried over a network that may alter it, checked and decoded           *)
(* (JWTManager, CustomJWT).  A signature is determined by the key and the  *)
(* characters it signs.                                                    *)
(***************************************************************************)
EXTENDS AES, Base64URL, SequencesExt

CONSTANTS
    Size,      \* bytes of the buffer a message is ciphered in
    Plain,     \* bytes a ciphered message is made of
    Keys,      \* key schedules: Rounds + 1 blocks each
    Vectors,   \* initialization vectors
    Payloads,  \* payloads a token may carry, as sequences of bytes
    Header,    \* bytes of the token's header
    maxPayloadLen, \* what JWTManager says of a payload's length (256)
    MaxRefusals    \* bound: tokens refused

ASSUME CodecsAssumption ==
    /\ Size \in Nat
    /\ maxPayloadLen \in Nat
    /\ MaxRefusals \in Nat
    /\ Plain \subseteq Byte
    /\ \A p \in Payloads : Len(p) > 0 /\ \A i \in DOMAIN p : p[i] \in 1..255

VARIABLES
    job,      \* the message or token in hand
    held,     \* heap blocks the CustomJWT object points to
    lost,     \* heap blocks it pointed to and never freed
    refusals  \* history: tokens refused

vars == <<job, held, lost, refusals>>

-----------------------------------------------------------------------------
CipherJob(text, tail, key, cbc, iv) ==
    [pc |-> "encrypting", text |-> text, tail |-> tail, iv |-> iv,
     c |-> setup(key, cbc, iv, text \o tail, Len(text))]

TokenJob(payload) == [pc |-> "signing", payload |-> payload]

Init ==
    /\ held = 0
    /\ lost = 0
    /\ refusals = 0
    /\ \/ \E n \in 1..Size : \E text \in [1..n -> Plain], key \in Keys, cbc \in BOOLEAN,
                                iv \in Vectors :
            job = CipherJob(text, Zeroes(Size - n), key, cbc, iv)
       \/ \E payload \in Payloads : job = TokenJob(payload)

-----------------------------------------------------------------------------
(***************************************************************************)
(* A message is encrypted and, elsewhere, set up again and decrypted.      *)
(***************************************************************************)
Encrypt ==
    /\ job.pc = "encrypting"
    /\ job.c.left > 0
    /\ job' = [job EXCEPT !.c = encrypt(@)]
    /\ UNCHANGED <<held, lost, refusals>>

SetUpAgain ==
    /\ job.pc = "encrypting"
    /\ job.c.left = 0
    /\ job' = [job EXCEPT !.pc = "decrypting",
                          !.c = setup(@.key, @.cbc, job.iv, @.data, Len(job.text))]
    /\ UNCHANGED <<held, lost, refusals>>

Decrypt ==
    /\ job.pc = "decrypting"
    /\ job.c.left > 0
    /\ job' = [job EXCEPT !.c = decrypt(@)]
    /\ UNCHANGED <<held, lost, refusals>>

-----------------------------------------------------------------------------
(***************************************************************************)
(* Tokens.  A token is the sequence of its parts between the dots, those   *)
(* between two dots in a row, before the first or after the last being     *)
(* empty.                                                                  *)
(***************************************************************************)
Blocks == 4  \* header, payload, signature, out

\* The characters of a signature, of which SignatureLen stand for the 43.
SignatureLen == 2
Signature(key, header, payload) == [i \in 1..SignatureLen |-> <<key, header, payload, i>>]

\* The blocks the object points to; allocateJWTMemory overwrites the pointers, and
\* what they held is lost.
allocateJWTMemory == held' = Blocks /\ lost' = lost + held
clear == held' = 0

b64PayloadLen == (4 * maxPayloadLen) \div 3 + 5

encodeJWT(payload) ==
    LET h == base64urlEncode(Header)
        p == base64urlEncode(payload)
    IN  <<h, p, Signature("ours", h, p)>>

\* JWTManager::encodeJWT frees what it allocated.  A payload that does not fit
\* its block, with the terminator, is written past it, and what it overwrites
\* there is at worst the heap clear() works on.
EncodeJWT ==
    /\ job.pc = "signing"
    /\ \/ job' = [pc |-> "carried", payload |-> job.payload, token |-> encodeJWT(job.payload),
                  altered |-> FALSE]
       \/ /\ Len(base64urlEncode(job.payload)) + 1 > b64PayloadLen
          /\ job' = [pc |-> "undefined", payload |-> job.payload]
    /\ clear
    /\ lost' = lost + held
    /\ UNCHANGED refusals

\* What the network may do to a part, and a dot more or a part less.
AlteredPart(part, other) ==
    {[part EXCEPT ![i] = other] : i \in DOMAIN part}
    \cup {Front(part), Append(part, other)}

Altered(token) ==
    {[token EXCEPT ![2] = part] :
       part \in UNION {AlteredPart(token[2], c) : c \in {1, Outside}}}
    \cup {[token EXCEPT ![3] = part] :
       part \in AlteredPart(token[3], <<"other">>)
                \cup {Signature("other", token[1], token[2])}}
    \cup {InsertAt(token, i, <<>>) : i \in 1..(Len(token) + 1)}
    \cup {[RemoveAt(token, 2) EXCEPT ![1] = token[1] \o token[2]]}
    \cup {SubSeq(token, 1, 1) \o <<SubSeq(token[2], 1, i), SubSeq(token[2], i + 1, Len(token[2]))>>
            \o SubSeq(token, 3, 3) : i \in 1..Len(token[2])}

Alter ==
    /\ job.pc = "carried"
    /\ ~job.altered
    /\ \E token \in Altered(job.token) \ {job.token} :
         job' = [job EXCEPT !.token = token, !.altered = TRUE]
    /\ UNCHANGED <<held, lost, refusals>>

\* strtok skips the empty parts.
strtok(token) == SelectSeq(token, LAMBDA part : part # <<>>)

\* Mutant of Verified: the signatures have to agree in length only.
VerifiedByLength(token) ==
    LET part == strtok(token)
    IN  Len(part) = 3 /\ Len(part[3]) = SignatureLen

\* Code 2 when there are not three parts, 3 when the signature is not ours.
Verified(token) ==
    LET part == strtok(token)
    IN  Len(part) = 3 /\ part[3] = Signature("ours", part[1], part[2])

\* JWTManager::decodeJWT returns before clear() when the token is refused.
Refuse ==
    /\ job.pc = "carried"
    /\ ~Verified(job.token)
    /\ refusals < MaxRefusals
    /\ refusals' = refusals + 1
    /\ allocateJWTMemory
    /\ job' = [job EXCEPT !.pc = "refused"]

\* testSignature is as long as the signature of the token, and generateSignature
\* writes the whole of its own there before the lengths are compared: with a shorter
\* one it overwrites what the compiler has put behind the array.  (The terminator of
\* one of the same length lies in the rounding of the array's size.)
WritePastSignature ==
    LET part == strtok(job.token)
    IN  /\ job.pc = "carried"
        /\ Len(part) = 3
        /\ Len(part[3]) < SignatureLen
        /\ allocateJWTMemory
        /\ job' = [pc |-> "undefined", payload |-> job.payload]
        /\ UNCHANGED refusals

Accept ==
    /\ job.pc = "carried"
    /\ Verified(job.token)
    /\ allocateJWTMemory
    /\ job' = [pc |-> "decoding", payload |-> job.payload, token |-> job.token,
               d |-> DecodeStart, failed |-> BadLength(strtok(job.token)[2])]
    /\ UNCHANGED refusals

\* A character outside the alphabet ends the decoding, whose result nobody reads.
DecodeNext ==
    LET input == strtok(job.token)[2]
        c     == input[job.d.i + 1]
    IN  /\ job.pc = "decoding"
        /\ ~job.failed
        /\ job.d.i < Len(input)
        /\ job' = IF c = Outside THEN [job EXCEPT !.failed = TRUE]
                                 ELSE [job EXCEPT !.d = DecodeCharacter(@, c)]
        /\ UNCHANGED <<held, lost, refusals>>

\* The payload is copied out and the memory freed.
Retrieve ==
    /\ job.pc = "decoding"
    /\ job.failed \/ job.d.i = Len(strtok(job.token)[2])
    /\ job' = [job EXCEPT !.pc = "retrieved",
                          !.d.output = IF job.failed THEN @ ELSE DecodeFinal(job.d)]
    /\ clear
    /\ UNCHANGED <<lost, refusals>>

NextToken(payload) ==
    /\ job.pc \in {"refused", "retrieved"}
    /\ job' = TokenJob(payload)
    /\ UNCHANGED <<held, lost, refusals>>

Next ==
    \/ Encrypt \/ SetUpAgain \/ Decrypt
    \/ EncodeJWT \/ Alter \/ Refuse \/ WritePastSignature \/ Accept \/ DecodeNext \/ Retrieve
    \/ \E payload \in Payloads : NextToken(payload)

Spec == Init /\ [][Next]_vars

-----------------------------------------------------------------------------
\* What AES::decrypt leaves in the buffer is what AES::encrypt found there, for
\* every length (less than a block, whole blocks, a partial last one) and in
\* both modes, and neither writes beyond the message or its only block.
CipherRoundTrip ==
    job.pc \in {"encrypting", "decrypting"} =>
      /\ \A i \in DOMAIN job.c.data :
           i > Len(job.text) /\ i > Block => job.c.data[i] = (job.text \o job.tail)[i]
      /\ job.pc = "decrypting" /\ job.c.left = 0 =>
           SubSeq(job.c.data, 1, Len(job.text)) = job.text

\* The heap blocks of every token built or accepted are freed; those of a refused
\* one are lost at the next allocation, the same four each time, since decodeJWT
\* returns before clear().
OnlyRefusalsLose ==
    job.pc # "undefined" =>
      held + lost = Blocks * (refusals + (IF job.pc = "decoding" THEN 1 ELSE 0))

\* decodeJWT accepts a token just when its parts are the three encodeJWT wrote,
\* whatever dots are between and around them (strtok skips the empty parts), and
\* gives back the payload encodeJWT was given: a token that was changed in any other
\* way, cut or signed with another key is refused, and a token that was refused
\* before leaves no trace in a later one.  Nothing is said of a payload written past
\* its block or of a signature written past the array on the stack.
TokenRoundTrip ==
    /\ job.pc = "retrieved" =>
         /\ strtok(job.token) = encodeJWT(job.payload)
         /\ job.d.output = job.payload
    /\ job.pc = "refused" => strtok(job.token) # encodeJWT(job.payload)
    /\ OnlyRefusalsLose

=============================================================================
