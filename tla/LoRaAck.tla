------------------------------- MODULE LoRaAck -------------------------------
(***************************************************************************)
(* SendingAck::sendAcknowledgement, the generators behind                  *)
(* prepareLoRaMessage, and the LoRa driver it transmits with.              *)
(*                                                                         *)
(* The acknowledgement is coded in place in one static buffer, which also  *)
(* keeps what earlier acknowledgements left in it: the cipher works on     *)
(* whole blocks, so it takes in whatever follows the text.  A cell of the  *)
(* buffer is a byte of a text, a byte of a coded message (with the plain   *)
(* bytes it was made of), a bar or the terminator.  The tracker is taken   *)
(* to undo the coding with the verifiers this repository has for it.       *)
(***************************************************************************)
EXTENDS NonBlockingDelay, Sequences, FiniteSetsExt

CONSTANTS
    Acks,                \* the acknowledgements there are to send
    TextLength,          \* TextLength[k]: bytes of "%lld,%d,ACK"
    Block,               \* bytes of a cipher block (16)
    HmacLength,          \* bytes of the HMAC (32)
    CrcLength,           \* hexadecimal digits of the checksum (8)
    MaxPadding,          \* last bytes the decrypter takes for padding (1..16)
    ChunkSizes,          \* sizes a packet may be built with (255)
    MAX_ACK_SEND_TRIES,  \* times an acknowledgement is sent (3)
    BACKOFF_TIME,        \* ticks before the first packet (100 ms)
    FLY_TIME,            \* ticks between packets (1000 ms)
    MaxFailures          \* bound: checksums that cannot be computed

EncryptedSize(n) == ((n + Block - 1) \div Block) * Block

Base64Length(n) == 4 * ((n + 2) \div 3)

\* Every text takes the same number of blocks: an IMEI and a message number
\* are 17 to 32 bytes with the commas and "ACK".
ASSUME AckAssumption ==
    /\ TextLength \in [Acks -> Nat \ {0}]
    /\ \A j, k \in Acks : EncryptedSize(TextLength[j]) = EncryptedSize(TextLength[k])
    /\ Block \in Nat \ {0} /\ HmacLength \in Nat /\ CrcLength \in Nat /\ MaxPadding \in Nat
    /\ ChunkSizes \subseteq Nat \ {0} /\ MAX_ACK_SEND_TRIES \in Nat \ {0}
    /\ BACKOFF_TIME \in Nat /\ FLY_TIME \in Nat /\ MaxFailures \in Nat

VARIABLES
    pc,       \* "listening", "acking", "transmitting" (in endPacket) or "forwarding"
    ack,      \* IdDevice and messageNumber of the current SendingAck object
    statics,  \* the static locals of sendAcknowledgement
    buffer,   \* its static buffer
    delay,    \* the gateway's timeout, which it is passed as backoffTime
    radio,    \* operating mode, I/Q inversion, and what is in the FIFO
    begun,    \* LoRa.begin has succeeded since the start
    chunk,    \* MAX_CHUNK_SIZE_BYTES of this build
    failures, \* checksums that could not be computed so far
    air,      \* history: packets of the current acknowledgement
    cells,    \* history: what these packets carry, put together
    gap       \* history: ticks since the last of them was started

history == <<air, cells, gap>>

vars == <<pc, ack, statics, buffer, delay, radio, begun, chunk, failures, history>>

-----------------------------------------------------------------------------
(***************************************************************************)
(* The cells and the coding.                                               *)
(***************************************************************************)
Nul == <<"nul">>
Bars == << <<"bar">>, <<"bar">> >>

Text(k) == [i \in 1..TextLength[k] |-> <<"text", k, i>>]

\* What the cipher takes a left-over byte for: only the HMAC's are not printable.
Plain(cell) == IF cell[1] \in {"text", "nul"} THEN cell
               ELSE IF cell[1] = "mac" THEN <<"raw">> ELSE <<"printable">>

Cells(kind, plain, n) == [i \in 1..n |-> <<kind, plain, i>>]

\* Bytes copied to the front of the buffer; the rest of it stays.
Copied(b, data) == [i \in DOMAIN b |-> IF i <= Len(data) THEN data[i] ELSE b[i]]

\* snprintf of the text
Formatted(b, k) == Copied(b, Text(k) \o <<Nul>>)

\* EncrypterBase64::handleMessage: the text's blocks, whatever they end with
Encrypted(b, k) == [i \in 1..EncryptedSize(TextLength[k]) |-> Plain(b[i])]

Base64(plain) == Cells("b64", plain, Base64Length(Len(plain)))

\* AuthenticationGenerator::handleMessage and ChecksumGenerator::handleMessage
Authenticated(plain) == Base64(plain) \o Cells("mac", plain, HmacLength)
Checksummed(plain) == Authenticated(plain) \o Cells("crc", plain, CrcLength)

\* prepareLoRaMessage: when the checksum fails, the HMAC has been appended.
Prepared(b, k, succeeds) ==
    LET plain == Encrypted(Formatted(b, k), k)
        coded == IF succeeds THEN Checksummed(plain) \o Bars ELSE Authenticated(plain)
    IN  Copied(Formatted(b, k), coded \o <<Nul>>)

TotalLength(b) == (CHOOSE i \in DOMAIN b : b[i] = Nul /\ \A j \in 1..(i - 1) : b[j] # Nul) - 1

BufferSize == Base64Length(EncryptedSize(TextLength[CHOOSE k \in Acks : TRUE]))
                + HmacLength + CrcLength + 3

-----------------------------------------------------------------------------
(***************************************************************************)
(* The driver.  Polarity: an up-link packet is not inverted, a down-link   *)
(* one is.                                                                 *)
(***************************************************************************)
RadioOff == [mode |-> "sleep", inverted |-> FALSE, fifo |-> <<>>]

begin(r) == [RadioOff EXCEPT !.mode = "standby"]
idle(r) == [r EXCEPT !.mode = "standby"]
enableInvertIQ(r) == [r EXCEPT !.inverted = TRUE]

\* Mutant of disableInvertIQ: the receiver keeps the polarity of the last packet.
PolarityKept(r) == r

disableInvertIQ(r) == [r EXCEPT !.inverted = FALSE]
parsePacket(r) == [r EXCEPT !.mode = "rx"]
beginPacket(r) == [idle(r) EXCEPT !.fifo = <<>>]
write(r, data) == [r EXCEPT !.fifo = @ \o data]
endPacket(r) == [r EXCEPT !.mode = "tx"]

-----------------------------------------------------------------------------
AtBoot == [firstEntryOnThisMethod |-> TRUE, firstDelayPassed |-> FALSE,
           messageFormatted |-> FALSE, firstChunkSent |-> FALSE,
           stringIndex |-> 0, numberOffAckSendings |-> 0]

Cleared == [i \in 1..BufferSize |-> Nul]

Init ==
    /\ pc = "listening"
    /\ ack \in Acks
    /\ statics = AtBoot
    /\ buffer = Cleared
    /\ delay = Stopped(BACKOFF_TIME)
    /\ radio = RadioOff
    /\ begun = FALSE
    /\ chunk \in ChunkSizes
    /\ failures = 0
    /\ air = <<>> /\ cells = <<>> /\ gap = 0

-----------------------------------------------------------------------------
\* A pass of waitForMessage that receives nothing; begin() may have failed.
Listen(begins) ==
    /\ pc = "listening"
    /\ begins => ~begun
    /\ begun' = (begun \/ begins)
    /\ radio' = LET r == IF begins THEN begin(radio) ELSE radio
                IN  IF begun' THEN parsePacket(disableInvertIQ(r)) ELSE r
    /\ UNCHANGED <<pc, ack, statics, buffer, delay, chunk, failures, history>>

\* A message was taken (LoRaReception): new SendingAck
MessageTaken(k) ==
    /\ pc = "listening"
    /\ begun
    /\ pc' = "acking"
    /\ ack' = k
    /\ radio' = idle(radio)
    /\ UNCHANGED <<statics, buffer, delay, begun, chunk, failures, history>>

-----------------------------------------------------------------------------
(***************************************************************************)
(* sendAcknowledgement, by where a pass returns.                           *)
(***************************************************************************)
OnEntry == IF statics.firstEntryOnThisMethod
             THEN WrittenAndRestarted(delay, BACKOFF_TIME) ELSE delay

PastBackoff == statics.firstDelayPassed \/ TimeArrived(OnEntry)
AfterBackoff == IF statics.firstDelayPassed THEN OnEntry ELSE Read(OnEntry)

BackoffPending ==
    /\ pc = "acking"
    /\ ~PastBackoff
    /\ delay' = Read(OnEntry)
    /\ statics' = [statics EXCEPT !.firstEntryOnThisMethod = FALSE]
    /\ UNCHANGED <<pc, ack, buffer, radio, begun, chunk, failures, history>>

PrepareFails ==
    /\ pc = "acking"
    /\ PastBackoff
    /\ ~statics.messageFormatted
    /\ failures < MaxFailures
    /\ failures' = failures + 1
    /\ buffer' = Prepared(buffer, ack, FALSE)
    /\ delay' = AfterBackoff
    /\ statics' = [statics EXCEPT !.firstEntryOnThisMethod = FALSE, !.firstDelayPassed = TRUE]
    /\ UNCHANGED <<pc, ack, radio, begun, chunk, history>>

Ready == IF statics.messageFormatted THEN buffer ELSE Prepared(buffer, ack, TRUE)

HasBeenPrepared ==
    [statics EXCEPT !.firstEntryOnThisMethod = FALSE, !.firstDelayPassed = TRUE,
                    !.messageFormatted = TRUE]

\* Coded and waiting: the flight time of the last packet, or, from the second
\* acknowledgement on, one more backoff, since firstChunkSent is never reset.
ChunkPending ==
    /\ pc = "acking"
    /\ PastBackoff
    /\ ~TimeArrived(AfterBackoff) /\ statics.firstChunkSent
    /\ buffer' = Ready
    /\ delay' = Read(AfterBackoff)
    /\ statics' = HasBeenPrepared
    /\ UNCHANGED <<pc, ack, radio, begun, chunk, failures, history>>

ChunkOf(b, index) ==
    LET left == TotalLength(b) - index
    IN  SubSeq(b, index + 1, index + (IF left < chunk THEN left ELSE chunk))

SendChunk ==
    LET data == ChunkOf(Ready, statics.stringIndex)
    IN  /\ pc = "acking"
        /\ PastBackoff
        /\ TimeArrived(AfterBackoff) \/ ~statics.firstChunkSent
        /\ pc' = "transmitting"
        /\ buffer' = Ready
        /\ delay' = WrittenAndRestarted(AfterBackoff, FLY_TIME)
        /\ statics' = [HasBeenPrepared EXCEPT !.firstChunkSent = TRUE]
        /\ radio' = endPacket(write(beginPacket(enableInvertIQ(idle(radio))), data))
        /\ air' = Append(air, [inverted |-> radio'.inverted, after |-> gap])
        /\ cells' = cells \o radio'.fifo
        /\ gap' = 0
        /\ UNCHANGED <<ack, begun, chunk, failures>>

\* Mutant of Counted: the text is taken for formatted already.
CountedFormatKept ==
    IF statics.numberOffAckSendings + 1 < MAX_ACK_SEND_TRIES
      THEN [statics EXCEPT !.numberOffAckSendings = @ + 1, !.stringIndex = 0]
      ELSE [AtBoot EXCEPT !.firstChunkSent = TRUE, !.messageFormatted = TRUE]

\* After a repetition's last packet: everything but firstChunkSent is reset
\* after the last repetition.
Counted ==
    IF statics.numberOffAckSendings + 1 < MAX_ACK_SEND_TRIES
      THEN [statics EXCEPT !.numberOffAckSendings = @ + 1, !.stringIndex = 0]
      ELSE [AtBoot EXCEPT !.firstChunkSent = TRUE]

\* endPacket returns, and with it the pass.
TxDone ==
    /\ pc = "transmitting"
    /\ radio' = idle(radio)
    /\ IF statics.stringIndex + chunk > TotalLength(buffer)
         THEN /\ statics' = Counted
              /\ delay' = Restarted(delay)
         ELSE /\ statics' = [statics EXCEPT !.stringIndex = @ + chunk]
              /\ UNCHANGED delay
    /\ pc' = IF statics'.firstEntryOnThisMethod THEN "forwarding" ELSE "acking"
    /\ UNCHANGED <<ack, buffer, begun, chunk, failures, history>>

-----------------------------------------------------------------------------
\* TxDone never comes: endPacket waits for it without a limit.
WatchdogBites ==
    /\ pc = "transmitting"
    /\ pc' = "listening"
    /\ statics' = AtBoot
    /\ buffer' = Cleared
    /\ delay' = Stopped(BACKOFF_TIME)
    /\ begun' = FALSE
    /\ air' = <<>> /\ cells' = <<>> /\ gap' = 0
    /\ UNCHANGED <<ack, radio, chunk, failures>>

\* The record was forwarded, or dropped; the states in between use the delay too.
ListenAgain(d) ==
    /\ pc = "forwarding"
    /\ pc' = "listening"
    /\ delay' = d
    /\ air' = <<>> /\ cells' = <<>> /\ gap' = 0
    /\ UNCHANGED <<ack, statics, buffer, radio, begun, chunk, failures>>

Tick ==
    /\ delay' = Ticked(delay)
    /\ gap' = IF gap < FLY_TIME /\ air # <<>> THEN gap + 1 ELSE gap
    /\ <<delay, gap>>' # <<delay, gap>>
    /\ UNCHANGED <<pc, ack, statics, buffer, radio, begun, chunk, failures, air, cells>>

Pass == BackoffPending \/ PrepareFails \/ ChunkPending \/ SendChunk

Next ==
    \/ \E begins \in BOOLEAN : Listen(begins)
    \/ \E k \in Acks : MessageTaken(k)
    \/ Pass
    \/ TxDone
    \/ WatchdogBites
    \/ \E d \in {Stopped(FLY_TIME), WrittenAndRestarted(delay, FLY_TIME)} : ListenAgain(d)
    \/ Tick

Spec == Init /\ [][Next]_vars

\* The main loop keeps calling update(), the ticker keeps running, and the
\* watchdog ends a transmission that the radio does not.
FairSpec == Spec /\ WF_vars(Pass) /\ WF_vars(Tick) /\ WF_vars(TxDone \/ WatchdogBites)

-----------------------------------------------------------------------------
\* The type invariant.  While the gateway listens, the radio is set for the
\* polarity the trackers send with, whatever it transmitted before.
TypeOK ==
    /\ pc \in {"listening", "acking", "transmitting", "forwarding"}
    /\ ack \in Acks
    /\ statics.stringIndex \in 0..BufferSize
    /\ statics.numberOffAckSendings \in 0..(MAX_ACK_SEND_TRIES - 1)
    /\ delay \in Delays({BACKOFF_TIME, FLY_TIME})
    /\ failures \in 0..MaxFailures
    /\ radio.mode \in {"sleep", "standby", "rx", "tx"}
    /\ radio.mode = "rx" => ~radio.inverted

\* DecrypterBase64 cuts the padding its last byte announces, and the text ends
\* at the first terminator.
UpToNul(s) == LET nuls == {i \in DOMAIN s : s[i] = Nul}
              IN  IF nuls = {} THEN s ELSE SubSeq(s, 1, Min(nuls) - 1)

Readings(plain) ==
    {UpToNul(SubSeq(plain, 1, Len(plain) - cut)) :
       cut \in IF plain[Len(plain)] = <<"raw">>
                 THEN 0..(IF MaxPadding < Len(plain) THEN MaxPadding ELSE Len(plain)) ELSE {0}}

\* The gateway goes on only after it has sent the acknowledgement three times,
\* in packets of down-link polarity at least a flight time apart across chunks
\* and repetitions, and whoever puts them together and undoes the coding reads
\* this acknowledgement every time: neither the chunks, nor what an earlier
\* acknowledgement left in the buffer, nor a failed preparation shows in it.
AckUnderstood ==
    pc = "forwarding" =>
      LET plain == cells[1][2]
          frame == Checksummed(plain) \o Bars
      IN  /\ \A i \in DOMAIN air : air[i].inverted /\ (i > 1 => air[i].after >= FLY_TIME)
          /\ Len(cells) = MAX_ACK_SEND_TRIES * Len(frame)
          /\ \A r \in 0..(MAX_ACK_SEND_TRIES - 1), i \in 1..Len(frame) :
                cells[r * Len(frame) + i] = frame[i]
          /\ Readings(plain) = {Text(ack)}

\* An acknowledgement ends: the gateway goes on to forward the record, or the
\* watchdog has restarted it.
AckEnds == (pc = "acking") ~> (pc \in {"forwarding", "listening"})
=============================================================================
