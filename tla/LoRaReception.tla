--------------------------- MODULE LoRaReception ---------------------------
(***************************************************************************)
(* WaitingForMessage::waitForMessage and the handlers behind               *)
(* processLoRaMessage.  Trackers cut a frame (a body and the delimiter     *)
(* "||") into radio packets; packets are lost, and those of two trackers   *)
(* mix.  The receiver appends what it reads to accumulatedBuffer, takes    *)
(* what precedes the first delimiter for a message and, in a later pass of *)
(* update(), verifies it.                                                  *)
(*                                                                         *)
(* A body is a sequence of pieces; its HMAC is raw bytes, so a piece may   *)
(* be a bar.  Checksum and HMAC accept a text only if it is a whole body.  *)
(***************************************************************************)
EXTENDS Naturals, Sequences

CONSTANTS
    Trackers,
    Messages,
    Body,        \* Body[m]: the pieces of m as transmitted, checksum last
    Malformed,   \* messages that authenticate but do not parse
    Bar,         \* the character '|'
    ChunkSize,   \* pieces per radio packet
    MAX_INSERTS, \* reads kept without a delimiter (51)
    MaxSends     \* bound: frames transmitted in a behaviour

Frame(m) == Body[m] \o <<Bar, Bar>>

Packets(m) == (Len(Frame(m)) + ChunkSize - 1) \div ChunkSize

Packet(m, i) ==
    SubSeq(Frame(m), (i - 1) * ChunkSize + 1,
           IF i * ChunkSize < Len(Frame(m)) THEN i * ChunkSize ELSE Len(Frame(m)))

\* The ciphertext comes first and is base64, the checksum comes last and is
\* hexadecimal: neither end of a body is a bar.  A frame fits in the buffer.
ASSUME LoRaAssumption ==
    /\ ChunkSize \in Nat \ {0}
    /\ MAX_INSERTS \in Nat
    /\ MaxSends \in Nat
    /\ Malformed \subseteq Messages
    /\ \A m \in Messages : /\ Body[m] \in Seq({Body[m][i] : i \in 1..Len(Body[m])})
                           /\ Len(Body[m]) > 0
                           /\ Body[m][1] # Bar
                           /\ Body[m][Len(Body[m])] # Bar
                           /\ Packets(m) <= MAX_INSERTS

VARIABLES
    listening,             \* the gateway is in state WaitingForMessage
    firstEntryOnThisMethod,
    messageReceived,
    accumulatedBuffer,
    fullMessage,
    stringInsertCount,
    air,        \* air[t]: the frame t transmits and its next packet, or Silent
    sends,      \* history: frames transmitted so far
    heard,      \* history: <<n, i>>: packet i of the n-th frame continued it intact
    streak,     \* history: intact frames read since the last disturbance
    sentCount,  \* history: times each message was transmitted
    taken       \* history: times each message was taken out of the buffer

receiverVars == <<listening, firstEntryOnThisMethod, messageReceived,
                  accumulatedBuffer, fullMessage, stringInsertCount>>
radioVars    == <<air, sends, sentCount>>
historyVars  == <<heard, streak>>

vars == <<receiverVars, radioVars, historyVars, taken>>

-----------------------------------------------------------------------------
Silent == [frame |-> 0, next |-> 0, msg |-> {}]
NotHearing == <<0, 0>>

Init ==
    /\ listening = TRUE
    /\ firstEntryOnThisMethod = TRUE
    /\ messageReceived = FALSE
    /\ accumulatedBuffer = <<>>
    /\ fullMessage = <<>>
    /\ stringInsertCount = 0
    /\ air = [t \in Trackers |-> Silent]
    /\ sends = 0
    /\ heard = NotHearing
    /\ streak = 0
    /\ sentCount = [m \in Messages |-> 0]
    /\ taken = [m \in Messages |-> 0]

-----------------------------------------------------------------------------
(***************************************************************************)
(* The radio.                                                              *)
(***************************************************************************)
Transmit(t, m) ==
    /\ sends < MaxSends
    /\ air[t] = Silent
    /\ air' = [air EXCEPT ![t] = [frame |-> sends + 1, next |-> 1, msg |-> m]]
    /\ sends' = sends + 1
    /\ sentCount' = [sentCount EXCEPT ![m] = @ + 1]
    /\ UNCHANGED <<receiverVars, historyVars, taken>>

\* The packet on the air is over, read or not.
PacketEnds(t) ==
    air' = IF air[t].next = Packets(air[t].msg) THEN [air EXCEPT ![t] = Silent]
                                                ELSE [air EXCEPT ![t].next = @ + 1]

\* A packet nobody reads: noise, a collision, or the gateway busy elsewhere.
PacketLost(t) ==
    /\ air[t] # Silent
    /\ PacketEnds(t)
    /\ UNCHANGED <<receiverVars, sends, sentCount, historyVars, taken>>

-----------------------------------------------------------------------------
(***************************************************************************)
(* waitForMessage                                                          *)
(***************************************************************************)
\* begin() may fail; it is then tried again on the next pass.
BeginLoRa ==
    /\ listening
    /\ firstEntryOnThisMethod
    /\ firstEntryOnThisMethod' = FALSE
    /\ UNCHANGED <<listening, messageReceived, accumulatedBuffer, fullMessage,
                   stringInsertCount, radioVars, historyVars, taken>>

\* std::search for the delimiter: the set of places it occurs.
Delimiters(buffer) ==
    {i \in 1..(Len(buffer) - 1) : buffer[i] = Bar /\ buffer[i + 1] = Bar}

FirstDelimiter(buffer) ==
    CHOOSE i \in Delimiters(buffer) : \A j \in Delimiters(buffer) : i <= j

\* A body whose raw HMAC happens to contain the delimiter.
InnerDelimiter(m) == Delimiters(Body[m]) # {}

\* More is waiting in accumulatedBuffer than one frame's end.
Backlog == ~ (Delimiters(accumulatedBuffer) \subseteq {Len(accumulatedBuffer) - 1})

\* A frame is intact when its packets are read in order with no other between, each
\* with no backlog in the buffer; one with a delimiter inside is a disturbance.
Hear(t) ==
    LET i    == air[t].next
        last == i = Packets(air[t].msg)
        goes == /\ ~ Backlog
                /\ ~ InnerDelimiter(air[t].msg)
                /\ i = 1 \/ heard = <<air[t].frame, i - 1>>
        base == IF goes /\ (i > 1 \/ heard = NotHearing) THEN streak ELSE 0
    IN  /\ heard' = IF goes /\ ~last THEN <<air[t].frame, i>> ELSE NotHearing
        /\ streak' = IF goes /\ last THEN base + 1 ELSE base

\* Mutant of Overflow: one read late.
OverflowLate == stringInsertCount > MAX_INSERTS

Overflow == stringInsertCount + 1 > MAX_INSERTS

\* The 52nd read without a delimiter throws everything away, itself included.
ClearOverflow ==
    /\ accumulatedBuffer' = <<>>
    /\ stringInsertCount' = 0
    /\ messageReceived' = FALSE
    /\ UNCHANGED fullMessage

\* Mutant of SplitAtDelimiter: half of the delimiter is erased.
SplitHalfErased(buffer) ==
    LET d == FirstDelimiter(buffer)
    IN  /\ fullMessage' = SubSeq(buffer, 1, d - 1)
        /\ accumulatedBuffer' = SubSeq(buffer, d + 1, Len(buffer))
        /\ stringInsertCount' = 0
        /\ messageReceived' = TRUE

\* What precedes the first delimiter is the message, what follows it stays.
SplitAtDelimiter(buffer) ==
    LET d == FirstDelimiter(buffer)
    IN  /\ fullMessage' = SubSeq(buffer, 1, d - 1)
        /\ accumulatedBuffer' = SubSeq(buffer, d + 2, Len(buffer))
        /\ stringInsertCount' = 0
        /\ messageReceived' = TRUE

MayRead == listening /\ ~firstEntryOnThisMethod /\ ~messageReceived

ReadPacket(t) ==
    LET buffer == accumulatedBuffer \o Packet(air[t].msg, air[t].next)
    IN  /\ MayRead
        /\ air[t] # Silent
        /\ IF Overflow
             THEN ClearOverflow
             ELSE IF Delimiters(buffer) # {}
             THEN SplitAtDelimiter(buffer)
             ELSE /\ accumulatedBuffer' = buffer
                  /\ stringInsertCount' = stringInsertCount + 1
                  /\ UNCHANGED <<messageReceived, fullMessage>>
        /\ PacketEnds(t)
        /\ Hear(t)
        /\ UNCHANGED <<listening, firstEntryOnThisMethod, sends, sentCount, taken>>

\* processLoRaMessage: checksum, HMAC and decryption.
Verified(text) == {m \in Messages : Body[m] = text}

\* Nothing before the delimiter.
ProcessEmpty ==
    /\ listening
    /\ messageReceived
    /\ fullMessage = <<>>
    /\ accumulatedBuffer' = <<>>
    /\ messageReceived' = FALSE
    /\ UNCHANGED <<listening, firstEntryOnThisMethod, fullMessage,
                   stringInsertCount, radioVars, historyVars, taken>>

\* A text that does not verify: only the flag is taken back.
ProcessFails ==
    /\ listening
    /\ messageReceived
    /\ fullMessage # <<>>
    /\ Verified(fullMessage) = {}
    /\ messageReceived' = FALSE
    /\ UNCHANGED <<listening, firstEntryOnThisMethod, accumulatedBuffer, fullMessage,
                   stringInsertCount, radioVars, historyVars, taken>>

\* Mutant of ClearReception: the message is left in place.
ClearBufferOnly ==
    /\ accumulatedBuffer' = <<>>
    /\ stringInsertCount' = 0
    /\ UNCHANGED <<messageReceived, fullMessage>>

ClearReception ==
    /\ messageReceived' = FALSE
    /\ accumulatedBuffer' = <<>>
    /\ stringInsertCount' = 0
    /\ fullMessage' = <<>>

\* A message: the buffers are emptied; if it parses the gateway goes on to
\* acknowledge it, if not it keeps listening.
ProcessMessage(m) ==
    /\ listening
    /\ messageReceived
    /\ m \in Verified(fullMessage)
    /\ ClearReception
    /\ streak' = 0
    /\ listening' = (m \in Malformed)
    /\ taken' = [taken EXCEPT ![m] = @ + 1]
    /\ UNCHANGED <<firstEntryOnThisMethod, radioVars, heard>>

\* The round of the accepted message is over; the statics are still there.
ListenAgain ==
    /\ ~listening
    /\ listening' = TRUE
    /\ UNCHANGED <<firstEntryOnThisMethod, messageReceived, accumulatedBuffer,
                   fullMessage, stringInsertCount, radioVars, historyVars, taken>>

-----------------------------------------------------------------------------
Next ==
    \/ \E t \in Trackers, m \in Messages : Transmit(t, m)
    \/ \E t \in Trackers : PacketLost(t)
    \/ \E t \in Trackers : ReadPacket(t)
    \/ BeginLoRa
    \/ ProcessEmpty
    \/ ProcessFails
    \/ \E m \in Messages : ProcessMessage(m)
    \/ ListenAgain

Spec == Init /\ [][Next]_vars

-----------------------------------------------------------------------------
Pieces == UNION {{Frame(m)[i] : i \in 1..Len(Frame(m))} : m \in Messages}

\* The types; the read counter never passes its limit.
Types ==
    /\ listening \in BOOLEAN
    /\ firstEntryOnThisMethod \in BOOLEAN
    /\ messageReceived \in BOOLEAN
    /\ accumulatedBuffer \in Seq(Pieces)
    /\ fullMessage \in Seq(Pieces)
    /\ stringInsertCount \in 0..MAX_INSERTS
    /\ \A t \in Trackers :
         air[t] # Silent => air[t].msg \in Messages /\ air[t].next \in 1..Packets(air[t].msg)
    /\ sends \in 0..MaxSends
    /\ streak \in Nat
    /\ sentCount \in [Messages -> Nat]
    /\ taken \in [Messages -> Nat]

\* No frame with a delimiter inside was transmitted so far.
OnlyPlainFrames == \A m \in Messages : InnerDelimiter(m) => sentCount[m] = 0

\* Until a frame with a delimiter inside is transmitted, accumulatedBuffer holds no
\* more than the limit's worth of reads, however frames are lost and mixed: this is
\* what the "size reach limit" branch is for.  And each read is searched once, yet
\* no backlog of frames builds up: what stays behind holds no delimiter but, at its
\* very end, that of one frame, when the packet that ended it also completed the
\* delimiter of another.
BufferLimited ==
    OnlyPlainFrames =>
      /\ Len(accumulatedBuffer) <= (MAX_INSERTS + 1) * ChunkSize
      /\ ~ Backlog

\* The type invariant, and the buffer's limit.
TypeOK == Types /\ BufferLimited

\* No transmission is taken twice.
TakenAtMostOnce == \A m \in Messages : taken[m] <= sentCount[m]

\* Resynchronisation: whatever fragments are left in the buffer, be it of frames
\* with a delimiter inside, once there is no backlog the receiver takes a message
\* at the latest with the second intact frame, or the third when the size limit
\* struck in between: after three it is about to.
Resynchronises ==
    /\ streak <= 3
    /\ streak = 3 => messageReceived /\ Verified(fullMessage) # {}
=============================================================================
