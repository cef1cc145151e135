--------------------------- MODULE LoRaAckProofs ---------------------------
(***************************************************************************)
(* Proofs about LoRaAck: its type invariant, and that every completed      *)
(* acknowledgement is understood, for any lengths, packet size, number of  *)
(* repetitions and delays.                                                  *)
(***************************************************************************)
EXTENDS LoRaAck, SequenceTheorems, TLAPS

-----------------------------------------------------------------------------
(***************************************************************************)
(* The inductive invariant.                                                *)
(***************************************************************************)
\* Cells a text is encrypted in, and cells of a whole frame.
TextCells == EncryptedSize(TextLength[CHOOSE k \in Acks : TRUE])
FrameLength == BufferSize - 1

FrameOf(plain) == Checksummed(plain) \o Bars

\* A sequence, whatever it holds.
IsSequence(s) == s \in Seq({s[i] : i \in DOMAIN s})

\* A buffer an acknowledgement can be coded in: it is as long as a frame and
\* its terminator, and no byte of an HMAC is left where the cipher will look.
Usable(b) ==
    /\ b = [i \in 1..BufferSize |-> b[i]]
    /\ \A i \in 1..TextCells : b[i][1] # "mac"

\* The buffer holds the frame of acknowledgement k.
Coded(b, k) ==
    /\ \A i \in 1..FrameLength : b[i] = FrameOf(b[1][2])[i] /\ b[i] # Nul
    /\ b[BufferSize] = Nul
    /\ Len(FrameOf(b[1][2])) = FrameLength
    /\ Readings(b[1][2]) = {Text(k)}

DelayOK(d) ==
    /\ d \in [running : BOOLEAN, elapsed : Nat, duration : {BACKOFF_TIME, FLY_TIME}]
    /\ d.elapsed <= d.duration

Statics ==
    [firstEntryOnThisMethod : BOOLEAN, firstDelayPassed : BOOLEAN,
     messageFormatted : BOOLEAN, firstChunkSent : BOOLEAN,
     stringIndex : 0..FrameLength, numberOffAckSendings : 0..(MAX_ACK_SEND_TRIES - 1)]

DataOK ==
    /\ pc \in {"listening", "acking", "transmitting", "forwarding"}
    /\ ack \in Acks
    /\ statics \in Statics
    /\ DelayOK(delay)
    /\ failures \in 0..MaxFailures
    /\ chunk \in ChunkSizes
    /\ gap \in Nat

RadioOK ==
    /\ radio \in [mode : {"sleep", "standby", "rx", "tx"}, inverted : BOOLEAN,
                  fifo : {radio.fifo}]
    /\ radio.mode = "rx" => ~radio.inverted

\* How the static locals, which outlive the object, agree with where it is.
StaticsAgree ==
    /\ pc \in {"listening", "forwarding"} => statics.firstEntryOnThisMethod
    /\ pc = "transmitting" => statics.messageFormatted /\ statics.firstChunkSent
    /\ statics.messageFormatted => statics.firstDelayPassed
    /\ statics.firstDelayPassed => ~statics.firstEntryOnThisMethod
    /\ ~statics.messageFormatted => statics.stringIndex = 0 /\ statics.numberOffAckSendings = 0

BufferOK == Usable(buffer) /\ (statics.messageFormatted => Coded(buffer, ack))

\* Cells that have been sent once the packet at hand is out.
PacketLength == IF FrameLength - statics.stringIndex < chunk
                  THEN FrameLength - statics.stringIndex ELSE chunk
SentBefore == statics.numberOffAckSendings * FrameLength + statics.stringIndex

\* The cells sent are those of the frame, over and over.
Repeats(c, f, n) ==
    \A q \in 0..n, i \in 1..FrameLength :
       q * FrameLength + i <= Len(c) => c[q * FrameLength + i] = f[i]

CellsOK ==
    /\ IsSequence(cells)
    /\ pc \in {"listening", "acking"} /\ ~statics.messageFormatted => cells = <<>>
    /\ pc = "acking" => Len(cells) = SentBefore
    /\ pc = "transmitting" => Len(cells) = SentBefore + PacketLength
    /\ statics.messageFormatted => Repeats(cells, buffer, statics.numberOffAckSendings)

\* The packets so far, and why the next will be a flight time after the last.
Spaced(a) ==
    \A i \in DOMAIN a : a[i].inverted /\ (i > 1 => a[i].after >= FLY_TIME)

AirOK ==
    /\ IsSequence(air)
    /\ Spaced(air)
    /\ pc \in {"listening", "acking"} /\ ~statics.messageFormatted => air = <<>>
    /\ pc \in {"acking", "transmitting"} /\ air # <<>> =>
         statics.firstChunkSent /\ delay.duration = FLY_TIME /\ delay.elapsed <= gap

IInv == DataOK /\ RadioOK /\ StaticsAgree /\ BufferOK /\ CellsOK /\ AirOK /\ AckUnderstood

-----------------------------------------------------------------------------
(***************************************************************************)
(* Lengths.                                                                *)
(***************************************************************************)
LEMMA BlocksCover ==
    ASSUME NEW n \in Nat \ {0}, NEW b \in Nat \ {0}
    PROVE  /\ ((n + b - 1) \div b) * b \in Nat
           /\ ((n + b - 1) \div b) * b >= n
<1> DEFINE m == n + b - 1
           q == m \div b
<1>1. m \in Nat
  OBVIOUS
<1> HIDE DEF m
<1>2. /\ q \in Nat
      /\ m = b * q + (m % b)
      /\ m % b \in 0..(b - 1)
  BY <1>1
<1> HIDE DEF q
<1>3. q * b \in Nat /\ q * b = b * q
  BY <1>2
<1>4. q * b >= n
  BY <1>2, <1>3 DEF m
<1> QED
  BY <1>3, <1>4 DEF q, m

LEMMA Base64Covers ==
    ASSUME NEW n \in Nat
    PROVE  Base64Length(n) \in Nat /\ Base64Length(n) >= n
  BY DEF Base64Length

LEMMA SizeFacts ==
    ASSUME AckAssumption, NEW k \in Acks
    PROVE  /\ EncryptedSize(TextLength[k]) = TextCells
           /\ TextCells \in Nat /\ TextLength[k] \in 1..TextCells
           /\ Base64Length(TextCells) \in Nat /\ TextCells <= Base64Length(TextCells)
           /\ FrameLength = Base64Length(TextCells) + HmacLength + CrcLength + 2
           /\ FrameLength \in Nat /\ BufferSize = FrameLength + 1
<1>1. (CHOOSE j \in Acks : TRUE) \in Acks
  OBVIOUS
<1>2. EncryptedSize(TextLength[k]) = TextCells
  BY <1>1 DEF AckAssumption, TextCells
<1>3. /\ EncryptedSize(TextLength[k]) \in Nat
      /\ EncryptedSize(TextLength[k]) >= TextLength[k]
      /\ TextLength[k] \in Nat \ {0}
  BY BlocksCover DEF AckAssumption, EncryptedSize
<1>4. Base64Length(TextCells) \in Nat /\ TextCells <= Base64Length(TextCells)
  BY <1>2, <1>3, Base64Covers
<1>5. BufferSize = Base64Length(TextCells) + HmacLength + CrcLength + 3
  BY DEF BufferSize, TextCells
<1>6. HmacLength \in Nat /\ CrcLength \in Nat
  BY DEF AckAssumption
<1> QED
  BY <1>2, <1>3, <1>4, <1>5, <1>6 DEF FrameLength

-----------------------------------------------------------------------------
(***************************************************************************)
(* Sequences of cells.                                                     *)
(***************************************************************************)
LEMMA SequenceMember ==
    ASSUME NEW S, NEW s \in Seq(S)
    PROVE  IsSequence(s) /\ Len(s) \in Nat /\ DOMAIN s = 1..Len(s)
<1>1. Len(s) \in Nat /\ DOMAIN s = 1..Len(s) /\ s = [i \in 1..Len(s) |-> s[i]]
  OBVIOUS
<1>2. s \in [1..Len(s) -> {s[i] : i \in DOMAIN s}]
  BY <1>1
<1> QED
  BY <1>1, <1>2 DEF IsSequence

LEMMA SequenceBuilt ==
    ASSUME NEW n \in Nat, NEW s, s = [i \in 1..n |-> s[i]]
    PROVE  IsSequence(s) /\ Len(s) = n
<1>1. DOMAIN s = 1..n
  OBVIOUS
<1>2. s \in [1..n -> {s[i] : i \in DOMAIN s}]
  BY <1>1
<1> QED
  BY <1>1, <1>2 DEF IsSequence

LEMMA SequenceFacts ==
    ASSUME NEW s, IsSequence(s)
    PROVE  Len(s) \in Nat /\ DOMAIN s = 1..Len(s) /\ s = [i \in 1..Len(s) |-> s[i]]
  BY DEF IsSequence

IsJoin(j, s, t) ==
    /\ IsSequence(j)
    /\ Len(j) = Len(s) + Len(t)
    /\ \A i \in 1..Len(s) : j[i] = s[i]
    /\ \A i \in 1..Len(t) : j[Len(s) + i] = t[i]

LEMMA Joined ==
    ASSUME NEW s, NEW t, IsSequence(s), IsSequence(t)
    PROVE  IsJoin(s \o t, s, t)
<1> DEFINE S == {s[i] : i \in DOMAIN s} \cup {t[i] : i \in DOMAIN t}
<1>1. s \in Seq(S) /\ t \in Seq(S)
  <2>1. Len(s) \in Nat /\ s \in [1..Len(s) -> S]
    BY SequenceFacts
  <2>2. Len(t) \in Nat /\ t \in [1..Len(t) -> S]
    BY SequenceFacts
  <2> QED
    BY <2>1, <2>2
<1> HIDE DEF S
<1>2. s \o t \in Seq(S) /\ Len(s \o t) = Len(s) + Len(t)
  BY <1>1
<1>3. IsSequence(s \o t)
  BY <1>2, SequenceMember
<1>4. \A i \in 1..Len(s) : (s \o t)[i] = s[i]
  BY <1>1
<1>5. \A i \in 1..Len(t) : (s \o t)[Len(s) + i] = t[i]
  BY <1>1
<1> QED
  BY <1>2, <1>3, <1>4, <1>5 DEF IsJoin

LEMMA Cut ==
    ASSUME NEW s, IsSequence(s), NEW m \in 0..Len(s), NEW n \in 0..(Len(s) - m)
    PROVE  /\ IsSequence(SubSeq(s, m + 1, m + n))
           /\ Len(SubSeq(s, m + 1, m + n)) = n
           /\ \A i \in 1..n : SubSeq(s, m + 1, m + n)[i] = s[m + i]
<1> DEFINE S == {s[i] : i \in DOMAIN s}
<1>1. s \in Seq(S)
  BY DEF IsSequence
<1> HIDE DEF S
<1>2. Len(s) \in Nat
  BY <1>1
<1>3. m + 1 \in 1..(Len(s) + 1) /\ m + n \in (m + 1 - 1)..Len(s)
  BY <1>2
<1>4. /\ SubSeq(s, m + 1, m + n) \in Seq(S)
      /\ Len(SubSeq(s, m + 1, m + n)) = m + n - (m + 1) + 1
      /\ \A i \in 1..(m + n - (m + 1) + 1) : SubSeq(s, m + 1, m + n)[i] = s[m + 1 + i - 1]
  BY <1>1, <1>3, SubSeqProperties
<1>5. m + n - (m + 1) + 1 = n /\ \A i \in 1..n : m + 1 + i - 1 = m + i
  BY <1>2
<1> QED
  BY <1>4, <1>5, SequenceMember

LEMMA Prefix ==
    ASSUME NEW s, IsSequence(s), NEW n \in 0..Len(s)
    PROVE  SubSeq(s, 1, n) = [i \in 1..n |-> s[i]]
<1> DEFINE S == {s[i] : i \in DOMAIN s}
           t == SubSeq(s, 1, n)
<1>1. s \in Seq(S)
  BY DEF IsSequence
<1> HIDE DEF S
<1>2. Len(s) \in Nat /\ n \in Int /\ n <= Len(s) /\ n >= 0
  BY <1>1
<1>3. \A i \in 1..n : s[i] \in S
  BY <1>1, <1>2
<1>4. /\ t \in Seq(S)
      /\ Len(t) = IF 1 <= n THEN n - 1 + 1 ELSE 0
      /\ \A i \in 1..(n - 1 + 1) : t[i] = s[1 + i - 1]
  BY <1>2, <1>3, SubSeqProperties
<1> HIDE DEF t
<1>5. Len(t) = n
  BY <1>2, <1>4
<1>6. \A i \in 1..n : t[i] = s[i]
  BY <1>2, <1>4
<1>7. t = [i \in 1..n |-> t[i]]
  BY <1>4, <1>5
<1> QED
  BY <1>6, <1>7 DEF t

LEMMA CellsFacts ==
    ASSUME NEW kind, NEW plain, NEW n \in Nat
    PROVE  /\ IsSequence(Cells(kind, plain, n)) /\ Len(Cells(kind, plain, n)) = n
           /\ \A i \in 1..n : Cells(kind, plain, n)[i] = <<kind, plain, i>>
<1>1. Cells(kind, plain, n) = [i \in 1..n |-> Cells(kind, plain, n)[i]]
  BY DEF Cells
<1>2. \A i \in 1..n : Cells(kind, plain, n)[i] = <<kind, plain, i>>
  BY DEF Cells
<1> QED
  BY <1>1, <1>2, SequenceBuilt

-----------------------------------------------------------------------------
(***************************************************************************)
(* The coding.                                                             *)
(***************************************************************************)
LEMMA BarsFacts ==
    IsSequence(Bars) /\ Len(Bars) = 2 /\ \A i \in 1..2 : Bars[i] = <<"bar">>
<1>1. Bars \in Seq({<<"bar">>}) /\ Len(Bars) = 2 /\ Bars[1] = <<"bar">> /\ Bars[2] = <<"bar">>
  BY DEF Bars
<1> QED
  BY <1>1, SequenceMember

LEMMA NulFacts == IsSequence(<<Nul>>) /\ Len(<<Nul>>) = 1 /\ <<Nul>>[1] = Nul /\ Nul[1] = "nul"
<1>1. <<Nul>> \in Seq({Nul}) /\ Len(<<Nul>>) = 1 /\ <<Nul>>[1] = Nul
  OBVIOUS
<1>2. Nul[1] = "nul"
  BY DEF Nul
<1> QED
  BY <1>1, <1>2, SequenceMember

LEMMA AuthenticatedFacts ==
    ASSUME AckAssumption, NEW k \in Acks, NEW plain, Len(plain) = TextCells
    PROVE  /\ IsSequence(Authenticated(plain))
           /\ Len(Authenticated(plain)) = Base64Length(TextCells) + HmacLength
           /\ \A i \in 1..Base64Length(TextCells) : Authenticated(plain)[i] = <<"b64", plain, i>>
           /\ \A i \in 1..Len(Authenticated(plain)) : Authenticated(plain)[i][1] # "nul"
<1> DEFINE B == Base64Length(TextCells)
           x == Cells("b64", plain, B)
           y == Cells("mac", plain, HmacLength)
<1>1. B \in Nat /\ HmacLength \in Nat
  BY SizeFacts DEF AckAssumption
<1>2. Authenticated(plain) = x \o y
  BY DEF Authenticated, Base64
<1>3. IsSequence(x) /\ Len(x) = B /\ \A i \in 1..B : x[i] = <<"b64", plain, i>>
  BY <1>1, CellsFacts
<1>4. IsSequence(y) /\ Len(y) = HmacLength /\ \A i \in 1..HmacLength : y[i] = <<"mac", plain, i>>
  BY <1>1, CellsFacts
<1> HIDE DEF x, y, B
<1>5. /\ IsSequence(x \o y)
      /\ Len(x \o y) = B + HmacLength
      /\ \A i \in 1..B : (x \o y)[i] = x[i]
      /\ \A i \in 1..HmacLength : (x \o y)[B + i] = y[i]
  <2> DEFINE j == x \o y
  <2>1. IsJoin(j, x, y)
    BY <1>3, <1>4, Joined
  <2> HIDE DEF j
  <2>2. /\ IsSequence(j) /\ Len(j) = B + HmacLength
        /\ \A i \in 1..B : j[i] = x[i]
        /\ \A i \in 1..HmacLength : j[B + i] = y[i]
    BY <2>1, <1>3, <1>4 DEF IsJoin
  <2> QED
    BY <2>2 DEF j
<1>6. ASSUME NEW i \in 1..(B + HmacLength)
      PROVE  (x \o y)[i][1] # "nul"
  <2>1. CASE i \in 1..B
    BY <2>1, <1>5, <1>3
  <2>2. CASE i \notin 1..B
    <3> DEFINE j == i - B
    <3>1. j \in 1..HmacLength /\ i = B + j
      BY <2>2, <1>1
    <3> HIDE DEF j
    <3>2. (x \o y)[i] = <<"mac", plain, j>>
      BY <3>1, <1>5, <1>4
    <3> QED
      BY <3>2
  <2> QED
    BY <2>1, <2>2
<1> QED
  BY <1>2, <1>3, <1>5, <1>6 DEF B

LEMMA FrameFacts ==
    ASSUME AckAssumption, NEW k \in Acks, NEW plain, Len(plain) = TextCells
    PROVE  /\ IsSequence(FrameOf(plain))
           /\ Len(FrameOf(plain)) = FrameLength
           /\ \A i \in 1..Base64Length(TextCells) : FrameOf(plain)[i] = <<"b64", plain, i>>
           /\ \A i \in 1..FrameLength : FrameOf(plain)[i][1] # "nul"
<1> DEFINE B == Base64Length(TextCells)
           a == Authenticated(plain)
           y == Cells("crc", plain, CrcLength)
           c == a \o y
           n == B + HmacLength
<1>1. B \in Nat /\ n \in Nat /\ n >= B /\ CrcLength \in Nat /\ FrameLength = n + CrcLength + 2
  BY SizeFacts DEF AckAssumption
<1>2. FrameOf(plain) = c \o Bars
  BY DEF FrameOf, Checksummed
<1>3. /\ IsSequence(a) /\ Len(a) = n
      /\ \A i \in 1..B : a[i] = <<"b64", plain, i>>
      /\ \A i \in 1..n : a[i][1] # "nul"
  BY AuthenticatedFacts
<1>4. IsSequence(y) /\ Len(y) = CrcLength /\ \A i \in 1..CrcLength : y[i] = <<"crc", plain, i>>
  BY <1>1, CellsFacts
<1> HIDE DEF a, y, B, n
<1>5. /\ IsSequence(c)
      /\ Len(c) = n + CrcLength
      /\ \A i \in 1..n : c[i] = a[i]
      /\ \A i \in 1..CrcLength : c[n + i] = y[i]
  <2> DEFINE j == a \o y
  <2>1. IsJoin(j, a, y)
    BY <1>3, <1>4, Joined
  <2> HIDE DEF j
  <2>2. /\ IsSequence(j) /\ Len(j) = n + CrcLength
        /\ \A i \in 1..n : j[i] = a[i]
        /\ \A i \in 1..CrcLength : j[n + i] = y[i]
    BY <2>1, <1>3, <1>4 DEF IsJoin
  <2> QED
    BY <2>2 DEF j
<1> HIDE DEF c
<1>6. /\ IsSequence(c \o Bars)
      /\ Len(c \o Bars) = FrameLength
      /\ \A i \in 1..(n + CrcLength) : (c \o Bars)[i] = c[i]
      /\ \A i \in 1..2 : (c \o Bars)[n + CrcLength + i] = <<"bar">>
  <2> DEFINE j == c \o Bars
  <2>1. IsJoin(j, c, Bars)
    BY <1>5, BarsFacts, Joined
  <2> HIDE DEF j
  <2>2. IsSequence(j) /\ Len(j) = FrameLength
    BY <2>1, <1>1, <1>5, BarsFacts DEF IsJoin
  <2>3. \A i \in 1..(n + CrcLength) : j[i] = c[i]
    BY <2>1, <1>5 DEF IsJoin
  <2>4. \A i \in 1..2 : j[n + CrcLength + i] = <<"bar">>
    BY <2>1, <1>5, BarsFacts DEF IsJoin
  <2> QED
    BY <2>2, <2>3, <2>4 DEF j
<1>7. ASSUME NEW i \in 1..FrameLength
      PROVE  (c \o Bars)[i][1] # "nul"
  <2>1. CASE i \in 1..n
    <3>1. i \in 1..(n + CrcLength)
      BY <2>1, <1>1
    <3> QED
      BY <2>1, <3>1, <1>6, <1>5, <1>3
  <2>2. CASE i \in (n + 1)..(n + CrcLength)
    <3> DEFINE j == i - n
    <3>1. j \in 1..CrcLength /\ i = n + j /\ i \in 1..(n + CrcLength)
      BY <2>2, <1>1
    <3> HIDE DEF j
    <3>2. (c \o Bars)[i] = <<"crc", plain, j>>
      BY <3>1, <1>6, <1>5, <1>4
    <3> QED
      BY <3>2
  <2>3. CASE i > n + CrcLength
    <3> DEFINE j == i - (n + CrcLength)
    <3>1. j \in 1..2 /\ i = n + CrcLength + j
      BY <2>3, <1>1
    <3> HIDE DEF j
    <3>2. (c \o Bars)[i] = <<"bar">>
      BY <3>1, <1>6
    <3> QED
      BY <3>2
  <2>4. i \in 1..n \/ i \in (n + 1)..(n + CrcLength) \/ i > n + CrcLength
    BY <1>1
  <2> QED
    BY <2>1, <2>2, <2>3, <2>4, Zenon
<1>8. ASSUME NEW i \in 1..B
      PROVE  (c \o Bars)[i] = <<"b64", plain, i>>
  <2>1. i \in 1..n /\ i \in 1..(n + CrcLength)
    BY <1>1
  <2> QED
    BY <2>1, <1>6, <1>5, <1>3
<1> QED
  BY <1>2, <1>6, <1>7, <1>8 DEF B

LEMMA TextFacts ==
    ASSUME AckAssumption, NEW k \in Acks
    PROVE  /\ IsSequence(Text(k)) /\ Len(Text(k)) = TextLength[k]
           /\ Text(k) = [i \in 1..TextLength[k] |-> Text(k)[i]]
           /\ \A i \in 1..TextLength[k] : Text(k)[i] = <<"text", k, i>>
<1>1. TextLength[k] \in Nat
  BY DEF AckAssumption
<1>2. Text(k) = [i \in 1..TextLength[k] |-> Text(k)[i]]
  BY DEF Text
<1>3. \A i \in 1..TextLength[k] : Text(k)[i] = <<"text", k, i>>
  BY DEF Text
<1> QED
  BY <1>1, <1>2, <1>3, SequenceBuilt

\* What the buffer is like after the text and its terminator were written.
Written(f, k) ==
    /\ Usable(f)
    /\ \A i \in 1..TextLength[k] : f[i] = <<"text", k, i>>
    /\ f[TextLength[k] + 1] = Nul

LEMMA FormattedFacts ==
    ASSUME AckAssumption, NEW k \in Acks, NEW b, Usable(b)
    PROVE  Written(Formatted(b, k), k)
<1> DEFINE T == TextLength[k]
           d == Text(k) \o <<Nul>>
           f == Copied(b, d)
<1>1. /\ T \in Nat /\ TextCells \in Nat /\ BufferSize \in Nat
      /\ T <= TextCells /\ TextCells + 1 <= BufferSize
  BY SizeFacts DEF AckAssumption
<1>2. IsJoin(d, Text(k), <<Nul>>)
  BY TextFacts, NulFacts, Joined
<1> HIDE DEF d
<1>3. IsSequence(d) /\ Len(d) = T + 1
  BY <1>2, TextFacts, NulFacts DEF IsJoin
<1>4. \A i \in 1..T : d[i] = <<"text", k, i>>
  BY <1>2, TextFacts DEF IsJoin
<1>5. d[T + 1] = Nul
  <2>1. 1 \in 1..Len(<<Nul>>)
    BY NulFacts
  <2>2. d[Len(Text(k)) + 1] = <<Nul>>[1]
    BY <1>2, <2>1 DEF IsJoin
  <2> QED
    BY <2>2, TextFacts, NulFacts
<1> HIDE DEF f
<1>6. /\ f = [i \in 1..BufferSize |-> f[i]]
      /\ \A i \in 1..BufferSize : f[i] = IF i <= Len(d) THEN d[i] ELSE b[i]
  <2>1. DOMAIN b = 1..BufferSize
    BY DEF Usable
  <2> QED
    BY <2>1 DEF f, Copied
<1> HIDE DEF T
<1>7. \A i \in 1..T : f[i] = <<"text", k, i>>
  BY <1>1, <1>3, <1>4, <1>6
<1>8. f[T + 1] = Nul
  BY <1>1, <1>3, <1>5, <1>6
<1>9. ASSUME NEW i \in 1..TextCells
      PROVE  f[i][1] # "mac"
  <2>1. CASE i \in 1..T
    BY <2>1, <1>7
  <2>2. CASE i = T + 1
    BY <2>2, <1>8, NulFacts
  <2>3. CASE i > T + 1
    <3>1. f[i] = b[i]
      BY <2>3, <1>1, <1>3, <1>6
    <3> QED
      BY <3>1 DEF Usable
  <2>4. i \in 1..T \/ i = T + 1 \/ i > T + 1
    BY <1>1
  <2> QED
    BY <2>1, <2>2, <2>3, <2>4, Zenon
<1>10. Usable(f)
  BY <1>6, <1>9 DEF Usable
<1> QED
  BY <1>7, <1>8, <1>10 DEF Written, f, d, T, Formatted

\* What the cipher then takes in.
TakenIn(plain, k) ==
    /\ plain = [i \in 1..TextCells |-> plain[i]]
    /\ Len(plain) = TextCells
    /\ \A i \in 1..TextLength[k] : plain[i] = <<"text", k, i>>
    /\ TextLength[k] < TextCells => plain[TextLength[k] + 1] = Nul
    /\ plain[TextCells] # <<"raw">>

LEMMA PlainFacts ==
    ASSUME NEW cell, cell[1] # "mac"
    PROVE  Plain(cell) # <<"raw">>
<1>1. CASE cell[1] \in {"text", "nul"}
  <2>1. Plain(cell) = cell
    BY <1>1 DEF Plain
  <2>2. <<"raw">>[1] = "raw"
    OBVIOUS
  <2>3. "raw" # "text" /\ "raw" # "nul"
    OBVIOUS
  <2> QED
    BY <1>1, <2>1, <2>2, <2>3, Zenon
<1>2. CASE cell[1] \notin {"text", "nul"}
  <2>1. Plain(cell) = <<"printable">>
    BY <1>2 DEF Plain
  <2> QED
    BY <2>1
<1> QED
  BY <1>1, <1>2

LEMMA EncryptedFacts ==
    ASSUME AckAssumption, NEW k \in Acks, NEW f, Written(f, k)
    PROVE  TakenIn(Encrypted(f, k), k)
<1> DEFINE T == TextLength[k]
           plain == Encrypted(f, k)
<1>1. T \in 1..TextCells /\ TextCells \in Nat /\ EncryptedSize(T) = TextCells
  BY SizeFacts
<1>2. plain = [i \in 1..TextCells |-> Plain(f[i])]
  BY <1>1 DEF Encrypted
<1> HIDE DEF plain
<1>3. plain = [i \in 1..TextCells |-> plain[i]] /\ Len(plain) = TextCells
  <2>1. plain = [i \in 1..TextCells |-> plain[i]]
    BY <1>2
  <2> QED
    BY <2>1, <1>1, SequenceBuilt
<1>4. ASSUME NEW i \in 1..T
      PROVE  plain[i] = <<"text", k, i>>
  <2>1. i \in 1..TextCells /\ f[i] = <<"text", k, i>>
    BY <1>1 DEF Written
  <2>2. Plain(f[i]) = f[i]
    BY <2>1 DEF Plain
  <2> QED
    BY <1>2, <2>1, <2>2
<1>5. ASSUME T < TextCells
      PROVE  plain[T + 1] = Nul
  <2>1. T + 1 \in 1..TextCells /\ f[T + 1] = Nul
    BY <1>1, <1>5 DEF Written
  <2>2. Plain(Nul) = Nul
    BY NulFacts DEF Plain
  <2> QED
    BY <1>2, <2>1, <2>2
<1>6. plain[TextCells] # <<"raw">>
  <2>1. TextCells \in 1..TextCells
    BY <1>1
  <2>2. f[TextCells][1] # "mac"
    BY <2>1 DEF Written, Usable
  <2> QED
    BY <1>2, <2>1, <2>2, PlainFacts
<1> QED
  BY <1>3, <1>4, <1>5, <1>6 DEF TakenIn, plain

LEMMA UpToNulFacts ==
    ASSUME AckAssumption, NEW k \in Acks, NEW plain, TakenIn(plain, k)
    PROVE  UpToNul(plain) = Text(k)
<1> DEFINE T == TextLength[k]
           nuls == {i \in DOMAIN plain : plain[i] = Nul}
<1>1. T \in 1..TextCells /\ TextCells \in Nat
  BY SizeFacts
<1>2. DOMAIN plain = 1..TextCells
  BY DEF TakenIn
<1>t. \A i \in 1..T : plain[i] = <<"text", k, i>>
  BY Zenon DEF TakenIn
<1>3. ASSUME NEW i \in 1..T
      PROVE  plain[i] # Nul
  <2>1. plain[i][1] = "text"
    BY <1>t
  <2> QED
    BY <2>1, NulFacts
<1>4. CASE T = TextCells
  <2>1. nuls = {}
    BY <1>2, <1>3, <1>4
  <2>2. UpToNul(plain) = plain
    BY <2>1 DEF UpToNul
  <2>3. plain = [i \in 1..T |-> <<"text", k, i>>]
    BY <1>4 DEF TakenIn
  <2> QED
    BY <2>2, <2>3 DEF Text
<1>5. CASE T < TextCells
  <2>1. T + 1 \in nuls /\ \A i \in nuls : T + 1 <= i
    <3>1. plain[T + 1] = Nul /\ T + 1 \in 1..TextCells
      BY <1>1, <1>5 DEF TakenIn
    <3>2. ASSUME NEW i \in 1..TextCells, plain[i] = Nul
          PROVE  T + 1 <= i
      BY <1>1, <1>3, <3>2
    <3> QED
      BY <1>2, <3>1, <3>2
  <2>2. Min(nuls) = T + 1
    <3>1. nuls \subseteq Int
      BY <1>2, <1>1
    <3> HIDE DEF nuls
    <3>2. T + 1 \in Int
      BY <1>1
    <3>3. Min(nuls) \in nuls /\ \A i \in nuls : Min(nuls) <= i
      BY <2>1, Zenon DEF Min
    <3> DEFINE m == Min(nuls)
    <3>4. m \in Int /\ m <= T + 1 /\ T + 1 <= m
      BY <2>1, <3>1, <3>3
    <3> HIDE DEF m
    <3>5. m = T + 1
      BY <3>2, <3>4
    <3> QED
      BY <3>5 DEF m
  <2>3. UpToNul(plain) = SubSeq(plain, 1, Min(nuls) - 1)
    <3>1. UpToNul(plain) = IF nuls = {} THEN plain ELSE SubSeq(plain, 1, Min(nuls) - 1)
      BY DEF UpToNul
    <3> HIDE DEF nuls
    <3> QED
      BY <2>1, <3>1
  <2>4. Min(nuls) - 1 = T
    BY <1>1, <2>2
  <2>5. IsSequence(plain) /\ Len(plain) = TextCells
    BY <1>1, SequenceBuilt DEF TakenIn
  <2>6. SubSeq(plain, 1, T) = [i \in 1..T |-> plain[i]]
    BY <1>1, <2>5, Prefix
  <2>7. [i \in 1..T |-> plain[i]] = Text(k)
    BY <1>t DEF Text
  <2> QED
    BY <2>3, <2>4, <2>6, <2>7
<1> QED
  BY <1>1, <1>4, <1>5

LEMMA ReadingsFacts ==
    ASSUME AckAssumption, NEW k \in Acks, NEW plain, TakenIn(plain, k)
    PROVE  Readings(plain) = {Text(k)}
<1>1. TextCells \in Nat
  BY SizeFacts
<1>2. IsSequence(plain) /\ Len(plain) = TextCells /\ plain[Len(plain)] # <<"raw">>
  BY <1>1, SequenceBuilt DEF TakenIn
<1>3. Readings(plain) = {UpToNul(SubSeq(plain, 1, Len(plain) - 0))}
  BY <1>2 DEF Readings
<1>4. Len(plain) - 0 = TextCells
  BY <1>1, <1>2
<1>5. SubSeq(plain, 1, TextCells) = [i \in 1..TextCells |-> plain[i]]
  BY <1>1, <1>2, Prefix
<1>6. [i \in 1..TextCells |-> plain[i]] = plain
  BY Zenon DEF TakenIn
<1> QED
  BY <1>3, <1>4, <1>5, <1>6, UpToNulFacts

\* A string at the front of the buffer.
Holds(f, s) ==
    /\ f = [i \in 1..BufferSize |-> f[i]]
    /\ \A i \in 1..Len(s) : f[i] = s[i]
    /\ f[Len(s) + 1] = Nul

LEMMA StringCopied ==
    ASSUME NEW b, Usable(b), NEW s, IsSequence(s),
           Len(s) <= FrameLength, BufferSize = FrameLength + 1, FrameLength \in Nat
    PROVE  Holds(Copied(b, s \o <<Nul>>), s)
<1> DEFINE d == s \o <<Nul>>
           f == Copied(b, d)
           m == Len(s)
<1>m. m \in Nat /\ m = Len(s) /\ m <= FrameLength
  BY SequenceFacts
<1> HIDE DEF m
<1>1. IsJoin(d, s, <<Nul>>)
  BY NulFacts, Joined
<1> HIDE DEF d
<1>2. IsSequence(d) /\ Len(d) = m + 1 /\ \A i \in 1..m : d[i] = s[i]
  BY <1>m, <1>1, NulFacts DEF IsJoin
<1>3. d[m + 1] = Nul
  <2>1. 1 \in 1..Len(<<Nul>>)
    BY NulFacts
  <2>2. d[Len(s) + 1] = <<Nul>>[1]
    BY <1>1, <2>1 DEF IsJoin
  <2> QED
    BY <1>m, <2>2, NulFacts
<1>4. /\ f = [i \in 1..BufferSize |-> f[i]]
      /\ \A i \in 1..BufferSize : f[i] = IF i <= Len(d) THEN d[i] ELSE b[i]
  <2>1. DOMAIN b = 1..BufferSize
    BY DEF Usable
  <2> QED
    BY <2>1 DEF Copied
<1> HIDE DEF f
<1>5. \A i \in 1..m : f[i] = s[i]
  BY <1>m, <1>2, <1>4
<1>6. f[m + 1] = Nul
  <2>1. m + 1 \in 1..BufferSize /\ m + 1 <= Len(d)
    BY <1>m, <1>2
  <2> QED
    BY <2>1, <1>3, <1>4
<1> QED
  BY <1>m, <1>4, <1>5, <1>6, Zenon DEF f, d, Holds

\* Whatever is in a usable buffer, the acknowledgement is coded into it.
LEMMA PreparedCoded ==
    ASSUME AckAssumption, NEW k \in Acks, NEW b, Usable(b)
    PROVE  Usable(Prepared(b, k, TRUE)) /\ Coded(Prepared(b, k, TRUE), k)
<1> DEFINE w == Formatted(b, k)
           plain == Encrypted(w, k)
           frame == FrameOf(plain)
           p == Prepared(b, k, TRUE)
           B == Base64Length(TextCells)
<1>1. Written(w, k)
  BY FormattedFacts
<1>2. p = Copied(w, frame \o <<Nul>>)
  BY DEF Prepared, FrameOf
<1> HIDE DEF w
<1>3. TakenIn(plain, k)
  BY <1>1, EncryptedFacts
<1> HIDE DEF plain, p
<1>4. Readings(plain) = {Text(k)} /\ Len(plain) = TextCells
  BY <1>3, ReadingsFacts DEF TakenIn
<1>5. /\ FrameLength \in Nat /\ BufferSize = FrameLength + 1 /\ FrameLength >= B
      /\ B \in Nat /\ TextCells \in Nat /\ TextCells <= B /\ 1 <= TextCells
  BY SizeFacts DEF AckAssumption
<1>6. /\ IsSequence(frame) /\ Len(frame) = FrameLength
      /\ \A i \in 1..B : frame[i] = <<"b64", plain, i>>
      /\ \A i \in 1..FrameLength : frame[i][1] # "nul"
  BY <1>4, FrameFacts
<1> HIDE DEF frame, B
<1>7. /\ p = [i \in 1..BufferSize |-> p[i]]
      /\ \A i \in 1..FrameLength : p[i] = frame[i]
      /\ p[FrameLength + 1] = Nul
  <2>1. Usable(w) /\ Len(frame) <= FrameLength
    BY <1>1, <1>5, <1>6 DEF Written
  <2>2. Holds(p, frame)
    BY <1>2, <1>5, <1>6, <2>1, StringCopied
  <2> QED
    BY <1>6, <2>2, Zenon DEF Holds
<1>8. ASSUME NEW i \in 1..B
      PROVE  p[i] = <<"b64", plain, i>>
  <2>1. i \in 1..FrameLength
    BY <1>5
  <2> QED
    BY <2>1, <1>6, <1>7, Zenon
<1>9. p[1][2] = plain
  BY <1>5, <1>8
<1>10. \A i \in 1..TextCells : p[i][1] # "mac"
  BY <1>5, <1>8
<1>11. \A i \in 1..FrameLength : p[i] # Nul
  BY <1>6, <1>7, NulFacts
<1>12. Usable(p)
  BY <1>7, <1>10, Zenon DEF Usable
<1>13. FrameOf(p[1][2]) = frame
  BY <1>9 DEF frame
<1>14. Coded(p, k)
  <2>1. p[BufferSize] = Nul
    BY <1>5, <1>7
  <2> QED
    BY <1>4, <1>6, <1>7, <1>9, <1>11, <1>13, <2>1, Zenon DEF Coded
<1> QED
  BY <1>12, <1>14 DEF p

\* Nor does a preparation that fails leave the HMAC where it would be encrypted.
LEMMA PreparedUsable ==
    ASSUME AckAssumption, NEW k \in Acks, NEW b, Usable(b)
    PROVE  Usable(Prepared(b, k, FALSE))
<1> DEFINE w == Formatted(b, k)
           plain == Encrypted(w, k)
           a == Authenticated(plain)
           p == Prepared(b, k, FALSE)
           B == Base64Length(TextCells)
<1>1. Written(w, k)
  BY FormattedFacts
<1>2. p = Copied(w, a \o <<Nul>>)
  BY DEF Prepared
<1> HIDE DEF w
<1>3. TakenIn(plain, k)
  BY <1>1, EncryptedFacts
<1> HIDE DEF plain, p
<1>4. Len(plain) = TextCells
  BY <1>3 DEF TakenIn
<1>5. /\ FrameLength \in Nat /\ BufferSize = FrameLength + 1 /\ FrameLength >= B + HmacLength
      /\ B \in Nat /\ TextCells \in Nat /\ TextCells <= B /\ HmacLength \in Nat
  BY SizeFacts DEF AckAssumption
<1>6. /\ IsSequence(a) /\ Len(a) = B + HmacLength
      /\ \A i \in 1..B : a[i] = <<"b64", plain, i>>
  BY <1>4, AuthenticatedFacts
<1> HIDE DEF a, B
<1>7. /\ p = [i \in 1..BufferSize |-> p[i]]
      /\ \A i \in 1..(B + HmacLength) : p[i] = a[i]
  <2>1. Usable(w) /\ Len(a) <= FrameLength
    BY <1>1, <1>5, <1>6 DEF Written
  <2>2. Holds(p, a)
    BY <1>2, <1>5, <1>6, <2>1, StringCopied
  <2> QED
    BY <1>6, <2>2, Zenon DEF Holds
<1>8. ASSUME NEW i \in 1..B
      PROVE  p[i] = <<"b64", plain, i>>
  <2>1. i \in 1..(B + HmacLength)
    BY <1>5
  <2> QED
    BY <2>1, <1>6, <1>7, Zenon
<1>10. \A i \in 1..TextCells : p[i][1] # "mac"
  BY <1>5, <1>8
<1> QED
  BY <1>7, <1>10, Zenon DEF Usable, p

LEMMA TotalFacts ==
    ASSUME AckAssumption, NEW k \in Acks, NEW b, Usable(b), Coded(b, k)
    PROVE  TotalLength(b) = FrameLength /\ IsSequence(b) /\ Len(b) = BufferSize
<1>1. FrameLength \in Nat /\ BufferSize = FrameLength + 1 /\ BufferSize \in Nat
  BY SizeFacts
<1>2. DOMAIN b = 1..BufferSize
  BY DEF Usable
<1>3. b[FrameLength + 1] = Nul /\ \A j \in 1..FrameLength : b[j] # Nul
  BY <1>1, Zenon DEF Coded
<1> DEFINE First(i) == b[i] = Nul /\ \A j \in 1..(i - 1) : b[j] # Nul
           n == CHOOSE i \in DOMAIN b : First(i)
<1>4. FrameLength + 1 \in DOMAIN b /\ First(FrameLength + 1)
  BY <1>1, <1>2, <1>3
<1>5. ASSUME NEW i \in DOMAIN b, First(i)
      PROVE  i = FrameLength + 1
  <2>1. i \in 1..(FrameLength + 1) /\ b[i] = Nul
    BY <1>1, <1>2, <1>5
  <2>2. i \notin 1..FrameLength
    BY <1>3, <2>1
  <2> QED
    BY <1>1, <2>1, <2>2
<1>6. n \in DOMAIN b /\ First(n)
  <2> HIDE DEF First
  <2> QED
    BY <1>4
<1>7. n = FrameLength + 1
  <2> HIDE DEF First, n
  <2> QED
    BY <1>5, <1>6
<1>8. TotalLength(b) = n - 1
  BY DEF TotalLength
<1>9. IsSequence(b) /\ Len(b) = BufferSize
  BY <1>1, SequenceBuilt DEF Usable
<1> HIDE DEF n
<1> QED
  BY <1>1, <1>7, <1>8, <1>9

-----------------------------------------------------------------------------
(***************************************************************************)
(* The delay, the radio and the cells sent.                                *)
(***************************************************************************)
LEMMA DelayFacts ==
    ASSUME AckAssumption, NEW d, DelayOK(d)
    PROVE  /\ DelayOK(Read(d)) /\ DelayOK(Restarted(d)) /\ DelayOK(Ticked(d))
           /\ \A t \in {BACKOFF_TIME, FLY_TIME} : DelayOK(WrittenAndRestarted(d, t))
<1>0. BACKOFF_TIME \in Nat /\ FLY_TIME \in Nat
  BY DEF AckAssumption
<1>t. ASSUME NEW x \in BOOLEAN
      PROVE  DelayOK([d EXCEPT !.running = x, !.elapsed = 0])
  <2> DEFINE e == [d EXCEPT !.running = x, !.elapsed = 0]
  <2>1. d.duration \in Nat
    BY <1>0 DEF DelayOK
  <2>2. e \in [running : BOOLEAN, elapsed : Nat, duration : {BACKOFF_TIME, FLY_TIME}]
    BY DEF DelayOK
  <2>3. e.elapsed = 0 /\ e.duration = d.duration
    BY DEF DelayOK
  <2> HIDE DEF e
  <2>4. DelayOK(e)
    BY <2>1, <2>2, <2>3 DEF DelayOK
  <2> QED
    BY <2>4 DEF e
<1>1. DelayOK(Read(d))
  <2>1. (~d.running) \in BOOLEAN
    BY Zenon
  <2>2. CASE ~d.running \/ TimeArrived(d)
    BY <1>t, <2>1, <2>2, Zenon DEF Read
  <2>3. CASE ~(~d.running \/ TimeArrived(d))
    BY <2>3, Zenon DEF Read
  <2> QED
    BY <2>2, <2>3
<1>2. DelayOK(Restarted(d))
  BY <1>t, Zenon DEF Restarted
<1>3. DelayOK(Ticked(d))
  BY <1>0 DEF Ticked, DelayOK
<1>4. \A t \in {BACKOFF_TIME, FLY_TIME} : DelayOK(WrittenAndRestarted(d, t))
  BY <1>0 DEF WrittenAndRestarted, DelayOK
<1> QED
  BY <1>1, <1>2, <1>3, <1>4

LEMMA StoppedFacts ==
    ASSUME AckAssumption, NEW t \in {BACKOFF_TIME, FLY_TIME}
    PROVE  DelayOK(Stopped(t))
  BY DEF AckAssumption, DelayOK, Stopped

LEMMA DelayMember ==
    ASSUME AckAssumption, NEW d, DelayOK(d)
    PROVE  d \in Delays({BACKOFF_TIME, FLY_TIME})
<1>1. d \in [running : BOOLEAN, elapsed : 0..d.duration, duration : {d.duration}]
  BY DEF DelayOK, AckAssumption
<1>2. d.duration \in {BACKOFF_TIME, FLY_TIME}
  BY DEF DelayOK
<1> QED
  BY <1>1, <1>2 DEF Delays

\* The delay the pass goes on with once the backoff is over.
LEMMA EntryFacts ==
    ASSUME AckAssumption, DelayOK(delay)
    PROVE  DelayOK(OnEntry) /\ DelayOK(AfterBackoff)
<1>1. DelayOK(OnEntry)
  BY DelayFacts DEF OnEntry
<1> QED
  BY <1>1, DelayFacts DEF AfterBackoff

LEMMA ClearedUsable ==
    ASSUME AckAssumption, NEW k \in Acks
    PROVE  Usable(Cleared)
<1>1. TextCells \in Nat /\ BufferSize \in Nat /\ TextCells <= BufferSize
  BY SizeFacts DEF AckAssumption
<1>2. Cleared = [i \in 1..BufferSize |-> Cleared[i]]
  BY DEF Cleared
<1>3. ASSUME NEW i \in 1..TextCells
      PROVE  Cleared[i][1] # "mac"
  <2>1. i \in 1..BufferSize
    BY <1>1
  <2>2. Cleared[i] = Nul
    BY <2>1 DEF Cleared
  <2> QED
    BY <2>2, NulFacts
<1> QED
  BY <1>2, <1>3, Zenon DEF Usable

LEMMA BootFacts ==
    ASSUME AckAssumption, NEW k \in Acks
    PROVE  /\ AtBoot \in Statics
           /\ AtBoot.firstEntryOnThisMethod /\ ~AtBoot.firstDelayPassed
           /\ ~AtBoot.messageFormatted /\ AtBoot.stringIndex = 0
           /\ AtBoot.numberOffAckSendings = 0
  BY SizeFacts DEF AtBoot, Statics, AckAssumption

LEMMA Times ==
    ASSUME NEW q \in Nat, NEW n \in Nat, NEW l \in Nat
    PROVE  /\ q * l \in Nat /\ (q + 1) * l = q * l + l
           /\ q < n => q * l + l <= n * l
<1>1. q * l \in Nat /\ (q + 1) * l = q * l + l
  OBVIOUS
<1>2. ASSUME q < n
      PROVE  q * l + l <= n * l
  <2> DEFINE m == n - (q + 1)
  <2>1. m \in Nat /\ n = (q + 1) + m
    BY <1>2
  <2> HIDE DEF m
  <2>2. n * l = (q + 1) * l + m * l /\ m * l \in Nat
    BY <2>1
  <2> QED
    BY <1>1, <2>2
<1> QED
  BY <1>1, <1>2

LEMMA EmptyFacts ==
    /\ IsSequence(<<>>) /\ Len(<<>>) = 0
    /\ \A f, n : Repeats(<<>>, f, n) \/ ~(FrameLength \in Nat /\ n \in Nat)
    /\ Spaced(<<>>)
<1>1. IsSequence(<<>>) /\ Len(<<>>) = 0
  BY DEF IsSequence
<1>2. ASSUME NEW f, NEW n \in Nat, FrameLength \in Nat
      PROVE  Repeats(<<>>, f, n)
  <2>1. ASSUME NEW q \in 0..n, NEW i \in 1..FrameLength
        PROVE  ~(q * FrameLength + i <= 0)
    <3>1. q * FrameLength \in Nat
      BY <1>2, Times
    <3> QED
      BY <3>1, <1>2
  <2> QED
    BY <1>1, <2>1, Zenon DEF Repeats
<1>3. Spaced(<<>>)
  BY DEF Spaced
<1> QED
  BY <1>1, <1>2, <1>3

\* Packet d carries on where packets c stopped, in repetition r at place s.
Continues(c, d, f, r, s) ==
    /\ IsSequence(c) /\ IsSequence(d)
    /\ Len(c) = r * FrameLength + s
    /\ Len(d) \in 0..(FrameLength - s)
    /\ \A i \in 1..Len(d) : d[i] = f[s + i]

LEMMA RepeatsJoined ==
    ASSUME FrameLength \in Nat, NEW c, NEW d, NEW f, NEW r \in Nat, NEW s \in 0..FrameLength,
           Continues(c, d, f, r, s), Repeats(c, f, r)
    PROVE  /\ IsSequence(c \o d) /\ Len(c \o d) = Len(c) + Len(d)
           /\ Repeats(c \o d, f, r)
<1> DEFINE j == c \o d
           L == FrameLength
           m == Len(d)
<1>0. /\ IsSequence(c) /\ IsSequence(d) /\ Len(c) = r * L + s /\ m \in 0..(L - s)
      /\ \A i \in 1..m : d[i] = f[s + i]
  BY Zenon DEF Continues
<1>1. IsJoin(j, c, d) /\ Len(d) = m
  BY <1>0, Joined
<1> HIDE DEF m
<1> HIDE DEF j
<1>2. r * L \in Nat
  BY Times
<1>3. IsSequence(j) /\ Len(j) = r * L + s + m
  BY <1>0, <1>1, <1>2 DEF IsJoin
<1>4. ASSUME NEW q \in 0..r, NEW i \in 1..L, q * L + i <= Len(j)
      PROVE  j[q * L + i] = f[i]
  <2>1. q * L \in Nat /\ (q < r => q * L + L <= r * L)
    BY Times
  <2>2. CASE q * L + i <= Len(c)
    <3>1. q * L + i \in 1..Len(c)
      BY <1>0, <1>2, <2>1, <2>2
    <3>2. j[q * L + i] = c[q * L + i]
      BY <1>1, <3>1 DEF IsJoin
    <3>3. c[q * L + i] = f[i]
      BY <2>2, Zenon DEF Repeats
    <3> QED
      BY <3>2, <3>3
  <2>3. CASE ~(q * L + i <= Len(c))
    <3>1. q = r
      BY <1>0, <1>2, <2>1, <2>3
    <3> DEFINE t == i - s
    <3>2. t \in 1..m /\ i = s + t
      BY <1>0, <1>2, <1>3, <1>4, <2>3, <3>1
    <3> HIDE DEF t
    <3>3. q * L + i = Len(c) + t
      BY <1>0, <1>2, <3>1, <3>2
    <3>4. j[Len(c) + t] = d[t]
      BY <1>1, <3>2 DEF IsJoin
    <3>5. d[t] = f[i]
      BY <1>0, <3>2
    <3> QED
      BY <3>3, <3>4, <3>5, Zenon
  <2> QED
    BY <2>2, <2>3
<1>5. Repeats(j, f, r)
  BY <1>4, Zenon DEF Repeats
<1>6. Len(j) = Len(c) + Len(d)
  BY <1>1 DEF IsJoin
<1> QED
  BY <1>3, <1>5, <1>6 DEF j

-----------------------------------------------------------------------------
(***************************************************************************)
(* The steps.                                                              *)
(***************************************************************************)
LEMMA InitIInv == ASSUME AckAssumption, Init PROVE IInv
<1>0. ack \in Acks
  BY DEF Init
<1>1. DataOK
  <2>1. DelayOK(delay)
    BY StoppedFacts DEF Init
  <2>2. statics \in Statics
    BY <1>0, BootFacts DEF Init
  <2>3. failures \in 0..MaxFailures
    BY DEF Init, AckAssumption
  <2> QED
    BY <2>1, <2>2, <2>3 DEF DataOK, Init
<1>2. RadioOK
  BY DEF RadioOK, Init, RadioOff
<1>3. StaticsAgree
  BY <1>0, BootFacts DEF StaticsAgree, Init
<1>4. BufferOK
  BY <1>0, BootFacts, ClearedUsable DEF BufferOK, Init
<1>5. CellsOK
  <2>1. pc = "listening" /\ cells = <<>> /\ ~statics.messageFormatted
    BY <1>0, BootFacts DEF Init
  <2> QED
    BY <2>1, EmptyFacts DEF CellsOK
<1>6. AirOK
  <2>1. pc = "listening" /\ air = <<>>
    BY DEF Init
  <2> QED
    BY <2>1, EmptyFacts DEF AirOK
<1>7. AckUnderstood
  BY DEF Init, AckUnderstood
<1> QED
  BY <1>1, <1>2, <1>3, <1>4, <1>5, <1>6, <1>7 DEF IInv

\* A step that changes none of these.
LEMMA StayFacts ==
    /\ BufferOK /\ UNCHANGED <<ack, statics, buffer>> => BufferOK'
    /\ CellsOK /\ UNCHANGED <<pc, statics, buffer, chunk, cells>> => CellsOK'
    /\ AirOK /\ UNCHANGED <<pc, statics, delay, air, gap>> => AirOK'
    /\ StaticsAgree /\ UNCHANGED <<pc, statics>> => StaticsAgree'
    /\ pc' # "forwarding" => AckUnderstood'
    /\ AckUnderstood /\ UNCHANGED <<pc, ack, air, cells>> => AckUnderstood'
<1>1. BufferOK /\ UNCHANGED <<ack, statics, buffer>> => BufferOK'
  BY DEF BufferOK
<1>2. CellsOK /\ UNCHANGED <<pc, statics, buffer, chunk, cells>> => CellsOK'
  BY DEF CellsOK, SentBefore, PacketLength
<1>3. AirOK /\ UNCHANGED <<pc, statics, delay, air, gap>> => AirOK'
  BY DEF AirOK
<1>4. StaticsAgree /\ UNCHANGED <<pc, statics>> => StaticsAgree'
  BY DEF StaticsAgree
<1>5. pc' # "forwarding" => AckUnderstood'
  BY DEF AckUnderstood
<1>6. AckUnderstood /\ UNCHANGED <<pc, ack, air, cells>> => AckUnderstood'
  BY DEF AckUnderstood
<1> QED
  BY <1>1, <1>2, <1>3, <1>4, <1>5, <1>6

LEMMA ListenStep ==
    ASSUME AckAssumption, IInv, NEW begins, Listen(begins)
    PROVE  IInv'
<1>1. UNCHANGED <<pc, ack, statics, buffer, delay, chunk, failures, air, cells, gap>>
  BY DEF Listen, history
<1>2. RadioOK'
  BY DEF IInv, RadioOK, Listen, begin, RadioOff, parsePacket, disableInvertIQ
<1>3. DataOK'
  BY <1>1 DEF IInv, DataOK
<1> QED
  BY <1>1, <1>2, <1>3, StayFacts DEF IInv

LEMMA MessageTakenStep ==
    ASSUME AckAssumption, IInv, NEW k \in Acks, MessageTaken(k)
    PROVE  IInv'
<1>1. /\ UNCHANGED <<statics, buffer, delay, begun, chunk, failures, air, cells, gap>>
      /\ pc = "listening" /\ pc' = "acking" /\ ack' = k
  BY DEF MessageTaken, history
<1>2. RadioOK'
  BY DEF IInv, RadioOK, MessageTaken, idle
<1>3. DataOK'
  BY <1>1 DEF IInv, DataOK
<1>4. ~statics.messageFormatted /\ statics.stringIndex = 0 /\ statics.numberOffAckSendings = 0
  BY <1>1 DEF IInv, StaticsAgree
<1>5. StaticsAgree'
  BY <1>1 DEF IInv, StaticsAgree
<1>6. BufferOK'
  BY <1>1, <1>4 DEF IInv, BufferOK
<1>7. cells = <<>> /\ air = <<>>
  BY <1>1, <1>4 DEF IInv, CellsOK, AirOK
<1>8. CellsOK'
  <2>1. cells' = <<>> /\ pc' = "acking" /\ ~statics'.messageFormatted
    BY <1>1, <1>4, <1>7
  <2>2. SentBefore' = 0
    <3>1. FrameLength \in Nat
      BY SizeFacts
    <3> QED
      BY <1>1, <1>4, <3>1 DEF SentBefore
  <2> QED
    BY <2>1, <2>2, EmptyFacts DEF CellsOK
<1>9. AirOK'
  BY <1>1, <1>7, EmptyFacts DEF AirOK
<1>10. AckUnderstood'
  BY <1>1, StayFacts
<1> QED
  BY <1>2, <1>3, <1>5, <1>6, <1>8, <1>9, <1>10 DEF IInv

LEMMA WatchdogStep ==
    ASSUME AckAssumption, IInv, WatchdogBites
    PROVE  IInv'
<1>0. ack \in Acks
  BY DEF IInv, DataOK
<1>1. /\ UNCHANGED <<ack, radio, chunk, failures>>
      /\ pc' = "listening" /\ statics' = AtBoot /\ buffer' = Cleared
      /\ delay' = Stopped(BACKOFF_TIME) /\ air' = <<>> /\ cells' = <<>> /\ gap' = 0
  BY DEF WatchdogBites
<1>2. RadioOK'
  BY <1>1 DEF IInv, RadioOK
<1>3. DataOK'
  <2>1. DelayOK(delay')
    BY <1>1, StoppedFacts
  <2>2. statics' \in Statics
    BY <1>0, <1>1, BootFacts
  <2> QED
    BY <1>1, <2>1, <2>2 DEF IInv, DataOK
<1>4. StaticsAgree'
  BY <1>0, <1>1, BootFacts DEF StaticsAgree
<1>5. BufferOK'
  BY <1>0, <1>1, BootFacts, ClearedUsable DEF BufferOK
<1>6. CellsOK'
  <2>1. pc' = "listening" /\ cells' = <<>> /\ ~statics'.messageFormatted
    BY <1>0, <1>1, BootFacts
  <2> QED
    BY <2>1, EmptyFacts DEF CellsOK
<1>7. AirOK'
  BY <1>1, EmptyFacts DEF AirOK
<1>8. AckUnderstood'
  BY <1>1, StayFacts
<1> QED
  BY <1>2, <1>3, <1>4, <1>5, <1>6, <1>7, <1>8 DEF IInv

LEMMA ListenAgainStep ==
    ASSUME AckAssumption, IInv, NEW d, DelayOK(d), ListenAgain(d)
    PROVE  IInv'
<1>1. /\ UNCHANGED <<ack, statics, buffer, radio, chunk, failures>>
      /\ pc = "forwarding" /\ pc' = "listening" /\ delay' = d
      /\ air' = <<>> /\ cells' = <<>> /\ gap' = 0
  BY DEF ListenAgain
<1>2. RadioOK'
  BY <1>1 DEF IInv, RadioOK
<1>3. DataOK'
  BY <1>1 DEF IInv, DataOK
<1>4. StaticsAgree'
  BY <1>1 DEF IInv, StaticsAgree
<1>5. BufferOK'
  BY <1>1, StayFacts DEF IInv
<1>6. CellsOK'
  <2>1. pc' = "listening" /\ cells' = <<>> /\ ~statics'.messageFormatted
    BY <1>1 DEF IInv, StaticsAgree
  <2> QED
    BY <2>1, EmptyFacts DEF CellsOK
<1>7. AirOK'
  BY <1>1, EmptyFacts DEF AirOK
<1>8. AckUnderstood'
  BY <1>1, StayFacts
<1> QED
  BY <1>2, <1>3, <1>4, <1>5, <1>6, <1>7, <1>8 DEF IInv

LEMMA TickStep ==
    ASSUME AckAssumption, IInv, Tick
    PROVE  IInv'
<1>1. /\ UNCHANGED <<pc, ack, statics, buffer, radio, begun, chunk, failures, air, cells>>
      /\ delay' = Ticked(delay)
      /\ gap' = IF gap < FLY_TIME /\ air # <<>> THEN gap + 1 ELSE gap
  BY DEF Tick
<1>2. RadioOK'
  BY <1>1 DEF IInv, RadioOK
<1>3. DataOK'
  <2>1. DelayOK(delay')
    BY <1>1, DelayFacts DEF IInv, DataOK
  <2>2. gap' \in Nat
    BY <1>1 DEF IInv, DataOK
  <2> QED
    BY <1>1, <2>1, <2>2 DEF IInv, DataOK
<1>4. AirOK'
  <2>1. delay'.duration = delay.duration
    BY <1>1 DEF IInv, DataOK, DelayOK, Ticked
  <2>2. ASSUME air # <<>>, delay.duration = FLY_TIME, delay.elapsed <= gap
        PROVE  delay'.elapsed <= gap'
    <3>1. delay.elapsed \in Nat /\ gap \in Nat /\ FLY_TIME \in Nat
      BY DEF IInv, DataOK, DelayOK, AckAssumption
    <3>2. CASE delay.running /\ delay.elapsed < delay.duration
      <4>1. delay'.elapsed = delay.elapsed + 1
        BY <1>1, <3>2 DEF IInv, DataOK, DelayOK, Ticked
      <4> QED
        BY <1>1, <2>2, <3>1, <3>2, <4>1
    <3>3. CASE ~(delay.running /\ delay.elapsed < delay.duration)
      <4>1. delay' = delay
        BY <1>1, <3>3 DEF Ticked
      <4> QED
        BY <1>1, <2>2, <3>1, <4>1
    <3> QED
      BY <3>2, <3>3
  <2> QED
    BY <1>1, <2>1, <2>2 DEF IInv, AirOK
<1> QED
  BY <1>1, <1>2, <1>3, <1>4, StayFacts DEF IInv

LEMMA BackoffPendingStep ==
    ASSUME AckAssumption, IInv, BackoffPending
    PROVE  IInv'
<1>1. /\ UNCHANGED <<pc, ack, buffer, radio, begun, chunk, failures, air, cells, gap>>
      /\ pc = "acking" /\ delay' = Read(OnEntry)
      /\ statics' = [statics EXCEPT !.firstEntryOnThisMethod = FALSE]
      /\ ~statics.firstDelayPassed
  BY DEF BackoffPending, PastBackoff, history
<1>2. /\ statics' \in Statics
      /\ ~statics'.firstEntryOnThisMethod
      /\ statics'.firstDelayPassed = statics.firstDelayPassed
      /\ statics'.messageFormatted = statics.messageFormatted
      /\ statics'.stringIndex = statics.stringIndex
      /\ statics'.numberOffAckSendings = statics.numberOffAckSendings
  BY <1>1 DEF IInv, DataOK, Statics
<1>3. ~statics.messageFormatted
  BY <1>1 DEF IInv, StaticsAgree
<1>4. RadioOK'
  BY <1>1 DEF IInv, RadioOK
<1>5. DataOK'
  <2>1. DelayOK(delay')
    BY <1>1, EntryFacts, DelayFacts DEF IInv, DataOK
  <2> QED
    BY <1>1, <1>2, <2>1 DEF IInv, DataOK
<1>6. StaticsAgree'
  BY <1>1, <1>2 DEF IInv, StaticsAgree
<1>7. BufferOK'
  BY <1>1, <1>2, <1>3 DEF IInv, BufferOK
<1>8. CellsOK'
  BY <1>1, <1>2, <1>3 DEF IInv, CellsOK, SentBefore
<1>9. AirOK'
  BY <1>1, <1>2, <1>3 DEF IInv, AirOK
<1>10. AckUnderstood'
  BY <1>1, StayFacts
<1> QED
  BY <1>4, <1>5, <1>6, <1>7, <1>8, <1>9, <1>10 DEF IInv

LEMMA PrepareFailsStep ==
    ASSUME AckAssumption, IInv, PrepareFails
    PROVE  IInv'
<1>1. /\ UNCHANGED <<pc, ack, radio, begun, chunk, air, cells, gap>>
      /\ pc = "acking" /\ delay' = AfterBackoff
      /\ statics' = [statics EXCEPT !.firstEntryOnThisMethod = FALSE, !.firstDelayPassed = TRUE]
      /\ ~statics.messageFormatted
      /\ buffer' = Prepared(buffer, ack, FALSE)
      /\ failures < MaxFailures /\ failures' = failures + 1
  BY DEF PrepareFails, history
<1>2. /\ statics' \in Statics
      /\ ~statics'.firstEntryOnThisMethod
      /\ statics'.firstDelayPassed
      /\ statics'.messageFormatted = statics.messageFormatted
      /\ statics'.stringIndex = statics.stringIndex
      /\ statics'.numberOffAckSendings = statics.numberOffAckSendings
  BY <1>1 DEF IInv, DataOK, Statics
<1>4. RadioOK'
  BY <1>1 DEF IInv, RadioOK
<1>5. DataOK'
  <2>1. DelayOK(delay')
    BY <1>1, EntryFacts DEF IInv, DataOK
  <2>2. failures' \in 0..MaxFailures
    BY <1>1 DEF IInv, DataOK, AckAssumption
  <2> QED
    BY <1>1, <1>2, <2>1, <2>2 DEF IInv, DataOK
<1>6. StaticsAgree'
  BY <1>1, <1>2 DEF IInv, StaticsAgree
<1>7. BufferOK'
  <2>1. Usable(buffer')
    BY <1>1, PreparedUsable DEF IInv, DataOK, BufferOK
  <2> QED
    BY <1>1, <1>2, <2>1 DEF BufferOK
<1>8. CellsOK'
  BY <1>1, <1>2 DEF IInv, CellsOK, SentBefore
<1>9. AirOK'
  BY <1>1, <1>2 DEF IInv, AirOK
<1>10. AckUnderstood'
  BY <1>1, StayFacts
<1> QED
  BY <1>4, <1>5, <1>6, <1>7, <1>8, <1>9, <1>10 DEF IInv

\* Formatted now or on an earlier pass, the buffer holds the frame, and what
\* has been sent is a part of it.
LEMMA ReadyFacts ==
    ASSUME AckAssumption, IInv, pc = "acking"
    PROVE  /\ Usable(Ready) /\ Coded(Ready, ack)
           /\ Repeats(cells, Ready, statics.numberOffAckSendings)
           /\ Len(cells) = SentBefore
           /\ statics.messageFormatted => Ready = buffer
<1>0. ack \in Acks /\ FrameLength \in Nat /\ statics.numberOffAckSendings \in Nat
  BY SizeFacts DEF IInv, DataOK, Statics, AckAssumption
<1>1. CASE statics.messageFormatted
  <2>1. Ready = buffer
    BY <1>1 DEF Ready
  <2> QED
    BY <1>1, <2>1 DEF IInv, BufferOK, CellsOK
<1>2. CASE ~statics.messageFormatted
  <2>1. Ready = Prepared(buffer, ack, TRUE)
    BY <1>2 DEF Ready
  <2>2. Usable(Ready) /\ Coded(Ready, ack)
    BY <1>0, <2>1, PreparedCoded DEF IInv, BufferOK
  <2>3. cells = <<>> /\ Len(cells) = SentBefore
    BY <1>2 DEF IInv, CellsOK
  <2>4. Repeats(<<>>, Ready, statics.numberOffAckSendings)
    BY <1>0, EmptyFacts, Zenon
  <2>5. Repeats(cells, Ready, statics.numberOffAckSendings)
    BY <2>3, <2>4, Zenon
  <2> QED
    BY <1>2, <2>2, <2>3, <2>5
<1> QED
  BY <1>1, <1>2

LEMMA HasBeenPreparedFacts ==
    ASSUME statics \in Statics
    PROVE  /\ HasBeenPrepared \in Statics
           /\ ~HasBeenPrepared.firstEntryOnThisMethod
           /\ HasBeenPrepared.firstDelayPassed
           /\ HasBeenPrepared.messageFormatted
           /\ HasBeenPrepared.firstChunkSent = statics.firstChunkSent
           /\ HasBeenPrepared.stringIndex = statics.stringIndex
           /\ HasBeenPrepared.numberOffAckSendings = statics.numberOffAckSendings
  BY DEF HasBeenPrepared, Statics

\* While packets are out, the pass finds the delay as the last one left it.
LEMMA SameDelay ==
    ASSUME IInv, pc = "acking", air # <<>>
    PROVE  /\ AfterBackoff = delay /\ statics.firstChunkSent
           /\ delay.duration = FLY_TIME /\ delay.elapsed <= gap
<1>1. statics.messageFormatted /\ statics.firstChunkSent
      /\ delay.duration = FLY_TIME /\ delay.elapsed <= gap
  BY DEF IInv, AirOK
<1>2. statics.firstDelayPassed /\ ~statics.firstEntryOnThisMethod
  BY <1>1 DEF IInv, StaticsAgree
<1> QED
  BY <1>1, <1>2 DEF AfterBackoff, OnEntry

LEMMA ChunkPendingStep ==
    ASSUME AckAssumption, IInv, ChunkPending
    PROVE  IInv'
<1>1. /\ UNCHANGED <<pc, ack, radio, begun, chunk, failures, air, cells, gap>>
      /\ pc = "acking" /\ delay' = Read(AfterBackoff)
      /\ statics' = HasBeenPrepared /\ buffer' = Ready
      /\ ~TimeArrived(AfterBackoff)
  BY DEF ChunkPending, history
<1>2. /\ statics' \in Statics
      /\ ~statics'.firstEntryOnThisMethod
      /\ statics'.firstDelayPassed
      /\ statics'.messageFormatted
      /\ statics'.firstChunkSent = statics.firstChunkSent
      /\ statics'.stringIndex = statics.stringIndex
      /\ statics'.numberOffAckSendings = statics.numberOffAckSendings
  BY <1>1, HasBeenPreparedFacts DEF IInv, DataOK
<1>3. /\ Usable(buffer') /\ Coded(buffer', ack)
      /\ Repeats(cells, buffer', statics.numberOffAckSendings)
      /\ Len(cells) = SentBefore
  BY <1>1, ReadyFacts
<1>4. RadioOK'
  BY <1>1 DEF IInv, RadioOK
<1>5. DataOK'
  <2>1. DelayOK(delay')
    BY <1>1, EntryFacts, DelayFacts DEF IInv, DataOK
  <2> QED
    BY <1>1, <1>2, <2>1 DEF IInv, DataOK
<1>6. StaticsAgree'
  BY <1>1, <1>2 DEF StaticsAgree
<1>7. BufferOK'
  BY <1>1, <1>2, <1>3 DEF BufferOK
<1>8. CellsOK'
  <2>1. SentBefore' = SentBefore
    BY <1>2 DEF SentBefore
  <2> QED
    BY <1>1, <1>2, <1>3, <2>1 DEF IInv, CellsOK
<1>9. AirOK'
  <2>1. ASSUME air # <<>>
        PROVE  delay'.duration = FLY_TIME /\ delay'.elapsed <= gap /\ statics.firstChunkSent
    <3>1. /\ AfterBackoff = delay /\ statics.firstChunkSent
          /\ delay.duration = FLY_TIME /\ delay.elapsed <= gap
      BY <1>1, <2>1, SameDelay
    <3>2. delay' = Read(delay)
      BY <1>1, <3>1
    <3>3. delay'.duration = delay.duration /\ delay'.elapsed \in {0, delay.elapsed}
      BY <3>2 DEF Read, IInv, DataOK, DelayOK
    <3> QED
      BY <3>1, <3>3 DEF IInv, DataOK
  <2> QED
    BY <1>1, <1>2, <2>1 DEF IInv, AirOK
<1>10. AckUnderstood'
  BY <1>1, StayFacts
<1> QED
  BY <1>4, <1>5, <1>6, <1>7, <1>8, <1>9, <1>10 DEF IInv

LEMMA PacketFacts ==
    ASSUME AckAssumption, IInv
    PROVE  /\ FrameLength \in Nat /\ FrameLength >= 2 /\ chunk \in Nat \ {0}
           /\ statics.stringIndex \in 0..FrameLength
           /\ statics.numberOffAckSendings \in Nat
           /\ statics.numberOffAckSendings < MAX_ACK_SEND_TRIES
           /\ MAX_ACK_SEND_TRIES \in Nat
           /\ PacketLength \in 0..(FrameLength - statics.stringIndex)
<1>1. FrameLength \in Nat /\ FrameLength >= 2
  <2>1. ack \in Acks
    BY DEF IInv, DataOK
  <2> QED
    BY <2>1, SizeFacts DEF AckAssumption
<1>2. chunk \in Nat \ {0} /\ statics.stringIndex \in 0..FrameLength
      /\ statics.numberOffAckSendings \in 0..(MAX_ACK_SEND_TRIES - 1)
      /\ MAX_ACK_SEND_TRIES \in Nat
  BY DEF IInv, DataOK, Statics, AckAssumption
<1> QED
  BY <1>1, <1>2 DEF PacketLength

\* What the packet carries.
LEMMA ChunkFacts ==
    ASSUME AckAssumption, IInv, pc = "acking"
    PROVE  LET data == ChunkOf(Ready, statics.stringIndex)
           IN  /\ IsSequence(data) /\ Len(data) = PacketLength
               /\ \A i \in 1..PacketLength : data[i] = Ready[statics.stringIndex + i]
<1> DEFINE s == statics.stringIndex
<1>1. FrameLength \in Nat /\ s \in 0..FrameLength /\ PacketLength \in 0..(FrameLength - s)
  BY PacketFacts
<1>2. TotalLength(Ready) = FrameLength /\ IsSequence(Ready) /\ Len(Ready) = BufferSize
  BY ReadyFacts, TotalFacts DEF IInv, DataOK
<1>3. ChunkOf(Ready, s) = SubSeq(Ready, s + 1, s + PacketLength)
  BY <1>2 DEF ChunkOf, PacketLength
<1>4. BufferSize = FrameLength + 1
  BY SizeFacts DEF IInv, DataOK
<1>5. s \in 0..Len(Ready) /\ PacketLength \in 0..(Len(Ready) - s)
  BY <1>1, <1>2, <1>4
<1> HIDE DEF s
<1>6. /\ IsSequence(SubSeq(Ready, s + 1, s + PacketLength))
      /\ Len(SubSeq(Ready, s + 1, s + PacketLength)) = PacketLength
      /\ \A i \in 1..PacketLength : SubSeq(Ready, s + 1, s + PacketLength)[i] = Ready[s + i]
  BY <1>2, <1>5, Cut
<1> QED
  BY <1>3, <1>6, Zenon DEF s

LEMMA SpacedAppend ==
    ASSUME NEW a, IsSequence(a), Spaced(a), NEW p, p.inverted,
           a # <<>> => p.after >= FLY_TIME
    PROVE  IsSequence(Append(a, p)) /\ Spaced(Append(a, p)) /\ Append(a, p) # <<>>
<1> DEFINE S == {a[i] : i \in DOMAIN a} \cup {p}
           n == Len(a)
           e == Append(a, p)
<1>1. a \in Seq(S)
  <2>1. n \in Nat /\ a \in [1..n -> S]
    BY SequenceFacts
  <2> QED
    BY <2>1
<1>2. p \in S
  OBVIOUS
<1> HIDE DEF S
<1>3. /\ n \in Nat /\ DOMAIN a = 1..n
      /\ e \in Seq(S) /\ Len(e) = n + 1 /\ DOMAIN e = 1..(n + 1)
      /\ \A i \in 1..n : e[i] = a[i]
      /\ e[n + 1] = p
  BY <1>1, <1>2
<1>4. n > 0 => a # <<>>
  BY EmptyFacts
<1> HIDE DEF e, n
<1>5. ASSUME NEW i \in 1..(n + 1)
      PROVE  e[i].inverted /\ (i > 1 => e[i].after >= FLY_TIME)
  <2>1. CASE i \in 1..n
    <3>1. e[i] = a[i] /\ i \in DOMAIN a
      BY <1>3, <2>1
    <3> QED
      BY <3>1 DEF Spaced
  <2>2. CASE i = n + 1
    <3>1. e[i] = p
      BY <1>3, <2>2
    <3>2. i > 1 => a # <<>>
      BY <1>3, <1>4, <2>2
    <3> QED
      BY <3>1, <3>2
  <2> QED
    BY <1>3, <2>1, <2>2
<1>6. Spaced(e)
  BY <1>3, <1>5, Zenon DEF Spaced
<1>7. e # <<>>
  <2>1. \A m \in Nat : m + 1 # 0
    OBVIOUS
  <2> QED
    BY <1>3, <2>1, EmptyFacts, Zenon
<1>8. IsSequence(e)
  BY <1>3, SequenceMember
<1> QED
  BY <1>6, <1>7, <1>8 DEF e

LEMMA SendChunkStep ==
    ASSUME AckAssumption, IInv, SendChunk
    PROVE  IInv'
<1> DEFINE data == ChunkOf(Ready, statics.stringIndex)
           sent == radio'.fifo
<1>1. /\ UNCHANGED <<ack, begun, chunk, failures>>
      /\ pc = "acking" /\ pc' = "transmitting"
      /\ delay' = WrittenAndRestarted(AfterBackoff, FLY_TIME)
      /\ statics' = [HasBeenPrepared EXCEPT !.firstChunkSent = TRUE] /\ buffer' = Ready
      /\ TimeArrived(AfterBackoff) \/ ~statics.firstChunkSent
      /\ radio' = endPacket(write(beginPacket(enableInvertIQ(idle(radio))), data))
      /\ air' = Append(air, [inverted |-> radio'.inverted, after |-> gap])
      /\ cells' = cells \o sent
      /\ gap' = 0
  BY DEF SendChunk
<1>2. /\ statics' \in Statics
      /\ ~statics'.firstEntryOnThisMethod
      /\ statics'.firstDelayPassed
      /\ statics'.messageFormatted
      /\ statics'.firstChunkSent
      /\ statics'.stringIndex = statics.stringIndex
      /\ statics'.numberOffAckSendings = statics.numberOffAckSendings
  <2>1. statics \in Statics
    BY DEF IInv, DataOK
  <2> QED
    BY <1>1, <2>1, HasBeenPreparedFacts DEF Statics
<1>3. /\ Usable(buffer') /\ Coded(buffer', ack)
      /\ Repeats(cells, buffer', statics.numberOffAckSendings)
      /\ Len(cells) = SentBefore
  BY <1>1, ReadyFacts
<1>4. IsSequence(data) /\ Len(data) = PacketLength
      /\ \A i \in 1..PacketLength : data[i] = buffer'[statics.stringIndex + i]
  BY <1>1, ChunkFacts
<1> HIDE DEF data
<1>5. radio' = [mode |-> "tx", inverted |-> TRUE, fifo |-> <<>> \o data]
  BY <1>1 DEF IInv, RadioOK, endPacket, write, beginPacket, enableInvertIQ, idle
<1>6. <<>> \o data = data
  <2> DEFINE S == {data[i] : i \in DOMAIN data}
  <2>1. data \in Seq(S)
    BY <1>4 DEF IsSequence
  <2> HIDE DEF S
  <2> QED
    BY <2>1
<1>7. radio'.mode = "tx" /\ radio'.inverted /\ sent = data
  BY <1>5, <1>6
<1>8. RadioOK'
  BY <1>5, <1>7 DEF RadioOK
<1> HIDE DEF sent
<1>9. DataOK'
  <2>1. DelayOK(delay')
    BY <1>1, EntryFacts, DelayFacts DEF IInv, DataOK
  <2> QED
    BY <1>1, <1>2, <2>1 DEF IInv, DataOK
<1>10. StaticsAgree'
  BY <1>1, <1>2 DEF StaticsAgree
<1>11. BufferOK'
  BY <1>1, <1>2, <1>3 DEF BufferOK
<1>12. CellsOK'
  <2>1. SentBefore' = SentBefore /\ PacketLength' = PacketLength
    BY <1>1, <1>2 DEF SentBefore, PacketLength
  <2>2. cells' = cells \o data
    BY <1>1, <1>7
  <2>3. /\ FrameLength \in Nat /\ statics.numberOffAckSendings \in Nat
        /\ statics.stringIndex \in 0..FrameLength
        /\ PacketLength \in 0..(FrameLength - statics.stringIndex)
    BY PacketFacts
  <2>4. IsSequence(cells)
    BY DEF IInv, CellsOK
  <2>5. Len(cells) = statics.numberOffAckSendings * FrameLength + statics.stringIndex
    BY <1>3 DEF SentBefore
  <2>6. /\ IsSequence(cells')
        /\ Len(cells') = statics.numberOffAckSendings * FrameLength + statics.stringIndex + PacketLength
        /\ Repeats(cells', buffer', statics.numberOffAckSendings)
    <3> DEFINE r == statics.numberOffAckSendings
               s == statics.stringIndex
               b == buffer'
    <3>1. Continues(cells, data, b, r, s)
      BY <1>4, <2>3, <2>4, <2>5 DEF Continues
    <3>2. r \in Nat /\ s \in 0..FrameLength /\ Repeats(cells, b, r)
      BY <1>3, <2>3
    <3> HIDE DEF r, s, b
    <3>3. /\ IsSequence(cells \o data) /\ Len(cells \o data) = Len(cells) + Len(data)
          /\ Repeats(cells \o data, b, r)
      BY <2>3, <3>1, <3>2, RepeatsJoined
    <3>4. IsSequence(cells') /\ Len(cells') = Len(cells) + Len(data) /\ Repeats(cells', b, r)
      BY <2>2, <3>3, Zenon
    <3> QED
      BY <1>4, <2>5, <3>4 DEF r, b
  <2>7. Len(cells') = SentBefore' + PacketLength'
    BY <2>1, <2>6 DEF SentBefore
  <2> QED
    BY <1>1, <1>2, <2>6, <2>7 DEF CellsOK
<1>13. AirOK'
  <2> DEFINE p == [inverted |-> radio'.inverted, after |-> gap]
  <2>1. p.inverted /\ p.after = gap
    BY <1>7
  <2>2. ASSUME air # <<>>
        PROVE  gap >= FLY_TIME
    <3>1. /\ AfterBackoff = delay /\ statics.firstChunkSent
          /\ delay.duration = FLY_TIME /\ delay.elapsed <= gap
      BY <1>1, <2>2, SameDelay
    <3>2. delay.elapsed >= delay.duration
      BY <1>1, <3>1 DEF TimeArrived
    <3> QED
      BY <3>1, <3>2 DEF IInv, DataOK, DelayOK, AckAssumption
  <2> HIDE DEF p
  <2>3. IsSequence(air) /\ Spaced(air)
    BY DEF IInv, AirOK
  <2>4. air' = Append(air, p)
    BY <1>1 DEF p
  <2>5. IsSequence(air') /\ Spaced(air')
    BY <2>1, <2>2, <2>3, <2>4, SpacedAppend
  <2>6. delay'.duration = FLY_TIME /\ delay'.elapsed <= gap'
    BY <1>1 DEF WrittenAndRestarted
  <2> QED
    BY <1>1, <1>2, <2>5, <2>6 DEF AirOK
<1>14. AckUnderstood'
  BY <1>1, StayFacts
<1> QED
  BY <1>8, <1>9, <1>10, <1>11, <1>12, <1>13, <1>14 DEF IInv

\* A packet is out and others of this repetition follow.
LEMMA NextChunkStep ==
    ASSUME AckAssumption, IInv, TxDone,
           ~(statics.stringIndex + chunk > TotalLength(buffer))
    PROVE  IInv'
<1> DEFINE s == statics.stringIndex
<1>0. /\ FrameLength \in Nat /\ s \in 0..FrameLength /\ chunk \in Nat
      /\ statics.numberOffAckSendings \in Nat
  BY PacketFacts
<1>1. pc = "transmitting" /\ ack \in Acks
  BY DEF TxDone, IInv, DataOK
<1>2. statics.messageFormatted /\ statics.firstChunkSent /\ statics.firstDelayPassed
      /\ ~statics.firstEntryOnThisMethod
  BY <1>1 DEF IInv, StaticsAgree
<1>3. TotalLength(buffer) = FrameLength
  BY <1>1, <1>2, TotalFacts DEF IInv, BufferOK
<1>4. s + chunk <= FrameLength
  BY <1>0, <1>3
<1>5. /\ UNCHANGED <<ack, buffer, begun, chunk, failures, air, cells, gap, delay>>
      /\ statics' = [statics EXCEPT !.stringIndex = s + chunk]
      /\ pc' = IF statics'.firstEntryOnThisMethod THEN "forwarding" ELSE "acking"
      /\ radio' = idle(radio)
  BY DEF TxDone, history
<1>6. /\ statics' \in Statics
      /\ statics'.firstEntryOnThisMethod = statics.firstEntryOnThisMethod
      /\ statics'.firstDelayPassed = statics.firstDelayPassed
      /\ statics'.messageFormatted = statics.messageFormatted
      /\ statics'.firstChunkSent = statics.firstChunkSent
      /\ statics'.stringIndex = s + chunk
      /\ statics'.numberOffAckSendings = statics.numberOffAckSendings
  <2>1. s + chunk \in 0..FrameLength
    BY <1>0, <1>4
  <2>2. statics \in Statics
    BY DEF IInv, DataOK
  <2> HIDE DEF s
  <2> QED
    BY <1>5, <2>1, <2>2 DEF Statics
<1>7. pc' = "acking"
  BY <1>2, <1>5, <1>6
<1>8. RadioOK'
  BY <1>5 DEF IInv, RadioOK, idle
<1>9. DataOK'
  BY <1>5, <1>6, <1>7 DEF IInv, DataOK
<1>10. StaticsAgree'
  BY <1>2, <1>6, <1>7 DEF StaticsAgree
<1>11. BufferOK'
  BY <1>5, <1>6 DEF IInv, BufferOK
<1>12. CellsOK'
  <2>1. PacketLength = chunk
    BY <1>0, <1>4 DEF PacketLength
  <2>2. Len(cells) = SentBefore + chunk
    BY <1>1, <2>1 DEF IInv, CellsOK
  <2>3. statics.numberOffAckSendings * FrameLength \in Nat
    BY <1>0, Times
  <2>4. Len(cells) = SentBefore'
    BY <1>0, <1>6, <2>2, <2>3 DEF SentBefore
  <2> QED
    BY <1>2, <1>5, <1>6, <1>7, <2>4 DEF IInv, CellsOK
<1>13. AirOK'
  BY <1>1, <1>2, <1>5, <1>6, <1>7 DEF IInv, AirOK
<1>14. AckUnderstood'
  BY <1>7, StayFacts
<1> QED
  BY <1>8, <1>9, <1>10, <1>11, <1>12, <1>13, <1>14 DEF IInv

\* The packet that ends a repetition: all of the frame has been sent again.
LEMMA RepetitionSent ==
    ASSUME AckAssumption, IInv, pc = "transmitting",
           statics.stringIndex + chunk > TotalLength(buffer)
    PROVE  /\ statics.messageFormatted /\ statics.firstChunkSent /\ statics.firstDelayPassed
           /\ ~statics.firstEntryOnThisMethod
           /\ Coded(buffer, ack)
           /\ Len(cells) = (statics.numberOffAckSendings + 1) * FrameLength
           /\ Repeats(cells, buffer, statics.numberOffAckSendings)
<1> DEFINE s == statics.stringIndex
           r == statics.numberOffAckSendings
<1>0. FrameLength \in Nat /\ s \in 0..FrameLength /\ chunk \in Nat /\ r \in Nat
  BY PacketFacts
<1>2. statics.messageFormatted /\ statics.firstChunkSent /\ statics.firstDelayPassed
      /\ ~statics.firstEntryOnThisMethod
  BY DEF IInv, StaticsAgree
<1>3. Usable(buffer) /\ Coded(buffer, ack) /\ ack \in Acks
  BY <1>2 DEF IInv, BufferOK, DataOK
<1>4. TotalLength(buffer) = FrameLength
  BY <1>3, TotalFacts
<1>5. PacketLength = FrameLength - s
  BY <1>0, <1>4 DEF PacketLength
<1>6. Len(cells) = r * FrameLength + s + PacketLength
  BY DEF IInv, CellsOK, SentBefore
<1>7. r * FrameLength \in Nat /\ (r + 1) * FrameLength = r * FrameLength + FrameLength
  BY <1>0, Times
<1>8. Len(cells) = (r + 1) * FrameLength
  BY <1>0, <1>5, <1>6, <1>7
<1> QED
  BY <1>2, <1>3, <1>8 DEF IInv, CellsOK

LEMMA NextRepetitionStep ==
    ASSUME AckAssumption, IInv, TxDone,
           statics.stringIndex + chunk > TotalLength(buffer),
           statics.numberOffAckSendings + 1 < MAX_ACK_SEND_TRIES
    PROVE  IInv'
<1> DEFINE r == statics.numberOffAckSendings
<1>0. FrameLength \in Nat /\ r \in Nat /\ MAX_ACK_SEND_TRIES \in Nat
  BY PacketFacts
<1>1. pc = "transmitting"
  BY DEF TxDone
<1>2. /\ statics.messageFormatted /\ statics.firstChunkSent /\ statics.firstDelayPassed
      /\ ~statics.firstEntryOnThisMethod
      /\ Coded(buffer, ack)
      /\ Len(cells) = (r + 1) * FrameLength
      /\ Repeats(cells, buffer, r)
  BY <1>1, RepetitionSent
<1>5. /\ UNCHANGED <<ack, buffer, begun, chunk, failures, air, cells, gap>>
      /\ delay' = Restarted(delay)
      /\ statics' = [statics EXCEPT !.numberOffAckSendings = r + 1, !.stringIndex = 0]
      /\ pc' = IF statics'.firstEntryOnThisMethod THEN "forwarding" ELSE "acking"
      /\ radio' = idle(radio)
  BY DEF TxDone, Counted, history
<1>6. /\ statics' \in Statics
      /\ statics'.firstEntryOnThisMethod = statics.firstEntryOnThisMethod
      /\ statics'.firstDelayPassed = statics.firstDelayPassed
      /\ statics'.messageFormatted = statics.messageFormatted
      /\ statics'.firstChunkSent = statics.firstChunkSent
      /\ statics'.stringIndex = 0
      /\ statics'.numberOffAckSendings = r + 1
  <2>1. r + 1 \in 0..(MAX_ACK_SEND_TRIES - 1) /\ 0 \in 0..FrameLength
    BY <1>0
  <2>2. statics \in Statics
    BY DEF IInv, DataOK
  <2> HIDE DEF r
  <2> QED
    BY <1>5, <2>1, <2>2 DEF Statics
<1>7. pc' = "acking"
  BY <1>2, <1>5, <1>6
<1>8. RadioOK'
  BY <1>5 DEF IInv, RadioOK, idle
<1>9. DataOK'
  <2>1. DelayOK(delay')
    BY <1>5, DelayFacts DEF IInv, DataOK
  <2> QED
    BY <1>5, <1>6, <1>7, <2>1 DEF IInv, DataOK
<1>10. StaticsAgree'
  BY <1>2, <1>6, <1>7 DEF StaticsAgree
<1>11. BufferOK'
  BY <1>5, <1>6 DEF IInv, BufferOK
<1>12. CellsOK'
  <2> DEFINE n == r + 1
  <2>1. n \in Nat /\ n * FrameLength \in Nat
    BY <1>0, Times
  <2>2. SentBefore' = n * FrameLength + 0
    BY <1>6 DEF SentBefore
  <2>3. Len(cells) = n * FrameLength
    BY <1>2
  <2>4. Len(cells) = SentBefore'
    BY <2>1, <2>2, <2>3
  <2>5. Repeats(cells, buffer, n)
    <3>1. ASSUME NEW q \in 0..n, NEW i \in 1..FrameLength,
                 q * FrameLength + i <= Len(cells)
          PROVE  q \in 0..r
      <4>1. q = n \/ q \in 0..r
        BY <1>0
      <4>2. q # n
        <5> SUFFICES ASSUME q = n PROVE FALSE
          OBVIOUS
        <5> DEFINE x == n * FrameLength
        <5>1. x \in Nat /\ x + i <= x
          BY <2>1, <2>3, <3>1
        <5> HIDE DEF x
        <5> QED
          BY <5>1
      <4> QED
        BY <4>1, <4>2
    <3> HIDE DEF n, r
    <3> QED
      BY <1>2, <3>1, Zenon DEF Repeats
  <2>6. IsSequence(cells)
    BY DEF IInv, CellsOK
  <2> HIDE DEF n
  <2>7. Repeats(cells', buffer', statics'.numberOffAckSendings)
    BY <1>5, <1>6, <2>5 DEF n
  <2> QED
    BY <1>2, <1>5, <1>6, <1>7, <2>4, <2>6, <2>7 DEF CellsOK
<1>13. AirOK'
  <2>1. delay'.duration = delay.duration /\ delay'.elapsed = 0
    BY <1>5 DEF Restarted, IInv, DataOK, DelayOK
  <2>2. 0 <= gap
    BY DEF IInv, DataOK
  <2> QED
    BY <1>1, <1>2, <1>5, <1>6, <1>7, <2>1, <2>2 DEF IInv, AirOK
<1>14. AckUnderstood'
  BY <1>7, StayFacts
<1> QED
  BY <1>8, <1>9, <1>10, <1>11, <1>12, <1>13, <1>14 DEF IInv

LEMMA LastRepetitionStep ==
    ASSUME AckAssumption, IInv, TxDone,
           statics.stringIndex + chunk > TotalLength(buffer),
           ~(statics.numberOffAckSendings + 1 < MAX_ACK_SEND_TRIES)
    PROVE  IInv'
<1> DEFINE r == statics.numberOffAckSendings
<1>0. /\ FrameLength \in Nat /\ FrameLength >= 2 /\ r \in Nat
      /\ MAX_ACK_SEND_TRIES \in Nat /\ r + 1 = MAX_ACK_SEND_TRIES
  BY PacketFacts
<1>1. pc = "transmitting" /\ ack \in Acks
  BY DEF TxDone, IInv, DataOK
<1>2. /\ Coded(buffer, ack)
      /\ Len(cells) = (r + 1) * FrameLength
      /\ Repeats(cells, buffer, r)
  BY <1>1, RepetitionSent
<1>5. /\ UNCHANGED <<ack, buffer, begun, chunk, failures, air, cells, gap>>
      /\ delay' = Restarted(delay)
      /\ statics' = [AtBoot EXCEPT !.firstChunkSent = TRUE]
      /\ pc' = IF statics'.firstEntryOnThisMethod THEN "forwarding" ELSE "acking"
      /\ radio' = idle(radio)
  BY DEF TxDone, Counted, history
<1>6. /\ statics' \in Statics
      /\ statics'.firstEntryOnThisMethod
      /\ ~statics'.firstDelayPassed /\ ~statics'.messageFormatted
      /\ statics'.stringIndex = 0 /\ statics'.numberOffAckSendings = 0
  BY <1>1, <1>5, BootFacts DEF Statics
<1>7. pc' = "forwarding"
  BY <1>5, <1>6
<1>8. RadioOK'
  BY <1>5 DEF IInv, RadioOK, idle
<1>9. DataOK'
  <2>1. DelayOK(delay')
    BY <1>5, DelayFacts DEF IInv, DataOK
  <2> QED
    BY <1>5, <1>6, <1>7, <2>1 DEF IInv, DataOK
<1>10. StaticsAgree'
  BY <1>6, <1>7 DEF StaticsAgree
<1>11. BufferOK'
  BY <1>5, <1>6 DEF IInv, BufferOK
<1>12. CellsOK'
  BY <1>5, <1>6, <1>7 DEF IInv, CellsOK
<1>13. AirOK'
  BY <1>5, <1>7 DEF IInv, AirOK
<1>14. AckUnderstood'
  <2> DEFINE plain == cells[1][2]
             L == FrameLength
  <2>1. ASSUME NEW q \in 0..r, NEW i \in 1..L
        PROVE  cells[q * L + i] = buffer[i]
    <3>1. q * L \in Nat /\ q * L + L <= (r + 1) * L
      <4>1. q \in Nat /\ r + 1 \in Nat /\ q < r + 1
        BY <1>0
      <4> DEFINE n == r + 1
      <4> HIDE DEF n
      <4>2. n \in Nat /\ q < n
        BY <4>1 DEF n
      <4>3. q * L \in Nat /\ q * L + L <= n * L
        BY <1>0, <4>1, <4>2, Times
      <4> QED
        BY <4>3 DEF n
    <3>2. q * L + i <= Len(cells)
      BY <1>0, <1>2, <3>1
    <3> QED
      BY <1>2, <3>2, Zenon DEF Repeats
  <2>2. cells[1] = buffer[1]
    <3>1. 0 \in 0..r /\ 1 \in 1..L /\ 0 * L + 1 = 1
      BY <1>0
    <3>2. cells[0 * L + 1] = buffer[1]
      BY <2>1, <3>1, Zenon
    <3> QED
      BY <3>1, <3>2, Zenon
  <2>3. plain = buffer[1][2]
    BY <2>2, Zenon
  <2> HIDE DEF plain
  <2>4. /\ Len(FrameOf(plain)) = L
        /\ \A i \in 1..L : FrameOf(plain)[i] = buffer[i]
        /\ Readings(plain) = {Text(ack)}
    BY <1>2, <2>3, Zenon DEF Coded
  <2>5. Len(cells) = MAX_ACK_SEND_TRIES * L /\ 0..r = 0..(MAX_ACK_SEND_TRIES - 1)
    BY <1>0, <1>2
  <2>6. \A q \in 0..(MAX_ACK_SEND_TRIES - 1), i \in 1..L : cells[q * L + i] = FrameOf(plain)[i]
    BY <2>1, <2>4, <2>5, Zenon
  <2>7. Spaced(air)
    BY DEF IInv, AirOK
  <2> DEFINE frame == FrameOf(plain)
  <2>8. /\ Spaced(air)
        /\ Len(cells) = MAX_ACK_SEND_TRIES * Len(frame)
        /\ \A q \in 0..(MAX_ACK_SEND_TRIES - 1), i \in 1..Len(frame) :
              cells[q * Len(frame) + i] = frame[i]
        /\ Readings(plain) = {Text(ack)}
    BY <2>4, <2>5, <2>6, <2>7, Zenon
  <2> QED
    BY <1>5, <2>8, Zenon DEF AckUnderstood, Spaced, FrameOf, plain
<1> QED
  BY <1>8, <1>9, <1>10, <1>11, <1>12, <1>13, <1>14 DEF IInv

LEMMA StepIInv == ASSUME AckAssumption, IInv, [Next]_vars PROVE IInv'
<1>1. ASSUME NEW begins \in BOOLEAN, Listen(begins)
      PROVE  IInv'
  BY <1>1, ListenStep
<1>2. ASSUME NEW k \in Acks, MessageTaken(k)
      PROVE  IInv'
  BY <1>2, MessageTakenStep
<1>3. CASE Pass
  BY <1>3, BackoffPendingStep, PrepareFailsStep, ChunkPendingStep, SendChunkStep DEF Pass
<1>4. CASE TxDone
  BY <1>4, NextChunkStep, NextRepetitionStep, LastRepetitionStep
<1>5. CASE WatchdogBites
  BY <1>5, WatchdogStep
<1>6. ASSUME NEW d \in {Stopped(FLY_TIME), WrittenAndRestarted(delay, FLY_TIME)}, ListenAgain(d)
      PROVE  IInv'
  <2>1. DelayOK(Stopped(FLY_TIME)) /\ DelayOK(WrittenAndRestarted(delay, FLY_TIME))
    BY StoppedFacts, DelayFacts DEF IInv, DataOK
  <2>2. DelayOK(d)
    BY <2>1
  <2> QED
    BY <1>6, <2>2, ListenAgainStep
<1>7. CASE Tick
  BY <1>7, TickStep
<1>8. CASE UNCHANGED vars
  <2>1. UNCHANGED <<pc, ack, statics, buffer, delay, radio, begun, chunk, failures, air, cells, gap>>
    BY <1>8 DEF vars, history
  <2>2. DataOK' /\ RadioOK'
    BY <2>1 DEF IInv, DataOK, RadioOK
  <2> QED
    BY <2>1, <2>2, StayFacts DEF IInv
<1> QED
  BY <1>1, <1>2, <1>3, <1>4, <1>5, <1>6, <1>7, <1>8 DEF Next

LEMMA Invariance == Spec => []IInv
<1>1. Init => IInv
  BY InitIInv, AckAssumption
<1>2. IInv /\ [Next]_vars => IInv'
  BY StepIInv, AckAssumption
<1> QED
  BY <1>1, <1>2, PTL DEF Spec

-----------------------------------------------------------------------------
\* sendAcknowledgement keeps its static locals, its delay and the radio in
\* range; in particular its index never runs past the buffer, and the gateway
\* never listens with the polarity it transmits in.
THEOREM TypeCorrect == Spec => []TypeOK
<1>1. IInv => TypeOK
  <2> SUFFICES ASSUME IInv PROVE TypeOK
    OBVIOUS
  <2>1. ack \in Acks
    BY DEF IInv, DataOK
  <2>2. FrameLength \in Nat /\ BufferSize = FrameLength + 1
    BY <2>1, AckAssumption, SizeFacts
  <2>3. statics.stringIndex \in 0..BufferSize
        /\ statics.numberOffAckSendings \in 0..(MAX_ACK_SEND_TRIES - 1)
    BY <2>2 DEF IInv, DataOK, Statics
  <2>4. delay \in Delays({BACKOFF_TIME, FLY_TIME})
    BY AckAssumption, DelayMember DEF IInv, DataOK
  <2>5. /\ radio.mode \in {"sleep", "standby", "rx", "tx"}
        /\ radio.mode = "rx" => ~radio.inverted
    BY DEF IInv, RadioOK
  <2> QED
    BY <2>1, <2>3, <2>4, <2>5 DEF IInv, DataOK, TypeOK
<1> QED
  BY <1>1, Invariance, PTL

\* When sendAcknowledgement hands over to the next state, it has sent the whole
\* acknowledgement MAX_ACK_SEND_TRIES times, each packet inverted and a flight
\* time after the one before, and the tracker reads it as it was meant: for
\* every length of the text, the blocks and the codes, every packet size, and
\* whatever earlier acknowledgements and failed preparations left behind.
THEOREM AckCorrect == Spec => []AckUnderstood
<1>1. IInv => AckUnderstood
  BY DEF IInv
<1> QED
  BY <1>1, Invariance, PTL
=============================================================================
