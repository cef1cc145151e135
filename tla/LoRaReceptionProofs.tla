------------------------ MODULE LoRaReceptionProofs ------------------------
(***************************************************************************)
(* Proofs about LoRaReception, for every set of trackers and messages,     *)
(* every size of packet, every limit of reads and every number of frames.  *)
(***************************************************************************)
EXTENDS LoRaReception, FiniteSetTheorems, SequenceTheorems, TLAPS

-----------------------------------------------------------------------------
(***************************************************************************)
(* Frames and packets                                                      *)
(***************************************************************************)
LEMMA OwnRange ==
    ASSUME NEW S, NEW s \in Seq(S), NEW T, \A i \in 1..Len(s) : s[i] \in T
    PROVE  s \in Seq(T)
<1>1. Len(s) \in Nat /\ s \in [1..Len(s) -> S]
  BY LenProperties
<1>2. s \in [1..Len(s) -> T]
  BY <1>1
<1> QED
  BY <1>1, <1>2, SeqDef

LEMMA FrameFacts ==
    ASSUME NEW m \in Messages
    PROVE  /\ Len(Body[m]) \in Nat \ {0}
           /\ Frame(m) \in Seq(Pieces)
           /\ Len(Frame(m)) = Len(Body[m]) + 2
           /\ \A i \in 1..Len(Body[m]) : Frame(m)[i] = Body[m][i]
           /\ Frame(m)[Len(Body[m]) + 1] = Bar
           /\ Frame(m)[Len(Body[m]) + 2] = Bar
<1> DEFINE R == {Body[m][i] : i \in 1..Len(Body[m])}
           U == R \cup {Bar}
<1>1. Body[m] \in Seq(R) /\ Len(Body[m]) > 0
  BY LoRaAssumption
<1> HIDE DEF R
<1>2. Body[m] \in Seq(U)
  BY <1>1, SeqMonotonic
<1>3. <<Bar, Bar>> \in Seq(U)
  OBVIOUS
<1> HIDE DEF U
<1>4. /\ Frame(m) \in Seq(U)
      /\ Len(Frame(m)) = Len(Body[m]) + 2
      /\ \A i \in 1..(Len(Body[m]) + 2) :
           Frame(m)[i] = IF i <= Len(Body[m]) THEN Body[m][i]
                                              ELSE <<Bar, Bar>>[i - Len(Body[m])]
  BY <1>2, <1>3, ConcatProperties DEF Frame
<1>5. Len(Body[m]) \in Nat
  BY <1>2, LenProperties
<1>6. \A i \in 1..Len(Frame(m)) : Frame(m)[i] \in Pieces
  <2>1. {Frame(m)[i] : i \in 1..Len(Frame(m))} \subseteq Pieces
    BY DEF Pieces
  <2> QED
    BY <2>1
<1>7. Frame(m) \in Seq(Pieces)
  BY <1>4, <1>6, OwnRange
<1>8. Frame(m)[Len(Body[m]) + 1] = Bar /\ Frame(m)[Len(Body[m]) + 2] = Bar
  <2>1. <<Bar, Bar>>[1] = Bar /\ <<Bar, Bar>>[2] = Bar
    OBVIOUS
  <2> DEFINE l == Len(Body[m])
  <2>2. l + 1 \in 1..(l + 2) /\ l + 2 \in 1..(l + 2) /\ ~ (l + 1 <= l) /\ ~ (l + 2 <= l)
        /\ l + 1 - l = 1 /\ l + 2 - l = 2
    BY <1>5
  <2> QED
    BY <1>4, <2>1, <2>2
<1>9. \A i \in 1..Len(Body[m]) : Frame(m)[i] = Body[m][i]
  BY <1>4, <1>5
<1> QED
  BY <1>1, <1>4, <1>5, <1>7, <1>8, <1>9

\* The only delimiter of a frame is the one at its end, unless there is one inside.
LEMMA FrameDelimiters ==
    ASSUME NEW m \in Messages, ~ InnerDelimiter(m),
           NEW i \in 1..(Len(Frame(m)) - 1),
           Frame(m)[i] = Bar, Frame(m)[i + 1] = Bar
    PROVE  i = Len(Frame(m)) - 1
<1> DEFINE l == Len(Body[m])
<1>1. Body[m][l] # Bar
  BY LoRaAssumption
<1>2. /\ l \in Nat \ {0}
      /\ Len(Frame(m)) = l + 2
      /\ \A j \in 1..l : Frame(m)[j] = Body[m][j]
  BY FrameFacts
<1>3. Delimiters(Body[m]) = {}
  BY DEF InnerDelimiter
<1> HIDE DEF l
<1>4. i # l
  BY <1>1, <1>2
<1>5. ASSUME i < l
      PROVE  FALSE
  <2>1. i \in 1..l /\ i + 1 \in 1..l /\ i \in 1..(l - 1)
    BY <1>2, <1>5
  <2>2. Body[m][i] = Bar /\ Body[m][i + 1] = Bar
    BY <2>1, <1>2
  <2> QED
    BY <2>1, <2>2, <1>3 DEF Delimiters, l
<1> QED
  BY <1>2, <1>4, <1>5

LEMMA PacketCount ==
    ASSUME NEW m \in Messages
    PROVE  /\ Packets(m) \in Nat \ {0}
           /\ (Packets(m) - 1) * ChunkSize < Len(Frame(m))
           /\ Len(Frame(m)) <= Packets(m) * ChunkSize
           /\ Packets(m) <= MAX_INSERTS
<1>1. ChunkSize \in Nat \ {0} /\ Packets(m) <= MAX_INSERTS
  BY LoRaAssumption
<1>2. Len(Frame(m)) \in Nat \ {0}
  BY FrameFacts
<1> DEFINE L == Len(Frame(m))
           a == L + ChunkSize - 1
           q == a \div ChunkSize
<1>3. a \in Nat /\ a >= ChunkSize
  BY <1>1, <1>2
<1> HIDE DEF a
<1>4. q \in Int /\ a = (ChunkSize * q) + (a % ChunkSize) /\ a % ChunkSize \in 0..(ChunkSize - 1)
  BY <1>1, <1>3
<1> HIDE DEF q
<1>5. q > 0
  <2>1. q <= 0 => ChunkSize * q <= 0
    BY <1>1, <1>4
  <2> QED
    BY <1>1, <1>3, <1>4, <2>1
<1>6. ChunkSize * q \in Int /\ (q - 1) * ChunkSize = ChunkSize * q - ChunkSize /\ q * ChunkSize = ChunkSize * q
  BY <1>1, <1>4
<1>7. (q - 1) * ChunkSize < L /\ L <= q * ChunkSize
  BY <1>1, <1>2, <1>4, <1>6 DEF a
<1> QED
  BY <1>1, <1>4, <1>5, <1>7 DEF Packets, q, a

\* The i-th packet: at most ChunkSize pieces of the frame, from where the
\* one before it ended.
LEMMA PacketFacts ==
    ASSUME NEW m \in Messages, NEW i \in 1..Packets(m)
    PROVE  LET P == Packet(m, i)
               b == (i - 1) * ChunkSize
           IN  /\ b \in Nat
               /\ P \in Seq(Pieces)
               /\ Len(P) \in 1..ChunkSize
               /\ b + Len(P) <= Len(Frame(m))
               /\ \A j \in 1..Len(P) : P[j] = Frame(m)[b + j]
               /\ i * ChunkSize = b + ChunkSize
               /\ i < Packets(m) => b + ChunkSize < Len(Frame(m)) /\ Len(P) = ChunkSize
               /\ i = Packets(m) => b + Len(P) = Len(Frame(m))
<1> DEFINE L == Len(Frame(m))
           b == (i - 1) * ChunkSize
           e == IF i * ChunkSize < L THEN i * ChunkSize ELSE L
           P == Packet(m, i)
<1>1. ChunkSize \in Nat \ {0}
  BY LoRaAssumption
<1>2. L \in Nat /\ Frame(m) \in Seq(Pieces)
  BY FrameFacts
<1>3. Packets(m) \in Nat
  BY PacketCount
<1>4. b \in Nat /\ i * ChunkSize = b + ChunkSize
  BY <1>1, <1>3
<1>5. (Packets(m) - 1) * ChunkSize < L /\ L <= Packets(m) * ChunkSize
  BY PacketCount
<1>6. b <= (Packets(m) - 1) * ChunkSize
  BY <1>1, <1>3
<1>7. i < Packets(m) => i * ChunkSize <= (Packets(m) - 1) * ChunkSize
  BY <1>1, <1>3
<1>8. (Packets(m) - 1) * ChunkSize \in Nat /\ Packets(m) * ChunkSize \in Nat
  BY <1>1, <1>3, PacketCount
<1>9. b < L /\ (i < Packets(m) => b + ChunkSize < L)
  BY <1>1, <1>2, <1>3, <1>4, <1>5, <1>6, <1>7, <1>8
<1>10. i = Packets(m) => L <= b + ChunkSize
  BY <1>4, <1>5
<1> HIDE DEF b
<1>11. /\ e \in Nat /\ b + 1 <= e /\ e <= L /\ e <= b + ChunkSize
       /\ i < Packets(m) => e = b + ChunkSize
       /\ i = Packets(m) => e = L
  BY <1>1, <1>2, <1>4, <1>9, <1>10
<1>12. P = SubSeq(Frame(m), b + 1, e)
  BY DEF Packet, b
<1> HIDE DEF e, L
<1>13. \A j \in (b + 1)..e : Frame(m)[j] \in Pieces
  BY <1>2, <1>4, <1>11, ElementOfSeq DEF L
<1>14. /\ P \in Seq(Pieces)
       /\ Len(P) = e - b
       /\ \A j \in 1..(e - b) : P[j] = Frame(m)[b + 1 + j - 1]
  <2>1. b + 1 \in Int /\ e \in Int
    BY <1>4, <1>11
  <2>2. /\ P \in Seq(Pieces)
        /\ Len(P) = IF b + 1 <= e THEN e - (b + 1) + 1 ELSE 0
        /\ \A j \in 1..(e - (b + 1) + 1) : P[j] = Frame(m)[b + 1 + j - 1]
    BY <2>1, <1>12, <1>13, SubSeqProperties
  <2> QED
    BY <2>1, <2>2, <1>4, <1>11
<1> HIDE DEF P
<1>15. \A j \in 1..Len(P) : P[j] = Frame(m)[b + j]
  <2> TAKE j \in 1..Len(P)
  <2>1. j \in Int /\ b + 1 + j - 1 = b + j
    BY <1>4, <1>11, <1>14
  <2> QED
    BY <2>1, <1>14
<1> QED
  BY <1>1, <1>2, <1>4, <1>9, <1>11, <1>14, <1>15 DEF b, P, L

\* A packet holds no delimiter but, in its last two pieces, that of its frame.
LEMMA PacketDelimiters ==
    ASSUME NEW m \in Messages, ~ InnerDelimiter(m), NEW i \in 1..Packets(m)
    PROVE  Delimiters(Packet(m, i)) \subseteq {Len(Packet(m, i)) - 1}
<1> DEFINE P == Packet(m, i)
           b == (i - 1) * ChunkSize
<1>1. /\ b \in Nat /\ Len(P) \in Nat /\ b + Len(P) <= Len(Frame(m))
      /\ \A j \in 1..Len(P) : P[j] = Frame(m)[b + j]
  BY PacketFacts, LoRaAssumption
<1>2. Len(Frame(m)) \in Nat
  BY FrameFacts
<1> HIDE DEF P, b
<1> SUFFICES ASSUME NEW j \in Delimiters(P)
             PROVE  j = Len(P) - 1
  BY DEF P
<1>3. j \in 1..(Len(P) - 1) /\ P[j] = Bar /\ P[j + 1] = Bar
  BY DEF Delimiters
<1>4. /\ j \in 1..Len(P) /\ j + 1 \in 1..Len(P)
      /\ b + j \in 1..(Len(Frame(m)) - 1) /\ b + (j + 1) = (b + j) + 1
  BY <1>1, <1>2, <1>3
<1>5. Frame(m)[b + j] = Bar /\ Frame(m)[(b + j) + 1] = Bar
  BY <1>1, <1>3, <1>4
<1>6. b + j = Len(Frame(m)) - 1
  BY <1>4, <1>5, FrameDelimiters
<1> QED
  BY <1>1, <1>2, <1>3, <1>6

-----------------------------------------------------------------------------
(***************************************************************************)
(* The buffer                                                              *)
(***************************************************************************)
LEMMA FirstIsLeast ==
    ASSUME NEW buffer, Delimiters(buffer) # {}, Len(buffer) \in Nat
    PROVE  /\ FirstDelimiter(buffer) \in Delimiters(buffer)
           /\ \A j \in Delimiters(buffer) : FirstDelimiter(buffer) <= j
<1> DEFINE T == Delimiters(buffer)
           R == {ss \in Nat \X Nat : ss[1] < ss[2]}
<1>1. T \subseteq Nat
  BY DEF Delimiters
<1>2. IsWellFoundedOn(R, Nat)
  BY NatLessThanWellFounded, Zenon DEF OpToRel
<1> HIDE DEF R, T
<1>3. PICK x \in T : \A y \in T : ~ (<<y, x>> \in R)
  BY <1>1, <1>2, WFMin DEF T
<1>4. ASSUME NEW y \in T
      PROVE  x <= y
  <2>1. x \in Nat /\ y \in Nat
    BY <1>1
  <2>2. y < x => <<y, x>> \in R
    BY <2>1 DEF R
  <2> QED
    BY <1>3, <2>1, <2>2
<1> QED
  BY <1>4 DEF FirstDelimiter, T

\* Q is cut at d: full is before the delimiter there, rest behind it.
Halves(Q, d, full, rest) ==
    /\ d \in 1..(Len(Q) - 1)
    /\ full \in Seq(Pieces)
    /\ Len(full) = d - 1
    /\ \A i \in 1..(d - 1) : full[i] = Q[i]
    /\ rest \in Seq(Pieces)
    /\ Len(rest) = Len(Q) - d - 1
    /\ \A i \in 1..Len(rest) : rest[i] = Q[d + 1 + i]

\* What is before a delimiter of a buffer, and what behind.
LEMMA Splitting ==
    ASSUME NEW Q \in Seq(Pieces), NEW d \in Delimiters(Q)
    PROVE  Halves(Q, d, SubSeq(Q, 1, d - 1), SubSeq(Q, d + 2, Len(Q)))
<1> DEFINE full == SubSeq(Q, 1, d - 1)
           rest == SubSeq(Q, d + 2, Len(Q))
<1>1. Len(Q) \in Nat
  BY LenProperties
<1>2. d \in 1..(Len(Q) - 1)
  BY DEF Delimiters
<1>3. \A i \in 1..Len(Q) : Q[i] \in Pieces
  BY ElementOfSeq
<1>4. /\ full \in Seq(Pieces)
      /\ Len(full) = d - 1
      /\ \A i \in 1..(d - 1) : full[i] = Q[i]
  <2>1. /\ d - 1 \in Int /\ \A i \in 1..(d - 1) : Q[i] \in Pieces
    BY <1>1, <1>2, <1>3
  <2>2. /\ full \in Seq(Pieces)
        /\ Len(full) = IF 1 <= d - 1 THEN d - 1 - 1 + 1 ELSE 0
        /\ \A i \in 1..(d - 1 - 1 + 1) : full[i] = Q[1 + i - 1]
    BY <2>1, SubSeqProperties
  <2> HIDE DEF full
  <2>3. d - 1 - 1 + 1 = d - 1 /\ \A i \in 1..(d - 1) : 1 + i - 1 = i
    BY <1>2
  <2> QED
    BY <1>2, <2>2, <2>3
<1>5. /\ rest \in Seq(Pieces)
      /\ Len(rest) = Len(Q) - d - 1
      /\ \A i \in 1..Len(rest) : rest[i] = Q[d + 1 + i]
  <2>1. /\ d + 2 \in Int /\ Len(Q) \in Int /\ \A i \in (d + 2)..Len(Q) : Q[i] \in Pieces
    BY <1>1, <1>2, <1>3
  <2>2. /\ rest \in Seq(Pieces)
        /\ Len(rest) = IF d + 2 <= Len(Q) THEN Len(Q) - (d + 2) + 1 ELSE 0
        /\ \A i \in 1..(Len(Q) - (d + 2) + 1) : rest[i] = Q[d + 2 + i - 1]
    BY <2>1, SubSeqProperties
  <2> HIDE DEF rest
  <2>3. Len(rest) = Len(Q) - d - 1 /\ Len(Q) - (d + 2) + 1 = Len(rest)
    BY <1>1, <1>2, <2>2
  <2>4. \A i \in 1..Len(rest) : d + 2 + i - 1 = d + 1 + i
    BY <1>1, <1>2, <2>3
  <2> QED
    BY <2>2, <2>3, <2>4
<1> HIDE DEF full, rest
<1>6. Halves(Q, d, full, rest)
  BY <1>2, <1>4, <1>5 DEF Halves
<1> QED
  BY <1>6 DEF full, rest

AirInv ==
    air \in [Trackers -> {Silent} \cup [frame : 1..MaxSends, next : Nat, msg : Messages]]

TypeInv == Types /\ AirInv

Joined(B, P, Q) ==
    /\ B \in Seq(Pieces) /\ Len(B) \in Nat
    /\ P \in Seq(Pieces) /\ Len(P) \in 1..ChunkSize
    /\ Q \in Seq(Pieces) /\ Len(Q) = Len(B) + Len(P)
    /\ \A j \in 1..(Len(B) + Len(P)) : Q[j] = IF j <= Len(B) THEN B[j] ELSE P[j - Len(B)]

\* The buffer Q is cut at its first delimiter.
Cut(B, P, Q, d) ==
    /\ d \in Delimiters(Q) /\ \A j \in Delimiters(Q) : d <= j
    /\ d \in 1..(Len(B) + Len(P) - 1)
    /\ fullMessage' \in Seq(Pieces)
    /\ Len(fullMessage') = d - 1
    /\ \A j \in 1..(d - 1) : fullMessage'[j] = Q[j]
    /\ accumulatedBuffer' \in Seq(Pieces)
    /\ Len(accumulatedBuffer') = Len(B) + Len(P) - d - 1
    /\ \A j \in 1..Len(accumulatedBuffer') : accumulatedBuffer'[j] = Q[d + 1 + j]

ReadOverflows ==
    /\ stringInsertCount = MAX_INSERTS
    /\ accumulatedBuffer' = <<>>
    /\ stringInsertCount' = 0
    /\ messageReceived' = FALSE
    /\ fullMessage' = fullMessage

ReadAppends(Q) ==
    /\ stringInsertCount < MAX_INSERTS
    /\ Delimiters(Q) = {}
    /\ accumulatedBuffer' = Q
    /\ stringInsertCount' = stringInsertCount + 1
    /\ messageReceived' = FALSE
    /\ fullMessage' = fullMessage

ReadCuts(B, P, Q, d) ==
    /\ stringInsertCount < MAX_INSERTS
    /\ Cut(B, P, Q, d)
    /\ stringInsertCount' = 0
    /\ messageReceived' = TRUE

\* On entry to the reading branch a packet of a frame is there, and the buffer
\* is cleared, longer by the packet, or cut at its first delimiter.
LEMMA Reading ==
    ASSUME TypeInv, NEW t \in Trackers, ReadPacket(t)
    PROVE  LET P == Packet(air[t].msg, air[t].next)
               B == accumulatedBuffer
               Q == B \o P
           IN  /\ air[t].msg \in Messages
               /\ air[t].next \in 1..Packets(air[t].msg)
               /\ Joined(B, P, Q)
               /\ \/ ReadOverflows
                  \/ ReadAppends(Q)
                  \/ \E d \in Nat : ReadCuts(B, P, Q, d)
<1> DEFINE m == air[t].msg
           i == air[t].next
           P == Packet(m, i)
           B == accumulatedBuffer
           Q == B \o P
           d == FirstDelimiter(Q)
<1>1. m \in Messages /\ i \in 1..Packets(m)
  BY DEF ReadPacket, TypeInv, Types
<1>2. P \in Seq(Pieces) /\ Len(P) \in 1..ChunkSize
  BY <1>1, PacketFacts
<1>4. B \in Seq(Pieces) /\ Len(B) \in Nat
  BY LenProperties DEF TypeInv, Types
<1>5. /\ stringInsertCount \in 0..MAX_INSERTS /\ MAX_INSERTS \in Nat
      /\ ChunkSize \in Nat
      /\ ~ messageReceived /\ messageReceived \in BOOLEAN
  BY LoRaAssumption DEF TypeInv, Types, ReadPacket, MayRead
<1>6. \/ Overflow /\ ClearOverflow
      \/ ~ Overflow /\ Delimiters(Q) # {} /\ SplitAtDelimiter(Q)
      \/ /\ ~ Overflow /\ Delimiters(Q) = {}
         /\ accumulatedBuffer' = Q
         /\ stringInsertCount' = stringInsertCount + 1
         /\ UNCHANGED <<messageReceived, fullMessage>>
  BY DEF ReadPacket
<1> HIDE DEF P, m, i, B
<1>7. Joined(B, P, Q)
  BY <1>2, <1>4, ConcatProperties DEF Joined
<1>8. CASE Overflow /\ ClearOverflow
  <2>1. ReadOverflows
    BY <1>5, <1>8 DEF Overflow, ClearOverflow, ReadOverflows
  <2> QED
    BY <2>1, <1>1, <1>7 DEF P, m, i, B
<1>9. CASE /\ ~ Overflow /\ Delimiters(Q) = {}
           /\ accumulatedBuffer' = Q
           /\ stringInsertCount' = stringInsertCount + 1
           /\ UNCHANGED <<messageReceived, fullMessage>>
  <2>1. ReadAppends(Q)
    BY <1>5, <1>9 DEF Overflow, ReadAppends
  <2> QED
    BY <2>1, <1>1, <1>7 DEF P, m, i, B
<1>10. CASE ~ Overflow /\ Delimiters(Q) # {} /\ SplitAtDelimiter(Q)
  <2>1. stringInsertCount < MAX_INSERTS
    BY <1>5, <1>10 DEF Overflow
  <2>2. /\ fullMessage' = SubSeq(Q, 1, d - 1)
        /\ accumulatedBuffer' = SubSeq(Q, d + 2, Len(Q))
        /\ stringInsertCount' = 0
        /\ messageReceived' = TRUE
    BY <1>10 DEF SplitAtDelimiter
  <2>3. d \in Delimiters(Q) /\ \A j \in Delimiters(Q) : d <= j
    <3>1. Len(Q) \in Nat
      BY <1>7, LenProperties DEF Joined
    <3> QED
      BY <3>1, <1>10, FirstIsLeast
  <2> DEFINE full == SubSeq(Q, 1, d - 1)
             rest == SubSeq(Q, d + 2, Len(Q))
  <2>4. /\ d \in 1..(Len(B) + Len(P) - 1)
        /\ full \in Seq(Pieces)
        /\ Len(full) = d - 1
        /\ \A j \in 1..(d - 1) : full[j] = Q[j]
        /\ rest \in Seq(Pieces)
        /\ Len(rest) = Len(B) + Len(P) - d - 1
        /\ \A j \in 1..Len(rest) : rest[j] = Q[d + 1 + j]
    <3>1. Q \in Seq(Pieces) /\ Len(Q) = Len(B) + Len(P)
      BY <1>7 DEF Joined
    <3> HIDE DEF Q, d
    <3>2. Halves(Q, d, full, rest)
      BY <2>3, <3>1, Splitting
    <3> HIDE DEF full, rest
    <3> QED
      BY <3>1, <3>2 DEF Halves
  <2> HIDE DEF Q, d, full, rest
  <2>5. fullMessage' = full /\ accumulatedBuffer' = rest
    BY <2>2 DEF full, rest
  <2>6. ReadCuts(B, P, Q, d) /\ d \in Nat
    <3>1. Cut(B, P, Q, d)
      BY <2>3, <2>4, <2>5, Zenon DEF Cut
    <3>2. d \in Nat
      BY <1>2, <1>4, <1>5, <2>4
    <3> QED
      BY <2>1, <2>2, <3>1, <3>2 DEF ReadCuts
  <2>7. \E x \in Nat : ReadCuts(B, P, Q, x)
    BY <2>6
  <2> QED
    BY <2>7, <1>1, <1>7 DEF P, m, i, B, Q
<1> QED
  BY <1>6, <1>8, <1>9, <1>10

\* What reads of frames without a delimiter inside leave behind lies in the packet
\* read last, so the buffer is never longer than the reads counted, and one packet
\* more.
BufferInv ==
    /\ Len(accumulatedBuffer) <= (stringInsertCount + 1) * ChunkSize
    /\ ~ Backlog

\* A packet of a frame without a delimiter inside is read, and there is no backlog.
Plain(t) == ~ Backlog /\ ~ InnerDelimiter(air[t].msg)

\* Then what stays behind lies in the packet and is no backlog.
LEMMA PlainCut ==
    ASSUME NEW B, NEW P, NEW Q, NEW d, Joined(B, P, Q), Cut(B, P, Q, d),
           Delimiters(B) \subseteq {Len(B) - 1},
           Delimiters(P) \subseteq {Len(P) - 1}
    PROVE  Len(accumulatedBuffer') <= Len(P) /\ ~ Backlog'
<1> DEFINE rest == accumulatedBuffer'
<1>1. /\ Len(Q) = Len(B) + Len(P)
      /\ \A i \in 1..(Len(B) + Len(P)) : Q[i] = IF i <= Len(B) THEN B[i] ELSE P[i - Len(B)]
  BY DEF Joined
<1>2. Len(B) \in Nat /\ Len(P) \in Nat
  BY LoRaAssumption DEF Joined
<1>3. /\ d \in 1..(Len(B) + Len(P) - 1)
      /\ Len(rest) = Len(B) + Len(P) - d - 1
      /\ \A i \in 1..Len(rest) : rest[i] = Q[d + 1 + i]
  BY DEF Cut
<1>4. d \in Delimiters(Q)
  BY DEF Cut
<1>5. Q[d] = Bar /\ Q[d + 1] = Bar
  BY <1>4 DEF Delimiters
<1> HIDE DEF rest
<1>6. ASSUME NEW i \in 1..(Len(B) + Len(P) - 1), Q[i] = Bar, Q[i + 1] = Bar
      PROVE  /\ i < Len(B) => i = Len(B) - 1
             /\ i > Len(B) => i = Len(B) + Len(P) - 1
  <2>1. CASE i < Len(B)
    <3>1. i \in 1..(Len(B) - 1) /\ B[i] = Bar /\ B[i + 1] = Bar
      BY <1>1, <1>2, <1>6, <2>1
    <3>2. i \in Delimiters(B)
      BY <3>1 DEF Delimiters
    <3> QED
      BY <3>2, <2>1, <1>2
  <2>2. CASE i > Len(B)
    <3> DEFINE j == i - Len(B)
    <3>1. j \in 1..(Len(P) - 1) /\ i + 1 - Len(B) = j + 1
      BY <1>2, <1>6, <2>2
    <3>2. P[j] = Bar /\ P[j + 1] = Bar
      BY <1>1, <1>2, <1>6, <2>2, <3>1
    <3>3. j \in Delimiters(P)
      BY <3>1, <3>2 DEF Delimiters
    <3> QED
      BY <3>3, <2>2, <1>2
  <2> QED
    BY <2>1, <2>2, <1>2
<1>7. d >= Len(B) - 1
  BY <1>2, <1>3, <1>5, <1>6
<1>8. Len(rest) <= Len(P)
  BY <1>2, <1>3, <1>7
<1>9. Delimiters(rest) \subseteq {Len(rest) - 1}
  <2> SUFFICES ASSUME NEW j \in Delimiters(rest)
               PROVE  j = Len(rest) - 1
    OBVIOUS
  <2>1. j \in 1..(Len(rest) - 1) /\ rest[j] = Bar /\ rest[j + 1] = Bar
    BY DEF Delimiters
  <2> DEFINE i == d + 1 + j
  <2>2. /\ j \in 1..Len(rest) /\ j + 1 \in 1..Len(rest)
        /\ i \in 1..(Len(B) + Len(P) - 1)
        /\ i > Len(B) /\ d + 1 + (j + 1) = i + 1
    BY <1>2, <1>3, <1>7, <2>1
  <2>3. Q[i] = Bar /\ Q[i + 1] = Bar
    BY <1>3, <2>1, <2>2
  <2>4. i = Len(B) + Len(P) - 1
    BY <1>6, <2>2, <2>3
  <2> QED
    BY <1>2, <1>3, <2>1, <2>4
<1> QED
  BY <1>8, <1>9 DEF Backlog, rest

-----------------------------------------------------------------------------
(***************************************************************************)
(* Types                                                                   *)
(***************************************************************************)
OnAir ==
    \A t \in Trackers :
       air[t] # Silent => air[t].msg \in Messages /\ air[t].next \in 1..Packets(air[t].msg)

\* The next packet of the frame, or the end of it.
LEMMA AirAfter ==
    ASSUME AirInv, OnAir, NEW t \in Trackers, air[t] # Silent, PacketEnds(t)
    PROVE  /\ AirInv' /\ OnAir'
           /\ air' \in [Trackers -> {Silent} \cup [frame : 1..MaxSends, next : Nat, msg : Messages]]
           /\ \A u \in Trackers : u # t => air'[u] = air[u]
           /\ \/ air[t].next = Packets(air[t].msg) /\ air'[t] = Silent
              \/ /\ air[t].next < Packets(air[t].msg)
                 /\ air'[t].frame = air[t].frame
                 /\ air'[t].next = air[t].next + 1
                 /\ air'[t].msg = air[t].msg
<1> DEFINE A == {Silent} \cup [frame : 1..MaxSends, next : Nat, msg : Messages]
           r == [air[t] EXCEPT !.next = @ + 1]
<1>1. /\ air \in [Trackers -> A]
      /\ air[t] \in [frame : 1..MaxSends, next : Nat, msg : Messages]
      /\ air[t].next \in 1..Packets(air[t].msg)
      /\ air[t].msg \in Messages
  BY DEF AirInv, OnAir
<1>2. Packets(air[t].msg) \in Nat
  BY <1>1, PacketCount
<1>3. air' = [air EXCEPT ![t] = IF air[t].next = Packets(air[t].msg) THEN Silent ELSE r]
  BY DEF PacketEnds
<1>4. /\ r \in [frame : 1..MaxSends, next : Nat, msg : Messages]
      /\ r.frame = air[t].frame /\ r.next = air[t].next + 1 /\ r.msg = air[t].msg
  BY <1>1
<1> HIDE DEF r, A
<1>5. /\ \A u \in Trackers : u # t => air'[u] = air[u]
      /\ air'[t] = IF air[t].next = Packets(air[t].msg) THEN Silent ELSE r
      /\ DOMAIN air' = Trackers
  BY <1>1, <1>3
<1>6. air' \in [Trackers -> A]
  <2>1. r \in A /\ Silent \in A
    BY <1>4 DEF A
  <2> QED
    BY <1>1, <1>3, <2>1
<1>7. OnAir'
  <2> SUFFICES ASSUME NEW u \in Trackers, air'[u] # Silent
               PROVE  air'[u].msg \in Messages /\ air'[u].next \in 1..Packets(air'[u].msg)
    BY DEF OnAir
  <2>1. CASE u = t
    BY <2>1, <1>1, <1>2, <1>4, <1>5
  <2>2. CASE u # t
    BY <2>2, <1>5 DEF OnAir
  <2> QED
    BY <2>1, <2>2
<1> QED
  BY <1>1, <1>2, <1>4, <1>5, <1>6, <1>7 DEF AirInv, A

LEMMA TypeInit ==
    ASSUME Init
    PROVE  TypeInv
<1>1. <<>> \in Seq(Pieces)
  OBVIOUS
<1>2. MAX_INSERTS \in Nat /\ MaxSends \in Nat
  BY LoRaAssumption
<1>3. AirInv /\ OnAir
  BY DEF Init, AirInv, OnAir
<1>4. accumulatedBuffer \in Seq(Pieces) /\ fullMessage \in Seq(Pieces)
  BY <1>1, Zenon DEF Init
<1>5. /\ sentCount \in [Messages -> Nat] /\ taken \in [Messages -> Nat]
      /\ streak = 0 /\ sends = 0 /\ stringInsertCount = 0
      /\ listening \in BOOLEAN /\ firstEntryOnThisMethod \in BOOLEAN
      /\ messageReceived \in BOOLEAN
  BY DEF Init
<1> QED
  BY <1>2, <1>3, <1>4, <1>5 DEF TypeInv, Types, OnAir

LEMMA TypeRead ==
    ASSUME TypeInv, NEW t \in Trackers, ReadPacket(t)
    PROVE  TypeInv'
<1> DEFINE P == Packet(air[t].msg, air[t].next)
           B == accumulatedBuffer
           Q == B \o P
<1>1. Joined(B, P, Q) /\ (ReadOverflows \/ ReadAppends(Q) \/ \E d \in Nat : ReadCuts(B, P, Q, d))
  BY Reading
<1>2. AirInv' /\ OnAir'
  BY AirAfter DEF ReadPacket, TypeInv, Types, OnAir
<1>3. MAX_INSERTS \in Nat /\ stringInsertCount \in 0..MAX_INSERTS
  BY LoRaAssumption DEF TypeInv, Types
<1>4. Q \in Seq(Pieces) /\ fullMessage \in Seq(Pieces)
  BY <1>1 DEF Joined, TypeInv, Types
<1> HIDE DEF P, Q, B
<1> DEFINE G ==
      /\ accumulatedBuffer' \in Seq(Pieces)
      /\ fullMessage' \in Seq(Pieces)
      /\ messageReceived' \in BOOLEAN
      /\ stringInsertCount' \in 0..MAX_INSERTS
<1>5. G
  <2>1. CASE ReadOverflows
    <3>1. <<>> \in Seq(Pieces)
      OBVIOUS
    <3>2. accumulatedBuffer' \in Seq(Pieces)
      BY <2>1, <3>1, Zenon DEF ReadOverflows
    <3>3. fullMessage' \in Seq(Pieces) /\ messageReceived' \in BOOLEAN
      BY <2>1, <1>4, Zenon DEF ReadOverflows
    <3> QED
      BY <2>1, <3>2, <3>3, <1>3 DEF ReadOverflows
  <2>2. CASE ReadAppends(Q)
    <3>1. accumulatedBuffer' \in Seq(Pieces)
      BY <2>2, <1>4, Zenon DEF ReadAppends
    <3>2. fullMessage' \in Seq(Pieces) /\ messageReceived' \in BOOLEAN
      BY <2>2, <1>4, Zenon DEF ReadAppends
    <3> QED
      BY <2>2, <3>1, <3>2, <1>3 DEF ReadAppends
  <2>3. ASSUME NEW d \in Nat, ReadCuts(B, P, Q, d)
        PROVE  G
    BY <2>3, <1>3 DEF ReadCuts, Cut
  <2> QED
    BY <1>1, <2>1, <2>2, <2>3
<1>6. /\ listening' = listening /\ firstEntryOnThisMethod' = firstEntryOnThisMethod
      /\ sends' = sends /\ sentCount' = sentCount /\ taken' = taken
  BY DEF ReadPacket
<1>7. streak' \in Nat
  BY DEF ReadPacket, Hear, TypeInv, Types
<1> QED
  BY <1>2, <1>5, <1>6, <1>7 DEF TypeInv, Types, OnAir

LEMMA TypeNext ==
    ASSUME TypeInv, [Next]_vars
    PROVE  TypeInv'
<1>1. MAX_INSERTS \in Nat /\ MaxSends \in Nat /\ stringInsertCount \in 0..MAX_INSERTS
  BY LoRaAssumption DEF TypeInv, Types
<1>2. <<>> \in Seq(Pieces)
  OBVIOUS
<1>4. ASSUME NEW t \in Trackers, NEW m \in Messages, Transmit(t, m)
      PROVE  TypeInv'
  <2> DEFINE r == [frame |-> sends + 1, next |-> 1, msg |-> m]
  <2>1. sends \in 0..MaxSends /\ sends + 1 \in 1..MaxSends /\ sends' = sends + 1
    BY <1>1, <1>4 DEF Transmit, TypeInv, Types
  <2>2. r \in [frame : 1..MaxSends, next : Nat, msg : Messages]
    BY <2>1
  <2>3. Packets(m) \in Nat \ {0}
    BY PacketCount
  <2>4. air' = [air EXCEPT ![t] = r]
    BY <1>4 DEF Transmit
  <2>5. r.msg = m /\ r.next = 1
    OBVIOUS
  <2> HIDE DEF r
  <2>6. AirInv' /\ OnAir'
    <3>1. AirInv'
      BY <2>2, <2>4 DEF TypeInv, AirInv
    <3>2. ASSUME NEW u \in Trackers, air'[u] # Silent
          PROVE  air'[u].msg \in Messages /\ air'[u].next \in 1..Packets(air'[u].msg)
      <4>1. air'[u] = IF u = t THEN r ELSE air[u]
        BY <2>4 DEF TypeInv, AirInv
      <4> QED
        BY <4>1, <2>3, <2>5, <3>2 DEF TypeInv, Types
    <3> QED
      BY <3>1, <3>2 DEF OnAir
  <2>7. sentCount' \in [Messages -> Nat]
    BY <1>4 DEF Transmit, TypeInv, Types
  <2>8. UNCHANGED <<receiverVars, historyVars, taken>>
    BY <1>4 DEF Transmit
  <2> QED
    BY <1>1, <2>1, <2>6, <2>7, <2>8
    DEF TypeInv, Types, OnAir, receiverVars, historyVars
<1>5. ASSUME NEW t \in Trackers, PacketLost(t)
      PROVE  TypeInv'
  <2>1. AirInv' /\ OnAir'
    BY <1>5, AirAfter DEF PacketLost, TypeInv, Types, OnAir
  <2>2. UNCHANGED <<receiverVars, sends, sentCount, historyVars, taken>>
    BY <1>5 DEF PacketLost
  <2> QED
    BY <2>1, <2>2 DEF TypeInv, Types, OnAir, receiverVars, historyVars
<1>6. ASSUME NEW t \in Trackers, ReadPacket(t)
      PROVE  TypeInv'
  BY <1>6, TypeRead
<1>7. CASE BeginLoRa
  BY <1>7 DEF BeginLoRa, TypeInv, Types, AirInv, radioVars, historyVars
<1>8. CASE ProcessEmpty
  BY <1>1, <1>2, <1>8 DEF ProcessEmpty, TypeInv, Types, AirInv, radioVars, historyVars
<1>9. CASE ProcessFails
  BY <1>9 DEF ProcessFails, TypeInv, Types, AirInv, radioVars, historyVars
<1>10. ASSUME NEW m \in Messages, ProcessMessage(m)
       PROVE  TypeInv'
  <2>1. /\ messageReceived' = FALSE /\ accumulatedBuffer' = <<>>
        /\ stringInsertCount' = 0 /\ fullMessage' = <<>>
        /\ streak' = 0 /\ listening' \in BOOLEAN
    BY <1>10 DEF ProcessMessage, ClearReception
  <2>2. taken' \in [Messages -> Nat]
    BY <1>10 DEF ProcessMessage, TypeInv, Types
  <2>3. UNCHANGED <<firstEntryOnThisMethod, radioVars, heard>>
    BY <1>10 DEF ProcessMessage
  <2>5. accumulatedBuffer' \in Seq(Pieces) /\ fullMessage' \in Seq(Pieces)
    BY <1>2, <2>1, Zenon
  <2>6. /\ firstEntryOnThisMethod' \in BOOLEAN /\ air' = air
        /\ sends' \in 0..MaxSends /\ sentCount' \in [Messages -> Nat]
    BY <2>3 DEF TypeInv, Types, radioVars
  <2>7. Types'
    <3>2. streak' \in Nat /\ stringInsertCount' \in 0..MAX_INSERTS
      BY <1>1, <2>1
    <3>3. listening' \in BOOLEAN /\ messageReceived' \in BOOLEAN
      BY <2>1, Zenon
    <3>4. \A t \in Trackers :
            air'[t] # Silent => air'[t].msg \in Messages /\ air'[t].next \in 1..Packets(air'[t].msg)
      BY <2>6 DEF TypeInv, Types
    <3> QED
      BY <3>2, <3>3, <3>4, <2>2, <2>5, <2>6 DEF Types
  <2> QED
    BY <2>6, <2>7 DEF TypeInv, AirInv
<1>11. CASE ListenAgain
  BY <1>11 DEF ListenAgain, TypeInv, Types, AirInv, radioVars, historyVars
<1>12. CASE UNCHANGED vars
  BY <1>12 DEF vars, receiverVars, radioVars, historyVars, TypeInv, Types, AirInv
<1> QED
  BY <1>4, <1>5, <1>6, <1>7, <1>8, <1>9, <1>10, <1>11, <1>12 DEF Next

-----------------------------------------------------------------------------
(***************************************************************************)
(* The limit of the buffer                                                 *)
(***************************************************************************)
\* The limit of reads bounds the buffer.
LEMMA LengthBound ==
    ASSUME NEW count \in 0..MAX_INSERTS, NEW len \in Nat,
           len <= (count + 1) * ChunkSize
    PROVE  len <= (MAX_INSERTS + 1) * ChunkSize
<1>1. ChunkSize \in Nat /\ MAX_INSERTS \in Nat
  BY LoRaAssumption
<1>2. (count + 1) * ChunkSize <= (MAX_INSERTS + 1) * ChunkSize
  BY <1>1
<1>3. (count + 1) * ChunkSize \in Nat /\ (MAX_INSERTS + 1) * ChunkSize \in Nat
  BY <1>1
<1> QED
  BY <1>2, <1>3

\* One more read of a frame without a delimiter inside.
LEMMA BufferRead ==
    ASSUME TypeInv, BufferInv, NEW t \in Trackers, ReadPacket(t), Plain(t)
    PROVE  BufferInv'
<1> DEFINE P == Packet(air[t].msg, air[t].next)
           B == accumulatedBuffer
           Q == B \o P
<1>1. Joined(B, P, Q) /\ (ReadOverflows \/ ReadAppends(Q) \/ \E d \in Nat : ReadCuts(B, P, Q, d))
  BY Reading
<1>2. ChunkSize \in Nat \ {0} /\ stringInsertCount \in Nat
  BY LoRaAssumption DEF TypeInv, Types
<1>3. Len(B) <= (stringInsertCount + 1) * ChunkSize /\ Delimiters(B) \subseteq {Len(B) - 1}
  BY DEF BufferInv, Backlog
<1>4. Delimiters(P) \subseteq {Len(P) - 1}
  <2>1. /\ air[t].msg \in Messages /\ air[t].next \in 1..Packets(air[t].msg)
        /\ ~ InnerDelimiter(air[t].msg)
    BY Reading DEF Plain
  <2> QED
    BY <2>1, PacketDelimiters
<1>5. Len(B) \in Nat /\ Len(P) \in Nat /\ Len(P) <= ChunkSize /\ Len(Q) = Len(B) + Len(P)
  BY <1>1, <1>2 DEF Joined
<1> HIDE DEF P, Q, B
<1>6. CASE ReadOverflows
  <2>1. Delimiters(<<>>) = {} /\ Len(<<>>) = 0
    BY DEF Delimiters
  <2>2. accumulatedBuffer' = <<>> /\ stringInsertCount' = 0
    BY <1>6 DEF ReadOverflows
  <2>3. Len(accumulatedBuffer') = 0 /\ Delimiters(accumulatedBuffer') = {}
    BY <2>1, <2>2, Zenon
  <2> QED
    BY <2>2, <2>3, <1>2 DEF BufferInv, Backlog
<1>7. CASE ReadAppends(Q)
  <2>1. /\ (stringInsertCount + 1 + 1) * ChunkSize = ((stringInsertCount + 1) * ChunkSize) + ChunkSize
        /\ (stringInsertCount + 1) * ChunkSize \in Nat
    BY <1>2
  <2>2. Len(Q) <= (stringInsertCount + 1 + 1) * ChunkSize
    BY <2>1, <1>2, <1>3, <1>5
  <2>3. /\ Len(accumulatedBuffer') = Len(Q) /\ Delimiters(accumulatedBuffer') = {}
        /\ stringInsertCount' = stringInsertCount + 1
    BY <1>7, Zenon DEF ReadAppends
  <2> QED
    BY <2>2, <2>3 DEF BufferInv, Backlog
<1>8. ASSUME NEW d \in Nat, ReadCuts(B, P, Q, d)
      PROVE  BufferInv'
  <2>1. Cut(B, P, Q, d) /\ stringInsertCount' = 0
    BY <1>8 DEF ReadCuts
  <2>2. Len(accumulatedBuffer') <= Len(P) /\ ~ Backlog'
    BY <2>1, <1>1, <1>3, <1>4, PlainCut
  <2>3. Len(accumulatedBuffer') \in Nat
    BY <2>1, LenProperties DEF Cut
  <2>4. (0 + 1) * ChunkSize = ChunkSize
    BY <1>2
  <2> QED
    BY <2>1, <2>2, <2>3, <2>4, <1>2, <1>5 DEF BufferInv
<1> QED
  BY <1>1, <1>6, <1>7, <1>8

\* A frame on the air was counted when its transmission began.
SentInv == \A t \in Trackers : air[t] # Silent => sentCount[air[t].msg] > 0

LimitInv ==
    /\ TypeInv
    /\ SentInv
    /\ OnlyPlainFrames => BufferInv

LEMMA LimitNext ==
    ASSUME LimitInv, [Next]_vars
    PROVE  LimitInv'
<1>1. TypeInv /\ SentInv /\ TypeInv'
  BY TypeNext DEF LimitInv
<1>2. Delimiters(<<>>) = {} /\ Len(<<>>) = 0
  BY DEF Delimiters
<1>3. ChunkSize \in Nat /\ stringInsertCount \in Nat
  BY <1>1, LoRaAssumption DEF TypeInv, Types
<1>4. (stringInsertCount + 1) * ChunkSize >= 0 /\ (0 + 1) * ChunkSize >= 0
  BY <1>3
<1>5. ASSUME sentCount' = sentCount
      PROVE  OnlyPlainFrames' = OnlyPlainFrames
  BY <1>5 DEF OnlyPlainFrames, InnerDelimiter
<1>6. ASSUME NEW t \in Trackers, air[t] # Silent, PacketEnds(t), sentCount' = sentCount
      PROVE  SentInv'
  <2> SUFFICES ASSUME NEW u \in Trackers, air'[u] # Silent PROVE sentCount'[air'[u].msg] > 0
    BY DEF SentInv
  <2>1. air[u] # Silent /\ air'[u].msg = air[u].msg
    BY <1>1, <1>6, AirAfter DEF TypeInv, Types, OnAir
  <2> QED
    BY <2>1, <1>1, <1>6 DEF SentInv
<1>7. ASSUME UNCHANGED <<accumulatedBuffer, stringInsertCount, sentCount>>
      PROVE  OnlyPlainFrames' => BufferInv'
  BY <1>5, <1>7 DEF LimitInv, BufferInv, Backlog
<1>8. ASSUME NEW t \in Trackers, NEW m \in Messages, Transmit(t, m)
      PROVE  LimitInv'
  <2>1. /\ air' = [air EXCEPT ![t] = [frame |-> sends + 1, next |-> 1, msg |-> m]]
        /\ sentCount' = [sentCount EXCEPT ![m] = @ + 1]
        /\ accumulatedBuffer' = accumulatedBuffer /\ stringInsertCount' = stringInsertCount
    BY <1>8 DEF Transmit, receiverVars
  <2>2. /\ \A u \in Trackers : u # t => air'[u] = air[u]
        /\ air'[t].msg = m
    BY <1>1, <2>1 DEF TypeInv, AirInv
  <2>3. \A n \in Messages : sentCount[n] \in Nat
                            /\ sentCount'[n] = IF n = m THEN sentCount[n] + 1 ELSE sentCount[n]
    BY <1>1, <2>1 DEF TypeInv, Types
  <2>4. SentInv'
    <3> SUFFICES ASSUME NEW u \in Trackers, air'[u] # Silent PROVE sentCount'[air'[u].msg] > 0
      BY DEF SentInv
    <3>1. CASE u = t
      BY <3>1, <2>2, <2>3
    <3>2. CASE u # t
      <4>1. air[u] # Silent /\ air[u].msg \in Messages /\ air'[u].msg = air[u].msg
        BY <1>1, <2>2, <3>2 DEF TypeInv, Types
      <4>2. sentCount[air[u].msg] > 0
        BY <4>1, <1>1 DEF SentInv
      <4> QED
        BY <4>1, <4>2, <2>3
    <3> QED
      BY <3>1, <3>2
  <2>5. OnlyPlainFrames' => OnlyPlainFrames
    <3> SUFFICES ASSUME OnlyPlainFrames', NEW n \in Messages, InnerDelimiter(n)
                 PROVE  sentCount[n] = 0
      BY DEF OnlyPlainFrames
    <3>1. sentCount'[n] = 0
      BY DEF OnlyPlainFrames, InnerDelimiter
    <3> QED
      BY <3>1, <2>3
  <2>6. OnlyPlainFrames' => BufferInv'
    BY <2>1, <2>5 DEF LimitInv, BufferInv, Backlog
  <2> QED
    BY <1>1, <2>4, <2>6 DEF LimitInv
<1>9. ASSUME NEW t \in Trackers, PacketLost(t)
      PROVE  LimitInv'
  <2>1. /\ air[t] # Silent /\ PacketEnds(t)
        /\ UNCHANGED <<accumulatedBuffer, stringInsertCount, sentCount>>
    BY <1>9 DEF PacketLost, receiverVars
  <2> QED
    BY <2>1, <1>1, <1>6, <1>7 DEF LimitInv
<1>10. ASSUME NEW t \in Trackers, ReadPacket(t)
       PROVE  LimitInv'
  <2>1. air[t] # Silent /\ PacketEnds(t) /\ sentCount' = sentCount
    BY <1>10 DEF ReadPacket
  <2>2. ASSUME OnlyPlainFrames
        PROVE  BufferInv'
    <3>1. BufferInv
      BY <2>2 DEF LimitInv
    <3>2. air[t].msg \in Messages /\ sentCount[air[t].msg] > 0
      BY <1>1, <2>1 DEF SentInv, TypeInv, Types
    <3>3. ~ InnerDelimiter(air[t].msg)
      BY <2>2, <3>2 DEF OnlyPlainFrames
    <3>4. Plain(t)
      BY <3>1, <3>3 DEF Plain, BufferInv
    <3> QED
      BY <1>1, <1>10, <3>1, <3>4, BufferRead
  <2> QED
    BY <1>1, <1>5, <1>6, <2>1, <2>2 DEF LimitInv
<1>11. CASE BeginLoRa \/ ListenAgain \/ ProcessFails \/ UNCHANGED vars
  <2>1. UNCHANGED <<accumulatedBuffer, stringInsertCount, sentCount, air>>
    BY <1>11 DEF BeginLoRa, ListenAgain, ProcessFails, vars, receiverVars, radioVars
  <2>2. SentInv'
    BY <1>1, <2>1 DEF SentInv
  <2> QED
    BY <1>1, <1>7, <2>1, <2>2 DEF LimitInv
<1>12. ASSUME \/ ProcessEmpty
              \/ \E m \in Messages : ProcessMessage(m)
       PROVE  LimitInv'
  <2>1. /\ accumulatedBuffer' = <<>> /\ stringInsertCount' \in {stringInsertCount, 0}
        /\ sentCount' = sentCount /\ air' = air
    BY <1>12 DEF ProcessEmpty, ProcessMessage, ClearReception, radioVars
  <2>2. Len(accumulatedBuffer') = 0 /\ Delimiters(accumulatedBuffer') = {}
    BY <1>2, <2>1, Zenon
  <2>3. BufferInv'
    BY <1>4, <2>1, <2>2 DEF BufferInv, Backlog
  <2>4. SentInv'
    BY <1>1, <2>1 DEF SentInv
  <2> QED
    BY <1>1, <2>3, <2>4 DEF LimitInv
<1> QED
  BY <1>8, <1>9, <1>10, <1>11, <1>12 DEF Next

LEMMA LimitInit ==
    ASSUME Init
    PROVE  LimitInv
<1>1. TypeInv
  BY TypeInit
<1>2. Delimiters(<<>>) = {} /\ Len(<<>>) = 0
  BY DEF Delimiters
<1>3. accumulatedBuffer = <<>> /\ stringInsertCount = 0
  BY DEF Init
<1>4. Len(accumulatedBuffer) = 0 /\ Delimiters(accumulatedBuffer) = {}
  BY <1>2, <1>3, Zenon
<1>5. BufferInv
  BY <1>3, <1>4, LoRaAssumption DEF BufferInv, Backlog
<1>6. SentInv
  BY DEF Init, SentInv
<1> QED
  BY <1>1, <1>5, <1>6 DEF LimitInv

\* Until a frame with the delimiter inside is transmitted, the limit of reads is one
\* of accumulatedBuffer too, and no backlog builds up in it, however frames are lost
\* and mixed.
THEOREM LimitCorrect == Spec => []BufferLimited
<1>1. Init => LimitInv
  BY LimitInit
<1>2. LimitInv /\ [Next]_vars => LimitInv'
  BY LimitNext
<1>3. LimitInv => BufferLimited
  <2> SUFFICES ASSUME LimitInv, OnlyPlainFrames
               PROVE  Len(accumulatedBuffer) <= (MAX_INSERTS + 1) * ChunkSize /\ ~ Backlog
    BY DEF BufferLimited
  <2>1. Len(accumulatedBuffer) <= (stringInsertCount + 1) * ChunkSize /\ ~ Backlog
    BY DEF LimitInv, BufferInv
  <2>2. stringInsertCount \in 0..MAX_INSERTS /\ Len(accumulatedBuffer) \in Nat
    BY LenProperties DEF LimitInv, TypeInv, Types
  <2> QED
    BY <2>1, <2>2, LengthBound
<1> QED
  BY <1>1, <1>2, <1>3, PTL DEF Spec

\* The type invariant: the count of reads stays below its limit, however frames
\* are lost and mixed and whatever their HMACs contain, and the buffer below its
\* own as long as no HMAC with the delimiter was transmitted.
THEOREM TypeCorrect == Spec => []TypeOK
<1>1. Init => TypeInv
  BY TypeInit
<1>2. TypeInv /\ [Next]_vars => TypeInv'
  BY TypeNext
<1>3. TypeInv => Types
  BY DEF TypeInv
<1>4. Types /\ BufferLimited => TypeOK
  BY DEF TypeOK
<1> QED
  BY <1>1, <1>2, <1>3, <1>4, LimitCorrect, PTL DEF Spec

-----------------------------------------------------------------------------
(***************************************************************************)
(* No transmission is taken twice                                          *)
(***************************************************************************)
\* The k-th piece of m occurs in no other place of any message.
OwnPiece(m, k) ==
    /\ k \in 1..Len(Body[m])
    /\ Body[m][k] # Bar
    /\ \A n \in Messages : \A j \in 1..Len(Body[n]) :
          Body[n][j] = Body[m][k] => n = m /\ j = k

\* What checksum and HMAC stand for: a part of each message is its own.
OwnPieces == \A m \in Messages : \E k \in Nat : OwnPiece(m, k)

Occurrences(s, piece) == {i \in 1..Len(s) : s[i] = piece}

\* Trackers whose transmission of m has still to bring its k-th piece.
Pending(m, k) ==
    {t \in Trackers : /\ air[t] # Silent
                      /\ air[t].msg = m
                      /\ (air[t].next - 1) * ChunkSize < k}

\* Every place where a copy of the own piece of m is, or will come from.
Tokens(m, k) ==
    ({"buffer"} \X Occurrences(accumulatedBuffer, Body[m][k]))
      \cup ({"message"} \X (IF messageReceived THEN Occurrences(fullMessage, Body[m][k]) ELSE {}))
      \cup ({"air"} \X Pending(m, k))

\* Each transmission of m brings its own piece once: the copies not yet taken
\* and the messages taken are together no more than the transmissions.
TokenInv(m, k) ==
    /\ IsFiniteSet(Tokens(m, k))
    /\ Cardinality(Tokens(m, k)) + taken[m] <= sentCount[m]

LEMMA TokensFewer ==
    ASSUME NEW T, IsFiniteSet(T), NEW U, U \subseteq T
    PROVE  IsFiniteSet(U) /\ Cardinality(U) <= Cardinality(T)
           /\ Cardinality(U) \in Nat /\ Cardinality(T) \in Nat
  BY FS_Subset, FS_CardinalityType

\* The own piece in a packet: its position is the one in the frame.
LEMMA OwnInPacket ==
    ASSUME NEW m \in Messages, NEW k, OwnPiece(m, k),
           NEW n \in Messages, NEW i \in 1..Packets(n),
           NEW j \in 1..Len(Packet(n, i)), Packet(n, i)[j] = Body[m][k]
    PROVE  n = m /\ ((i - 1) * ChunkSize) + j = k
<1> DEFINE b == (i - 1) * ChunkSize
           P == Packet(n, i)
<1>1. /\ b \in Nat /\ Len(P) \in Nat /\ b + Len(P) <= Len(Frame(n))
      /\ \A x \in 1..Len(P) : P[x] = Frame(n)[b + x]
  <2>1. ChunkSize \in Nat
    BY LoRaAssumption
  <2>2. /\ b \in Nat /\ Len(P) \in 1..ChunkSize /\ b + Len(P) <= Len(Frame(n))
        /\ \A x \in 1..Len(P) : P[x] = Frame(n)[b + x]
    BY PacketFacts, Zenon
  <2> HIDE DEF b, P
  <2> QED
    BY <2>1, <2>2
<1>2. /\ Len(Body[n]) \in Nat /\ Len(Frame(n)) = Len(Body[n]) + 2
      /\ \A x \in 1..Len(Body[n]) : Frame(n)[x] = Body[n][x]
      /\ Frame(n)[Len(Body[n]) + 1] = Bar /\ Frame(n)[Len(Body[n]) + 2] = Bar
  BY FrameFacts
<1>3. j \in 1..Len(P) /\ P[j] = Body[m][k]
  OBVIOUS
<1> HIDE DEF b, P
<1>4. Frame(n)[b + j] = Body[m][k] /\ b + j \in 1..Len(Frame(n))
  BY <1>1, <1>2, <1>3
<1>5. b + j \in 1..Len(Body[n])
  <2>1. Body[m][k] # Bar
    BY DEF OwnPiece
  <2>2. b + j # Len(Body[n]) + 1 /\ b + j # Len(Body[n]) + 2
    BY <2>1, <1>2, <1>4
  <2>3. Len(Body[n]) \in Nat /\ b + j \in 1..(Len(Body[n]) + 2)
    BY <1>2, <1>4
  <2> QED
    BY <2>2, <2>3
<1>6. Body[n][b + j] = Body[m][k]
  BY <1>2, <1>4, <1>5
<1>7. n = m /\ b + j = k
  BY <1>5, <1>6 DEF OwnPiece
<1> QED
  BY <1>7 DEF b

\* A packet that ends leaves no more to come, and less if it brought the piece.
LEMMA PendingAfter ==
    ASSUME TypeInv, NEW m \in Messages, NEW k, OwnPiece(m, k),
           NEW t \in Trackers, air[t] # Silent, PacketEnds(t)
    PROVE  /\ Pending(m, k)' \subseteq Pending(m, k)
           /\ \A j \in 1..Len(Packet(air[t].msg, air[t].next)) :
                Packet(air[t].msg, air[t].next)[j] = Body[m][k] =>
                  t \in Pending(m, k) /\ t \notin Pending(m, k)'
<1> DEFINE n == air[t].msg
           i == air[t].next
           b == (i - 1) * ChunkSize
<1>1. n \in Messages /\ i \in 1..Packets(n)
  BY DEF TypeInv, Types
<1>2. /\ b \in Nat /\ i * ChunkSize = b + ChunkSize
      /\ Len(Packet(n, i)) \in 1..ChunkSize /\ ChunkSize \in Nat
  BY <1>1, PacketFacts, LoRaAssumption
<1>3. /\ \A u \in Trackers : u # t => air'[u] = air[u]
      /\ \/ air'[t] = Silent
         \/ air'[t].next = i + 1 /\ air'[t].msg = n
  BY AirAfter DEF TypeInv, Types, OnAir
<1>4. k \in Int
  BY DEF OwnPiece
<1>5. i \in Nat /\ i + 1 - 1 = i
  BY <1>1, PacketCount
<1>6. t \in Pending(m, k)' => n = m /\ b + ChunkSize < k
  <2>1. SUFFICES ASSUME t \in Pending(m, k)'
                 PROVE  n = m /\ b + ChunkSize < k
    OBVIOUS
  <2>2. air'[t] # Silent /\ air'[t].msg = m /\ (air'[t].next - 1) * ChunkSize < k
    BY <2>1 DEF Pending
  <2>3. air'[t].next - 1 = i /\ n = m
    BY <2>2, <1>3, <1>5
  <2> QED
    BY <1>2, <2>2, <2>3
<1>7. Pending(m, k)' \subseteq Pending(m, k)
  <2> SUFFICES ASSUME NEW u \in Pending(m, k)'
               PROVE  u \in Pending(m, k)
    OBVIOUS
  <2>1. u \in Trackers
    BY DEF Pending
  <2>2. CASE u # t
    BY <1>3, <2>1, <2>2 DEF Pending
  <2>3. CASE u = t
    <3>1. n = m /\ b < k
      BY <1>2, <1>4, <1>6, <2>3
    <3> QED
      BY <3>1, <2>3 DEF Pending
  <2> QED
    BY <2>2, <2>3
<1>8. ASSUME NEW j \in 1..Len(Packet(n, i)), Packet(n, i)[j] = Body[m][k]
      PROVE  t \in Pending(m, k) /\ t \notin Pending(m, k)'
  <2>1. n = m /\ b + j = k
    BY <1>1, <1>8, OwnInPacket
  <2>2. b < k /\ ~ (b + ChunkSize < k)
    BY <1>2, <1>4, <1>8, <2>1
  <2>3. t \in Pending(m, k)
    BY <2>1, <2>2 DEF Pending
  <2> QED
    BY <1>6, <2>2, <2>3
<1> QED
  BY <1>7, <1>8

LEMMA InTokens ==
    ASSUME NEW m, NEW k, NEW x \in Tokens(m, k)
    PROVE  /\ x = <<x[1], x[2]>>
           /\ \/ /\ x[1] = "buffer" /\ x[2] \in 1..Len(accumulatedBuffer)
                 /\ accumulatedBuffer[x[2]] = Body[m][k]
              \/ /\ x[1] = "message" /\ messageReceived /\ x[2] \in 1..Len(fullMessage)
                 /\ fullMessage[x[2]] = Body[m][k]
              \/ x[1] = "air" /\ x[2] \in Pending(m, k)
  BY DEF Tokens, Occurrences

\* A read moves pieces and loses some, and makes none: every copy after it
\* comes from one before it, different ones from different ones.
LEMMA TokensRead ==
    ASSUME TypeInv, NEW m \in Messages, NEW k, OwnPiece(m, k),
           NEW t \in Trackers, ReadPacket(t), IsFiniteSet(Tokens(m, k))
    PROVE  IsFiniteSet(Tokens(m, k)') /\ Cardinality(Tokens(m, k)') <= Cardinality(Tokens(m, k))
<1> DEFINE n == air[t].msg
           P == Packet(n, air[t].next)
           B == accumulatedBuffer
           Q == B \o P
           p == Body[m][k]
           T1 == Tokens(m, k)'
           Copy(x) == x[1] = "buffer" \/ x[1] = "message"
<1>1. /\ n \in Messages /\ air[t].next \in 1..Packets(n)
      /\ Joined(B, P, Q)
      /\ ReadOverflows \/ ReadAppends(Q) \/ \E d \in Nat : ReadCuts(B, P, Q, d)
  BY Reading
<1>2. /\ Pending(m, k)' \subseteq Pending(m, k)
      /\ \A j \in 1..Len(P) : P[j] = p => t \in Pending(m, k) /\ t \notin Pending(m, k)'
  BY PendingAfter DEF ReadPacket
<1>3. \A i, j \in 1..Len(P) : P[i] = p /\ P[j] = p => i = j
  <2> TAKE i, j \in 1..Len(P)
  <2> HAVE P[i] = p /\ P[j] = p
  <2>1. ((air[t].next - 1) * ChunkSize) + i = k /\ ((air[t].next - 1) * ChunkSize) + j = k
    BY <1>1, OwnInPacket
  <2>2. (air[t].next - 1) * ChunkSize \in Nat
    BY <1>1, PacketFacts
  <2>3. i \in Int /\ j \in Int
    OBVIOUS
  <2> QED
    BY <2>1, <2>2, <2>3
<1>4. ASSUME NEW x \in T1
      PROVE  /\ x = <<x[1], x[2]>>
             /\ \/ /\ x[1] = "buffer" /\ x[2] \in 1..Len(accumulatedBuffer')
                   /\ accumulatedBuffer'[x[2]] = p
                \/ /\ x[1] = "message" /\ messageReceived' /\ x[2] \in 1..Len(fullMessage')
                   /\ fullMessage'[x[2]] = p
                \/ x[1] = "air" /\ x[2] \in Pending(m, k)'
  BY DEF Tokens, Occurrences
<1>5. /\ \A j \in 1..Len(B) : B[j] = p => <<"buffer", j>> \in Tokens(m, k)
      /\ \A u \in Pending(m, k) : <<"air", u>> \in Tokens(m, k)
  BY DEF Tokens, Occurrences
<1>6. Len(B) \in Nat /\ Len(P) \in Nat /\ ChunkSize \in Nat
  BY <1>1, LoRaAssumption DEF Joined
<1>7. \A j \in 1..(Len(B) + Len(P)) : Q[j] = IF j <= Len(B) THEN B[j] ELSE P[j - Len(B)]
  BY <1>1 DEF Joined
<1> HIDE DEF P, B, Q, p, n, T1
<1> DEFINE Placed(g) ==
             /\ \A x \in T1 : Copy(x) => g[x] \in 1..(Len(B) + Len(P)) /\ Q[g[x]] = p
             /\ \A x, y \in T1 : Copy(x) /\ Copy(y) /\ g[x] = g[y] => x = y
<1>8. \E g : Placed(g)
  <2>1. CASE ReadOverflows
    <3>1. Len(accumulatedBuffer') = 0 /\ messageReceived' = FALSE
      BY <2>1 DEF ReadOverflows
    <3>2. \A x \in T1 : ~ Copy(x)
      BY <1>4, <3>1
    <3> QED
      BY <3>2
  <2>2. CASE ReadAppends(Q)
    <3> DEFINE g == [x \in T1 |-> x[2]]
    <3>1. accumulatedBuffer' = Q /\ messageReceived' = FALSE /\ Len(Q) = Len(B) + Len(P)
      BY <2>2, <1>1 DEF ReadAppends, Joined
    <3>2. \A x \in T1 : Copy(x) => /\ x = <<"buffer", x[2]>>
                                   /\ x[2] \in 1..(Len(B) + Len(P)) /\ Q[x[2]] = p
      BY <1>4, <3>1
    <3>3. \A x \in T1 : g[x] = x[2]
      OBVIOUS
    <3> HIDE DEF g
    <3>4. \A x \in T1 : Copy(x) => g[x] \in 1..(Len(B) + Len(P)) /\ Q[g[x]] = p
      BY <3>2, <3>3
    <3>5. ASSUME NEW x \in T1, NEW y \in T1, Copy(x), Copy(y), g[x] = g[y]
          PROVE  x = y
      BY <3>2, <3>3, <3>5
    <3> QED
      BY <3>4, <3>5
  <2>3. ASSUME NEW d \in Nat, ReadCuts(B, P, Q, d)
        PROVE  \E g : Placed(g)
    <3> DEFINE g == [x \in T1 |-> IF x[1] = "message" THEN x[2] ELSE d + 1 + x[2]]
    <3>1. /\ d \in 1..(Len(B) + Len(P) - 1)
          /\ Len(fullMessage') = d - 1
          /\ \A j \in 1..(d - 1) : fullMessage'[j] = Q[j]
          /\ Len(accumulatedBuffer') = Len(B) + Len(P) - d - 1
          /\ \A j \in 1..Len(accumulatedBuffer') : accumulatedBuffer'[j] = Q[d + 1 + j]
      BY <2>3 DEF ReadCuts, Cut
    <3>2. \A x \in T1 :
             \/ /\ x = <<"message", x[2]>> /\ g[x] = x[2]
                /\ x[2] \in 1..(d - 1) /\ Q[x[2]] = p
             \/ /\ x = <<"buffer", x[2]>> /\ g[x] = d + 1 + x[2]
                /\ x[2] \in 1..(Len(B) + Len(P) - d - 1) /\ Q[d + 1 + x[2]] = p
             \/ x = <<"air", x[2]>>
      <4> TAKE x \in T1
      <4>1. g[x] = IF x[1] = "message" THEN x[2] ELSE d + 1 + x[2]
        OBVIOUS
      <4> HIDE DEF g
      <4> QED
        BY <4>1, <1>4, <3>1
    <3> HIDE DEF g
    <3>3. \A x \in T1 : Copy(x) => g[x] \in 1..(Len(B) + Len(P)) /\ Q[g[x]] = p
      <4> TAKE x \in T1
      <4> HAVE Copy(x)
      <4>1. CASE /\ g[x] = x[2] /\ x[2] \in 1..(d - 1) /\ Q[x[2]] = p
        BY <4>1, <1>6, <3>1
      <4>2. CASE /\ g[x] = d + 1 + x[2] /\ x[2] \in 1..(Len(B) + Len(P) - d - 1)
                 /\ Q[d + 1 + x[2]] = p
        BY <4>2, <1>6, <3>1
      <4> QED
        BY <4>1, <4>2, <3>2
    <3>4. ASSUME NEW x \in T1, NEW y \in T1, Copy(x), Copy(y), g[x] = g[y]
          PROVE  x = y
      <4>1. \/ x = <<"message", x[2]>> /\ g[x] = x[2] /\ x[2] \in 1..(d - 1)
            \/ /\ x = <<"buffer", x[2]>> /\ g[x] = d + 1 + x[2]
               /\ x[2] \in 1..(Len(B) + Len(P) - d - 1)
        BY <3>2, <3>4
      <4>2. \/ y = <<"message", y[2]>> /\ g[y] = y[2] /\ y[2] \in 1..(d - 1)
            \/ /\ y = <<"buffer", y[2]>> /\ g[y] = d + 1 + y[2]
               /\ y[2] \in 1..(Len(B) + Len(P) - d - 1)
        BY <3>2, <3>4
      <4>3. x[1] = y[1] /\ x[2] = y[2]
        BY <4>1, <4>2, <3>4, <1>6
      <4> QED
        BY <4>1, <4>2, <4>3
    <3> QED
      BY <3>3, <3>4
  <2> QED
    BY <1>1, <2>1, <2>2, <2>3
<1>9. PICK g : Placed(g)
  BY <1>8
<1> DEFINE src(j) == IF j <= Len(B) THEN <<"buffer", j>> ELSE <<"air", t>>
           f == [x \in T1 |-> IF Copy(x) THEN src(g[x]) ELSE x]
           T == Tokens(m, k)
<1> HIDE DEF T
<1>10. ASSUME NEW j \in 1..(Len(B) + Len(P)), Q[j] = p
       PROVE  /\ src(j) \in T
              /\ j > Len(B) => src(j) = <<"air", t>> /\ t \notin Pending(m, k)'
              /\ j <= Len(B) => src(j) = <<"buffer", j>>
  <2>1. CASE j <= Len(B)
    <3>1. B[j] = p /\ j \in 1..Len(B) /\ ~ (j > Len(B))
      BY <2>1, <1>6, <1>7, <1>10
    <3> QED
      BY <3>1, <2>1, <1>5 DEF T
  <2>2. CASE ~ (j <= Len(B))
    <3>1. P[j - Len(B)] = p /\ j - Len(B) \in 1..Len(P)
      BY <2>2, <1>6, <1>7, <1>10
    <3>2. t \in Pending(m, k) /\ t \notin Pending(m, k)'
      BY <3>1, <1>2 DEF P, p
    <3> QED
      BY <3>2, <2>2, <1>5 DEF T
  <2> QED
    BY <2>1, <2>2
<1>11. ASSUME NEW i \in 1..(Len(B) + Len(P)), NEW j \in 1..(Len(B) + Len(P)),
              Q[i] = p, Q[j] = p, src(i) = src(j)
       PROVE  i = j
  <2>1. CASE i <= Len(B) /\ j <= Len(B)
    BY <2>1, <1>11
  <2>2. CASE ~ (i <= Len(B)) /\ ~ (j <= Len(B))
    <3>1. /\ P[i - Len(B)] = p /\ i - Len(B) \in 1..Len(P)
          /\ P[j - Len(B)] = p /\ j - Len(B) \in 1..Len(P)
      BY <2>2, <1>6, <1>7, <1>11
    <3>2. i - Len(B) = j - Len(B)
      BY <3>1, <1>3 DEF P, p
    <3> QED
      BY <3>2, <1>6
  <2>3. CASE (i <= Len(B)) # (j <= Len(B))
    BY <2>3, <1>11
  <2> QED
    BY <2>1, <2>2, <2>3
<1>12. \A x \in T1 :
         /\ Copy(x) => f[x] = src(g[x]) /\ g[x] \in 1..(Len(B) + Len(P)) /\ Q[g[x]] = p
         /\ ~ Copy(x) => f[x] = x /\ x = <<"air", x[2]>> /\ x[2] \in Pending(m, k)'
  <2> TAKE x \in T1
  <2>1. f[x] = IF Copy(x) THEN src(g[x]) ELSE x
    OBVIOUS
  <2> HIDE DEF f, src
  <2>2. Copy(x) => g[x] \in 1..(Len(B) + Len(P)) /\ Q[g[x]] = p
    BY <1>9
  <2> HIDE DEF Placed
  <2>3. ~ Copy(x) => x = <<"air", x[2]>> /\ x[2] \in Pending(m, k)'
    BY <1>4
  <2> QED
    BY <2>1, <2>2, <2>3
<1>13. f \in [T1 -> T]
  <2> SUFFICES ASSUME NEW x \in T1 PROVE f[x] \in T
    OBVIOUS
  <2> HIDE DEF f, src, Copy, Placed
  <2>1. CASE Copy(x)
    <3>1. f[x] = src(g[x]) /\ g[x] \in 1..(Len(B) + Len(P)) /\ Q[g[x]] = p
      BY <2>1, <1>12, Zenon
    <3> QED
      BY <3>1, <1>10
  <2>2. CASE ~ Copy(x)
    <3>1. f[x] = x /\ x = <<"air", x[2]>> /\ x[2] \in Pending(m, k)'
      BY <2>2, <1>12, Zenon
    <3> QED
      BY <3>1, <1>2, <1>5 DEF T
  <2> QED
    BY <2>1, <2>2
<1>14. ASSUME NEW x \in T1, NEW y \in T1, f[x] = f[y]
       PROVE  x = y
  <2> HIDE DEF f, src, Copy
  <2>1. CASE Copy(x) /\ Copy(y)
    <3>1. /\ f[x] = src(g[x]) /\ g[x] \in 1..(Len(B) + Len(P)) /\ Q[g[x]] = p
          /\ f[y] = src(g[y]) /\ g[y] \in 1..(Len(B) + Len(P)) /\ Q[g[y]] = p
      BY <2>1, <1>12, Zenon
    <3>2. g[x] = g[y]
      BY <3>1, <1>11, <1>14
    <3> QED
      BY <3>2, <2>1, <1>9
  <2> HIDE DEF Placed
  <2>2. CASE ~ Copy(x) /\ ~ Copy(y)
    BY <2>2, <1>12, <1>14, Zenon
  <2>3. ASSUME NEW u \in T1, NEW v \in T1, Copy(u), ~ Copy(v), f[u] = f[v]
        PROVE  FALSE
    <3>1. f[v] = <<"air", v[2]>> /\ v[2] \in Pending(m, k)'
      BY <2>3, <1>12, Zenon
    <3>2. f[u] = src(g[u]) /\ g[u] \in 1..(Len(B) + Len(P)) /\ Q[g[u]] = p
      BY <2>3, <1>12, Zenon
    <3>3. \/ f[u] = <<"buffer", g[u]>>
          \/ f[u] = <<"air", t>> /\ t \notin Pending(m, k)'
      BY <3>2, <1>6, <1>10
    <3> QED
      BY <3>1, <3>3, <2>3
  <2> QED
    BY <2>1, <2>2, <2>3, <1>14
<1> HIDE DEF f
<1>15. f \in Injection(T1, T)
  BY <1>13, <1>14 DEF Injection, IsInjective
<1>16. IsFiniteSet(T)
  BY DEF T
<1>17. IsFiniteSet(T1) /\ Cardinality(T1) <= Cardinality(T)
  BY <1>15, <1>16, FS_Injection
<1> QED
  BY <1>17 DEF T, T1

LEMMA TokenNext ==
    ASSUME TypeInv, NEW m \in Messages, NEW k, OwnPiece(m, k),
           TokenInv(m, k), [Next]_vars
    PROVE  TokenInv(m, k)'
<1> DEFINE T == Tokens(m, k)
           T1 == Tokens(m, k)'
<1>1. IsFiniteSet(T) /\ Cardinality(T) \in Nat /\ Cardinality(T) + taken[m] <= sentCount[m]
  BY FS_CardinalityType DEF TokenInv
<1>2. taken[m] \in Nat /\ sentCount[m] \in Nat
  BY DEF TypeInv, Types
<1>3. ASSUME IsFiniteSet(T1), Cardinality(T1) <= Cardinality(T),
             taken'[m] = taken[m], sentCount'[m] = sentCount[m]
      PROVE  TokenInv(m, k)'
  <2>1. Cardinality(T1) \in Nat
    BY <1>3, FS_CardinalityType
  <2> HIDE DEF T, T1
  <2>2. Cardinality(T1) + taken'[m] <= sentCount'[m]
    BY <1>1, <1>2, <1>3, <2>1
  <2> QED
    BY <1>3, <2>2 DEF TokenInv, T1
<1>4. ASSUME T1 \subseteq T, taken'[m] = taken[m], sentCount'[m] = sentCount[m]
      PROVE  TokenInv(m, k)'
  <2>1. IsFiniteSet(T1) /\ Cardinality(T1) <= Cardinality(T)
    BY <1>1, <1>4, TokensFewer
  <2> QED
    BY <1>3, <1>4, <2>1
<1>5. /\ Occurrences(<<>>, Body[m][k]) = {}
  BY DEF Occurrences
<1>6. ASSUME NEW t \in Trackers, NEW n \in Messages, Transmit(t, n)
      PROVE  TokenInv(m, k)'
  <2>1. /\ air' = [air EXCEPT ![t] = [frame |-> sends + 1, next |-> 1, msg |-> n]]
        /\ sentCount' = [sentCount EXCEPT ![n] = @ + 1]
        /\ taken' = taken /\ air[t] = Silent
        /\ accumulatedBuffer' = accumulatedBuffer /\ fullMessage' = fullMessage
        /\ messageReceived' = messageReceived
    BY <1>6 DEF Transmit, receiverVars
  <2>2. /\ \A u \in Trackers : u # t => air'[u] = air[u]
        /\ air'[t].msg = n
    BY <2>1 DEF TypeInv, AirInv
  <2>3. Pending(m, k)' \subseteq Pending(m, k) \cup (IF n = m THEN {t} ELSE {})
    BY <2>2 DEF Pending
  <2>4. T1 \subseteq T \cup (IF n = m THEN {<<"air", t>>} ELSE {})
    BY <2>1, <2>3 DEF Tokens
  <2>5. CASE n # m
    <3>1. sentCount'[m] = sentCount[m]
      BY <2>1, <2>5 DEF TypeInv, Types
    <3> QED
      BY <1>4, <2>1, <2>4, <2>5, <3>1
  <2>6. CASE n = m
    <3>1. sentCount'[m] = sentCount[m] + 1
      BY <2>1, <2>6 DEF TypeInv, Types
    <3> DEFINE U == T \cup {<<"air", t>>}
    <3> HIDE DEF T, T1
    <3>2. IsFiniteSet(U) /\ Cardinality(U) <= Cardinality(T) + 1
      <4> DEFINE x == <<"air", t>>
      <4> HIDE DEF x
      <4>1. /\ IsFiniteSet(T \cup {x})
            /\ Cardinality(T \cup {x}) = IF x \in T THEN Cardinality(T) ELSE Cardinality(T) + 1
        BY <1>1, FS_AddElement, Zenon
      <4> QED
        BY <1>1, <4>1 DEF x
    <3>3. T1 \subseteq U
      BY <2>4, <2>6
    <3> HIDE DEF U
    <3>4. /\ IsFiniteSet(T1) /\ Cardinality(T1) <= Cardinality(U)
          /\ Cardinality(T1) \in Nat /\ Cardinality(U) \in Nat
      BY <3>2, <3>3, TokensFewer
    <3>5. Cardinality(T1) + taken'[m] <= sentCount'[m]
      BY <1>1, <1>2, <2>1, <3>1, <3>2, <3>4
    <3> QED
      BY <3>4, <3>5 DEF TokenInv, T1
  <2> QED
    BY <2>5, <2>6
<1>7. ASSUME NEW t \in Trackers, PacketLost(t)
      PROVE  TokenInv(m, k)'
  <2>1. /\ taken' = taken /\ sentCount' = sentCount
        /\ accumulatedBuffer' = accumulatedBuffer /\ fullMessage' = fullMessage
        /\ messageReceived' = messageReceived
    BY <1>7 DEF PacketLost, receiverVars
  <2>2. Pending(m, k)' \subseteq Pending(m, k)
    BY <1>7, PendingAfter DEF PacketLost
  <2>3. T1 \subseteq T
    BY <2>1, <2>2 DEF Tokens
  <2> QED
    BY <1>4, <2>1, <2>3
<1>8. ASSUME NEW t \in Trackers, ReadPacket(t)
      PROVE  TokenInv(m, k)'
  <2>1. taken' = taken /\ sentCount' = sentCount
    BY <1>8 DEF ReadPacket
  <2>2. IsFiniteSet(T1) /\ Cardinality(T1) <= Cardinality(T)
    BY <1>1, <1>8, TokensRead
  <2> QED
    BY <1>3, <2>1, <2>2
<1>9. CASE BeginLoRa \/ ListenAgain \/ UNCHANGED vars
  <2>1. /\ taken' = taken /\ sentCount' = sentCount /\ air' = air
        /\ accumulatedBuffer' = accumulatedBuffer /\ fullMessage' = fullMessage
        /\ messageReceived' = messageReceived
    BY <1>9 DEF BeginLoRa, ListenAgain, vars, receiverVars, radioVars, historyVars
  <2>2. T1 \subseteq T
    BY <2>1 DEF Tokens, Pending
  <2> QED
    BY <1>4, <2>1, <2>2
<1>10. CASE ProcessEmpty \/ ProcessFails
  <2>1. /\ taken' = taken /\ sentCount' = sentCount /\ air' = air
        /\ accumulatedBuffer' \in {accumulatedBuffer, <<>>}
        /\ messageReceived' = FALSE
    BY <1>10 DEF ProcessEmpty, ProcessFails, radioVars
  <2>2. Occurrences(accumulatedBuffer', Body[m][k]) \subseteq Occurrences(accumulatedBuffer, Body[m][k])
    BY <1>5, <2>1
  <2>3. T1 \subseteq T
    BY <2>1, <2>2 DEF Tokens, Pending
  <2> QED
    BY <1>4, <2>1, <2>3
<1>11. ASSUME NEW n \in Messages, ProcessMessage(n)
       PROVE  TokenInv(m, k)'
  <2>1. /\ taken' = [taken EXCEPT ![n] = @ + 1] /\ sentCount' = sentCount /\ air' = air
        /\ accumulatedBuffer' = <<>>
        /\ messageReceived' = FALSE
        /\ messageReceived /\ fullMessage = Body[n]
    BY <1>11 DEF ProcessMessage, ClearReception, radioVars, Verified
  <2>2. T1 = {"air"} \X Pending(m, k)
    BY <1>5, <2>1 DEF Tokens, Pending
  <2>3. T1 \subseteq T
    BY <2>2 DEF Tokens
  <2>4. CASE n # m
    <3>1. taken'[m] = taken[m] /\ sentCount'[m] = sentCount[m]
      BY <2>1, <2>4 DEF TypeInv, Types
    <3> QED
      BY <1>4, <2>3, <3>1
  <2>5. CASE n = m
    <3>1. taken'[m] = taken[m] + 1 /\ sentCount'[m] = sentCount[m]
      BY <2>1, <2>5 DEF TypeInv, Types
    <3>2. <<"message", k>> \in T
      <4>1. k \in Occurrences(fullMessage, Body[m][k])
        BY <2>1, <2>5 DEF OwnPiece, Occurrences
      <4> QED
        BY <4>1, <2>1 DEF Tokens
    <3> DEFINE U == T \ {<<"message", k>>}
    <3>3. T1 \subseteq U
      BY <2>2, <2>3
    <3> HIDE DEF T, T1
    <3>4. IsFiniteSet(U) /\ Cardinality(U) = Cardinality(T) - 1
      BY <1>1, <3>2, FS_RemoveElement
    <3> HIDE DEF U
    <3>5. /\ IsFiniteSet(T1) /\ Cardinality(T1) <= Cardinality(U)
          /\ Cardinality(T1) \in Nat /\ Cardinality(U) \in Nat
      BY <3>3, <3>4, TokensFewer
    <3>6. Cardinality(T1) + taken'[m] <= sentCount'[m]
      BY <1>1, <1>2, <3>1, <3>4, <3>5
    <3> QED
      BY <3>5, <3>6 DEF TokenInv, T1
  <2> QED
    BY <2>4, <2>5
<1> QED
  BY <1>6, <1>7, <1>8, <1>9, <1>10, <1>11 DEF Next

LEMMA TokenInit ==
    ASSUME Init, NEW m \in Messages, NEW k
    PROVE  TokenInv(m, k)
<1>1. Occurrences(accumulatedBuffer, Body[m][k]) = {} /\ messageReceived = FALSE
  BY DEF Init, Occurrences
<1>2. Pending(m, k) = {}
  BY DEF Init, Pending
<1>3. Tokens(m, k) = {}
  BY <1>1, <1>2 DEF Tokens
<1>4. taken[m] = 0 /\ sentCount[m] = 0
  BY DEF Init
<1> QED
  BY <1>3, <1>4, FS_EmptySet DEF TokenInv

TakenInv == TypeInv /\ \A m \in Messages : \A k \in Nat : OwnPiece(m, k) => TokenInv(m, k)

\* TakenAtMostOnce, for any number of trackers, losses and interleavings: a
\* copy that waits to be verified while the tracker sends again, or whose
\* packets mix with others', is taken once.
THEOREM TakenOnce ==
    ASSUME OwnPieces
    PROVE  Spec => []TakenAtMostOnce
<1>1. Init => TakenInv
  BY TypeInit, TokenInit DEF TakenInv
<1>2. TakenInv /\ [Next]_vars => TakenInv'
  <2> SUFFICES ASSUME TakenInv, [Next]_vars PROVE TakenInv'
    OBVIOUS
  <2>1. TypeInv'
    BY TypeNext DEF TakenInv
  <2>2. ASSUME NEW m \in Messages, NEW k \in Nat, OwnPiece(m, k)
        PROVE  TokenInv(m, k)'
    BY <2>2, TokenNext DEF TakenInv
  <2> QED
    BY <2>1, <2>2 DEF TakenInv, OwnPiece
<1>3. TakenInv => TakenAtMostOnce
  <2> SUFFICES ASSUME TakenInv, NEW m \in Messages PROVE taken[m] <= sentCount[m]
    BY DEF TakenAtMostOnce
  <2>1. PICK k \in Nat : OwnPiece(m, k)
    BY DEF OwnPieces
  <2>2. IsFiniteSet(Tokens(m, k)) /\ Cardinality(Tokens(m, k)) + taken[m] <= sentCount[m]
    BY <2>1 DEF TakenInv, TokenInv
  <2>3. Cardinality(Tokens(m, k)) \in Nat
    BY <2>2, FS_CardinalityType
  <2>4. taken[m] \in Nat /\ sentCount[m] \in Nat
    BY DEF TakenInv, TypeInv, Types
  <2> QED
    BY <2>2, <2>3, <2>4
<1> QED
  BY <1>1, <1>2, <1>3, PTL DEF Spec

-----------------------------------------------------------------------------
(***************************************************************************)
(* Resynchronisation                                                       *)
(***************************************************************************)
\* The next read of a message in processLoRaMessage takes it.
Accepted == messageReceived /\ Verified(fullMessage) # {}

\* All packets of t's frame so far were read, with no other between.
Mid(t) ==
    /\ air[t] # Silent
    /\ air[t].next > 1
    /\ heard = <<air[t].frame, air[t].next - 1>>

ReadSoFar(t) == (air[t].next - 1) * ChunkSize

\* Packets are heard in order, and frames have different numbers.
HeardInv ==
    /\ heard \in Nat \X Nat
    /\ heard[1] <= sends
    /\ \A t \in Trackers : air[t] # Silent =>
         /\ air[t].frame <= sends
         /\ air[t].frame = heard[1] => heard[2] < air[t].next
         /\ \A u \in Trackers : air[u] # Silent /\ air[u].frame = air[t].frame => u = t

\* After x foreign pieces the buffer holds what was read of t's frame.
Aligned(t, x) ==
    /\ Len(accumulatedBuffer) = x + ReadSoFar(t)
    /\ x = 1 => accumulatedBuffer[1] = Bar
    /\ \A j \in 1..ReadSoFar(t) : accumulatedBuffer[x + j] = Frame(air[t].msg)[j]

\* In the first intact frame: the buffer ends with what was last read.
FirstFrame(t) ==
    /\ Delimiters(accumulatedBuffer) = {}
    /\ accumulatedBuffer = <<>> => stringInsertCount = 0
    /\ accumulatedBuffer # <<>> =>
         accumulatedBuffer[Len(accumulatedBuffer)] = Frame(air[t].msg)[ReadSoFar(t)]

\* In the second: it holds the frame's beginning, and at most a bar before it.
SecondFrame(t) ==
    \E x \in {0, 1} : Aligned(t, x) /\ stringInsertCount = air[t].next - 1 + x

\* In the third: nothing but the frame's beginning.
ThirdFrame(t) == Aligned(t, 0) /\ stringInsertCount = air[t].next - 1

Empty == accumulatedBuffer = <<>> /\ stringInsertCount = 0

\* After the first intact frame.
AfterFirst ==
    \/ Empty
    \/ accumulatedBuffer = <<Bar>> /\ stringInsertCount = 1
    \/ stringInsertCount = 0 /\ \E m \in Messages : accumulatedBuffer = Frame(m)

\* What one intact frame after the other makes of the buffer, unless a message
\* is about to be taken.
SyncInv ==
    /\ streak \in 0..3
    /\ messageReceived => stringInsertCount = 0
    /\ streak = 3 => Accepted
    /\ heard = NotHearing /\ streak = 1 /\ ~ Accepted => AfterFirst
    /\ heard = NotHearing /\ streak = 2 /\ ~ Accepted => Empty
    /\ \A t \in Trackers : Mid(t) =>
         /\ streak = 0 => FirstFrame(t)
         /\ streak = 1 /\ ~ Accepted => SecondFrame(t)
         /\ streak = 2 => ThirdFrame(t)

ResyncInv == TypeInv /\ HeardInv /\ SyncInv

\* A buffer B after which the i-th packet of m continues its frame.
Continues(m, i, B) ==
    \/ i = 1
    \/ /\ Delimiters(B) = {}
       /\ B # <<>> => B[Len(B)] = Frame(m)[(i - 1) * ChunkSize]

\* Only the delimiter of an earlier frame, or that of this one, is found.
LEMMA DelimiterPlace ==
    ASSUME NEW m \in Messages, ~ InnerDelimiter(m), NEW i \in 1..Packets(m),
           NEW B, NEW Q, Joined(B, Packet(m, i), Q),
           Delimiters(B) \subseteq {Len(B) - 1}, Continues(m, i, B),
           NEW d \in Delimiters(Q)
    PROVE  \/ i = 1 /\ d = Len(B) - 1 /\ d \in Delimiters(B)
           \/ i = Packets(m) /\ d = Len(Q) - 1
<1> DEFINE P == Packet(m, i)
           b == (i - 1) * ChunkSize
           F == Frame(m)
<1>1. /\ b \in Nat /\ Len(P) \in Nat /\ Len(P) >= 1 /\ b + Len(P) <= Len(F)
      /\ \A j \in 1..Len(P) : P[j] = F[b + j]
      /\ i < Packets(m) => b + Len(P) < Len(F)
  <2>1. ChunkSize \in Nat
    BY LoRaAssumption
  <2> QED
    BY <2>1, PacketFacts
<1>2. Len(F) \in Nat /\ Packets(m) \in Nat
  BY FrameFacts, PacketCount
<1>3. /\ Len(B) \in Nat /\ Len(Q) = Len(B) + Len(P)
      /\ \A j \in 1..(Len(B) + Len(P)) : Q[j] = IF j <= Len(B) THEN B[j] ELSE P[j - Len(B)]
  BY DEF Joined
<1>4. d \in 1..(Len(Q) - 1) /\ Q[d] = Bar /\ Q[d + 1] = Bar
  BY DEF Delimiters
<1>5. F[1] # Bar
  <2>1. Len(Body[m]) \in Nat \ {0} /\ \A j \in 1..Len(Body[m]) : F[j] = Body[m][j]
    BY FrameFacts
  <2>2. Body[m][1] # Bar
    BY LoRaAssumption
  <2>3. 1 \in 1..Len(Body[m])
    BY <2>1
  <2> HIDE DEF F
  <2> QED
    BY <2>1, <2>2, <2>3
<1>6. i = 1 => b = 0
  BY LoRaAssumption
<1>7. ASSUME NEW j \in 1..(Len(F) - 1), F[j] = Bar, F[j + 1] = Bar
      PROVE  j = Len(F) - 1
  BY <1>7, FrameDelimiters
<1> HIDE DEF P, b, F
<1>8. CASE d < Len(B)
  <2>1. d \in 1..(Len(B) - 1) /\ B[d] = Bar /\ B[d + 1] = Bar
    BY <1>1, <1>3, <1>4, <1>8
  <2>2. d \in Delimiters(B)
    BY <2>1 DEF Delimiters
  <2> QED
    BY <2>2 DEF Continues
<1>9. CASE d = Len(B)
  <2>1. B[Len(B)] = Bar /\ P[1] = Bar /\ Len(B) >= 1
    <3>1. /\ d \in 1..(Len(B) + Len(P)) /\ d <= Len(B)
          /\ d + 1 \in 1..(Len(B) + Len(P)) /\ ~ (d + 1 <= Len(B)) /\ d + 1 - Len(B) = 1
      BY <1>1, <1>3, <1>4, <1>9
    <3> QED
      BY <3>1, <1>3, <1>4, <1>9
  <2>2. F[b + 1] = Bar
    BY <2>1, <1>1
  <2>3. i # 1
    BY <2>2, <1>5, <1>6
  <2>4. Len(<<>>) = 0
    OBVIOUS
  <2>5. B # <<>>
    BY <2>1, <2>4
  <2>6. F[b] = Bar
    BY <2>1, <2>3, <2>5 DEF Continues, F, b
  <2>7. b \in 1..(Len(F) - 1)
    <3>1. b # 0
      <4>1. i - 1 \in Nat \ {0} /\ ChunkSize \in Nat \ {0}
        BY <2>3, <1>2, LoRaAssumption
      <4> QED
        BY <4>1 DEF b
    <3> QED
      BY <3>1, <1>1, <1>2
  <2>8. b = Len(F) - 1
    BY <2>2, <2>6, <2>7, <1>7
  <2> QED
    BY <2>8, <1>1, <1>2, <1>3, <1>9
<1>10. CASE d > Len(B)
  <2> DEFINE j == d - Len(B)
  <2>1. /\ j \in 1..(Len(P) - 1) /\ d \in 1..(Len(B) + Len(P)) /\ ~ (d <= Len(B))
        /\ d + 1 \in 1..(Len(B) + Len(P)) /\ ~ (d + 1 <= Len(B)) /\ d + 1 - Len(B) = j + 1
        /\ j + 1 \in 1..Len(P) /\ j \in 1..Len(P)
    <3>1. /\ Len(P) \in Nat /\ Len(B) \in Nat /\ d \in 1..(Len(B) + Len(P) - 1)
      BY <1>1, <1>3, <1>4
    <3> QED
      BY <3>1, <1>10
  <2>2. P[j] = Bar /\ P[j + 1] = Bar
    BY <2>1, <1>3, <1>4
  <2> HIDE DEF j
  <2>3. F[b + j] = Bar /\ F[b + (j + 1)] = Bar /\ b + (j + 1) = (b + j) + 1
        /\ b + j \in 1..(Len(F) - 1)
    <3>1. F[b + j] = Bar /\ F[b + (j + 1)] = Bar
      BY <2>1, <2>2, <1>1
    <3>2. b \in Nat /\ Len(P) \in Nat /\ b + Len(P) <= Len(F) /\ j \in 1..(Len(P) - 1)
      BY <2>1, <1>1
    <3> QED
      BY <3>1, <3>2, <1>2
  <2>4. b + j = Len(F) - 1
    BY <2>3, <1>7
  <2>5. j = d - Len(B)
    BY DEF j
  <2> QED
    BY <2>1, <2>4, <2>5, <1>1, <1>2, <1>3
<1> QED
  BY <1>3, <1>4, <1>8, <1>9, <1>10

\* The last packet brings the delimiter, unless its first bar was in a packet
\* that was thrown away.
LEMMA LastPacket ==
    ASSUME NEW m \in Messages, NEW B, NEW Q,
           Joined(B, Packet(m, Packets(m)), Q), Continues(m, Packets(m), B)
    PROVE  \/ Len(Q) - 1 \in Delimiters(Q)
           \/ B = <<>> /\ Q = <<Bar>>
<1> DEFINE i == Packets(m)
           P == Packet(m, i)
           b == (i - 1) * ChunkSize
           F == Frame(m)
<1>1. i \in 1..Packets(m)
  BY PacketCount
<1>2. /\ b \in Nat /\ Len(P) \in Nat /\ Len(P) >= 1 /\ b + Len(P) = Len(F)
      /\ \A j \in 1..Len(P) : P[j] = F[b + j]
  <2>1. ChunkSize \in Nat
    BY LoRaAssumption
  <2> QED
    BY <1>1, <2>1, PacketFacts
<1>3. /\ Len(F) \in Nat /\ Len(F) > 2
      /\ F[Len(F) - 1] = Bar /\ F[Len(F)] = Bar
  <2>1. /\ Len(Body[m]) \in Nat \ {0} /\ Len(F) = Len(Body[m]) + 2
        /\ F[Len(Body[m]) + 1] = Bar /\ F[Len(Body[m]) + 2] = Bar
    BY FrameFacts
  <2> HIDE DEF F
  <2>2. Len(F) - 1 = Len(Body[m]) + 1
    BY <2>1
  <2> QED
    BY <2>1, <2>2
<1>4. /\ Len(B) \in Nat /\ Len(Q) = Len(B) + Len(P) /\ B \in Seq(Pieces) /\ Q \in Seq(Pieces)
      /\ \A j \in 1..(Len(B) + Len(P)) : Q[j] = IF j <= Len(B) THEN B[j] ELSE P[j - Len(B)]
  BY DEF Joined
<1>5. Continues(m, i, B)
  OBVIOUS
<1>6. i = 1 => b = 0
  BY LoRaAssumption
<1> HIDE DEF i, P, b, F
<1>7. P[Len(P)] = Bar
  BY <1>2, <1>3
<1>8. Q[Len(Q)] = Bar
  <2>1. /\ Len(Q) \in 1..(Len(B) + Len(P)) /\ ~ (Len(Q) <= Len(B)) /\ Len(Q) - Len(B) = Len(P)
    BY <1>2, <1>4
  <2> QED
    BY <2>1, <1>4, <1>7
<1>9. CASE Len(P) >= 2
  <2>1. P[Len(P) - 1] = Bar
    <3>1. Len(P) - 1 \in 1..Len(P) /\ b + (Len(P) - 1) = Len(F) - 1
      BY <1>2, <1>3, <1>9
    <3> QED
      BY <3>1, <1>2, <1>3
  <2>2. /\ Len(Q) - 1 \in 1..(Len(B) + Len(P)) /\ ~ (Len(Q) - 1 <= Len(B))
        /\ Len(Q) - 1 - Len(B) = Len(P) - 1 /\ Len(Q) - 1 \in 1..(Len(Q) - 1)
        /\ Len(Q) - 1 + 1 = Len(Q)
    BY <1>2, <1>4, <1>9
  <2>3. Q[Len(Q) - 1] = Bar
    BY <2>1, <2>2, <1>4
  <2> QED
    BY <2>2, <2>3, <1>8 DEF Delimiters
<1>10. CASE Len(P) = 1 /\ B = <<>>
  <2>1. Len(Q) = 1 /\ Q[1] = Bar
    BY <1>4, <1>8, <1>10
  <2>2. Q = <<Bar>>
    <3>1. <<Bar>> \in Seq(Pieces \cup {Bar}) /\ Q \in Seq(Pieces \cup {Bar})
      BY <1>4, SeqMonotonic
    <3>2. Len(<<Bar>>) = 1 /\ <<Bar>>[1] = Bar
      OBVIOUS
    <3>3. \A j \in 1..Len(Q) : Q[j] = <<Bar>>[j]
      BY <2>1, <3>2
    <3> QED
      BY <2>1, <3>1, <3>2, <3>3, SeqEqual
  <2> QED
    BY <2>2, <1>10
<1>11. CASE Len(P) = 1 /\ B # <<>>
  <2>1. i # 1 /\ b = Len(F) - 1
    BY <1>2, <1>3, <1>6, <1>11
  <2>2. B[Len(B)] = F[b]
    BY <2>1, <1>5, <1>11 DEF Continues, F, b
  <2>3. Len(B) # 0
    BY <1>4, <1>11, EmptySeq
  <2>4. /\ Len(Q) - 1 = Len(B) /\ Len(B) \in 1..(Len(B) + Len(P)) /\ Len(B) <= Len(B)
        /\ Len(Q) - 1 \in 1..(Len(Q) - 1) /\ Len(Q) - 1 + 1 = Len(Q)
    BY <2>3, <1>2, <1>4, <1>11
  <2>5. Q[Len(Q) - 1] = Bar
    BY <2>1, <2>2, <2>4, <1>3, <1>4
  <2> QED
    BY <2>4, <2>5, <1>8 DEF Delimiters
<1>12. Len(P) = 1 \/ Len(P) >= 2
  <2>1. Len(P) \in Nat /\ Len(P) >= 1
    BY <1>2
  <2>2. \A n \in Nat : n >= 1 => n = 1 \/ n >= 2
    OBVIOUS
  <2> QED
    BY <2>1, <2>2
<1> QED
  BY <1>9, <1>10, <1>11, <1>12

LEMMA WholePacket ==
    ASSUME NEW m \in Messages, Packets(m) = 1
    PROVE  Packet(m, 1) = Frame(m)
<1> DEFINE P == Packet(m, 1)
           b == (1 - 1) * ChunkSize
<1>1. 1 \in 1..Packets(m) /\ ChunkSize \in Nat
  BY LoRaAssumption
<1>2. /\ P \in Seq(Pieces) /\ b + Len(P) = Len(Frame(m))
      /\ \A j \in 1..Len(P) : P[j] = Frame(m)[b + j]
  BY <1>1, PacketFacts
<1>3. b = 0
  BY <1>1
<1>4. Frame(m) \in Seq(Pieces)
  BY FrameFacts
<1> HIDE DEF P, b
<1>5. Len(P) \in Nat
  BY <1>2, LenProperties
<1>6. Len(P) = Len(Frame(m)) /\ \A j \in 1..Len(P) : P[j] = Frame(m)[j]
  BY <1>2, <1>3, <1>5
<1> QED
  BY <1>2, <1>4, <1>6, SeqEqual DEF P

LEMMA InnerPacket ==
    ASSUME NEW m \in Messages, ~ InnerDelimiter(m), NEW i \in 1..Packets(m), i < Packets(m)
    PROVE  Delimiters(Packet(m, i)) = {}
<1> DEFINE P == Packet(m, i)
           b == (i - 1) * ChunkSize
<1>1. /\ b \in Nat /\ Len(P) \in Nat /\ b + Len(P) < Len(Frame(m))
      /\ \A j \in 1..Len(P) : P[j] = Frame(m)[b + j]
  BY PacketFacts, LoRaAssumption
<1>2. Len(Frame(m)) \in Nat
  BY FrameFacts
<1> HIDE DEF P, b
<1> SUFFICES ASSUME NEW j \in Delimiters(P)
             PROVE  FALSE
  BY DEF P
<1>3. j \in 1..(Len(P) - 1) /\ P[j] = Bar /\ P[j + 1] = Bar
  BY DEF Delimiters
<1>4. /\ j \in 1..Len(P) /\ j + 1 \in 1..Len(P)
      /\ b + j \in 1..(Len(Frame(m)) - 1) /\ b + (j + 1) = (b + j) + 1
  BY <1>1, <1>2, <1>3
<1>5. Frame(m)[b + j] = Bar /\ Frame(m)[(b + j) + 1] = Bar
  BY <1>1, <1>3, <1>4
<1>6. b + j = Len(Frame(m)) - 1
  BY <1>4, <1>5, FrameDelimiters
<1> QED
  BY <1>1, <1>2, <1>3, <1>6

\* A frame without its delimiter is the body.
LEMMA BodyRead ==
    ASSUME NEW m \in Messages, NEW s \in Seq(Pieces),
           Len(s) = Len(Frame(m)) - 2, \A j \in 1..Len(s) : s[j] = Frame(m)[j]
    PROVE  s = Body[m]
<1> DEFINE R == {Body[m][i] : i \in 1..Len(Body[m])}
           U == R \cup Pieces
<1>1. Body[m] \in Seq(R)
  BY LoRaAssumption
<1> HIDE DEF R
<1>2. Body[m] \in Seq(U) /\ s \in Seq(U)
  BY <1>1, SeqMonotonic
<1>3. /\ Len(Body[m]) \in Nat /\ Len(Frame(m)) = Len(Body[m]) + 2
      /\ \A i \in 1..Len(Body[m]) : Frame(m)[i] = Body[m][i]
  BY FrameFacts
<1>4. Len(s) = Len(Body[m])
  BY <1>3
<1>5. \A j \in 1..Len(s) : s[j] = Body[m][j]
  BY <1>3, <1>4
<1> HIDE DEF U
<1> QED
  BY <1>2, <1>4, <1>5, SeqEqual

\* The first intact frame, whatever is in the buffer when it begins.
LEMMA FirstFrameRead ==
    ASSUME TypeInv, NEW t \in Trackers, ReadPacket(t), Plain(t),
           Continues(air[t].msg, air[t].next, accumulatedBuffer),
           air[t].next # 1 /\ accumulatedBuffer = <<>> => stringInsertCount = 0
    PROVE  /\ air[t].next = Packets(air[t].msg) => AfterFirst'
           /\ air[t].next < Packets(air[t].msg) =>
                /\ Delimiters(accumulatedBuffer') = {}
                /\ accumulatedBuffer' = <<>> => stringInsertCount' = 0
                /\ accumulatedBuffer' # <<>> =>
                     accumulatedBuffer'[Len(accumulatedBuffer')]
                       = Frame(air[t].msg)[air[t].next * ChunkSize]
<1> DEFINE n == air[t].msg
           i == air[t].next
           P == Packet(n, i)
           B == accumulatedBuffer
           Q == B \o P
           b == (i - 1) * ChunkSize
           F == Frame(n)
           Goal == /\ i = Packets(n) => AfterFirst'
                   /\ i < Packets(n) =>
                        /\ Delimiters(accumulatedBuffer') = {}
                        /\ accumulatedBuffer' = <<>> => stringInsertCount' = 0
                        /\ accumulatedBuffer' # <<>> =>
                             accumulatedBuffer'[Len(accumulatedBuffer')] = F[i * ChunkSize]
<1>1. /\ n \in Messages /\ i \in 1..Packets(n) /\ Joined(B, P, Q)
      /\ ReadOverflows \/ ReadAppends(Q) \/ \E d \in Nat : ReadCuts(B, P, Q, d)
  BY Reading
<1>2. Delimiters(B) \subseteq {Len(B) - 1} /\ ~ InnerDelimiter(n)
  BY DEF Plain, Backlog
<1>3. /\ Continues(n, i, B)
      /\ i # 1 /\ B = <<>> => stringInsertCount = 0
      /\ stringInsertCount \in Nat
  BY LoRaAssumption DEF TypeInv, Types
<1>4. /\ b \in Nat /\ i * ChunkSize = b + ChunkSize
      /\ \A j \in 1..Len(P) : P[j] = F[b + j]
      /\ i < Packets(n) => Len(P) = ChunkSize
  BY <1>1, PacketFacts
<1>5. /\ Len(B) \in Nat /\ Len(P) \in Nat /\ Len(P) >= 1
      /\ B \in Seq(Pieces) /\ P \in Seq(Pieces) /\ Q \in Seq(Pieces)
      /\ Len(Q) = Len(B) + Len(P)
      /\ \A j \in 1..(Len(B) + Len(P)) : Q[j] = IF j <= Len(B) THEN B[j] ELSE P[j - Len(B)]
  BY <1>1, LoRaAssumption DEF Joined
<1>6. Packets(n) \in Nat /\ ChunkSize \in Nat \ {0}
  BY <1>1, PacketCount, LoRaAssumption
<1>7. Delimiters(<<>>) = {} /\ Len(<<>>) = 0
  BY DEF Delimiters
<1>8. i = 1 => b = 0
  BY <1>6
<1> SUFFICES Goal
  OBVIOUS
<1> HIDE DEF n, i, P, B, Q, b, F
<1>9. P[Len(P)] = F[b + Len(P)]
  BY <1>4, <1>5
<1>10. CASE ReadOverflows
  <2>1. accumulatedBuffer' = <<>> /\ stringInsertCount' = 0
    BY <1>10 DEF ReadOverflows
  <2> QED
    BY <2>1, <1>7 DEF AfterFirst, Empty
<1>11. CASE ReadAppends(Q)
  <2>1. accumulatedBuffer' = Q /\ stringInsertCount' = stringInsertCount + 1 /\ Delimiters(Q) = {}
    BY <1>11 DEF ReadAppends
  <2>2. CASE i = Packets(n)
    <3>1. Joined(B, Packet(n, Packets(n)), Q) /\ Continues(n, Packets(n), B)
      BY <2>2, <1>1, <1>3 DEF P
    <3>2. B = <<>> /\ Q = <<Bar>>
      BY <3>1, <2>1, <1>1, LastPacket
    <3>3. i # 1
      <4>1. ASSUME i = 1 PROVE FALSE
        <5>1. Packets(n) = 1
          BY <2>2, <4>1
        <5>2. P = F
          BY <5>1, <4>1, <1>1, WholePacket DEF P, F
        <5>3. Len(F) > 2 /\ Len(F) \in Nat
          BY <1>1, FrameFacts DEF F
        <5>4. Len(<<Bar>>) = 1
          OBVIOUS
        <5>5. Len(Q) = 1 /\ Len(B) = 0
          BY <3>2, <5>4, <1>7
        <5>6. Len(Q) = Len(B) + Len(F)
          BY <5>2, <1>5
        <5>7. 1 = 0 + Len(F)
          BY <5>5, <5>6, Zenon
        <5>8. \A x \in Nat : x > 2 => 1 # 0 + x
          OBVIOUS
        <5> QED
          BY <5>3, <5>7, <5>8, Zenon
      <4> QED
        BY <4>1
    <3>4. accumulatedBuffer' = <<Bar>> /\ stringInsertCount' = 1
      BY <3>2, <3>3, <2>1, <1>3
    <3>5. ~ (i < Packets(n))
      BY <2>2, <1>6
    <3> QED
      BY <3>4, <3>5 DEF AfterFirst
  <2>3. CASE i # Packets(n)
    <3>1. i < Packets(n)
      BY <2>3, <1>1, <1>6
    <3>2. Q[Len(Q)] = P[Len(P)]
      <4>1. Len(Q) \in 1..(Len(B) + Len(P)) /\ ~ (Len(Q) <= Len(B)) /\ Len(Q) - Len(B) = Len(P)
        BY <1>5
      <4> QED
        BY <4>1, <1>5
    <3>3. b + Len(P) = i * ChunkSize
      BY <3>1, <1>4
    <3>4. Q[Len(Q)] = F[i * ChunkSize]
      BY <3>2, <3>3, <1>9
    <3>5. Q # <<>>
      BY <1>5, <1>7
    <3> QED
      BY <3>1, <3>4, <3>5, <2>1, <2>3
  <2> QED
    BY <2>2, <2>3
<1>12. ASSUME NEW d \in Nat, ReadCuts(B, P, Q, d)
       PROVE  Goal
  <2>1. /\ stringInsertCount' = 0
        /\ d \in Delimiters(Q)
        /\ accumulatedBuffer' \in Seq(Pieces)
        /\ Len(accumulatedBuffer') = Len(B) + Len(P) - d - 1
        /\ \A j \in 1..Len(accumulatedBuffer') : accumulatedBuffer'[j] = Q[d + 1 + j]
    BY <1>12 DEF ReadCuts, Cut
  <2>2. \/ i = 1 /\ d = Len(B) - 1
        \/ i = Packets(n) /\ d = Len(Q) - 1
    BY <2>1, <1>1, <1>2, <1>3, DelimiterPlace DEF P
  <2>3. CASE i = Packets(n) /\ d = Len(Q) - 1
    <3>1. Len(accumulatedBuffer') = 0
      BY <2>1, <2>3, <1>5
    <3>2. accumulatedBuffer' = <<>>
      BY <3>1, <2>1, EmptySeq
    <3>3. ~ (i < Packets(n))
      BY <2>3, <1>6
    <3> QED
      BY <3>2, <3>3, <2>1 DEF AfterFirst, Empty
  <2>4. CASE i = 1 /\ d = Len(B) - 1
    <3>1. Len(accumulatedBuffer') = Len(P)
      BY <2>1, <2>4, <1>5
    <3>2. \A j \in 1..Len(P) : accumulatedBuffer'[j] = P[j]
      <4> TAKE j \in 1..Len(P)
      <4>1. accumulatedBuffer'[j] = Q[d + 1 + j]
        BY <2>1, <3>1
      <4>2. /\ d + 1 + j \in 1..(Len(B) + Len(P)) /\ ~ (d + 1 + j <= Len(B))
            /\ d + 1 + j - Len(B) = j
        BY <2>4, <1>5
      <4> QED
        BY <4>1, <4>2, <1>5
    <3>3. accumulatedBuffer' = P
      BY <3>1, <3>2, <2>1, <1>5, SeqEqual
    <3>4. CASE i = Packets(n)
      <4>1. P = F
        BY <3>4, <2>4, <1>1, WholePacket DEF P, F
      <4>2. \E m \in Messages : accumulatedBuffer' = Frame(m)
        BY <4>1, <3>3, <1>1 DEF F
      <4> QED
        BY <4>2, <3>4, <2>1, <1>6 DEF AfterFirst
    <3>5. CASE i # Packets(n)
      <4>1. i < Packets(n)
        BY <3>5, <1>1, <1>6
      <4>2. Delimiters(P) = {}
        BY <4>1, <1>1, <1>2, InnerPacket DEF P
      <4>3. P[Len(P)] = F[i * ChunkSize]
        BY <4>1, <1>4, <1>9
      <4> QED
        BY <4>1, <4>2, <4>3, <3>3, <3>5, <2>1
    <3> QED
      BY <3>4, <3>5
  <2> QED
    BY <2>2, <2>3, <2>4
<1> QED
  BY <1>1, <1>10, <1>11, <1>12

\* The beginning of a frame, with a bar before it or not, has no delimiter.
LEMMA AlignedContinues ==
    ASSUME NEW m \in Messages, ~ InnerDelimiter(m), NEW i \in 1..Packets(m),
           NEW B \in Seq(Pieces), NEW x \in {0, 1},
           Len(B) = x + (i - 1) * ChunkSize, x = 1 => B[1] = Bar,
           \A j \in 1..((i - 1) * ChunkSize) : B[x + j] = Frame(m)[j]
    PROVE  Delimiters(B) = {} /\ Continues(m, i, B)
<1> DEFINE b == (i - 1) * ChunkSize
           F == Frame(m)
<1>1. b \in Nat /\ b < Len(F) /\ Len(F) \in Nat
  <2>1. b \in Nat /\ Len(Packet(m, i)) \in 1..ChunkSize /\ b + Len(Packet(m, i)) <= Len(F)
    BY PacketFacts
  <2>2. Len(F) \in Nat /\ ChunkSize \in Nat
    BY FrameFacts, LoRaAssumption
  <2> HIDE DEF b, F
  <2> QED
    BY <2>1, <2>2
<1>2. Len(B) = x + b /\ \A j \in 1..b : B[x + j] = F[j]
  OBVIOUS
<1>3. F[1] # Bar
  <2>1. Len(Body[m]) \in Nat \ {0} /\ \A j \in 1..Len(Body[m]) : F[j] = Body[m][j]
    BY FrameFacts
  <2>2. Body[m][1] # Bar
    BY LoRaAssumption
  <2>3. 1 \in 1..Len(Body[m])
    BY <2>1
  <2> HIDE DEF F
  <2> QED
    BY <2>1, <2>2, <2>3
<1>4. ASSUME NEW j \in 1..(Len(F) - 1), F[j] = Bar, F[j + 1] = Bar
      PROVE  j = Len(F) - 1
  BY <1>4, FrameDelimiters
<1>5. i = 1 => b = 0
  BY LoRaAssumption
<1>6. i # 1 => b >= 1
  <2>1. SUFFICES ASSUME i # 1 PROVE b >= 1
    OBVIOUS
  <2>2. i - 1 \in Nat \ {0} /\ ChunkSize \in Nat \ {0}
    BY <2>1, PacketCount, LoRaAssumption
  <2> QED
    BY <2>2
<1> HIDE DEF b, F
<1>7. Delimiters(B) = {}
  <2> SUFFICES ASSUME NEW d \in Delimiters(B) PROVE FALSE
    OBVIOUS
  <2>1. d \in 1..(Len(B) - 1) /\ B[d] = Bar /\ B[d + 1] = Bar
    BY DEF Delimiters
  <2>2. d \in 1..(x + b - 1) /\ d \in Nat /\ x \in Nat
    BY <2>1, <1>1, <1>2
  <2>3. CASE d = x
    <3>1. d + 1 = x + 1 /\ 1 \in 1..b
      BY <2>2, <2>3, <1>1
    <3>2. F[1] = Bar
      BY <2>1, <3>1, <1>2
    <3> QED
      BY <3>2, <1>3
  <2>4. CASE d > x
    <3> DEFINE j == d - x
    <3>1. /\ j \in 1..b /\ j + 1 \in 1..b /\ x + j = d /\ x + (j + 1) = d + 1
          /\ j \in 1..(Len(F) - 1) /\ j # Len(F) - 1
      BY <2>2, <2>4, <1>1
    <3> HIDE DEF j
    <3>2. F[j] = Bar /\ F[j + 1] = Bar
      BY <2>1, <3>1, <1>2
    <3> QED
      BY <3>1, <3>2, <1>4
  <2> QED
    BY <2>2, <2>3, <2>4
<1>8. i # 1 => B[Len(B)] = F[b]
  BY <1>1, <1>2, <1>6
<1> QED
  BY <1>7, <1>8 DEF Continues, b, F

\* An intact frame after nothing, or after a single bar: it is read to its end,
\* and then taken, or at least nothing is left of it.
LEMMA AlignedRead ==
    ASSUME TypeInv, NEW t \in Trackers, ReadPacket(t), Plain(t),
           NEW x \in {0, 1}, Aligned(t, x), stringInsertCount = air[t].next - 1 + x
    PROVE  /\ air[t].next = Packets(air[t].msg) => IF x = 0 THEN Accepted' ELSE Empty'
           /\ air[t].next < Packets(air[t].msg) =>
                /\ Len(accumulatedBuffer') = x + air[t].next * ChunkSize
                /\ x = 1 => accumulatedBuffer'[1] = Bar
                /\ \A j \in 1..(air[t].next * ChunkSize) :
                     accumulatedBuffer'[x + j] = Frame(air[t].msg)[j]
                /\ stringInsertCount' = air[t].next + x
<1> DEFINE n == air[t].msg
           i == air[t].next
           P == Packet(n, i)
           B == accumulatedBuffer
           Q == B \o P
           b == (i - 1) * ChunkSize
           F == Frame(n)
           Middle == /\ Len(accumulatedBuffer') = x + i * ChunkSize
                     /\ x = 1 => accumulatedBuffer'[1] = Bar
                     /\ \A j \in 1..(i * ChunkSize) : accumulatedBuffer'[x + j] = F[j]
                     /\ stringInsertCount' = i + x
           Last == IF x = 0 THEN Accepted' ELSE Empty'
<1>1. /\ n \in Messages /\ i \in 1..Packets(n) /\ Joined(B, P, Q)
      /\ ReadOverflows \/ ReadAppends(Q) \/ \E d \in Nat : ReadCuts(B, P, Q, d)
  BY Reading
<1>2. /\ Len(B) = x + b
      /\ x = 1 => B[1] = Bar
      /\ \A j \in 1..b : B[x + j] = F[j]
      /\ stringInsertCount = i - 1 + x
      /\ ~ InnerDelimiter(n)
  BY DEF Aligned, ReadSoFar, Plain
<1>3. /\ b \in Nat /\ i * ChunkSize = b + ChunkSize
      /\ \A j \in 1..Len(P) : P[j] = F[b + j]
      /\ i < Packets(n) => Len(P) = ChunkSize
      /\ i = Packets(n) => b + Len(P) = Len(F)
  BY <1>1, PacketFacts
<1>4. /\ Len(B) \in Nat /\ Len(P) \in Nat /\ Len(P) >= 1
      /\ B \in Seq(Pieces) /\ P \in Seq(Pieces) /\ Q \in Seq(Pieces)
      /\ Len(Q) = Len(B) + Len(P)
      /\ \A j \in 1..(Len(B) + Len(P)) : Q[j] = IF j <= Len(B) THEN B[j] ELSE P[j - Len(B)]
  BY <1>1, LoRaAssumption DEF Joined
<1>5. /\ Packets(n) \in Nat /\ Packets(n) <= MAX_INSERTS /\ MAX_INSERTS \in Nat
      /\ ChunkSize \in Nat \ {0}
  BY <1>1, PacketCount, LoRaAssumption
<1>6. Delimiters(B) = {} /\ Continues(n, i, B)
  BY <1>1, <1>2, <1>4, AlignedContinues
<1>7. Len(F) > 2 /\ Len(F) \in Nat
  BY <1>1, FrameFacts
<1>8. Len(<<>>) = 0 /\ x \in Nat
  OBVIOUS
<1> SUFFICES (i = Packets(n) => Last) /\ (i < Packets(n) => Middle)
  OBVIOUS
<1> HIDE DEF n, i, P, B, Q, b, F
<1>9. Len(Q) = x + (b + Len(P))
  BY <1>2, <1>3, <1>4, <1>8
<1>10. \A j \in 1..(b + Len(P)) : Q[x + j] = F[j]
  <2> TAKE j \in 1..(b + Len(P))
  <2>1. x + j \in 1..(Len(B) + Len(P)) /\ j \in Nat
    BY <1>2, <1>3, <1>4, <1>8
  <2>2. CASE j <= b
    <3>1. x + j <= Len(B) /\ j \in 1..b
      BY <2>1, <2>2, <1>2, <1>3, <1>8
    <3>2. Q[x + j] = B[x + j]
      BY <2>1, <3>1, <1>4
    <3> QED
      BY <3>1, <3>2, <1>2
  <2>3. CASE ~ (j <= b)
    <3>1. ~ (x + j <= Len(B)) /\ x + j - Len(B) = j - b /\ j - b \in 1..Len(P) /\ b + (j - b) = j
      BY <2>1, <2>3, <1>2, <1>3, <1>4, <1>8
    <3>2. Q[x + j] = P[x + j - Len(B)]
      <4>1. \A y \in 1..(Len(B) + Len(P)) : ~ (y <= Len(B)) => Q[y] = P[y - Len(B)]
        BY <1>4
      <4> DEFINE y == x + j
      <4>2. y \in 1..(Len(B) + Len(P)) /\ ~ (y <= Len(B))
        BY <2>1, <3>1
      <4> HIDE DEF y
      <4>3. Q[y] = P[y - Len(B)]
        BY <4>1, <4>2
      <4> QED
        BY <4>3 DEF y
    <3>3. Q[x + j] = P[j - b]
      BY <3>1, <3>2, Zenon
    <3>4. P[j - b] = F[b + (j - b)]
      BY <3>1, <1>3
    <3> QED
      BY <3>1, <3>3, <3>4
  <2> QED
    BY <2>2, <2>3
<1>11. x = 1 => Q[1] = Bar
  BY <1>2, <1>3, <1>4
<1>12. CASE ReadOverflows
  <2>1. stringInsertCount = MAX_INSERTS /\ accumulatedBuffer' = <<>> /\ stringInsertCount' = 0
    BY <1>12 DEF ReadOverflows
  <2>2. x = 1 /\ ~ (i < Packets(n))
    BY <2>1, <1>1, <1>2, <1>5
  <2> QED
    BY <2>1, <2>2 DEF Empty
<1>13. CASE ReadAppends(Q)
  <2>1. accumulatedBuffer' = Q /\ stringInsertCount' = stringInsertCount + 1 /\ Delimiters(Q) = {}
    BY <1>13 DEF ReadAppends
  <2>2. i # Packets(n)
    <3> SUFFICES ASSUME i = Packets(n) PROVE FALSE
      OBVIOUS
    <3>1. Joined(B, Packet(n, Packets(n)), Q) /\ Continues(n, Packets(n), B)
      BY <1>1, <1>6 DEF P
    <3>2. B = <<>> /\ Q = <<Bar>>
      BY <3>1, <2>1, <1>1, LastPacket
    <3>3. Len(<<Bar>>) = 1
      OBVIOUS
    <3>4. Len(Q) = 1
      BY <3>2, <3>3
    <3>5. 1 = x + Len(F)
      BY <3>4, <1>3, <1>9
    <3> QED
      BY <3>5, <1>7, <1>8
  <2>3. i < Packets(n)
    BY <2>2, <1>1, <1>5
  <2>4. b + Len(P) = i * ChunkSize
    BY <2>3, <1>3
  <2>5. stringInsertCount' = i + x
    BY <2>1, <1>1, <1>2, <1>5, <1>8
  <2>6. Middle
    BY <2>1, <2>4, <2>5, <1>9, <1>10, <1>11
  <2> QED
    BY <2>2, <2>6
<1>14. ASSUME NEW d \in Nat, ReadCuts(B, P, Q, d)
       PROVE  i = Packets(n) /\ Last
  <2>1. /\ stringInsertCount' = 0
        /\ messageReceived' = TRUE
        /\ d \in Delimiters(Q)
        /\ accumulatedBuffer' \in Seq(Pieces)
        /\ Len(accumulatedBuffer') = Len(B) + Len(P) - d - 1
        /\ fullMessage' \in Seq(Pieces)
        /\ Len(fullMessage') = d - 1
        /\ \A j \in 1..(d - 1) : fullMessage'[j] = Q[j]
    BY <1>14 DEF ReadCuts, Cut
  <2>2. i = Packets(n) /\ d = Len(Q) - 1
    <3>1. Delimiters(B) \subseteq {Len(B) - 1} /\ Continues(n, i, B)
      BY <1>6
    <3>2. ~ InnerDelimiter(n)
      BY <1>2
    <3>3. n \in Messages /\ i \in 1..Packets(n) /\ Joined(B, Packet(n, i), Q)
      BY <1>1 DEF P
    <3>4. d \in Delimiters(Q) /\ d \notin Delimiters(B)
      BY <2>1, <1>6
    <3> QED
      BY <3>1, <3>2, <3>3, <3>4, DelimiterPlace
  <2>3. Empty'
    <3>1. Len(accumulatedBuffer') = 0
      BY <2>1, <2>2, <1>4
    <3>2. accumulatedBuffer' = <<>>
      BY <3>1, <2>1, EmptySeq
    <3> QED
      BY <3>2, <2>1 DEF Empty
  <2>4. CASE x = 0
    <3>1. Len(fullMessage') = Len(F) - 2 /\ d - 1 = Len(F) - 2
      BY <2>1, <2>2, <2>4, <1>3, <1>4, <1>7, <1>9
    <3>2. \A j \in 1..Len(fullMessage') : fullMessage'[j] = F[j]
      <4> TAKE j \in 1..Len(fullMessage')
      <4>1. j \in 1..(d - 1) /\ j \in 1..(b + Len(P)) /\ x + j = j
        BY <3>1, <2>1, <2>2, <2>4, <1>3, <1>7
      <4> QED
        BY <4>1, <2>1, <1>10
    <3>3. fullMessage' = Body[n]
      BY <3>1, <3>2, <2>1, <1>1, BodyRead DEF F
    <3>4. n \in Verified(fullMessage')
      BY <3>3, <1>1 DEF Verified
    <3>5. Accepted'
      BY <3>4, <2>1 DEF Accepted
    <3> QED
      BY <3>5, <2>2, <2>4
  <2>5. CASE x # 0
    BY <2>2, <2>3, <2>5
  <2> QED
    BY <2>4, <2>5
<1>15. i = Packets(n) => ~ (i < Packets(n))
  BY <1>5
<1> QED
  BY <1>1, <1>12, <1>13, <1>14, <1>15

\* A whole frame left in the buffer is taken with the next frame's first packet.
LEMMA HeldFrameRead ==
    ASSUME TypeInv, NEW t \in Trackers, ReadPacket(t), Plain(t),
           air[t].next = 1, stringInsertCount = 0,
           NEW m \in Messages, accumulatedBuffer = Frame(m)
    PROVE  Accepted'
<1> DEFINE n == air[t].msg
           P == Packet(n, air[t].next)
           B == accumulatedBuffer
           Q == B \o P
<1>1. /\ n \in Messages /\ air[t].next \in 1..Packets(n) /\ Joined(B, P, Q)
      /\ ReadOverflows \/ ReadAppends(Q) \/ \E d \in Nat : ReadCuts(B, P, Q, d)
  BY Reading
<1>2. /\ Len(B) \in Nat /\ Len(P) \in Nat /\ Len(P) >= 1 /\ Len(Q) = Len(B) + Len(P)
      /\ \A j \in 1..(Len(B) + Len(P)) : Q[j] = IF j <= Len(B) THEN B[j] ELSE P[j - Len(B)]
  BY <1>1, LoRaAssumption DEF Joined
<1>3. /\ Delimiters(B) \subseteq {Len(B) - 1} /\ Continues(n, air[t].next, B)
      /\ ~ InnerDelimiter(n)
  BY DEF Plain, Backlog, Continues
<1>4. B[Len(B) - 1] = Bar /\ B[Len(B)] = Bar /\ Len(B) > 2
  <2>1. /\ Len(Body[m]) \in Nat \ {0} /\ Len(B) = Len(Body[m]) + 2
        /\ B[Len(Body[m]) + 1] = Bar /\ B[Len(Body[m]) + 2] = Bar
    BY FrameFacts
  <2> HIDE DEF B
  <2>2. Len(B) - 1 = Len(Body[m]) + 1 /\ Len(B) > 2
    BY <2>1
  <2> QED
    BY <2>1, <2>2
<1>5. stringInsertCount # MAX_INSERTS
  <2>1. Packets(m) \in Nat \ {0} /\ Packets(m) <= MAX_INSERTS /\ MAX_INSERTS \in Nat
    BY PacketCount, LoRaAssumption
  <2> QED
    BY <2>1
<1>6. B = Frame(m)
  OBVIOUS
<1> HIDE DEF n, P, B, Q
<1>7. Len(B) - 1 \in Delimiters(Q)
  <2>1. /\ Len(B) - 1 \in 1..(Len(B) + Len(P)) /\ Len(B) \in 1..(Len(B) + Len(P))
        /\ Len(B) - 1 <= Len(B) /\ Len(B) <= Len(B) /\ Len(B) - 1 + 1 = Len(B)
        /\ Len(B) - 1 \in 1..(Len(B) + Len(P) - 1)
    BY <1>2, <1>4
  <2>2. Q[Len(B) - 1] = Bar /\ Q[Len(B)] = Bar
    BY <2>1, <1>2, <1>4
  <2> QED
    BY <2>1, <2>2, <1>2 DEF Delimiters
<1>8. ~ ReadOverflows /\ ~ ReadAppends(Q)
  BY <1>5, <1>7 DEF ReadOverflows, ReadAppends
<1>9. PICK d \in Nat : ReadCuts(B, P, Q, d)
  BY <1>1, <1>8
<1>10. /\ messageReceived' = TRUE
       /\ d \in Delimiters(Q) /\ \A j \in Delimiters(Q) : d <= j
       /\ fullMessage' \in Seq(Pieces)
       /\ Len(fullMessage') = d - 1
       /\ \A j \in 1..(d - 1) : fullMessage'[j] = Q[j]
  BY <1>9 DEF ReadCuts, Cut
<1>11. d = Len(B) - 1
  <2>1. d = Len(B) - 1 \/ d = Len(Q) - 1
    BY <1>1, <1>3, <1>10, DelimiterPlace DEF P
  <2>2. d <= Len(B) - 1
    BY <1>7, <1>10
  <2>3. Len(Q) - 1 > Len(B) - 1
    BY <1>2
  <2> QED
    BY <2>1, <2>2, <2>3, <1>2
<1>12. Len(fullMessage') = Len(Frame(m)) - 2 /\ d - 1 = Len(Frame(m)) - 2
  BY <1>2, <1>6, <1>10, <1>11
<1>13. \A j \in 1..Len(fullMessage') : fullMessage'[j] = Frame(m)[j]
  <2> TAKE j \in 1..Len(fullMessage')
  <2>1. j \in 1..(d - 1) /\ j \in 1..(Len(B) + Len(P)) /\ j <= Len(B)
    BY <1>2, <1>10, <1>11
  <2> QED
    BY <2>1, <1>2, <1>6, <1>10
<1>14. fullMessage' = Body[m]
  BY <1>10, <1>12, <1>13, BodyRead
<1>15. m \in Verified(fullMessage')
  BY <1>14 DEF Verified
<1> QED
  BY <1>10, <1>15 DEF Accepted

\* What is heard when a packet is read, and how the count of intact frames goes
\* on from base.
Heard(t, base) ==
    IF air[t].next = Packets(air[t].msg)
      THEN heard' = NotHearing /\ streak' = base + 1
      ELSE heard' = <<air[t].frame, air[t].next>> /\ streak' = base

LEMMA Hearing ==
    ASSUME TypeInv, HeardInv, NEW t \in Trackers, air[t] # Silent, Hear(t)
    PROVE  \/ heard' = NotHearing /\ streak' = 0
           \/ /\ Plain(t)
              /\ \/ air[t].next = 1 /\ heard = NotHearing /\ Heard(t, streak)
                 \/ air[t].next = 1 /\ Heard(t, 0)
                 \/ Mid(t) /\ Heard(t, streak)
<1>1. air[t].next \in Nat /\ air[t].next >= 1 /\ air[t].msg \in Messages
  <2>1. air[t].next \in 1..Packets(air[t].msg) /\ air[t].msg \in Messages
    BY DEF TypeInv, Types
  <2> QED
    BY <2>1, PacketCount
<1>2. CASE ~ Plain(t)
  BY <1>2 DEF Hear, Plain
<1>3. CASE Plain(t) /\ air[t].next = 1 /\ heard = NotHearing
  BY <1>3 DEF Hear, Heard, Plain
<1>4. CASE Plain(t) /\ air[t].next = 1 /\ heard # NotHearing
  BY <1>4 DEF Hear, Heard, Plain
<1>5. CASE Plain(t) /\ air[t].next # 1 /\ heard = <<air[t].frame, air[t].next - 1>>
  <2>1. Mid(t) /\ air[t].next > 1
    BY <1>1, <1>5 DEF Mid
  <2>2. Heard(t, streak)
    BY <1>5, <2>1 DEF Hear, Heard, Plain
  <2> QED
    BY <2>1, <2>2, <1>5
<1>6. CASE air[t].next # 1 /\ heard # <<air[t].frame, air[t].next - 1>>
  BY <1>6 DEF Hear
<1> QED
  BY <1>2, <1>3, <1>4, <1>5, <1>6

LEMMA HeardNext ==
    ASSUME TypeInv, HeardInv, [Next]_vars
    PROVE  HeardInv'
<1> USE DEF NotHearing
<1>1. sends \in Nat /\ heard \in Nat \X Nat /\ heard[1] <= sends
  BY LoRaAssumption DEF TypeInv, Types, HeardInv
<1>2. \A t \in Trackers : air[t] # Silent =>
        /\ air[t].frame \in Nat \ {0} /\ air[t].next \in Nat
        /\ air[t].frame <= sends
        /\ air[t].frame = heard[1] => heard[2] < air[t].next
        /\ \A u \in Trackers : air[u] # Silent /\ air[u].frame = air[t].frame => u = t
  <2>1. \A t \in Trackers : air[t] # Silent => air[t].frame \in Nat \ {0} /\ air[t].next \in Nat
    BY LoRaAssumption DEF TypeInv, AirInv
  <2> QED
    BY <2>1 DEF HeardInv
<1>3. ASSUME NEW t \in Trackers, NEW m \in Messages, Transmit(t, m)
      PROVE  HeardInv'
  <2>1. /\ sends' = sends + 1 /\ heard' = heard
        /\ air' = [air EXCEPT ![t] = [frame |-> sends + 1, next |-> 1, msg |-> m]]
    BY <1>3 DEF Transmit, historyVars
  <2>2. /\ air'[t].frame = sends + 1 /\ air'[t].next = 1
        /\ \A u \in Trackers : u # t => air'[u] = air[u]
    BY <2>1 DEF TypeInv, AirInv
  <2>3. heard' \in Nat \X Nat /\ heard'[1] <= sends'
    BY <1>1, <2>1
  <2>4. ASSUME NEW u \in Trackers, air'[u] # Silent
        PROVE  /\ air'[u].frame <= sends'
               /\ air'[u].frame = heard'[1] => heard'[2] < air'[u].next
               /\ \A v \in Trackers : air'[v] # Silent /\ air'[v].frame = air'[u].frame => v = u
    <3>1. CASE u = t
      BY <1>1, <1>2, <2>1, <2>2, <3>1
    <3>2. CASE u # t
      BY <1>1, <1>2, <2>1, <2>2, <2>4, <3>2
    <3> QED
      BY <3>1, <3>2
  <2> QED
    BY <2>3, <2>4 DEF HeardInv
<1>4. ASSUME NEW t \in Trackers, air[t] # Silent, PacketEnds(t), sends' = sends,
             heard' \in {heard, NotHearing, <<air[t].frame, air[t].next>>}
      PROVE  HeardInv'
  <2>1. /\ \A u \in Trackers : u # t => air'[u] = air[u]
        /\ \/ air'[t] = Silent
           \/ air'[t].frame = air[t].frame /\ air'[t].next = air[t].next + 1
    BY <1>4, AirAfter DEF TypeInv, Types, OnAir
  <2>2. /\ heard' \in Nat \X Nat /\ heard'[1] <= sends'
        /\ \/ heard' = heard
           \/ heard'[1] = 0
           \/ heard'[1] = air[t].frame /\ heard'[2] = air[t].next
    BY <1>1, <1>2, <1>4
  <2>3. ASSUME NEW u \in Trackers, air'[u] # Silent
        PROVE  /\ air'[u].frame <= sends'
               /\ air'[u].frame = heard'[1] => heard'[2] < air'[u].next
               /\ \A v \in Trackers : air'[v] # Silent /\ air'[v].frame = air'[u].frame => v = u
    <3>1. \A v \in Trackers : air'[v] # Silent =>
             /\ air[v] # Silent /\ air'[v].frame = air[v].frame
             /\ v # t => air'[v].next = air[v].next
             /\ v = t => air'[v].next = air[v].next + 1
      BY <1>4, <2>1
    <3>2. air'[u].frame <= sends'
      BY <1>2, <1>4, <2>3, <3>1
    <3>3. \A v \in Trackers : air'[v] # Silent /\ air'[v].frame = air'[u].frame => v = u
      BY <1>2, <2>3, <3>1
    <3>4. ASSUME air'[u].frame = heard'[1]
          PROVE  heard'[2] < air'[u].next
      <4>1. /\ air[u] # Silent /\ air'[u].frame = air[u].frame
            /\ air'[u].next = IF u = t THEN air[u].next + 1 ELSE air[u].next
        BY <2>3, <3>1
      <4>2. /\ air[u].frame \in Nat \ {0} /\ air[u].next \in Nat
            /\ air[u].frame = heard[1] => heard[2] < air[u].next
            /\ air[t].frame = air[u].frame => u = t
        <5>1. /\ air[u].frame \in Nat \ {0} /\ air[u].next \in Nat
              /\ air[u].frame = heard[1] => heard[2] < air[u].next
              /\ air[t] # Silent /\ air[t].frame = air[u].frame => t = u
          BY <1>2, <4>1, Zenon
        <5> QED
          BY <1>4, <5>1
      <4>3. heard[2] \in Nat
        BY <1>1
      <4>4. air[u].frame = heard'[1]
        BY <3>4, <4>1
      <4>5. CASE heard' = heard
        <5>1. heard[2] < air[u].next
          BY <4>2, <4>4, <4>5
        <5>2. heard[2] < air'[u].next
          BY <4>1, <4>2, <4>3, <5>1
        <5> QED
          BY <4>5, <5>2
      <4>6. CASE heard'[1] = 0
        BY <4>2, <4>4, <4>6
      <4>7. CASE heard'[1] = air[t].frame /\ heard'[2] = air[t].next
        <5>1. u = t
          BY <4>2, <4>4, <4>7
        <5>2. air[t].next \in Nat /\ air'[u].next = air[t].next + 1
          BY <4>1, <4>2, <5>1
        <5> QED
          BY <4>7, <5>2
      <4> QED
        BY <2>2, <4>5, <4>6, <4>7
    <3> QED
      BY <3>2, <3>3, <3>4
  <2> QED
    BY <2>2, <2>3 DEF HeardInv
<1>5. ASSUME NEW t \in Trackers, PacketLost(t)
      PROVE  HeardInv'
  BY <1>4, <1>5 DEF PacketLost, historyVars
<1>6. ASSUME NEW t \in Trackers, ReadPacket(t)
      PROVE  HeardInv'
  <2>1. air[t] # Silent /\ PacketEnds(t) /\ Hear(t) /\ sends' = sends
    BY <1>6 DEF ReadPacket
  <2>2. heard' \in {heard, NotHearing, <<air[t].frame, air[t].next>>}
    BY <2>1, Hearing DEF Heard
  <2> QED
    BY <1>4, <2>1, <2>2
<1>7. CASE \/ BeginLoRa \/ ProcessEmpty \/ ProcessFails
           \/ \E m \in Messages : ProcessMessage(m)
           \/ ListenAgain \/ UNCHANGED vars
  <2>1. air' = air /\ sends' = sends /\ heard' = heard
    BY <1>7 DEF BeginLoRa, ProcessEmpty, ProcessFails, ProcessMessage, ListenAgain,
                radioVars, historyVars, vars
  <2> QED
    BY <2>1 DEF HeardInv
<1> QED
  BY <1>3, <1>5, <1>6, <1>7 DEF Next

\* After a read nobody's frame but the one just read is under way.
LEMMA MidAfter ==
    ASSUME TypeInv, HeardInv, HeardInv', NEW t \in Trackers, air[t] # Silent, PacketEnds(t),
           NEW u \in Trackers, Mid(u)',
           heard' = NotHearing \/ heard' = <<air[t].frame, air[t].next>>
    PROVE  /\ u = t /\ heard' = <<air[t].frame, air[t].next>>
           /\ air[t].next < Packets(air[t].msg)
           /\ air'[t].msg = air[t].msg /\ air'[t].next = air[t].next + 1
           /\ air'[t].next - 1 = air[t].next
<1>1. /\ \A v \in Trackers : v # t => air'[v] = air[v]
      /\ \/ air'[t] = Silent
         \/ /\ air[t].next < Packets(air[t].msg) /\ air'[t].msg = air[t].msg
            /\ air'[t].frame = air[t].frame /\ air'[t].next = air[t].next + 1
  BY AirAfter DEF TypeInv, Types, OnAir
<1>2. air'[u] # Silent /\ heard' = <<air'[u].frame, air'[u].next - 1>>
  BY DEF Mid
<1>3. /\ air[t].frame \in Nat \ {0} /\ air[t].next \in Nat
      /\ air'[u].frame \in Nat \ {0}
  <2>1. \A v \in Trackers : air[v] # Silent => air[v].frame \in Nat \ {0} /\ air[v].next \in Nat
    BY LoRaAssumption DEF TypeInv, AirInv
  <2> QED
    BY <2>1, <1>1, <1>2
<1>4. heard' = <<air[t].frame, air[t].next>> /\ air'[u].frame = air[t].frame
  BY <1>2, <1>3 DEF NotHearing
<1>5. u = t
  <2>1. CASE u # t
    <3>1. air[u] # Silent /\ air[u].frame = air[t].frame
      BY <2>1, <1>1, <1>2, <1>4
    <3> QED
      BY <3>1 DEF HeardInv
  <2> QED
    BY <2>1
<1> QED
  BY <1>1, <1>2, <1>3, <1>4, <1>5

\* What the buffer must be like for the packet that t's frame goes on with, when
\* base intact frames came before it.
Ready(t, base) ==
    /\ base = 0 => /\ Continues(air[t].msg, air[t].next, accumulatedBuffer)
                   /\ air[t].next # 1 /\ accumulatedBuffer = <<>> => stringInsertCount = 0
    /\ base = 1 => \/ SecondFrame(t)
                   \/ /\ air[t].next = 1 /\ stringInsertCount = 0
                      /\ \E m \in Messages : accumulatedBuffer = Frame(m)
    /\ base = 2 => ThirdFrame(t)

LEMMA ReadyAtStart ==
    ASSUME TypeInv, NEW t \in Trackers, air[t].next = 1,
           streak = 1 => AfterFirst, streak = 2 => Empty
    PROVE  Ready(t, streak) /\ Ready(t, 0)
<1>1. ReadSoFar(t) = 0
  BY LoRaAssumption DEF ReadSoFar
<1>2. Len(<<>>) = 0 /\ Len(<<Bar>>) = 1 /\ <<Bar>>[1] = Bar
  OBVIOUS
<1>3. Continues(air[t].msg, air[t].next, accumulatedBuffer)
  BY DEF Continues
<1>4. Empty => Aligned(t, 0) /\ stringInsertCount = air[t].next - 1
  BY <1>1, <1>2 DEF Empty, Aligned
<1>5. Empty => SecondFrame(t) /\ ThirdFrame(t)
  BY <1>4 DEF SecondFrame, ThirdFrame
<1>6. accumulatedBuffer = <<Bar>> /\ stringInsertCount = 1 => SecondFrame(t)
  <2> SUFFICES ASSUME accumulatedBuffer = <<Bar>>, stringInsertCount = 1 PROVE SecondFrame(t)
    OBVIOUS
  <2>1. Len(accumulatedBuffer) = 1 /\ accumulatedBuffer[1] = Bar
    BY <1>2, Zenon
  <2>2. Aligned(t, 1) /\ stringInsertCount = air[t].next - 1 + 1
    BY <2>1, <1>1 DEF Aligned
  <2> QED
    BY <2>2 DEF SecondFrame
<1> QED
  BY <1>3, <1>5, <1>6 DEF Ready, AfterFirst

LEMMA ReadyInside ==
    ASSUME TypeInv, NEW t \in Trackers, air[t].next > 1,
           streak = 0 => FirstFrame(t),
           streak = 1 => SecondFrame(t),
           streak = 2 => ThirdFrame(t)
    PROVE  Ready(t, streak)
  BY DEF Ready, FirstFrame, Continues, ReadSoFar

\* One more packet of an intact frame.
LEMMA IntactRead ==
    ASSUME TypeInv, HeardInv, HeardInv', NEW t \in Trackers, ReadPacket(t), Plain(t),
           NEW base \in 0..2, Heard(t, base), Ready(t, base)
    PROVE  SyncInv'
<1> DEFINE n == air[t].msg
           i == air[t].next
<1>1. /\ n \in Messages /\ i \in 1..Packets(n) /\ Packets(n) \in Nat
  BY Reading, PacketCount
<1>2. messageReceived' => stringInsertCount' = 0
  <2>1. \/ ReadOverflows
        \/ ReadAppends(accumulatedBuffer \o Packet(n, i))
        \/ \E d \in Nat : ReadCuts(accumulatedBuffer, Packet(n, i), accumulatedBuffer \o Packet(n, i), d)
    BY Reading
  <2> QED
    BY <2>1 DEF ReadOverflows, ReadAppends, ReadCuts
<1>3. air[t] # Silent /\ PacketEnds(t)
  BY DEF ReadPacket
<1>4. heard' = NotHearing \/ heard' = <<air[t].frame, i>>
  BY DEF Heard
<1>5. ASSUME NEW u \in Trackers, Mid(u)'
      PROVE  /\ u = t /\ i < Packets(n)
             /\ air'[t].msg = n /\ air'[t].next - 1 = i
  BY <1>3, <1>4, <1>5, MidAfter
<1>6. CASE i = Packets(n)
  <2>1. heard' = NotHearing /\ streak' = base + 1
    BY <1>6 DEF Heard
  <2>2. \A u \in Trackers : ~ Mid(u)'
    BY <1>1, <1>5, <1>6
  <2>3. CASE base = 0
    <3>1. AfterFirst'
      BY <2>3, <1>6, FirstFrameRead DEF Ready
    <3> QED
      BY <3>1, <2>1, <2>2, <2>3, <1>2 DEF SyncInv
  <2>4. CASE base = 1
    <3>1. CASE SecondFrame(t)
      <4>1. PICK x \in {0, 1} : Aligned(t, x) /\ stringInsertCount = i - 1 + x
        BY <3>1 DEF SecondFrame
      <4>2. IF x = 0 THEN Accepted' ELSE Empty'
        BY <4>1, <1>6, AlignedRead
      <4> QED
        BY <4>2, <2>1, <2>2, <2>4, <1>2 DEF SyncInv
    <3>2. CASE ~ SecondFrame(t)
      <4>1. PICK m \in Messages : accumulatedBuffer = Frame(m)
        BY <2>4, <3>2 DEF Ready
      <4>2. i = 1 /\ stringInsertCount = 0
        BY <2>4, <3>2 DEF Ready
      <4>3. Accepted'
        BY <4>1, <4>2, HeldFrameRead
      <4> QED
        BY <4>3, <2>1, <2>2, <2>4, <1>2 DEF SyncInv
    <3> QED
      BY <3>1, <3>2
  <2>5. CASE base = 2
    <3>1. Aligned(t, 0) /\ stringInsertCount = i - 1
      BY <2>5 DEF Ready, ThirdFrame
    <3>2. stringInsertCount = i - 1 + 0
      BY <3>1, <1>1
    <3>3. Accepted'
      BY <3>1, <3>2, <1>6, AlignedRead
    <3> QED
      BY <3>3, <2>1, <2>2, <2>5, <1>2 DEF SyncInv
  <2> QED
    BY <2>3, <2>4, <2>5
<1>7. CASE i # Packets(n)
  <2>1. heard' = <<air[t].frame, i>> /\ streak' = base
    BY <1>7 DEF Heard
  <2>2. i < Packets(n)
    BY <1>1, <1>7
  <2>3. heard' # NotHearing
    <3>1. air[t].frame # 0
      BY <1>3 DEF TypeInv, AirInv
    <3> QED
      BY <2>1, <3>1 DEF NotHearing
  <2>4. ASSUME NEW u \in Trackers, Mid(u)'
        PROVE  u = t /\ air'[t].msg = n /\ ReadSoFar(u)' = i * ChunkSize /\ air'[t].next - 1 = i
    BY <1>5, <2>4 DEF ReadSoFar
  <2>5. CASE base = 0
    <3>1. /\ Delimiters(accumulatedBuffer') = {}
          /\ accumulatedBuffer' = <<>> => stringInsertCount' = 0
          /\ accumulatedBuffer' # <<>> =>
               accumulatedBuffer'[Len(accumulatedBuffer')] = Frame(n)[i * ChunkSize]
      BY <2>2, <2>5, FirstFrameRead DEF Ready
    <3>2. ASSUME NEW u \in Trackers, Mid(u)'
          PROVE  FirstFrame(u)'
      BY <2>4, <3>1, <3>2 DEF FirstFrame
    <3> QED
      BY <3>2, <2>1, <2>3, <2>5, <1>2 DEF SyncInv
  <2>6. CASE base = 1
    <3>1. CASE SecondFrame(t)
      <4>1. PICK x \in {0, 1} : Aligned(t, x) /\ stringInsertCount = i - 1 + x
        BY <3>1 DEF SecondFrame
      <4>2. /\ Len(accumulatedBuffer') = x + i * ChunkSize
            /\ x = 1 => accumulatedBuffer'[1] = Bar
            /\ \A j \in 1..(i * ChunkSize) : accumulatedBuffer'[x + j] = Frame(n)[j]
            /\ stringInsertCount' = i + x
        BY <4>1, <2>2, AlignedRead
      <4>3. ASSUME NEW u \in Trackers, Mid(u)'
            PROVE  SecondFrame(u)'
        <5>1. u = t /\ air'[u].msg = n /\ ReadSoFar(u)' = i * ChunkSize /\ air'[u].next - 1 = i
          BY <2>4, <4>3
        <5>2. Aligned(u, x)'
          BY <4>2, <5>1 DEF Aligned
        <5>3. stringInsertCount' = air'[u].next - 1 + x
          BY <4>2, <5>1
        <5> QED
          BY <5>2, <5>3 DEF SecondFrame
      <4> QED
        BY <4>3, <2>1, <2>3, <2>6, <1>2 DEF SyncInv
    <3>2. CASE ~ SecondFrame(t)
      <4>1. PICK m \in Messages : accumulatedBuffer = Frame(m)
        BY <2>6, <3>2 DEF Ready
      <4>2. i = 1 /\ stringInsertCount = 0
        BY <2>6, <3>2 DEF Ready
      <4>3. Accepted'
        BY <4>1, <4>2, HeldFrameRead
      <4> QED
        BY <4>3, <2>1, <2>3, <2>6, <1>2 DEF SyncInv
    <3> QED
      BY <3>1, <3>2
  <2>7. CASE base = 2
    <3>1. Aligned(t, 0) /\ stringInsertCount = i - 1
      BY <2>7 DEF Ready, ThirdFrame
    <3>2. stringInsertCount = i - 1 + 0
      BY <3>1, <1>1
    <3>3. /\ Len(accumulatedBuffer') = 0 + i * ChunkSize
          /\ \A j \in 1..(i * ChunkSize) : accumulatedBuffer'[0 + j] = Frame(n)[j]
          /\ stringInsertCount' = i + 0
      BY <3>1, <3>2, <2>2, AlignedRead
    <3>4. ASSUME NEW u \in Trackers, Mid(u)'
          PROVE  ThirdFrame(u)'
      <4>1. u = t /\ air'[u].msg = n /\ ReadSoFar(u)' = i * ChunkSize /\ air'[u].next - 1 = i
        BY <2>4, <3>4
      <4>2. Aligned(u, 0)'
        BY <3>3, <4>1 DEF Aligned
      <4>3. stringInsertCount' = air'[u].next - 1
        BY <3>3, <4>1, <1>1
      <4> QED
        BY <4>2, <4>3 DEF ThirdFrame
    <3> QED
      BY <3>4, <2>1, <2>3, <2>7, <1>2 DEF SyncInv
  <2> QED
    BY <2>5, <2>6, <2>7
<1> QED
  BY <1>6, <1>7

\* Any packet: of an intact frame, or one that breaks the chain.
LEMMA SyncRead ==
    ASSUME ResyncInv, NEW t \in Trackers, ReadPacket(t)
    PROVE  SyncInv'
<1>1. TypeInv /\ HeardInv /\ SyncInv
  BY DEF ResyncInv
<1>2. HeardInv'
  BY <1>1, HeardNext DEF Next
<1>3. air[t] # Silent /\ PacketEnds(t) /\ Hear(t) /\ ~ messageReceived
  BY DEF ReadPacket, MayRead
<1>4. streak \in 0..2 /\ ~ Accepted
  <2>1. ~ Accepted
    BY <1>3 DEF Accepted
  <2>2. streak \in 0..3 /\ streak # 3
    BY <1>1, <2>1 DEF SyncInv
  <2> QED
    BY <2>1, <2>2
<1>5. CASE heard' = NotHearing /\ streak' = 0
  <2>1. messageReceived' => stringInsertCount' = 0
    <3>1. \/ ReadOverflows
          \/ ReadAppends(accumulatedBuffer \o Packet(air[t].msg, air[t].next))
          \/ \E d \in Nat : ReadCuts(accumulatedBuffer, Packet(air[t].msg, air[t].next),
                                     accumulatedBuffer \o Packet(air[t].msg, air[t].next), d)
      BY <1>1, Reading
    <3> QED
      BY <3>1 DEF ReadOverflows, ReadAppends, ReadCuts
  <2>2. ASSUME NEW u \in Trackers, Mid(u)'
        PROVE  FALSE
    <3>1. heard' = <<air[t].frame, air[t].next>>
      BY <1>1, <1>2, <1>3, <1>5, <2>2, MidAfter
    <3>2. air[t].frame # 0
      BY <1>1, <1>3 DEF TypeInv, AirInv
    <3> QED
      BY <1>5, <3>1, <3>2 DEF NotHearing
  <2> QED
    BY <1>5, <2>1, <2>2 DEF SyncInv
<1>6. CASE Plain(t) /\ air[t].next = 1 /\ heard = NotHearing /\ Heard(t, streak)
  <2>1. (streak = 1 => AfterFirst) /\ (streak = 2 => Empty)
    BY <1>1, <1>4, <1>6 DEF SyncInv
  <2>2. Ready(t, streak)
    BY <1>1, <1>6, <2>1, ReadyAtStart
  <2> QED
    BY <1>1, <1>2, <1>4, <1>6, <2>2, IntactRead
<1>7. CASE Plain(t) /\ air[t].next = 1 /\ Heard(t, 0)
  <2>1. Ready(t, 0)
    BY <1>7 DEF Ready, Continues
  <2> QED
    BY <1>1, <1>2, <1>7, <2>1, IntactRead
<1>8. CASE Plain(t) /\ Mid(t) /\ Heard(t, streak)
  <2>1. /\ streak = 0 => FirstFrame(t)
        /\ streak = 1 => SecondFrame(t)
        /\ streak = 2 => ThirdFrame(t)
    BY <1>1, <1>4, <1>8 DEF SyncInv
  <2>2. Ready(t, streak)
    BY <1>1, <1>8, <2>1, ReadyInside DEF Mid
  <2> QED
    BY <1>1, <1>2, <1>4, <1>8, <2>2, IntactRead
<1> QED
  BY <1>1, <1>3, <1>5, <1>6, <1>7, <1>8, Hearing

\* What happens on the air alone: no frame that is under way afterwards was not
\* under way before.
LEMMA SyncAir ==
    ASSUME SyncInv, UNCHANGED <<messageReceived, accumulatedBuffer, fullMessage,
                                stringInsertCount, heard, streak>>,
           \A u \in Trackers : Mid(u)' => air'[u] = air[u]
    PROVE  SyncInv'
<1>1. Accepted' = Accepted /\ Empty' = Empty /\ AfterFirst' = AfterFirst
  BY DEF Accepted, Empty, AfterFirst
<1>2. ASSUME NEW u \in Trackers, Mid(u)'
      PROVE  /\ Mid(u)
             /\ FirstFrame(u) => FirstFrame(u)'
             /\ SecondFrame(u) => SecondFrame(u)'
             /\ ThirdFrame(u) => ThirdFrame(u)'
  <2>1. air'[u] = air[u] /\ UNCHANGED <<accumulatedBuffer, stringInsertCount, heard>>
    BY <1>2
  <2>2. Mid(u)
    BY <1>2, <2>1 DEF Mid
  <2>3. ReadSoFar(u)' = ReadSoFar(u)
    BY <2>1 DEF ReadSoFar
  <2>4. \A x \in {0, 1} : Aligned(u, x) => Aligned(u, x)'
    BY <2>1, <2>3 DEF Aligned
  <2>5. SecondFrame(u) => SecondFrame(u)'
    BY <2>1, <2>4 DEF SecondFrame
  <2>6. ThirdFrame(u) => ThirdFrame(u)'
    BY <2>1, <2>4 DEF ThirdFrame
  <2>7. FirstFrame(u) => FirstFrame(u)'
    BY <2>1, <2>3 DEF FirstFrame
  <2> QED
    BY <2>2, <2>5, <2>6, <2>7
<1>3. ASSUME NEW u \in Trackers, Mid(u)'
      PROVE  /\ streak' = 0 => FirstFrame(u)'
             /\ streak' = 1 /\ ~ Accepted' => SecondFrame(u)'
             /\ streak' = 2 => ThirdFrame(u)'
  <2>1. /\ streak = 0 => FirstFrame(u)
        /\ streak = 1 /\ ~ Accepted => SecondFrame(u)
        /\ streak = 2 => ThirdFrame(u)
    BY <1>2, <1>3 DEF SyncInv
  <2> QED
    BY <1>1, <1>2, <1>3, <2>1
<1> QED
  BY <1>1, <1>3 DEF SyncInv

LEMMA SyncNext ==
    ASSUME ResyncInv, [Next]_vars
    PROVE  SyncInv'
<1>1. TypeInv /\ HeardInv /\ SyncInv
  BY DEF ResyncInv
<1>2. Delimiters(<<>>) = {}
  BY DEF Delimiters
<1>3. ASSUME NEW t \in Trackers, NEW m \in Messages, Transmit(t, m)
      PROVE  SyncInv'
  <2>1. /\ UNCHANGED <<messageReceived, accumulatedBuffer, fullMessage,
                       stringInsertCount, heard, streak>>
        /\ air' = [air EXCEPT ![t] = [frame |-> sends + 1, next |-> 1, msg |-> m]]
    BY <1>3 DEF Transmit, receiverVars, historyVars
  <2>2. air'[t].next = 1 /\ \A u \in Trackers : u # t => air'[u] = air[u]
    BY <1>1, <2>1 DEF TypeInv, AirInv
  <2>3. \A u \in Trackers : Mid(u)' => air'[u] = air[u]
    BY <2>2 DEF Mid
  <2> QED
    BY <1>1, <2>1, <2>3, SyncAir
<1>4. ASSUME NEW t \in Trackers, PacketLost(t)
      PROVE  SyncInv'
  <2>1. /\ air[t] # Silent /\ PacketEnds(t)
        /\ UNCHANGED <<messageReceived, accumulatedBuffer, fullMessage,
                       stringInsertCount, heard, streak>>
    BY <1>4 DEF PacketLost, receiverVars, historyVars
  <2>2. /\ \A u \in Trackers : u # t => air'[u] = air[u]
        /\ \/ air'[t] = Silent
           \/ air'[t].frame = air[t].frame /\ air'[t].next = air[t].next + 1
    BY <1>1, <2>1, AirAfter DEF TypeInv, Types, OnAir
  <2>3. ~ Mid(t)'
    <3> SUFFICES ASSUME Mid(t)' PROVE FALSE
      OBVIOUS
    <3>1. air'[t] # Silent /\ heard = <<air'[t].frame, air'[t].next - 1>>
      BY <2>1 DEF Mid
    <3>2. air[t].next \in Nat
      BY <1>1, <2>1 DEF TypeInv, AirInv
    <3>3. heard = <<air[t].frame, air[t].next>>
      BY <2>2, <3>1, <3>2
    <3>4. heard[1] = air[t].frame /\ heard[2] = air[t].next
      BY <3>3
    <3>5. heard[2] < air[t].next
      BY <1>1, <2>1, <3>4 DEF HeardInv
    <3> QED
      BY <3>2, <3>4, <3>5
  <2>4. \A u \in Trackers : Mid(u)' => air'[u] = air[u]
    BY <2>2, <2>3
  <2> QED
    BY <1>1, <2>1, <2>4, SyncAir
<1>5. ASSUME NEW t \in Trackers, ReadPacket(t)
      PROVE  SyncInv'
  BY <1>5, SyncRead
<1>6. CASE BeginLoRa \/ ListenAgain \/ UNCHANGED vars
  <2>1. UNCHANGED <<messageReceived, accumulatedBuffer, fullMessage,
                    stringInsertCount, heard, streak, air>>
    BY <1>6 DEF BeginLoRa, ListenAgain, vars, receiverVars, radioVars, historyVars
  <2> QED
    BY <1>1, <2>1, SyncAir
<1>7. CASE ProcessEmpty
  <2>1. /\ messageReceived /\ fullMessage = <<>>
        /\ accumulatedBuffer' = <<>> /\ messageReceived' = FALSE
        /\ stringInsertCount' = stringInsertCount
        /\ air' = air /\ heard' = heard /\ streak' = streak
    BY <1>7 DEF ProcessEmpty, radioVars, historyVars
  <2>2. stringInsertCount = 0
    BY <1>1, <2>1 DEF SyncInv
  <2>3. ~ Accepted
    <3>1. Len(<<>>) = 0
      OBVIOUS
    <3>2. \A m \in Messages : Body[m] # <<>>
      <4>1. \A m \in Messages : Len(Body[m]) > 0
        BY LoRaAssumption
      <4>2. ~ (0 > 0)
        OBVIOUS
      <4> QED
        BY <3>1, <4>1, <4>2, Zenon
    <3>3. Verified(fullMessage) = {}
      BY <2>1, <3>2 DEF Verified
    <3> QED
      BY <3>3 DEF Accepted
  <2>4. ASSUME NEW u \in Trackers, Mid(u)'
        PROVE  FirstFrame(u)' /\ streak \notin {1, 2}
    <3>1. Mid(u) /\ air[u].next > 1 /\ air[u].next \in Nat
      BY <1>1, <2>1, <2>4 DEF Mid, TypeInv, AirInv
    <3>2. FirstFrame(u)'
      BY <1>2, <2>1, <2>2 DEF FirstFrame
    <3>3. streak = 1 => SecondFrame(u)
      BY <1>1, <2>3, <3>1 DEF SyncInv
    <3>4. streak = 2 => ThirdFrame(u)
      BY <1>1, <3>1 DEF SyncInv
    <3>5. ~ SecondFrame(u) /\ ~ ThirdFrame(u)
      BY <2>2, <3>1 DEF SecondFrame, ThirdFrame
    <3> QED
      BY <3>2, <3>3, <3>4, <3>5
  <2>5. streak' \in 0..3 /\ streak' # 3
    BY <1>1, <2>1, <2>3 DEF SyncInv
  <2>6. Empty' /\ AfterFirst'
    BY <2>1, <2>2 DEF Empty, AfterFirst
  <2> QED
    BY <2>1, <2>4, <2>5, <2>6 DEF SyncInv
<1>8. CASE ProcessFails
  <2>1. /\ Verified(fullMessage) = {} /\ messageReceived' = FALSE
        /\ UNCHANGED <<accumulatedBuffer, fullMessage, stringInsertCount, air, heard, streak>>
    BY <1>8 DEF ProcessFails, radioVars, historyVars
  <2>2. ~ Accepted /\ ~ Accepted'
    BY <2>1 DEF Accepted
  <2>3. ASSUME NEW u \in Trackers, Mid(u)'
        PROVE  /\ streak' = 0 => FirstFrame(u)'
               /\ streak' = 1 => SecondFrame(u)'
               /\ streak' = 2 => ThirdFrame(u)'
    <3>1. Mid(u)
      BY <2>1, <2>3 DEF Mid
    <3>2. /\ streak = 0 => FirstFrame(u)
          /\ streak = 1 => SecondFrame(u)
          /\ streak = 2 => ThirdFrame(u)
      BY <1>1, <2>2, <3>1 DEF SyncInv
    <3> QED
      BY <2>1, <3>2 DEF FirstFrame, SecondFrame, ThirdFrame, Aligned, ReadSoFar
  <2>4. /\ heard' = NotHearing /\ streak' = 1 => AfterFirst'
        /\ heard' = NotHearing /\ streak' = 2 => Empty'
    <3>1. (heard = NotHearing /\ streak = 1 => AfterFirst) /\ (heard = NotHearing /\ streak = 2 => Empty)
      BY <1>1, <2>2 DEF SyncInv
    <3> QED
      BY <2>1, <3>1 DEF AfterFirst, Empty
  <2>5. streak' \in 0..3 /\ streak' # 3
    BY <1>1, <2>1, <2>2 DEF SyncInv
  <2> QED
    BY <2>1, <2>3, <2>4, <2>5 DEF SyncInv
<1>9. ASSUME NEW m \in Messages, ProcessMessage(m)
      PROVE  SyncInv'
  <2>1. /\ messageReceived' = FALSE /\ accumulatedBuffer' = <<>>
        /\ stringInsertCount' = 0 /\ streak' = 0
    BY <1>9 DEF ProcessMessage, ClearReception
  <2>2. \A u \in Trackers : FirstFrame(u)'
    BY <1>2, <2>1 DEF FirstFrame
  <2> QED
    BY <2>1, <2>2 DEF SyncInv
<1> QED
  BY <1>3, <1>4, <1>5, <1>6, <1>7, <1>8, <1>9 DEF Next

LEMMA ResyncInit ==
    Init => HeardInv /\ SyncInv
<1> SUFFICES ASSUME Init PROVE HeardInv /\ SyncInv
  OBVIOUS
<1>1. /\ heard = <<0, 0>> /\ sends = 0 /\ streak = 0 /\ messageReceived = FALSE
      /\ \A t \in Trackers : air[t] = Silent
  BY DEF Init, NotHearing
<1>2. HeardInv
  BY <1>1 DEF HeardInv
<1>3. \A t \in Trackers : ~ Mid(t)
  BY <1>1 DEF Mid
<1> QED
  BY <1>1, <1>2, <1>3 DEF SyncInv

\* Whatever was lost or mixed before, with the third intact frame in a row, read
\* while no backlog waits, a message that verifies has been taken out of
\* accumulatedBuffer (WaitingForMessage::waitForMessage); frames with a delimiter
\* inside may have come before.
THEOREM ResyncCorrect == Spec => []Resynchronises
<1>1. Init => ResyncInv
  BY TypeInit, ResyncInit DEF ResyncInv
<1>2. ResyncInv /\ [Next]_vars => ResyncInv'
  BY TypeNext, HeardNext, SyncNext DEF ResyncInv
<1>3. ResyncInv => Resynchronises
  <2> SUFFICES ASSUME ResyncInv PROVE Resynchronises
    OBVIOUS
  <2>1. streak \in 0..3 /\ (streak = 3 => Accepted)
    BY DEF ResyncInv, SyncInv
  <2> QED
    BY <2>1 DEF Resynchronises, Accepted
<1> QED
  BY <1>1, <1>2, <1>3, PTL DEF Spec

=============================================================================
