--------------------------- MODULE GatewayProofs ---------------------------
(***************************************************************************)
(* The safety properties of Gateway for every set of messages, every bound *)
(* and every number of retries, from one inductive invariant; and that its *)
(* every step is a step of Forwarder or none.                              *)
(***************************************************************************)
EXTENDS GatewayRefinement, TLAPS

\* The states in which a record formatted in this round is on its way.
SendingStates == {"SendingMessageThroughEthernet", "ExchangingMessages"}

\* The states that follow an acknowledged reception, up to the end of its round.
ForwardingStates ==
    SendingStates \cup {"ConnectingEthernet", "ObtaingTimeUTCThroughEthernet",
                        "FormattingMessage", "ConnectingToMobileNetwork"}

RoundStates == ForwardingStates \cup {"SendingAck"}

-----------------------------------------------------------------------------
(***************************************************************************)
(* The inductive invariant, by parts.                                      *)
(***************************************************************************)
\* The route each state object is created with.
RouteInv ==
    /\ state \in {"SendingAck", "ConnectingEthernet", "ObtaingTimeUTCThroughEthernet",
                  "SendingMessageThroughEthernet"} => status.route = "ETHERNET"
    /\ state \in {"ConnectingToMobileNetwork", "ExchangingMessages"} =>
         status.route = "MOBILE_NETWORK"
    /\ state = "SendingMessageThroughEthernet" => retries < MAX_RETRIES

\* Hashes name records in the order of their making.
HashInv ==
    /\ prevChainHash <= nrec
    /\ \A r \in records : r.hash \in 1..nrec /\ r.prev < r.hash /\ r.boot <= boot
    /\ \A h \in answered : h <= nrec

\* While a record is on its way, the buffer, the current hash and the newest
\* record agree.
CurrentInv ==
    state \in SendingStates =>
        /\ bufferMessage = nrec
        /\ currChainHash = nrec
        /\ \E p \in records : /\ p.hash = nrec
                              /\ p.boot = boot
                              /\ p.rxn = rxn
                              /\ p.aud = Audience(status.route)

\* Where the records of this boot stand with respect to the next one.
ChainInv ==
    \A r \in records :
        r.boot = boot => /\ r.seq <= seq
                         /\ r.seq = seq <=> r.prev = prevChainHash

\* What the next record will continue.
LinkInv ==
    prevChainHash # 0 =>
        /\ prevChainHash \in answered
        /\ \E p \in records : p.hash = prevChainHash /\ p.boot = boot /\ p.seq < seq

\* What the received fields hold between reception and the end of the round.
FieldsInv ==
    state \in RoundStates =>
        \E m \in Messages :
            /\ rxType = TypeOf[m]
            /\ \A f \in FormatFields(rxType) : rx[f] = m
            /\ ack = [imei |-> m, number |-> m]
            /\ state \in ForwardingStates => [rxn |-> rxn, ack |-> ack] \in acked

\* Which records the current round has already made.
RoundInv ==
    /\ \A r \in records : r.rxn <= rxn
    /\ \A r \in records :
         r.rxn = rxn =>
            /\ state \notin {"SendingAck", "ConnectingEthernet",
                             "ObtaingTimeUTCThroughEthernet"}
            /\ state = "FormattingMessage" => status.route = "MOBILE_NETWORK"
            /\ state \in {"FormattingMessage", "ConnectingToMobileNetwork",
                          "SendingMessageThroughEthernet"} =>
                 /\ r.aud = "secondary"
                 /\ IF r.hash \in answered
                      THEN prevChainHash = r.hash /\ seq > r.seq
                      ELSE prevChainHash = r.prev /\ seq = r.seq

IInv ==
    /\ TypeOK
    /\ RouteInv
    /\ HashInv
    /\ CurrentInv
    /\ ChainInv
    /\ LinkInv
    /\ FieldsInv
    /\ RoundInv
    /\ SeqIdentifiesLink
    /\ AnsweredLink
    /\ WholeAndAcknowledged
    /\ OneRecordPerChannel
    /\ FallbackLinks

-----------------------------------------------------------------------------
(***************************************************************************)
(* Which steps move the chain.                                             *)
(***************************************************************************)
\* Only formatting a record, a server reply and a reset touch the chain, the
\* records or the set of answered records.
LEMMA ChainFrame ==
    ASSUME [Next]_vars
    PROVE  \/ FormatMessage
           \/ EthernetReceive
           \/ ExchangeServerReply
           \/ Reset
           \/ UNCHANGED <<seq, prevChainHash, currChainHash, boot, nrec, records, answered>>
<1>1. CASE UNCHANGED vars
  BY <1>1 DEF vars, chainVars, historyVars
<1>2. CASE IdlePoll
  BY <1>2 DEF IdlePoll, vars, chainVars, historyVars
<1>3. ASSUME NEW m \in Messages, WaitForMessage(m) \/ WaitForMessageUnparsed(m)
      PROVE  UNCHANGED <<seq, prevChainHash, currChainHash, boot, nrec, records, answered>>
  BY <1>3 DEF WaitForMessage, WaitForMessageUnparsed, chainVars, historyVars
<1>4. CASE Handler
  <2>1. CASE UpdatePowerStatus
    BY <2>1 DEF UpdatePowerStatus, chainVars, historyVars
  <2>2. CASE ObtainGNSSPosition
    BY <2>2 DEF ObtainGNSSPosition, chainVars, historyVars
  <2>3. CASE SendAcknowledgement
    BY <2>3 DEF SendAcknowledgement, chainVars, historyVars
  <2>4. CASE ConnectEthernetToLocalNetwork
    BY <2>4 DEF ConnectEthernetToLocalNetwork, chainVars, historyVars
  <2>5. CASE QueryUTCTimeViaRemoteServer
    BY <2>5 DEF QueryUTCTimeViaRemoteServer, chainVars, historyVars
  <2>6. CASE ConnectToMobileNetwork
    BY <2>6 DEF ConnectToMobileNetwork, chainVars, historyVars
  <2>7. CASE EthernetConnectFails
    BY <2>7 DEF EthernetConnectFails, chainVars, historyVars
  <2>8. CASE EthernetSendFails
    BY <2>8 DEF EthernetSendFails, chainVars, historyVars
  <2>9. CASE EthernetSend
    BY <2>9 DEF EthernetSend, chainVars, historyVars
  <2>10. CASE EthernetGivesUp
    BY <2>10 DEF EthernetGivesUp, chainVars, historyVars
  <2>11. CASE EthernetDisconnect
    BY <2>11 DEF EthernetDisconnect, chainVars, historyVars
  <2>12. CASE EnableTransceiver
    BY <2>12 DEF EnableTransceiver, chainVars, historyVars
  <2>13. CASE PostHTTP
    BY <2>13 DEF PostHTTP, chainVars, historyVars
  <2>14. CASE ExchangeWithoutReply
    BY <2>14 DEF ExchangeWithoutReply, EndExchange, chainVars
  <2>15. CASE ExchangeCorruptedReply
    BY <2>15 DEF ExchangeCorruptedReply, EndExchange, chainVars
  <2> QED
    BY <1>4, <2>1, <2>2, <2>3, <2>4, <2>5, <2>6, <2>7, <2>8, <2>9, <2>10, <2>11,
       <2>12, <2>13, <2>14, <2>15
       DEF Handler
<1> QED
  BY <1>1, <1>2, <1>3, <1>4 DEF Next

-----------------------------------------------------------------------------
(***************************************************************************)
(* Types and routes.                                                       *)
(***************************************************************************)
\* The type invariant needs the routes: connectionRetries stays within its
\* bound because the object that counts is only ever made for Ethernet.
LEMMA TypeStep ==
    ASSUME TypeOK, RouteInv, [Next]_vars
    PROVE  TypeOK' /\ RouteInv'
<1> USE GatewayAssumption DEF TypeOK, RouteInv, States, Statuses, Routes
<1>1. CASE UpdatePowerStatus
  BY <1>1 DEF UpdatePowerStatus, chainVars, rxVars, ackVars, ethVars, mobileVars,
         historyVars
<1>2. CASE ObtainGNSSPosition
  BY <1>2 DEF ObtainGNSSPosition, chainVars, rxVars, ackVars, ethVars, mobileVars,
         historyVars
<1>3. CASE SendAcknowledgement
  BY <1>3 DEF SendAcknowledgement, AckTriesLeft, chainVars, rxVars, ethVars,
         mobileVars
<1>4. CASE ConnectEthernetToLocalNetwork
  BY <1>4 DEF ConnectEthernetToLocalNetwork, FallBackToMobileNetwork, chainVars,
         rxVars, ackVars, ethVars, mobileVars, historyVars
<1>5. CASE QueryUTCTimeViaRemoteServer
  BY <1>5 DEF QueryUTCTimeViaRemoteServer, chainVars, rxVars, ackVars, ethVars,
         mobileVars, historyVars
<1>6. CASE ConnectToMobileNetwork
  BY <1>6 DEF ConnectToMobileNetwork, chainVars, rxVars, ackVars, ethVars,
         mobileVars, historyVars
<1>7. CASE FormatMessage
  <2> DEFINE body == [f \in FormatFields(rxType) |-> rx[f]]
             r    == [hash |-> nrec + 1, boot |-> boot, rxn |-> rxn,
                      aud |-> Audience(status.route), seq |-> seq,
                      prev |-> prevChainHash, body |-> body]
  <2>1. body \in [FormatFields(rxType) -> Messages \cup {None}]
    BY DEF FormatFields, Fields
  <2>2. body \in UNION {[FormatFields(t) -> Messages \cup {None}] : t \in RxTypes}
    BY <1>7, <2>1 DEF FormatMessage
  <2>3. Audience(status.route) \in {"main", "secondary"}
    BY DEF Audience
  <2>4. r \in Record
    BY <2>2, <2>3 DEF Record
  <2>5. records' = records \cup {r} /\ nrec' = nrec + 1 /\ currChainHash' = nrec + 1
    BY <1>7 DEF FormatMessage, AddMetaData
  <2> HIDE DEF r, body
  <2>6. records' \subseteq Record
    BY <2>4, <2>5
  <2>7. /\ state' = IF status.route = "MOBILE_NETWORK"
                      THEN "ExchangingMessages" ELSE "SendingMessageThroughEthernet"
        /\ retries' \in 0..MAX_RETRIES
        /\ state' = "SendingMessageThroughEthernet" => retries' = 0
        /\ bufferMessage' \in Nat
    BY <1>7 DEF FormatMessage
  <2> QED
    BY <1>7, <2>5, <2>6, <2>7
       DEF FormatMessage, rxVars, ackVars, mobileVars
<1>8. CASE EthernetConnectFails
  BY <1>8 DEF EthernetConnectFails, FallBackToMobileNetwork, chainVars, rxVars,
         ackVars, mobileVars, historyVars
<1>9. CASE EthernetSendFails
  BY <1>9 DEF EthernetSendFails, FallBackToMobileNetwork, chainVars, rxVars,
         ackVars, ethVars, mobileVars, historyVars
<1>10. CASE EthernetSend
  BY <1>10 DEF EthernetSend, chainVars, rxVars, ackVars, mobileVars
<1>11. CASE EthernetGivesUp
  BY <1>11 DEF EthernetGivesUp, FallBackToMobileNetwork, chainVars, rxVars,
         ackVars, mobileVars, historyVars
<1>12. CASE EthernetReceive
  BY <1>12 DEF EthernetReceive, ProgressOnHashChain, IncreaseSequenceNumber,
         rxVars, ackVars, mobileVars
<1>13. CASE EthernetDisconnect
  BY <1>13 DEF EthernetDisconnect, chainVars, rxVars, ackVars, mobileVars,
         historyVars
<1>14. CASE EnableTransceiver
  BY <1>14 DEF EnableTransceiver, chainVars, rxVars, ackVars, ethVars, historyVars
<1>15. CASE PostHTTP
  BY <1>15 DEF PostHTTP, chainVars, rxVars, ackVars, ethVars, mobileVars
<1>16. CASE ExchangeWithoutReply
  BY <1>16 DEF ExchangeWithoutReply, EndExchange, ClearStatics, chainVars, rxVars,
         ackVars, ethVars
<1>17. CASE ExchangeCorruptedReply
  BY <1>17 DEF ExchangeCorruptedReply, EndExchange, ClearStatics, chainVars,
         rxVars, ackVars, ethVars
<1>18. CASE ExchangeServerReply
  <2>1. answered' \subseteq Nat
    BY <1>18 DEF ExchangeServerReply
  <2>2. seq' \in Nat /\ prevChainHash' \in Nat /\ currChainHash' \in Nat
    BY <1>18 DEF ExchangeServerReply, ProgressOnHashChain, IncreaseSequenceNumber
  <2>3. /\ EndExchange
        /\ bufferMessage' = 0
    BY <1>18 DEF ExchangeServerReply
  <2> QED
    BY <2>1, <2>2, <2>3 DEF EndExchange, ClearStatics, rxVars, ackVars, ethVars
<1>19. ASSUME NEW m \in Messages, WaitForMessage(m)
      PROVE  TypeOK' /\ RouteInv'
  BY <1>19 DEF WaitForMessage, chainVars, ethVars, mobileVars, ParseFields,
         Fields, RxTypes
<1>20. ASSUME NEW m \in Messages, WaitForMessageUnparsed(m)
      PROVE  TypeOK' /\ RouteInv'
  BY <1>20 DEF WaitForMessageUnparsed, chainVars, ackVars, ethVars, mobileVars,
         historyVars, ParsePrefix, Fields
<1>21. CASE Reset
  <2>1. rx' \in [Fields -> Messages \cup {None}]
    BY <1>21 DEF Reset
  <2>2. /\ status' \in Statuses
        /\ rxType' \in RxTypes \cup {None}
        /\ ack' \in [imei : Messages \cup {None}, number : Messages \cup {None}]
    BY <1>21 DEF Reset, RxTypes
  <2>3. /\ boot' \in 0..MaxResets
        /\ retries' \in 0..MAX_RETRIES
        /\ chunks' \in 0..MaxChunks
        /\ ackSends' \in 0..(MAX_ACK_SEND_TRIES - 1)
    BY <1>21 DEF Reset
  <2> QED
    BY <1>21, <2>1, <2>2, <2>3 DEF Reset
<1>22. CASE IdlePoll \/ UNCHANGED vars
  <2>1. UNCHANGED <<state, status, moduleTurningOff, rx, rxType, ack, ackSends,
                    bufferMessage, seq, prevChainHash, currChainHash, retries,
                    phase, chunks, enableTransceiver, transceiver, boot, rxn,
                    nrec, records, delivered, answered, acked>>
    BY <1>22 DEF IdlePoll, vars, chainVars, rxVars, ackVars, ethVars, mobileVars,
                 historyVars
  <2> QED
    BY <2>1
<1> QED
  BY <1>1, <1>2, <1>3, <1>4, <1>5, <1>6, <1>7, <1>8, <1>9, <1>10, <1>11, <1>12,
     <1>13, <1>14, <1>15, <1>16, <1>17, <1>18, <1>19, <1>20, <1>21, <1>22
     DEF Next, Handler

-----------------------------------------------------------------------------
(***************************************************************************)
(* The hash chain.                                                         *)
(***************************************************************************)
\* The components of a record, for the provers.
LEMMA RecordFields ==
    ASSUME TypeOK, NEW r \in records
    PROVE  /\ r.hash \in Nat
           /\ r.boot \in Nat
           /\ r.rxn \in Nat
           /\ r.seq \in Nat
           /\ r.prev \in Nat
  BY DEF TypeOK, Record

\* What formatting adds.
LEMMA FormatFacts ==
    ASSUME FormatMessage
    PROVE  \E r : /\ records' = records \cup {r}
                  /\ r.hash = nrec + 1
                  /\ r.boot = boot
                  /\ r.rxn = rxn
                  /\ r.aud = Audience(status.route)
                  /\ r.seq = seq
                  /\ r.prev = prevChainHash
                  /\ r.body = [f \in FormatFields(rxType) |-> rx[f]]
<1> DEFINE r == [hash |-> nrec + 1, boot |-> boot, rxn |-> rxn,
                 aud |-> Audience(status.route), seq |-> seq, prev |-> prevChainHash,
                 body |-> [f \in FormatFields(rxType) |-> rx[f]]]
<1>1. records' = records \cup {r}
  BY DEF FormatMessage, AddMetaData
<1>2. /\ r.hash = nrec + 1
      /\ r.boot = boot
      /\ r.rxn = rxn
      /\ r.aud = Audience(status.route)
      /\ r.seq = seq
      /\ r.prev = prevChainHash
      /\ r.body = [f \in FormatFields(rxType) |-> rx[f]]
  OBVIOUS
<1> HIDE DEF r
<1> QED
  BY <1>1, <1>2, Zenon

\* A server reply, over either network: the record on its way becomes the
\* previous one and nothing else of the chain moves.
LEMMA ReplyFacts ==
    ASSUME CurrentInv, EthernetReceive \/ ExchangeServerReply
    PROVE  /\ state \in SendingStates
           /\ seq' = seq + 1
           /\ prevChainHash' = nrec
           /\ answered' = answered \cup {nrec}
           /\ UNCHANGED <<boot, rxn, nrec, records>>
  BY DEF CurrentInv, SendingStates, EthernetReceive, ExchangeServerReply,
     EndExchange,
         ProgressOnHashChain, IncreaseSequenceNumber

ChainParts ==
    HashInv /\ ChainInv /\ LinkInv /\ SeqIdentifiesLink /\ AnsweredLink

\* Every step preserves the chain's part of the invariant, together with the two
\* chain properties.
LEMMA ChainStep ==
    ASSUME TypeOK, CurrentInv, ChainParts, [Next]_vars
    PROVE  ChainParts'
<1> USE DEF ChainParts
<1>0. /\ seq \in Nat /\ prevChainHash \in Nat /\ nrec \in Nat /\ boot \in Nat
      /\ \A h \in answered : h \in Nat
      /\ \A r \in records : /\ r.hash \in Nat
                            /\ r.boot \in Nat
                            /\ r.seq \in Nat
                            /\ r.prev \in Nat
  BY RecordFields DEF TypeOK
<1>1. CASE FormatMessage
  <2>1. PICK r : /\ records' = records \cup {r}
                 /\ r.hash = nrec + 1
                 /\ r.boot = boot
                 /\ r.seq = seq
                 /\ r.prev = prevChainHash
    BY <1>1, FormatFacts
  <2>2. nrec' = nrec + 1 /\ UNCHANGED <<seq, prevChainHash, boot, answered>>
    BY <1>1 DEF FormatMessage, AddMetaData
  <2>3. HashInv'
    BY <1>0, <2>1, <2>2 DEF HashInv
  <2>4. ChainInv'
    BY <1>0, <2>1, <2>2 DEF ChainInv
  <2>5. LinkInv'
    BY <2>1, <2>2 DEF LinkInv
  <2>6. SeqIdentifiesLink'
    BY <1>0, <2>1, <2>2 DEF SeqIdentifiesLink, ChainInv
  <2>7. AnsweredLink'
    BY <1>0, <2>1, <2>2 DEF AnsweredLink, LinkInv, HashInv
  <2> QED
    BY <2>3, <2>4, <2>5, <2>6, <2>7
<1>2. CASE EthernetReceive \/ ExchangeServerReply
  <2>1. /\ state \in SendingStates
        /\ seq' = seq + 1
        /\ prevChainHash' = nrec
        /\ answered' = answered \cup {nrec}
        /\ UNCHANGED <<boot, rxn, nrec, records>>
    BY <1>2, ReplyFacts
  <2>2. PICK p \in records : p.hash = nrec /\ p.boot = boot
    BY <2>1 DEF CurrentInv
  <2>3. HashInv'
    BY <1>0, <2>1 DEF HashInv
  <2>4. ChainInv'
    BY <1>0, <2>1 DEF ChainInv, HashInv
  <2>5. LinkInv'
    BY <1>0, <2>1, <2>2 DEF LinkInv, ChainInv
  <2>6. SeqIdentifiesLink' /\ AnsweredLink'
    BY <2>1 DEF SeqIdentifiesLink, AnsweredLink
  <2> QED
    BY <2>3, <2>4, <2>5, <2>6
<1>3. CASE Reset
  <2>1. /\ boot' = boot + 1 /\ prevChainHash' = 0 /\ seq' = 0
        /\ UNCHANGED <<nrec, records, answered>>
    BY <1>3 DEF Reset
  <2> QED
    BY <1>0, <2>1 DEF HashInv, ChainInv, LinkInv, SeqIdentifiesLink, AnsweredLink
<1>4. CASE UNCHANGED <<seq, prevChainHash, currChainHash, boot, nrec, records, answered>>
  BY <1>4 DEF HashInv, ChainInv, LinkInv, SeqIdentifiesLink, AnsweredLink
<1> QED
  BY <1>1, <1>2, <1>3, <1>4, ChainFrame

\* A gateway that is sending after a step either has just formatted the record
\* or was already sending it.
LEMMA SendingFrame ==
    ASSUME [Next]_vars, state' \in SendingStates
    PROVE  \/ FormatMessage
           \/ /\ state \in SendingStates
              /\ UNCHANGED <<state, status, bufferMessage, currChainHash, boot, rxn,
                             nrec, records>>
<1> USE DEF SendingStates
<1>1. CASE IdlePoll \/ UNCHANGED vars
  BY <1>1 DEF IdlePoll, vars, chainVars, historyVars
<1>2. ASSUME NEW m \in Messages, WaitForMessage(m) \/ WaitForMessageUnparsed(m)
      PROVE  FALSE
  BY <1>2 DEF WaitForMessage, WaitForMessageUnparsed
<1>3. CASE Reset
  BY <1>3 DEF Reset
<1>4. CASE Handler
  <2>1. CASE UpdatePowerStatus
    BY <2>1 DEF UpdatePowerStatus, chainVars, historyVars
  <2>2. CASE ObtainGNSSPosition
    BY <2>2 DEF ObtainGNSSPosition, chainVars, historyVars
  <2>3. CASE SendAcknowledgement
    BY <2>3 DEF SendAcknowledgement, chainVars
  <2>4. CASE ConnectEthernetToLocalNetwork
    BY <2>4 DEF ConnectEthernetToLocalNetwork, FallBackToMobileNetwork, chainVars,
           historyVars
  <2>5. CASE QueryUTCTimeViaRemoteServer
    BY <2>5 DEF QueryUTCTimeViaRemoteServer, chainVars, historyVars
  <2>6. CASE ConnectToMobileNetwork
    BY <2>6 DEF ConnectToMobileNetwork, chainVars, historyVars
  <2>7. CASE EthernetConnectFails
    BY <2>7 DEF EthernetConnectFails, FallBackToMobileNetwork, chainVars,
           historyVars
  <2>8. CASE EthernetSendFails
    BY <2>8 DEF EthernetSendFails, FallBackToMobileNetwork, chainVars, historyVars
  <2>9. CASE EthernetSend
    BY <2>9 DEF EthernetSend, chainVars
  <2>10. CASE EthernetGivesUp
    BY <2>10 DEF EthernetGivesUp, FallBackToMobileNetwork, chainVars, historyVars
  <2>11. CASE EthernetReceive
    BY <2>11 DEF EthernetReceive, ProgressOnHashChain
  <2>12. CASE EthernetDisconnect
    BY <2>12 DEF EthernetDisconnect, chainVars, historyVars
  <2>13. CASE EnableTransceiver
    BY <2>13 DEF EnableTransceiver, chainVars, historyVars
  <2>14. CASE PostHTTP
    BY <2>14 DEF PostHTTP, chainVars
  <2>15. CASE ExchangeWithoutReply
    BY <2>15 DEF ExchangeWithoutReply, EndExchange, chainVars
  <2>16. CASE ExchangeCorruptedReply
    BY <2>16 DEF ExchangeCorruptedReply, EndExchange, chainVars
  <2>17. CASE ExchangeServerReply
    BY <2>17 DEF ExchangeServerReply, EndExchange, ProgressOnHashChain
  <2> QED
    BY <1>4, <2>1, <2>2, <2>3, <2>4, <2>5, <2>6, <2>7, <2>8, <2>9, <2>10, <2>11,
       <2>12, <2>13, <2>14, <2>15, <2>16, <2>17
       DEF Handler
<1> QED
  BY <1>1, <1>2, <1>3, <1>4 DEF Next

\* Every step keeps buffer, current hash and newest record in agreement.
LEMMA CurrentStep ==
    ASSUME TypeOK, CurrentInv, [Next]_vars
    PROVE  CurrentInv'
<1> SUFFICES ASSUME state' \in SendingStates
             PROVE  /\ bufferMessage' = nrec'
                    /\ currChainHash' = nrec'
                    /\ \E p \in records' : /\ p.hash = nrec'
                                           /\ p.boot = boot'
                                           /\ p.rxn = rxn'
                                           /\ p.aud = Audience(status.route)'
  BY DEF CurrentInv
<1>1. CASE FormatMessage
  <2>1. \E p \in records' : /\ p.hash = nrec + 1
                            /\ p.boot = boot
                            /\ p.rxn = rxn
                            /\ p.aud = Audience(status.route)
    BY <1>1, FormatFacts
  <2>2. /\ nrec' = nrec + 1 /\ bufferMessage' = nrec + 1 /\ currChainHash' = nrec + 1
        /\ UNCHANGED <<boot, rxn, status>>
    BY <1>1 DEF FormatMessage, AddMetaData
  <2> QED
    BY <2>1, <2>2 DEF Audience
<1>2. CASE /\ state \in SendingStates
           /\ UNCHANGED <<state, status, bufferMessage, currChainHash, boot, rxn,
                          nrec, records>>
  BY <1>2 DEF CurrentInv, Audience
<1> QED
  BY <1>1, <1>2, SendingFrame

-----------------------------------------------------------------------------
(***************************************************************************)
(* The received fields.                                                    *)
(***************************************************************************)
\* A message that parses writes every field its record will hold, and the two
\* its acknowledgement names.
LEMMA ParsedFields ==
    ASSUME NEW type \in RxTypes
    PROVE  FormatFields(type) \cup {"imei", "number"}
             \subseteq {DirectFields(type)[i] : i \in DOMAIN DirectFields(type)}
                         \cup StoredFields(type)
<1>1. CASE type = "LORAGNSS"
  <2>1. DirectFields(type) = <<"imei", "number", "gnss", "imu">>
    BY <1>1 DEF DirectFields
  <2>2. {"imei", "number", "gnss", "imu"} \subseteq
          {DirectFields(type)[i] : i \in DOMAIN DirectFields(type)}
    BY <2>1
  <2> QED
    BY <1>1, <2>2 DEF FormatFields, StoredFields
<1>2. CASE type = "LORALORA"
  <2>1. DirectFields(type) = <<"imei", "number", "imu">>
    BY <1>2 DEF DirectFields
  <2>2. {"imei", "number", "imu"} \subseteq
          {DirectFields(type)[i] : i \in DOMAIN DirectFields(type)}
    BY <2>1
  <2> QED
    BY <1>2, <2>2 DEF FormatFields, StoredFields
<1> QED
  BY <1>1, <1>2 DEF RxTypes

\* Between reception and the end of a round nothing rewrites the received
\* fields, and no acknowledgement is forgotten.
LEMMA FieldsFrame ==
    ASSUME [Next]_vars
    PROVE  /\ acked \subseteq acked'
           /\ state' \in RoundStates =>
                \/ \E m \in Messages : WaitForMessage(m)
                \/ SendAcknowledgement
                \/ /\ state \in RoundStates
                   /\ state' \in ForwardingStates => state \in ForwardingStates
                   /\ UNCHANGED <<rx, rxType, ack, rxn>>
<1> USE DEF RoundStates, ForwardingStates, SendingStates
<1>1. CASE IdlePoll \/ UNCHANGED vars
  BY <1>1 DEF IdlePoll, vars, rxVars, ackVars, historyVars
<1>2. ASSUME NEW m \in Messages, WaitForMessage(m) \/ WaitForMessageUnparsed(m)
      PROVE  /\ acked \subseteq acked'
             /\ state' \in RoundStates => WaitForMessage(m)
  BY <1>2 DEF WaitForMessage, WaitForMessageUnparsed, historyVars
<1>3. CASE Reset
  BY <1>3 DEF Reset
<1>4. CASE Handler
  <2>1. CASE UpdatePowerStatus
    BY <2>1 DEF UpdatePowerStatus, rxVars, ackVars, historyVars
  <2>2. CASE ObtainGNSSPosition
    BY <2>2 DEF ObtainGNSSPosition, rxVars, ackVars, historyVars
  <2>3. CASE SendAcknowledgement
    BY <2>3 DEF SendAcknowledgement, rxVars
  <2>4. CASE ConnectEthernetToLocalNetwork
    BY <2>4 DEF ConnectEthernetToLocalNetwork, FallBackToMobileNetwork, rxVars,
           ackVars, historyVars
  <2>5. CASE QueryUTCTimeViaRemoteServer
    BY <2>5 DEF QueryUTCTimeViaRemoteServer, rxVars, ackVars, historyVars
  <2>6. CASE ConnectToMobileNetwork
    BY <2>6 DEF ConnectToMobileNetwork, rxVars, ackVars, historyVars
  <2>7. CASE FormatMessage
    BY <2>7 DEF FormatMessage, rxVars, ackVars
  <2>8. CASE EthernetConnectFails
    BY <2>8 DEF EthernetConnectFails, FallBackToMobileNetwork, rxVars, ackVars,
           historyVars
  <2>9. CASE EthernetSendFails
    BY <2>9 DEF EthernetSendFails, FallBackToMobileNetwork, rxVars, ackVars,
           historyVars
  <2>10. CASE EthernetSend
    BY <2>10 DEF EthernetSend, rxVars, ackVars
  <2>11. CASE EthernetGivesUp
    BY <2>11 DEF EthernetGivesUp, FallBackToMobileNetwork, rxVars, ackVars,
           historyVars
  <2>12. CASE EthernetReceive
    BY <2>12 DEF EthernetReceive, rxVars, ackVars
  <2>13. CASE EthernetDisconnect
    BY <2>13 DEF EthernetDisconnect, rxVars, ackVars, historyVars
  <2>14. CASE EnableTransceiver
    BY <2>14 DEF EnableTransceiver, rxVars, ackVars, historyVars
  <2>15. CASE PostHTTP
    BY <2>15 DEF PostHTTP, rxVars, ackVars
  <2>16. CASE ExchangeWithoutReply
    BY <2>16 DEF ExchangeWithoutReply, EndExchange, rxVars, ackVars
  <2>17. CASE ExchangeCorruptedReply
    BY <2>17 DEF ExchangeCorruptedReply, EndExchange, rxVars, ackVars
  <2>18. CASE ExchangeServerReply
    BY <2>18 DEF ExchangeServerReply, EndExchange, rxVars, ackVars
  <2> QED
    BY <1>4, <2>1, <2>2, <2>3, <2>4, <2>5, <2>6, <2>7, <2>8, <2>9, <2>10, <2>11,
       <2>12, <2>13, <2>14, <2>15, <2>16, <2>17, <2>18
       DEF Handler
<1> QED
  BY <1>1, <1>2, <1>3, <1>4 DEF Next

\* Every step keeps the received fields of a round those of its message.
LEMMA FieldsStep ==
    ASSUME TypeOK, FieldsInv, [Next]_vars
    PROVE  FieldsInv'
<1>1. CASE state' \notin RoundStates
  BY <1>1 DEF FieldsInv
<1>2. ASSUME NEW m \in Messages, WaitForMessage(m)
      PROVE  FieldsInv'
  <2>1. /\ rxType' = TypeOf[m] /\ state' = "SendingAck"
        /\ ack' = [imei |-> rx'["imei"], number |-> rx'["number"]]
    BY <1>2 DEF WaitForMessage
  <2>2. TypeOf[m] \in RxTypes
    BY GatewayAssumption
  <2>3. FormatFields(TypeOf[m]) \subseteq Fields /\ {"imei", "number"} \subseteq Fields
    BY DEF FormatFields, Fields
  <2>4. \A f \in FormatFields(TypeOf[m]) \cup {"imei", "number"} : rx'[f] = m
    BY <1>2, <2>2, <2>3, ParsedFields DEF WaitForMessage, ParseFields
  <2>5. "SendingAck" \notin ForwardingStates
    BY DEF ForwardingStates, SendingStates
  <2> QED
    BY <2>1, <2>4, <2>5 DEF FieldsInv
<1>3. CASE SendAcknowledgement
  <2>1. /\ state = "SendingAck"
        /\ UNCHANGED <<rx, rxType, ack, rxn>>
        /\ state' \in ForwardingStates => [rxn |-> rxn, ack |-> ack] \in acked'
    BY <1>3 DEF SendAcknowledgement, rxVars, ForwardingStates, SendingStates
  <2> QED
    BY <2>1 DEF FieldsInv, RoundStates
<1>4. CASE /\ state \in RoundStates
           /\ state' \in ForwardingStates => state \in ForwardingStates
           /\ UNCHANGED <<rx, rxType, ack, rxn>>
  BY <1>4, FieldsFrame DEF FieldsInv
<1> QED
  BY <1>1, <1>2, <1>3, <1>4, FieldsFrame

\* Every step keeps the records whole and acknowledged.
LEMMA WholeStep ==
    ASSUME TypeOK, FieldsInv, WholeAndAcknowledged, [Next]_vars
    PROVE  WholeAndAcknowledged'
<1>1. acked \subseteq acked'
  BY FieldsFrame
<1>2. CASE FormatMessage
  <2>1. PICK r : /\ records' = records \cup {r}
                 /\ r.rxn = rxn
                 /\ r.body = [f \in FormatFields(rxType) |-> rx[f]]
    BY <1>2, FormatFacts
  <2>2. PICK m \in Messages :
                 /\ rxType = TypeOf[m]
                 /\ \A f \in FormatFields(rxType) : rx[f] = m
                 /\ ack = [imei |-> m, number |-> m]
                 /\ [rxn |-> rxn, ack |-> ack] \in acked
    BY <1>2 DEF FieldsInv, FormatMessage, RoundStates, ForwardingStates
  <2>3. /\ \A f \in DOMAIN r.body : r.body[f] = m
        /\ DOMAIN r.body = FormatFields(TypeOf[m])
        /\ [rxn |-> r.rxn, ack |-> [imei |-> m, number |-> m]] \in acked'
    BY <1>1, <2>1, <2>2
  <2>4. ASSUME NEW s \in records
        PROVE  \E n \in Messages :
                 /\ \A f \in DOMAIN s.body : s.body[f] = n
                 /\ DOMAIN s.body = FormatFields(TypeOf[n])
                 /\ [rxn |-> s.rxn, ack |-> [imei |-> n, number |-> n]] \in acked'
    BY <1>1, <2>4 DEF WholeAndAcknowledged
  <2> QED
    BY <2>1, <2>3, <2>4, Zenon DEF WholeAndAcknowledged
<1>3. CASE records' = records
  BY <1>1, <1>3 DEF WholeAndAcknowledged
<1> QED
  BY <1>2, <1>3, ChainFrame DEF EthernetReceive, ExchangeServerReply, EndExchange,
         Reset

-----------------------------------------------------------------------------
(***************************************************************************)
(* The records of one round.                                               *)
(***************************************************************************)
\* Before Ethernet was tried, and while the outcome of trying it still counts.
EarlyStates == {"SendingAck", "ConnectingEthernet", "ObtaingTimeUTCThroughEthernet"}
LateStates  == {"FormattingMessage", "ConnectingToMobileNetwork",
                "SendingMessageThroughEthernet"}

\* How a step that neither receives, formats, hears from the server nor resets
\* moves through a round.
LEMMA RoundFrame ==
    ASSUME RouteInv, [Next]_vars
    PROVE  \/ \E m \in Messages : WaitForMessage(m)
           \/ FormatMessage
           \/ EthernetReceive
           \/ state' \notin EarlyStates \cup LateStates /\ rxn' = rxn
           \/ /\ UNCHANGED <<rxn, records, prevChainHash, seq, answered>>
              /\ \/ state \in EarlyStates
                 \/ /\ state \in LateStates
                    /\ state' \in LateStates
                    /\ state' = "FormattingMessage" /\ status'.route = "ETHERNET" =>
                         state = "FormattingMessage" /\ status.route = "ETHERNET"
<1> USE DEF EarlyStates, LateStates, RouteInv
<1>1. CASE IdlePoll \/ UNCHANGED vars
  <2>1. UNCHANGED <<state, status, rxn, records, prevChainHash, seq, answered>>
    BY <1>1 DEF IdlePoll, vars, chainVars, historyVars
  <2> QED
    BY <2>1
<1>2. ASSUME NEW m \in Messages, WaitForMessageUnparsed(m)
      PROVE  state' \notin EarlyStates \cup LateStates /\ rxn' = rxn
  BY <1>2 DEF WaitForMessageUnparsed, historyVars
<1>3. CASE Reset
  BY <1>3 DEF Reset
<1>4. CASE Handler
  <2>1. CASE UpdatePowerStatus
    BY <2>1 DEF UpdatePowerStatus, chainVars, historyVars
  <2>2. CASE ObtainGNSSPosition
    BY <2>2 DEF ObtainGNSSPosition, chainVars, historyVars
  <2>3. CASE SendAcknowledgement
    BY <2>3 DEF SendAcknowledgement, chainVars
  <2>4. CASE ConnectEthernetToLocalNetwork
    BY <2>4 DEF ConnectEthernetToLocalNetwork, FallBackToMobileNetwork, chainVars,
           historyVars
  <2>5. CASE QueryUTCTimeViaRemoteServer
    BY <2>5 DEF QueryUTCTimeViaRemoteServer, chainVars, historyVars
  <2>6. CASE ConnectToMobileNetwork
    BY <2>6 DEF ConnectToMobileNetwork, chainVars, historyVars
  <2>7. CASE FormatMessage
    BY <2>7 DEF FormatMessage
  <2>8. CASE EthernetConnectFails
    BY <2>8 DEF EthernetConnectFails, FallBackToMobileNetwork, chainVars,
           historyVars
  <2>9. CASE EthernetSendFails
    BY <2>9 DEF EthernetSendFails, FallBackToMobileNetwork, chainVars, historyVars
  <2>10. CASE EthernetSend
    BY <2>10 DEF EthernetSend, chainVars
  <2>11. CASE EthernetGivesUp
    BY <2>11 DEF EthernetGivesUp, FallBackToMobileNetwork, chainVars, historyVars
  <2>12. CASE EthernetReceive
    BY <2>12 DEF EthernetReceive
  <2>13. CASE EthernetDisconnect
    BY <2>13 DEF EthernetDisconnect, chainVars, historyVars
  <2>14. CASE EnableTransceiver
    BY <2>14 DEF EnableTransceiver, chainVars, historyVars
  <2>15. CASE PostHTTP
    BY <2>15 DEF PostHTTP, chainVars
  <2>16. CASE ExchangeWithoutReply
    BY <2>16 DEF ExchangeWithoutReply, EndExchange, chainVars
  <2>17. CASE ExchangeCorruptedReply
    BY <2>17 DEF ExchangeCorruptedReply, EndExchange, chainVars
  <2>18. CASE ExchangeServerReply
    BY <2>18 DEF ExchangeServerReply, EndExchange
  <2> QED
    BY <1>4, <2>1, <2>2, <2>3, <2>4, <2>5, <2>6, <2>7, <2>8, <2>9, <2>10, <2>11,
       <2>12, <2>13, <2>14, <2>15, <2>16, <2>17, <2>18
       DEF Handler
<1> QED
  BY <1>1, <1>2, <1>3, <1>4 DEF Next

\* Every step preserves what is known of the current round's records.
LEMMA RoundStep ==
    ASSUME TypeOK, RouteInv, HashInv, CurrentInv, ChainInv, RoundInv,
           OneRecordPerChannel, [Next]_vars
    PROVE  RoundInv'
<1>0. /\ seq \in Nat /\ nrec \in Nat /\ rxn \in Nat
      /\ \A h \in answered : h \in Nat
      /\ \A r \in records : r.rxn \in Nat /\ r.seq \in Nat /\ r.hash \in Nat
  BY GatewayAssumption, RecordFields DEF TypeOK
<1>1. ASSUME NEW m \in Messages, WaitForMessage(m)
      PROVE  RoundInv'
  <2>1. rxn' = rxn + 1 /\ UNCHANGED records
    BY <1>1 DEF WaitForMessage
  <2> QED
    BY <1>0, <2>1 DEF RoundInv
<1>2. CASE FormatMessage
  <2>1. PICK r : /\ records' = records \cup {r}
                 /\ r.hash = nrec + 1
                 /\ r.rxn = rxn
                 /\ r.aud = Audience(status.route)
                 /\ r.seq = seq
                 /\ r.prev = prevChainHash
    BY <1>2, FormatFacts
  <2>2. /\ UNCHANGED <<seq, prevChainHash, rxn, answered, status>>
        /\ state = "FormattingMessage"
        /\ state' \in SendingStates
        /\ state' = "SendingMessageThroughEthernet" => status.route # "MOBILE_NETWORK"
    BY <1>2 DEF FormatMessage, SendingStates
  <2>3. r.hash \notin answered
    BY <1>0, <2>1 DEF HashInv
  <2>4. \A s \in records' : s.rxn <= rxn'
    BY <1>0, <2>1, <2>2 DEF RoundInv
  <2>5. ASSUME NEW s \in records', s.rxn = rxn',
               state' = "SendingMessageThroughEthernet"
        PROVE  s = r /\ r.aud = "secondary"
    BY <2>1, <2>2, <2>5 DEF RoundInv, Audience
  <2> QED
    BY <2>1, <2>2, <2>3, <2>4, <2>5 DEF RoundInv, SendingStates
<1>3. CASE EthernetReceive
  <2>1. /\ seq' = seq + 1
        /\ prevChainHash' = nrec
        /\ answered' = answered \cup {nrec}
        /\ UNCHANGED <<boot, rxn, nrec, records>>
    BY <1>3, ReplyFacts
  <2>2. state = "SendingMessageThroughEthernet" /\ UNCHANGED <<state, status>>
    BY <1>3 DEF EthernetReceive
  <2>3. status.route = "ETHERNET"
    BY <2>2 DEF RouteInv
  <2>4. PICK p \in records : /\ p.hash = nrec /\ p.boot = boot /\ p.rxn = rxn
                             /\ p.aud = "secondary"
    BY <2>2, <2>3 DEF CurrentInv, SendingStates, Audience
  <2>5. ASSUME NEW s \in records, s.rxn = rxn
        PROVE  s = p
    BY <2>2, <2>4, <2>5 DEF RoundInv, OneRecordPerChannel
  <2>6. p.seq < seq'
    BY <1>0, <2>1, <2>4 DEF ChainInv
  <2> QED
    BY <1>0, <2>1, <2>2, <2>4, <2>5, <2>6 DEF RoundInv
<1>4. CASE state' \notin EarlyStates \cup LateStates /\ rxn' = rxn
  <2>1. \A r \in records' : r.rxn <= rxn'
    <3>1. CASE FormatMessage
      BY <1>0, <1>2, <3>1 DEF RoundInv
    <3>2. CASE records' = records
      BY <1>4, <3>2 DEF RoundInv
    <3> QED
      BY <3>1, <3>2, ChainFrame DEF EthernetReceive, ExchangeServerReply,
             EndExchange, Reset
  <2> QED
    BY <1>4, <2>1 DEF RoundInv, EarlyStates, LateStates
<1>5. CASE /\ UNCHANGED <<rxn, records, prevChainHash, seq, answered>>
           /\ \/ state \in EarlyStates
              \/ /\ state \in LateStates
                 /\ state' \in LateStates
                 /\ state' = "FormattingMessage" /\ status'.route = "ETHERNET" =>
                      state = "FormattingMessage" /\ status.route = "ETHERNET"
  <2>1. \A r \in records' : r.rxn <= rxn'
    BY <1>5 DEF RoundInv
  <2>2. CASE state \in EarlyStates
    BY <1>5, <2>1, <2>2 DEF RoundInv, EarlyStates
  <2>3. CASE state \in LateStates
    <3>1. status'.route \in Routes
      BY TypeStep DEF TypeOK, Statuses
    <3> QED
      BY <1>5, <2>1, <2>2, <2>3, <3>1 DEF RoundInv, EarlyStates, LateStates,
             Routes
  <2> QED
    BY <1>5, <2>2, <2>3
<1> QED
  BY <1>1, <1>2, <1>3, <1>4, <1>5, RoundFrame

\* Only the two send actions hand something to the server.
LEMMA DeliveredFrame ==
    ASSUME [Next]_vars
    PROVE  EthernetSend \/ PostHTTP \/ UNCHANGED delivered
<1>1. CASE IdlePoll \/ UNCHANGED vars
  BY <1>1 DEF IdlePoll, vars, historyVars
<1>2. ASSUME NEW m \in Messages, WaitForMessage(m) \/ WaitForMessageUnparsed(m)
      PROVE  UNCHANGED delivered
  BY <1>2 DEF WaitForMessage, WaitForMessageUnparsed, historyVars
<1>3. CASE Reset
  BY <1>3 DEF Reset
<1>4. CASE Handler
  <2>1. CASE UpdatePowerStatus
    BY <2>1 DEF UpdatePowerStatus, historyVars
  <2>2. CASE ObtainGNSSPosition
    BY <2>2 DEF ObtainGNSSPosition, historyVars
  <2>3. CASE SendAcknowledgement
    BY <2>3 DEF SendAcknowledgement
  <2>4. CASE ConnectEthernetToLocalNetwork
    BY <2>4 DEF ConnectEthernetToLocalNetwork, historyVars
  <2>5. CASE QueryUTCTimeViaRemoteServer
    BY <2>5 DEF QueryUTCTimeViaRemoteServer, historyVars
  <2>6. CASE ConnectToMobileNetwork
    BY <2>6 DEF ConnectToMobileNetwork, historyVars
  <2>7. CASE FormatMessage
    BY <2>7 DEF FormatMessage
  <2>8. CASE EthernetConnectFails
    BY <2>8 DEF EthernetConnectFails, historyVars
  <2>9. CASE EthernetSendFails
    BY <2>9 DEF EthernetSendFails, historyVars
  <2>10. CASE EthernetGivesUp
    BY <2>10 DEF EthernetGivesUp, historyVars
  <2>11. CASE EthernetReceive
    BY <2>11 DEF EthernetReceive
  <2>12. CASE EthernetDisconnect
    BY <2>12 DEF EthernetDisconnect, historyVars
  <2>13. CASE EnableTransceiver
    BY <2>13 DEF EnableTransceiver, historyVars
  <2>14. CASE ExchangeWithoutReply
    BY <2>14 DEF ExchangeWithoutReply, EndExchange
  <2>15. CASE ExchangeCorruptedReply
    BY <2>15 DEF ExchangeCorruptedReply, EndExchange
  <2>16. CASE ExchangeServerReply
    BY <2>16 DEF ExchangeServerReply, EndExchange
  <2> QED
    BY <1>4, <2>1, <2>2, <2>3, <2>4, <2>5, <2>6, <2>7, <2>8, <2>9, <2>10, <2>11,
       <2>12, <2>13, <2>14, <2>15, <2>16
       DEF Handler
<1> QED
  BY <1>1, <1>2, <1>3, <1>4 DEF Next

\* Every step preserves the agreement of channel and audience.
LEMMA ChannelStep ==
    ASSUME TypeOK, RouteInv, CurrentInv, RoundInv, OneRecordPerChannel, [Next]_vars
    PROVE  OneRecordPerChannel'
<1>1. records \subseteq records'
  BY ChainFrame, FormatFacts DEF EthernetReceive, ExchangeServerReply,
         EndExchange, Reset
<1>2. \A d \in delivered' :
        \E r \in records' : /\ r.hash = d[2]
                            /\ r.aud = (IF d[1] = "mobile" THEN "main" ELSE "secondary")
  <2>1. CASE EthernetSend
    <3>1. \E r \in records : r.hash = bufferMessage /\ r.aud = "secondary"
      BY <2>1 DEF EthernetSend, RouteInv, CurrentInv, SendingStates, Audience
    <3>2. delivered' \subseteq delivered \cup {<<"ethernet", bufferMessage>>}
      BY <2>1 DEF EthernetSend
    <3> QED
      BY <1>1, <3>1, <3>2 DEF OneRecordPerChannel
  <2>2. CASE PostHTTP
    <3>1. \E r \in records : r.hash = bufferMessage /\ r.aud = "main"
      BY <2>2 DEF PostHTTP, RouteInv, CurrentInv, SendingStates, Audience
    <3>2. delivered' \subseteq delivered \cup {<<"mobile", bufferMessage>>}
      BY <2>2 DEF PostHTTP
    <3> QED
      BY <1>1, <3>1, <3>2 DEF OneRecordPerChannel
  <2>3. CASE UNCHANGED delivered
    BY <1>1, <2>3 DEF OneRecordPerChannel
  <2> QED
    BY <2>1, <2>2, <2>3, DeliveredFrame
<1>3. \A r, s \in records' : r.rxn = s.rxn /\ r.aud = s.aud => r = s
  <2>1. CASE FormatMessage
    <3>1. PICK r : /\ records' = records \cup {r}
                   /\ r.rxn = rxn
                   /\ r.aud = Audience(status.route)
      BY <2>1, FormatFacts
    <3>2. \A s \in records : s.rxn = rxn => s.aud # r.aud
      BY <2>1, <3>1 DEF FormatMessage, RoundInv, Audience
    <3> QED
      BY <3>1, <3>2 DEF OneRecordPerChannel
  <2>2. CASE records' = records
    BY <2>2 DEF OneRecordPerChannel
  <2> QED
    BY <2>1, <2>2, ChainFrame DEF EthernetReceive, ExchangeServerReply,
           EndExchange, Reset
<1> QED
  BY <1>2, <1>3 DEF OneRecordPerChannel

\* Every step preserves the links between the two records of one message.
LEMMA FallbackStep ==
    ASSUME TypeOK, HashInv, CurrentInv, RoundInv, FallbackLinks, [Next]_vars
    PROVE  FallbackLinks'
<1>0. /\ nrec \in Nat
      /\ \A r \in records : r.hash \in Nat /\ r.hash <= nrec
  BY RecordFields DEF TypeOK, HashInv
<1>1. CASE FormatMessage
  <2>1. PICK r : /\ records' = records \cup {r}
                 /\ r.hash = nrec + 1
                 /\ r.rxn = rxn
                 /\ r.aud = Audience(status.route)
                 /\ r.seq = seq
                 /\ r.prev = prevChainHash
    BY <1>1, FormatFacts
  <2>2. state = "FormattingMessage" /\ UNCHANGED answered
    BY <1>1 DEF FormatMessage
  <2>3. ASSUME NEW e \in records, e.rxn = r.rxn, e.aud = "secondary", r.aud = "main"
        PROVE  /\ e.hash < r.hash
               /\ IF e.hash \in answered
                    THEN r.prev = e.hash /\ r.seq > e.seq
                    ELSE r.prev = e.prev /\ r.seq = e.seq
    BY <1>0, <2>1, <2>2, <2>3 DEF RoundInv
  <2>4. ASSUME NEW m \in records, m.rxn = r.rxn, r.aud = "secondary", m.aud = "main"
        PROVE  FALSE
    BY <2>1, <2>2, <2>4 DEF RoundInv, Audience
  <2> QED
    BY <2>1, <2>2, <2>3, <2>4 DEF FallbackLinks
<1>2. CASE EthernetReceive \/ ExchangeServerReply
  <2>1. answered' = answered \cup {nrec} /\ UNCHANGED records
    BY <1>2, ReplyFacts
  <2> QED
    BY <1>0, <2>1 DEF FallbackLinks
<1>3. CASE UNCHANGED <<records, answered>>
  BY <1>3 DEF FallbackLinks
<1> QED
  BY <1>1, <1>2, <1>3, ChainFrame DEF Reset

-----------------------------------------------------------------------------
(***************************************************************************)
(* The theorems.                                                           *)
(***************************************************************************)
\* The invariant holds at power-on.
LEMMA InitIInv ==
    ASSUME Init
    PROVE  IInv
<1>1. TypeOK
  <2>1. rx \in [Fields -> Messages \cup {None}]
    BY DEF Init
  <2>2. /\ status \in Statuses
        /\ rxType \in RxTypes \cup {None}
        /\ ack \in [imei : Messages \cup {None}, number : Messages \cup {None}]
    BY DEF Init, Statuses, Routes, RxTypes
  <2>3. /\ ackSends \in 0..(MAX_ACK_SEND_TRIES - 1)
        /\ retries \in 0..MAX_RETRIES
        /\ chunks \in 0..MaxChunks
        /\ boot \in 0..MaxResets
        /\ rxn \in 0..MaxReceptions
    BY GatewayAssumption DEF Init
  <2> QED
    BY <2>1, <2>2, <2>3 DEF Init, TypeOK, States
<1>2. records = {} /\ delivered = {} /\ answered = {} /\ prevChainHash = 0 /\ nrec = 0
      /\ state = "SensingBatteryStatus"
  BY DEF Init
<1> QED
  BY <1>1, <1>2 DEF IInv, RouteInv, HashInv, CurrentInv, ChainInv, LinkInv,
         FieldsInv,
         RoundInv, SeqIdentifiesLink, AnsweredLink, WholeAndAcknowledged,
         OneRecordPerChannel, FallbackLinks, SendingStates, ForwardingStates, RoundStates

\* The invariant is inductive: it holds at power-on and every handler, every
\* reception and every reset preserves it.
THEOREM IInvariance == Spec => []IInv
<1>1. Init => IInv
  BY InitIInv
<1>2. IInv /\ [Next]_vars => IInv'
  <2> SUFFICES ASSUME IInv, [Next]_vars
               PROVE  IInv'
    OBVIOUS
  <2> USE DEF IInv
  <2>1. TypeOK' /\ RouteInv'
    BY TypeStep
  <2>2. CurrentInv'
    BY CurrentStep
  <2>3. ChainParts'
    BY ChainStep DEF ChainParts
  <2>4. FieldsInv' /\ WholeAndAcknowledged'
    BY FieldsStep, WholeStep
  <2>5. RoundInv' /\ OneRecordPerChannel' /\ FallbackLinks'
    BY RoundStep, ChannelStep, FallbackStep
  <2> QED
    BY <2>1, <2>2, <2>3, <2>4, <2>5 DEF ChainParts
<1> QED
  BY <1>1, <1>2, PTL DEF Spec

\* Every variable keeps its type, connectionRetries and the acknowledgement
\* counter within their limits included.
THEOREM TypeCorrect == Spec => []TypeOK
<1>1. IInv => TypeOK
  BY DEF IInv
<1> QED
  BY <1>1, IInvariance, PTL

\* In one boot, sequence number and predecessor identify each other.
THEOREM SeqLinkCorrect == Spec => []SeqIdentifiesLink
<1>1. IInv => SeqIdentifiesLink
  BY DEF IInv
<1> QED
  BY <1>1, IInvariance, PTL

\* Every predecessor is an answered, earlier record of the same boot.
THEOREM ChainCorrect == Spec => []AnsweredLink
<1>1. IInv => AnsweredLink
  BY DEF IInv
<1> QED
  BY <1>1, IInvariance, PTL

\* Every record is whole and of an acknowledged message.
THEOREM RecordsCorrect == Spec => []WholeAndAcknowledged
<1>1. IInv => WholeAndAcknowledged
  BY DEF IInv
<1> QED
  BY <1>1, IInvariance, PTL

\* Every delivered record names its channel, one per reception and channel.
THEOREM ChannelCorrect == Spec => []OneRecordPerChannel
<1>1. IInv => OneRecordPerChannel
  BY DEF IInv
<1> QED
  BY <1>1, IInvariance, PTL

\* The mobile record of a message replaces or continues its Ethernet record.
THEOREM FallbackCorrect == Spec => []FallbackLinks
<1>1. IInv => FallbackLinks
  BY DEF IInv
<1> QED
  BY <1>1, IInvariance, PTL

-----------------------------------------------------------------------------
(***************************************************************************)
(* What the mapping needs beyond IInv: a delivered hash leads to one       *)
(* record, that record to one message, and Ethernet is used once a round.  *)
(***************************************************************************)
HashesDistinct == \A r, s \in records : r.hash = s.hash => r = s

AckedInv ==
    /\ \A a \in acked : a.rxn <= rxn /\ (state = "SendingAck" => a.rxn # rxn)
    /\ \A a, b \in acked : a.rxn = b.rxn => a = b

\* Before the exchange has sent it, nobody has seen the record.
UnsentInv ==
    state = "SendingMessageThroughEthernet" /\ phase = "idle" =>
        \A d \in delivered : d[2] # nrec

MapInv == HashesDistinct /\ AckedInv /\ UnsentInv

\* A new record has a new hash.
LEMMA HashesStep ==
    ASSUME TypeOK, HashInv, HashesDistinct, [Next]_vars
    PROVE  HashesDistinct'
<1>1. CASE FormatMessage
  <2>1. PICK r : records' = records \cup {r} /\ r.hash = nrec + 1
    BY <1>1, FormatFacts
  <2>2. \A s \in records : s.hash \in 1..nrec /\ nrec \in Nat
    BY DEF HashInv, TypeOK
  <2>3. \A s \in records : s.hash # r.hash
    BY <2>1, <2>2
  <2> QED
    BY <2>1, <2>3 DEF HashesDistinct
<1>2. CASE records' = records
  BY <1>2 DEF HashesDistinct
<1> QED
  BY <1>1, <1>2, ChainFrame DEF EthernetReceive, ExchangeServerReply,
         EndExchange, Reset

\* Only the last repetition of an acknowledgement completes one, and a
\* reception comes before it.
LEMMA AckedFrame ==
    ASSUME [Next]_vars
    PROVE  \/ \E m \in Messages : WaitForMessage(m)
           \/ SendAcknowledgement
           \/ UNCHANGED <<acked, rxn>> /\ (state' = "SendingAck" => state = "SendingAck")
<1>1. CASE IdlePoll \/ UNCHANGED vars
  BY <1>1 DEF IdlePoll, vars, historyVars
<1>2. ASSUME NEW m \in Messages, WaitForMessageUnparsed(m)
      PROVE  UNCHANGED <<acked, rxn>> /\ (state' = "SendingAck" => state = "SendingAck")
  BY <1>2 DEF WaitForMessageUnparsed, historyVars
<1>3. CASE Reset
  BY <1>3 DEF Reset
<1>4. CASE Handler
  <2>1. CASE UpdatePowerStatus
    BY <2>1 DEF UpdatePowerStatus, historyVars
  <2>2. CASE ObtainGNSSPosition
    BY <2>2 DEF ObtainGNSSPosition, historyVars
  <2>3. CASE ConnectEthernetToLocalNetwork
    BY <2>3 DEF ConnectEthernetToLocalNetwork, FallBackToMobileNetwork, historyVars
  <2>4. CASE QueryUTCTimeViaRemoteServer
    BY <2>4 DEF QueryUTCTimeViaRemoteServer, historyVars
  <2>5. CASE ConnectToMobileNetwork
    BY <2>5 DEF ConnectToMobileNetwork, historyVars
  <2>6. CASE FormatMessage
    BY <2>6 DEF FormatMessage
  <2>7. CASE EthernetConnectFails
    BY <2>7 DEF EthernetConnectFails, FallBackToMobileNetwork, historyVars
  <2>8. CASE EthernetSendFails
    BY <2>8 DEF EthernetSendFails, FallBackToMobileNetwork, historyVars
  <2>9. CASE EthernetSend
    BY <2>9 DEF EthernetSend
  <2>10. CASE EthernetGivesUp
    BY <2>10 DEF EthernetGivesUp, FallBackToMobileNetwork, historyVars
  <2>11. CASE EthernetReceive
    BY <2>11 DEF EthernetReceive
  <2>12. CASE EthernetDisconnect
    BY <2>12 DEF EthernetDisconnect, historyVars
  <2>13. CASE EnableTransceiver
    BY <2>13 DEF EnableTransceiver, historyVars
  <2>14. CASE PostHTTP
    BY <2>14 DEF PostHTTP
  <2>15. CASE ExchangeWithoutReply \/ ExchangeCorruptedReply \/ ExchangeServerReply
    BY <2>15 DEF ExchangeWithoutReply, ExchangeCorruptedReply, ExchangeServerReply,
           EndExchange
  <2> QED
    BY <1>4, <2>1, <2>2, <2>3, <2>4, <2>5, <2>6, <2>7, <2>8, <2>9, <2>10, <2>11,
       <2>12, <2>13, <2>14, <2>15
       DEF Handler
<1> QED
  BY <1>1, <1>2, <1>3, <1>4 DEF Next

\* One acknowledgement is completed per reception.
LEMMA AckedStep ==
    ASSUME TypeOK, AckedInv, [Next]_vars
    PROVE  AckedInv'
<1>0. rxn \in Nat /\ \A a \in acked : a.rxn \in Nat
  BY DEF TypeOK
<1>1. ASSUME NEW m \in Messages, WaitForMessage(m)
      PROVE  AckedInv'
  <2>1. rxn' = rxn + 1 /\ acked' = acked
    BY <1>1 DEF WaitForMessage
  <2> QED
    BY <1>0, <2>1 DEF AckedInv
<1>2. CASE SendAcknowledgement
  <2>1. CASE AckTriesLeft
    BY <1>2, <2>1 DEF SendAcknowledgement, AckedInv
  <2>2. CASE ~AckTriesLeft
    <3> DEFINE a == [rxn |-> rxn, ack |-> ack]
    <3>1. acked' = acked \cup {a} /\ a.rxn = rxn
      BY <1>2, <2>2 DEF SendAcknowledgement
    <3> HIDE DEF a
    <3>2. state = "SendingAck" /\ state' # "SendingAck" /\ rxn' = rxn
      BY <1>2, <2>2 DEF SendAcknowledgement
    <3> QED
      BY <1>0, <3>1, <3>2 DEF AckedInv
  <2> QED
    BY <2>1, <2>2
<1>3. CASE UNCHANGED <<acked, rxn>> /\ (state' = "SendingAck" => state = "SendingAck")
  BY <1>3 DEF AckedInv
<1> QED
  BY <1>1, <1>2, <1>3, AckedFrame

\* A record that is about to be sent is new, or still unsent.
LEMMA UnsentStep ==
    ASSUME TypeOK, RouteInv, HashInv, OneRecordPerChannel, UnsentInv, [Next]_vars
    PROVE  UnsentInv'
<1> SUFFICES ASSUME state' = "SendingMessageThroughEthernet", phase' = "idle"
             PROVE  \A d \in delivered' : d[2] # nrec'
  BY DEF UnsentInv
<1>1. CASE FormatMessage
  <2>1. nrec' = nrec + 1 /\ delivered' = delivered
    BY <1>1 DEF FormatMessage, AddMetaData
  <2>2. \A d \in delivered : d[2] \in 1..nrec /\ nrec \in Nat
    BY DEF OneRecordPerChannel, HashInv, TypeOK
  <2> QED
    BY <2>1, <2>2
<1>2. CASE ~FormatMessage
  <2>1. state = "SendingMessageThroughEthernet" /\ nrec' = nrec
    BY <1>2, SendingFrame DEF SendingStates
  <2>2. ~EthernetSend /\ ~PostHTTP
    BY <2>1 DEF EthernetSend, PostHTTP
  <2>3. delivered' = delivered
    BY <2>2, DeliveredFrame
  <2>4. phase = "idle"
    <3>1. CASE IdlePoll \/ UNCHANGED vars
      BY <3>1 DEF IdlePoll, vars, ethVars
    <3>2. CASE EthernetConnectFails
      BY <3>2 DEF EthernetConnectFails
    <3>3. CASE EthernetSendFails
      BY <3>3 DEF EthernetSendFails
    <3>4. CASE EthernetGivesUp
      BY <3>4, <2>1 DEF EthernetGivesUp, FallBackToMobileNetwork, RouteInv
    <3>5. CASE EthernetReceive
      BY <3>5 DEF EthernetReceive
    <3>6. CASE EthernetDisconnect
      BY <3>6 DEF EthernetDisconnect
    <3>7. CASE Reset
      BY <3>7 DEF Reset
    <3> QED
      BY <1>2, <2>1, <2>2, <3>1, <3>2, <3>3, <3>4, <3>5, <3>6, <3>7
         DEF Next, Handler, UpdatePowerStatus, ObtainGNSSPosition, SendAcknowledgement,
             ConnectEthernetToLocalNetwork, QueryUTCTimeViaRemoteServer,
             ConnectToMobileNetwork, EnableTransceiver, ExchangeWithoutReply,
             ExchangeCorruptedReply, ExchangeServerReply, EndExchange,
             WaitForMessage, WaitForMessageUnparsed
  <2> QED
    BY <2>1, <2>3, <2>4 DEF UnsentInv
<1> QED
  BY <1>1, <1>2

\* What the mapping rests on holds always.
LEMMA MapInvariance == Spec => [](IInv /\ MapInv)
<1>1. Init => MapInv
  BY DEF Init, MapInv, HashesDistinct, AckedInv, UnsentInv
<1>2. IInv /\ MapInv /\ [Next]_vars => MapInv'
  BY HashesStep, AckedStep, UnsentStep DEF IInv, MapInv
<1> QED
  BY <1>1, <1>2, IInvariance, PTL DEF Spec

-----------------------------------------------------------------------------
(***************************************************************************)
(* The steps.                                                              *)
(***************************************************************************)
\* The message in hand and the stage it is in, step by step.
StageStep ==
    \/ UNCHANGED <<Stage, InHand, rxn>>
    \/ \E m \in Messages : /\ Stage = "free" /\ Stage' = "taken"
                           /\ InHand' = m /\ rxn' = rxn + 1
    \/ /\ Stage = "taken" /\ Stage' = "acknowledged"
       /\ UNCHANGED <<InHand, rxn>>
    \/ /\ Stage = "acknowledged" /\ Stage' = "free"
       /\ InHand' = None /\ UNCHANGED rxn
    \/ /\ Stage # "free" /\ Stage' = "free"
       /\ InHand' = None /\ UNCHANGED rxn

\* Every handler keeps the stage or takes it one further; a reset ends it.
LEMMA StageFrame ==
    ASSUME TypeOK, [Next]_vars
    PROVE  StageStep
<1> USE DEF StageStep, Stage, InHand
<1>1. CASE IdlePoll \/ UNCHANGED vars
  BY <1>1 DEF IdlePoll, vars, rxVars, historyVars
<1>2. ASSUME NEW m \in Messages, WaitForMessageUnparsed(m)
      PROVE  StageStep
  BY <1>2 DEF WaitForMessageUnparsed, historyVars
<1>3. ASSUME NEW m \in Messages, WaitForMessage(m)
      PROVE  StageStep
  <2>1. rx'["imei"] = m
    <3>1. "imei" \in {DirectFields(TypeOf[m])[i] : i \in DOMAIN DirectFields(TypeOf[m])}
                        \cup StoredFields(TypeOf[m])
      BY ParsedFields, GatewayAssumption
    <3> QED
      BY <1>3, <3>1 DEF WaitForMessage, ParseFields, Fields
  <2> QED
    BY <1>3, <2>1 DEF WaitForMessage
<1>4. CASE Reset
  BY <1>4 DEF Reset
<1>5. CASE UpdatePowerStatus \/ ObtainGNSSPosition
  BY <1>5 DEF UpdatePowerStatus, ObtainGNSSPosition, historyVars
<1>6. CASE SendAcknowledgement
  BY <1>6 DEF SendAcknowledgement, rxVars
<1>7. CASE ConnectEthernetToLocalNetwork \/ QueryUTCTimeViaRemoteServer \/ FormatMessage
  BY <1>7 DEF ConnectEthernetToLocalNetwork, QueryUTCTimeViaRemoteServer, FormatMessage,
         FallBackToMobileNetwork, rxVars, historyVars
<1>8. CASE ConnectToMobileNetwork
  BY <1>8 DEF ConnectToMobileNetwork, rxVars, historyVars
<1>9. CASE EthernetConnectFails \/ EthernetSendFails \/ EthernetSend \/ EthernetGivesUp
           \/ EthernetReceive
  BY <1>9 DEF EthernetConnectFails, EthernetSendFails, EthernetSend, EthernetGivesUp,
         EthernetReceive, FallBackToMobileNetwork, rxVars, historyVars
<1>10. CASE EnableTransceiver \/ PostHTTP
  BY <1>10 DEF EnableTransceiver, PostHTTP, rxVars, historyVars
<1>11. CASE EthernetDisconnect \/ ExchangeWithoutReply \/ ExchangeCorruptedReply
            \/ ExchangeServerReply
  BY <1>11 DEF EthernetDisconnect, ExchangeWithoutReply, ExchangeCorruptedReply,
         ExchangeServerReply, EndExchange, historyVars
<1> QED
  BY <1>1, <1>2, <1>3, <1>4, <1>5, <1>6, <1>7, <1>8, <1>9, <1>10, <1>11
     DEF Next, Handler

\* A step that delivers nothing changes nothing of what the server has: a
\* record just formatted is not one it has.
LEMMA ServerFrame ==
    ASSUME TypeOK, HashInv, OneRecordPerChannel, UNCHANGED delivered, [Next]_vars
    PROVE  AtServer' = AtServer
<1>1. CASE FormatMessage
  <2>1. PICK r : records' = records \cup {r} /\ r.hash = nrec + 1
    BY <1>1, FormatFacts
  <2>2. \A d \in delivered : d[2] \in 1..nrec /\ nrec \in Nat
    BY DEF OneRecordPerChannel, HashInv, TypeOK
  <2>3. \A d \in delivered : d[2] # r.hash
    BY <2>1, <2>2
  <2>4. \A d \in delivered : {q \in records' : q.hash = d[2]} = {q \in records : q.hash = d[2]}
    BY <2>1, <2>3
  <2> QED
    BY <2>4 DEF AtServer
<1>2. CASE records' = records
  BY <1>2 DEF AtServer
<1> QED
  BY <1>1, <1>2, ChainFrame DEF EthernetReceive, ExchangeServerReply,
         EndExchange, Reset

\* A record that reaches the server adds the message in hand to what it has.
LEMMA ServerGains ==
    ASSUME IInv, MapInv, state \in SendingStates, NEW channel,
           delivered' = delivered \cup {<<channel, bufferMessage>>}, UNCHANGED records
    PROVE  AtServer' = AtServer \cup {<<channel, rxn, InHand>>}
<1>1. PICK p \in records : p.hash = nrec /\ p.rxn = rxn
  BY DEF IInv, CurrentInv
<1>2. bufferMessage = nrec
  BY DEF IInv, CurrentInv
<1>3. {q \in records : q.hash = nrec} = {p}
  BY <1>1 DEF MapInv, HashesDistinct
<1>4. PICK m \in Messages : /\ rx["imei"] = m
                            /\ [rxn |-> rxn, ack |-> [imei |-> m, number |-> m]] \in acked
  BY DEF IInv, FieldsInv, RoundStates, ForwardingStates, FormatFields
<1>5. PICK k \in Messages : /\ p.body["imei"] = k
                            /\ [rxn |-> rxn, ack |-> [imei |-> k, number |-> k]] \in acked
  BY <1>1 DEF IInv, WholeAndAcknowledged, FormatFields
<1>6. k = m
  <2> DEFINE a == [rxn |-> rxn, ack |-> [imei |-> m, number |-> m]]
             b == [rxn |-> rxn, ack |-> [imei |-> k, number |-> k]]
  <2>1. a = b
    BY <1>4, <1>5 DEF MapInv, AckedInv
  <2>2. a.ack.imei = b.ack.imei
    BY <2>1
  <2> QED
    BY <2>2
<1>7. InHand = m
  BY <1>4 DEF InHand, Stage, SendingStates
<1> DEFINE Sent(d) == {<<d[1], r.rxn, r.body["imei"]>> : r \in {q \in records : q.hash = d[2]}}
           e == <<channel, nrec>>
<1>8. /\ AtServer = UNION {Sent(d) : d \in delivered}
      /\ AtServer' = UNION {Sent(d) : d \in delivered \cup {e}}
  BY <1>2 DEF AtServer
<1>9. Sent(e) = {<<channel, rxn, m>>}
  BY <1>1, <1>3, <1>5, <1>6
<1> HIDE DEF Sent, e
<1> QED
  BY <1>7, <1>8, <1>9

\* What the server has of the message in hand: nothing before Ethernet has
\* sent it, and nothing over the mobile network before that has.
LEMMA ServerHasNot ==
    ASSUME IInv, MapInv, NEW s \in AtServer, s[2] = rxn
    PROVE  /\ ~(state = "SendingMessageThroughEthernet" /\ phase = "idle")
           /\ state = "ExchangingMessages" /\ <<"mobile", bufferMessage>> \notin delivered =>
                s[1] = "ethernet"
<1>1. PICK d \in delivered, r \in records : r.hash = d[2] /\ s = <<d[1], r.rxn, r.body["imei"]>>
  BY DEF AtServer
<1>2. r.rxn = rxn /\ s[1] = d[1]
  BY <1>1
<1>3. r.aud = IF d[1] = "mobile" THEN "main" ELSE "secondary"
  BY <1>1 DEF IInv, OneRecordPerChannel, MapInv, HashesDistinct
<1>4. d = <<d[1], d[2]>> /\ d[1] \in {"ethernet", "mobile"}
  BY DEF IInv, TypeOK
<1>5. ASSUME state \in SendingStates
      PROVE  \E p \in records : /\ p.hash = nrec /\ bufferMessage = nrec /\ p.rxn = rxn
                                /\ p.aud = Audience(status.route)
  BY <1>5 DEF IInv, CurrentInv
<1>6. CASE state = "SendingMessageThroughEthernet"
  <2>1. r.aud = "secondary" /\ Audience(status.route) = "secondary"
    BY <1>2, <1>6 DEF IInv, RoundInv, RouteInv, Audience
  <2>2. r.hash = nrec
    BY <1>2, <1>5, <1>6, <2>1 DEF IInv, OneRecordPerChannel, SendingStates
  <2> QED
    BY <1>1, <1>6, <2>2 DEF MapInv, UnsentInv
<1>7. CASE state = "ExchangingMessages"
  <2>1. Audience(status.route) = "main"
    BY <1>7 DEF IInv, RouteInv, Audience
  <2>2. ASSUME d[1] = "mobile"
        PROVE  d = <<"mobile", bufferMessage>>
    <3>1. r.hash = bufferMessage
      BY <1>2, <1>3, <1>5, <1>7, <2>1, <2>2 DEF IInv, OneRecordPerChannel, SendingStates
    <3> QED
      BY <1>1, <1>4, <2>2, <3>1
  <2> QED
    BY <1>2, <1>4, <1>7, <2>2
<1> QED
  BY <1>6, <1>7

\* The gateway implements Forwarder: whatever the devices do, a message is
\* acknowledged before the server sees it, the server sees the message in hand
\* only, once a channel and Ethernet first, and a crash takes nothing from it.
THEOREM Refinement == Spec => F!Spec
<1>1. Init => F!Init
  BY DEF Init, F!Init, Stage, InHand, AtServer
<1>2. IInv /\ MapInv /\ [Next]_vars => [F!Next]_F!vars
  <2> SUFFICES ASSUME IInv, MapInv, [Next]_vars
               PROVE  F!Next \/ UNCHANGED F!vars
    OBVIOUS
  <2>1. CASE UNCHANGED delivered
    <3>1. AtServer' = AtServer
      BY <2>1, ServerFrame DEF IInv
    <3>2. StageStep
      BY StageFrame DEF IInv
    <3> QED
      BY <3>1, <3>2 DEF StageStep, F!Next, F!vars, F!Take, F!Acknowledge, F!Finish, F!Crash
  <2>2. CASE delivered' # delivered /\ EthernetSend
    <3>1. /\ state = "SendingMessageThroughEthernet" /\ phase = "idle"
          /\ delivered' = delivered \cup {<<"ethernet", bufferMessage>>}
          /\ UNCHANGED <<state, rx, rxn, records>>
      BY <2>2 DEF EthernetSend, rxVars
    <3>2. AtServer' = AtServer \cup {<<"ethernet", rxn, InHand>>}
      BY <3>1, ServerGains DEF SendingStates
    <3>3. Stage = "acknowledged" /\ UNCHANGED <<Stage, InHand, rxn>>
      BY <3>1 DEF Stage, InHand
    <3>4. \A s \in AtServer : s[2] # rxn
      BY <3>1, ServerHasNot
    <3> QED
      BY <3>2, <3>3, <3>4 DEF F!Next, F!Deliver
  <2>3. CASE PostHTTP
    <3>1. /\ state = "ExchangingMessages" /\ <<"mobile", bufferMessage>> \notin delivered
          /\ delivered' = delivered \cup {<<"mobile", bufferMessage>>}
          /\ UNCHANGED <<state, rx, rxn, records>>
      BY <2>3 DEF PostHTTP, rxVars
    <3>2. AtServer' = AtServer \cup {<<"mobile", rxn, InHand>>}
      BY <3>1, ServerGains DEF SendingStates
    <3>3. Stage = "acknowledged" /\ UNCHANGED <<Stage, InHand, rxn>>
      BY <3>1 DEF Stage, InHand
    <3>4. \A s \in AtServer : s[2] = rxn => s[1] = "ethernet"
      BY <3>1, ServerHasNot
    <3> QED
      BY <3>2, <3>3, <3>4 DEF F!Next, F!Deliver
  <2> QED
    BY <2>1, <2>2, <2>3, DeliveredFrame
<1> QED
  BY <1>1, <1>2, MapInvariance, PTL DEF Spec, F!Spec
=============================================================================
