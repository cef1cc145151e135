------------------------------ MODULE Gateway ------------------------------
(***************************************************************************)
(* The gateway's main state machine: class Gateway, its update() loop and  *)
(* the eleven classes under GatewayState/.  A tracker's LoRa message is    *)
(* received, acknowledged on the radio, turned into a hash-chained record  *)
(* and handed to the server over Ethernet, with the mobile network as the  *)
(* fallback.                                                               *)
(*                                                                         *)
(* update() calls the ten handlers of the current state one after the      *)
(* other; in every state at most one of them changes the gateway, so each  *)
(* handler is an action guarded by the state that implements it.  The      *)
(* modem (cellular, GNSS, power), the radio and the Ethernet stack answer  *)
(* with any result their code can return.  The Ethernet exchange is split  *)
(* at the points where the watchdog (5 s) can cut the blocking call short. *)
(***************************************************************************)
EXTENDS Naturals, FiniteSets, Sequences

CONSTANTS
    Messages,           \* the uplink messages trackers transmit
    TypeOf,             \* the prefix of each message
    None,               \* content of a field nothing was ever parsed into
    MAX_RETRIES,        \* connection attempts on Ethernet before the fallback
    MAX_ACK_SEND_TRIES, \* transmissions of one acknowledgement
    MaxReceptions,      \* bound: messages accepted in a behaviour
    MaxChunks,          \* bound: socket.recv() results of one server reply
    MaxResets           \* bound: watchdog or power resets

RxTypes == {"LORALORA", "LORAGNSS"}

ASSUME GatewayAssumption ==
    /\ TypeOf \in [Messages -> RxTypes]
    /\ None \notin Messages
    /\ MAX_RETRIES \in Nat \ {0}
    /\ MAX_ACK_SEND_TRIES \in Nat \ {0}
    /\ MaxReceptions \in Nat
    /\ MaxChunks \in Nat
    /\ MaxResets \in Nat

VARIABLES
    state,             \* class of Gateway::currentState
    status,            \* gatewayStatus_t handed from state object to state object
    moduleTurningOff,  \* static of GettingGNSSPosition
    rx,                \* received fields: the message each was last parsed from
    rxType,            \* receptedTypeMessage
    ack,               \* identity held by the SendingAck object
    ackSends,          \* numberOffAckSendings
    bufferMessage,     \* hash of the record in bufferMessage, 0 if another text
    seq,               \* sequenceMessageNumber
    prevChainHash,     \* 0 stands for "-"
    currChainHash,
    retries,           \* connectionRetries of SendingMessageThroughEthernet
    phase,             \* where the blocking Ethernet exchange is
    chunks,            \* replies read by the current Ethernet exchange
    enableTransceiver, \* static of ExchangingMessages
    transceiver,       \* CellularModule's transceiver left Unavailable?
    boot,              \* history: resets so far
    rxn,               \* history: messages accepted so far
    nrec,              \* history: records formatted so far; also names the next hash
    records,           \* history: every record formatted
    delivered,         \* history: <<channel, hash>> pairs that reached the server
    answered,          \* history: hashes of records a server reply came back for
    acked              \* history: acknowledgements completed, by reception

chainVars   == <<seq, prevChainHash, currChainHash>>
rxVars      == <<rx, rxType>>
ackVars     == <<ack, ackSends>>
ethVars     == <<retries, phase, chunks>>
mobileVars  == <<enableTransceiver, transceiver>>
historyVars == <<boot, rxn, nrec, records, delivered, answered, acked>>

vars == <<state, status, moduleTurningOff, rxVars, ackVars, bufferMessage,
          chainVars, ethVars, mobileVars, historyVars>>

-----------------------------------------------------------------------------
States == {"SensingBatteryStatus", "GettingGNSSPosition", "WaitingForMessage",
           "SendingAck", "ConnectingEthernet", "ObtaingTimeUTCThroughEthernet",
           "FormattingMessage", "SendingMessageThroughEthernet",
           "ConnectingToMobileNetwork", "ExchangingMessages"}

Routes   == {"ETHERNET", "MOBILE_NETWORK"}
Statuses == [type : RxTypes, route : Routes]

(***************************************************************************)
(* Received data.  sscanf writes some fields straight into the gateway, in *)
(* this order and also when it fails further on; the others pass through   *)
(* locals and are stored only when every field was converted.              *)
(***************************************************************************)
Fields == {"imei", "number", "event", "gnss", "gnssTime", "imu", "imuTime", "status"}

DirectFields(type) ==
    IF type = "LORAGNSS" THEN <<"imei", "number", "gnss", "imu">>
                         ELSE <<"imei", "number", "imu">>

\* Mutant of StoredFields: the position's timestamp is forgotten.
StoredFieldsNoGNSSTime(type) ==
    {"status", "event"} \cup (IF type = "LORAGNSS" THEN {} ELSE {"imuTime"})

StoredFields(type) ==
    {"status", "event"} \cup (IF type = "LORAGNSS" THEN {"gnssTime"} ELSE {"imuTime"})

\* The fields the two format*Message functions put in a record.
FormatFields(type) ==
    {"imei", "event", "imu", "status"}
      \cup (IF type = "LORAGNSS" THEN {"gnss", "gnssTime"} ELSE {"imuTime"})

\* Mutant of Audience: the claim does not depend on the route.
AudienceFixed(route) == "secondary"

Audience(route) == IF route = "MOBILE_NETWORK" THEN "main" ELSE "secondary"

-----------------------------------------------------------------------------
(***************************************************************************)
(* Gateway::Gateway and the statics' initial values: what the program      *)
(* starts from, after power-on and after every reset.                      *)
(***************************************************************************)
Init ==
    /\ state = "SensingBatteryStatus"
    /\ status = [type |-> "LORALORA", route |-> "ETHERNET"]
    /\ moduleTurningOff = FALSE
    /\ rx = [f \in Fields |-> None]
    /\ rxType = None
    /\ ack = [imei |-> None, number |-> None]
    /\ ackSends = 0
    /\ bufferMessage = 0
    /\ seq = 0
    /\ prevChainHash = 0
    /\ currChainHash = 0
    /\ retries = 0
    /\ phase = "idle"
    /\ chunks = 0
    /\ enableTransceiver = FALSE
    /\ transceiver = "Unavailable"
    /\ boot = 0
    /\ rxn = 0
    /\ nrec = 0
    /\ records = {}
    /\ delivered = {}
    /\ answered = {}
    /\ acked = {}

\* The watchdog bites or power is cut: RAM is lost, what left the device is not.
Reset ==
    /\ boot < MaxResets
    /\ boot' = boot + 1
    /\ state' = "SensingBatteryStatus"
    /\ status' = [type |-> "LORALORA", route |-> "ETHERNET"]
    /\ moduleTurningOff' = FALSE
    /\ rx' = [f \in Fields |-> None]
    /\ rxType' = None
    /\ ack' = [imei |-> None, number |-> None]
    /\ ackSends' = 0
    /\ bufferMessage' = 0
    /\ seq' = 0
    /\ prevChainHash' = 0
    /\ currChainHash' = 0
    /\ retries' = 0
    /\ phase' = "idle"
    /\ chunks' = 0
    /\ enableTransceiver' = FALSE
    /\ transceiver' = "Unavailable"
    /\ UNCHANGED <<rxn, nrec, records, delivered, answered, acked>>

-----------------------------------------------------------------------------
(***************************************************************************)
(* The round between two messages: battery, position, modem off.           *)
(***************************************************************************)
\* measureBattery() returned true.
UpdatePowerStatus ==
    /\ state = "SensingBatteryStatus"
    /\ state' = "GettingGNSSPosition"
    /\ UNCHANGED <<status, moduleTurningOff, rxVars, ackVars, bufferMessage,
                   chainVars, ethVars, mobileVars, historyVars>>

\* retrivGeopositioning() ended, with a position or without one; the modem is
\* switched off over the following calls, and then the radio listens.
ObtainGNSSPosition ==
    /\ state = "GettingGNSSPosition"
    /\ IF moduleTurningOff
         THEN /\ state' = "WaitingForMessage"
              /\ moduleTurningOff' = FALSE
         ELSE /\ moduleTurningOff' = TRUE
              /\ UNCHANGED state
    /\ UNCHANGED <<status, rxVars, ackVars, bufferMessage,
                   chainVars, ethVars, mobileVars, historyVars>>

-----------------------------------------------------------------------------
(***************************************************************************)
(* Reception.  m is a message whose checksum, HMAC and decryption          *)
(* succeeded (module LoRaReception has the fragments).                     *)
(***************************************************************************)
\* sscanf converted every field.
ParseFields(m) ==
    LET direct  == DirectFields(TypeOf[m])
        written == {direct[i] : i \in DOMAIN direct} \cup StoredFields(TypeOf[m])
    IN  rx' = [f \in Fields |-> IF f \in written THEN m ELSE rx[f]]

\* sscanf stopped after its k-th direct field.
ParsePrefix(m, k) ==
    rx' = [f \in Fields |->
             IF f \in {DirectFields(TypeOf[m])[i] : i \in 1..k} THEN m ELSE rx[f]]

WaitForMessage(m) ==
    /\ state = "WaitingForMessage"
    /\ rxn < MaxReceptions
    /\ ParseFields(m)
    /\ rxType' = TypeOf[m]
    /\ bufferMessage' = 0
    /\ ack' = [imei |-> rx'["imei"], number |-> rx'["number"]]
    /\ status' = [type |-> TypeOf[m], route |-> "ETHERNET"]
    /\ state' = "SendingAck"
    /\ rxn' = rxn + 1
    /\ UNCHANGED <<moduleTurningOff, ackSends, chainVars, ethVars, mobileVars,
                   boot, nrec, records, delivered, answered, acked>>

\* A malformed message: the fields before the bad one stay overwritten.
WaitForMessageUnparsed(m) ==
    /\ state = "WaitingForMessage"
    /\ \E k \in 0..Len(DirectFields(TypeOf[m])) : ParsePrefix(m, k)
    /\ bufferMessage' = 0
    /\ UNCHANGED <<state, status, moduleTurningOff, rxType, ackVars,
                   chainVars, ethVars, mobileVars, historyVars>>

\* Mutant of AckTriesLeft: one transmission too many.
AckTriesLeftInclusive == ackSends + 1 <= MAX_ACK_SEND_TRIES

AckTriesLeft == ackSends + 1 < MAX_ACK_SEND_TRIES

\* One complete transmission of the ACK; the last one goes on to the network.
SendAcknowledgement ==
    /\ state = "SendingAck"
    /\ IF AckTriesLeft
         THEN /\ ackSends' = ackSends + 1
              /\ UNCHANGED <<state, acked>>
         ELSE /\ ackSends' = 0
              /\ acked' = acked \cup {[rxn |-> rxn, ack |-> ack]}
              /\ state' = "ConnectingEthernet"
    /\ UNCHANGED <<status, moduleTurningOff, rxVars, ack, bufferMessage,
                   chainVars, ethVars, mobileVars,
                   boot, rxn, nrec, records, delivered, answered>>

-----------------------------------------------------------------------------
(***************************************************************************)
(* Routing                                                                 *)
(***************************************************************************)
\* Every failure on the Ethernet side that gives up; with any other status
\* than TRYING_ETHERNET the handler returns and is called again.
FallBackToMobileNetwork ==
    /\ IF status.route = "ETHERNET"
         THEN /\ status' = [type |-> status.type, route |-> "MOBILE_NETWORK"]
              /\ state' = "ConnectingToMobileNetwork"
         ELSE UNCHANGED <<state, status>>

ConnectEthernetToLocalNetwork ==
    /\ state = "ConnectingEthernet"
    /\ \/ FallBackToMobileNetwork                      \* DHCP failed
       \/ /\ state' = "ObtaingTimeUTCThroughEthernet"
          /\ UNCHANGED status
    /\ UNCHANGED <<moduleTurningOff, rxVars, ackVars, bufferMessage,
                   chainVars, ethVars, mobileVars, historyVars>>

\* Sent or not, answered or not, the clock is set to something and it goes on.
QueryUTCTimeViaRemoteServer ==
    /\ state = "ObtaingTimeUTCThroughEthernet"
    /\ state' = "FormattingMessage"
    /\ UNCHANGED <<status, moduleTurningOff, rxVars, ackVars, bufferMessage,
                   chainVars, ethVars, mobileVars, historyVars>>

\* A connection attempt ended: connected, or one of the failure statuses, which
\* drops the message.
ConnectToMobileNetwork ==
    /\ state = "ConnectingToMobileNetwork"
    /\ state' \in {"FormattingMessage", "SensingBatteryStatus"}
    /\ UNCHANGED <<status, moduleTurningOff, rxVars, ackVars, bufferMessage,
                   chainVars, ethVars, mobileVars, historyVars>>

-----------------------------------------------------------------------------
(***************************************************************************)
(* Formatting.  SHA-256 over a text that holds the time is collision free: *)
(* the hash of the n-th record ever formatted is n.                        *)
(***************************************************************************)
\* Mutant of AddMetaData: the record continues the last one formatted.
AddMetaDataOnCurrent(body) ==
    /\ nrec' = nrec + 1
    /\ records' = records \cup
         {[hash |-> nrec + 1, boot |-> boot, rxn |-> rxn,
           aud |-> Audience(status.route), seq |-> seq, prev |-> currChainHash,
           body |-> body]}
    /\ currChainHash' = nrec + 1

\* addMetaData: the claims of the record, its hash becoming the current one.
AddMetaData(body) ==
    /\ nrec' = nrec + 1
    /\ records' = records \cup
         {[hash |-> nrec + 1, boot |-> boot, rxn |-> rxn,
           aud |-> Audience(status.route), seq |-> seq, prev |-> prevChainHash,
           body |-> body]}
    /\ currChainHash' = nrec + 1

FormatMessage ==
    /\ state = "FormattingMessage"
    /\ rxType \in RxTypes
    /\ AddMetaData([f \in FormatFields(rxType) |-> rx[f]])
    /\ bufferMessage' = nrec + 1
    /\ IF status.route = "MOBILE_NETWORK"
         THEN /\ state' = "ExchangingMessages"
              /\ UNCHANGED retries
         ELSE /\ state' = "SendingMessageThroughEthernet"
              /\ retries' = 0
    /\ UNCHANGED <<status, moduleTurningOff, rxVars, ackVars, seq, prevChainHash,
                   phase, chunks, mobileVars, boot, rxn, delivered, answered, acked>>

-----------------------------------------------------------------------------
(***************************************************************************)
(* Chain progress: the record just sent becomes the previous one.          *)
(***************************************************************************)
\* Mutant of ProgressOnHashChain: the chain stays where it is.
ProgressOnHashChainSkipped == UNCHANGED <<prevChainHash, currChainHash>>

ProgressOnHashChain ==
    /\ prevChainHash' = currChainHash
    /\ UNCHANGED currChainHash

\* Mutant of IncreaseSequenceNumber: the call is missing.
IncreaseSequenceNumberSkipped == UNCHANGED seq

IncreaseSequenceNumber == seq' = seq + 1

(***************************************************************************)
(* exchangeMessagesThroughEthernet.  TcpClient::open always returns 0, so  *)
(* its error branch is not reachable.                                      *)
(***************************************************************************)
EthernetConnectFails ==
    /\ state = "SendingMessageThroughEthernet"
    /\ phase = "idle"
    /\ retries' = retries + 1
    /\ IF retries + 1 >= MAX_RETRIES
         THEN FallBackToMobileNetwork
         ELSE UNCHANGED <<state, status>>
    /\ UNCHANGED <<moduleTurningOff, rxVars, ackVars, bufferMessage, chainVars,
                   phase, chunks, mobileVars, historyVars>>

EthernetSendFails ==
    /\ state = "SendingMessageThroughEthernet"
    /\ phase = "idle"
    /\ FallBackToMobileNetwork
    /\ UNCHANGED <<moduleTurningOff, rxVars, ackVars, bufferMessage, chainVars,
                   ethVars, mobileVars, historyVars>>

\* The request left the socket, whole or in part: it arrives or it does not.
EthernetSend ==
    /\ state = "SendingMessageThroughEthernet"
    /\ phase = "idle"
    /\ phase' = "sent"
    /\ \/ delivered' = delivered \cup {<<"ethernet", bufferMessage>>}
       \/ UNCHANGED delivered
    /\ UNCHANGED <<state, status, moduleTurningOff, rxVars, ackVars, bufferMessage,
                   chainVars, retries, chunks, mobileVars,
                   boot, rxn, nrec, records, answered, acked>>

\* Nothing came back in time, or recv() failed, even after earlier chunks.
EthernetGivesUp ==
    /\ state = "SendingMessageThroughEthernet"
    /\ phase \in {"sent", "receiving"}
    /\ phase' = "idle"
    /\ chunks' = 0
    /\ FallBackToMobileNetwork
    /\ UNCHANGED <<moduleTurningOff, rxVars, ackVars, bufferMessage, chainVars,
                   retries, mobileVars, historyVars>>

\* One recv() of the reply.
EthernetReceive ==
    /\ state = "SendingMessageThroughEthernet"
    /\ phase \in {"sent", "receiving"}
    /\ chunks < MaxChunks
    /\ phase' = "receiving"
    /\ chunks' = chunks + 1
    /\ ProgressOnHashChain
    /\ IncreaseSequenceNumber
    /\ answered' = answered \cup {bufferMessage}
    /\ UNCHANGED <<state, status, moduleTurningOff, rxVars, ackVars, bufferMessage,
                   retries, mobileVars, boot, rxn, nrec, records, delivered, acked>>

\* available() is 0 again after a chunk: done.
EthernetDisconnect ==
    /\ state = "SendingMessageThroughEthernet"
    /\ phase = "receiving"
    /\ phase' = "idle"
    /\ chunks' = 0
    /\ state' = "SensingBatteryStatus"
    /\ UNCHANGED <<status, moduleTurningOff, rxVars, ackVars, bufferMessage, chainVars,
                   retries, mobileVars, historyVars>>

-----------------------------------------------------------------------------
(***************************************************************************)
(* exchangeMessages over the mobile network.  The transceiver's own states *)
(* (PDP, SSL, HTTP) are one step that hands the record to the server and   *)
(* one that reports; the modem may be reset in between.                    *)
(***************************************************************************)
\* enableTransceiver() leaves TransceiverUnavailable.
EnableTransceiver ==
    /\ state = "ExchangingMessages"
    /\ ~enableTransceiver
    /\ enableTransceiver' = TRUE
    /\ transceiver' = "Enabled"
    /\ UNCHANGED <<state, status, moduleTurningOff, rxVars, ackVars, bufferMessage,
                   chainVars, ethVars, historyVars>>

\* The POST reached the server; the report on it is still to come.
PostHTTP ==
    /\ state = "ExchangingMessages"
    /\ transceiver = "Enabled"
    /\ <<"mobile", bufferMessage>> \notin delivered
    /\ delivered' = delivered \cup {<<"mobile", bufferMessage>>}
    /\ UNCHANGED <<state, status, moduleTurningOff, rxVars, ackVars, bufferMessage,
                   chainVars, ethVars, mobileVars, boot, rxn, nrec, records,
                   answered, acked>>

\* Mutant of ClearStatics: the flag survives the exchange.
ClearStaticsForgotten == UNCHANGED enableTransceiver

\* "newDataAvailable = false; enableTransceiver = false;" on every way out.
ClearStatics == enableTransceiver' = FALSE

\* A final status: CellularModule drops back to Unavailable and the handler
\* clears its statics on every path.
EndExchange ==
    /\ state = "ExchangingMessages"
    /\ transceiver = "Enabled"
    /\ transceiver' = "Unavailable"
    /\ ClearStatics
    /\ state' = "SensingBatteryStatus"
    /\ UNCHANGED <<status, moduleTurningOff, rxVars, ackVars, ethVars,
                   boot, rxn, nrec, records, delivered, acked>>

\* Not sent, or sent without a reply to read.
ExchangeWithoutReply ==
    /\ EndExchange
    /\ UNCHANGED <<bufferMessage, chainVars, answered>>

\* A reply that decodeJWT refuses, or one without "SUCS": it has overwritten
\* the buffer it shares with the record.
ExchangeCorruptedReply ==
    /\ EndExchange
    /\ bufferMessage' = 0
    /\ UNCHANGED <<chainVars, answered>>

\* The server's answer, whether "SUCS" says true or not: the chain goes on
\* before the value is looked at.
ExchangeServerReply ==
    /\ EndExchange
    /\ <<"mobile", bufferMessage>> \in delivered
    /\ answered' = answered \cup {bufferMessage}
    /\ bufferMessage' = 0
    /\ ProgressOnHashChain
    /\ IncreaseSequenceNumber

-----------------------------------------------------------------------------
\* A pass of update() in which the device the state waits for has nothing yet.
IdlePoll == UNCHANGED vars

Handler ==
    \/ UpdatePowerStatus
    \/ ObtainGNSSPosition
    \/ SendAcknowledgement
    \/ ConnectEthernetToLocalNetwork
    \/ QueryUTCTimeViaRemoteServer
    \/ ConnectToMobileNetwork
    \/ FormatMessage
    \/ EthernetConnectFails
    \/ EthernetSendFails
    \/ EthernetSend
    \/ EthernetGivesUp
    \/ EthernetReceive
    \/ EthernetDisconnect
    \/ EnableTransceiver
    \/ PostHTTP
    \/ ExchangeWithoutReply
    \/ ExchangeCorruptedReply
    \/ ExchangeServerReply

Next ==
    \/ Handler
    \/ \E m \in Messages : WaitForMessage(m)
    \/ \E m \in Messages : WaitForMessageUnparsed(m)
    \/ Reset
    \/ IdlePoll

Spec == Init /\ [][Next]_vars

(***************************************************************************)
(* The main loop calls update() forever.  Outside the exchange over the    *)
(* mobile network every call a handler makes ends, by a limit of its own   *)
(* or by the watchdog.  That exchange is polled, and each pass kicks the   *)
(* watchdog: nothing in the code limits how long it goes on, and nothing   *)
(* is assumed of it here.  Receptions and resets are nobody's duty.        *)
(***************************************************************************)
LimitedHandler == transceiver # "Enabled" /\ Handler

FairSpec == Spec /\ WF_vars(LimitedHandler)

-----------------------------------------------------------------------------
Record ==
    [hash : Nat, boot : Nat, rxn : Nat, aud : {"main", "secondary"},
     seq : Nat, prev : Nat,
     body : UNION {[FormatFields(t) -> Messages \cup {None}] : t \in RxTypes}]

\* The type invariant.
TypeOK ==
    /\ state \in States
    /\ status \in Statuses
    /\ moduleTurningOff \in BOOLEAN
    /\ rx \in [Fields -> Messages \cup {None}]
    /\ rxType \in RxTypes \cup {None}
    /\ ack \in [imei : Messages \cup {None}, number : Messages \cup {None}]
    /\ ackSends \in 0..(MAX_ACK_SEND_TRIES - 1)
    /\ bufferMessage \in Nat
    /\ seq \in Nat
    /\ prevChainHash \in Nat
    /\ currChainHash \in Nat
    /\ retries \in 0..MAX_RETRIES
    /\ phase \in {"idle", "sent", "receiving"}
    /\ chunks \in 0..MaxChunks
    /\ enableTransceiver \in BOOLEAN
    /\ transceiver \in {"Unavailable", "Enabled"}
    /\ boot \in 0..MaxResets
    /\ rxn \in 0..MaxReceptions
    /\ nrec \in Nat
    /\ records \subseteq Record
    /\ delivered \subseteq {"ethernet", "mobile"} \X Nat
    /\ answered \subseteq Nat
    /\ acked \subseteq [rxn : Nat, ack : [imei : Messages \cup {None},
                                          number : Messages \cup {None}]]

\* Within one boot a sequence number and a predecessor name the same position:
\* two records the server sees with one sequence number continue the same
\* record, and two that continue the same record carry one sequence number.
\* (progressOnHashChain and increaseSequenceNumber always go together.)
SeqIdentifiesLink ==
    \A r, s \in records : r.boot = s.boot => (r.seq = s.seq <=> r.prev = s.prev)

\* A record continues nothing, or an earlier record of the same boot for which
\* a reply was read: on whatever path the last record ended (timeout, fallback,
\* refused reply, reset), the chain never rests on one nobody answered.
AnsweredLink ==
    \A r \in records :
        r.prev # 0 =>
            /\ r.prev \in answered
            /\ \E p \in records : p.hash = r.prev /\ p.boot = r.boot /\ p.seq < r.seq
                                  /\ p.hash < r.hash

\* Every field of a record comes from one and the same message, and that
\* message is the one whose tracker was sent its acknowledgement, all
\* repetitions done, in the same round: fields left behind by earlier or
\* half-parsed messages never leak into a record.
WholeAndAcknowledged ==
    \A r \in records :
        \E m \in Messages :
            /\ \A f \in DOMAIN r.body : r.body[f] = m
            /\ DOMAIN r.body = FormatFields(TypeOf[m])
            /\ [rxn |-> r.rxn, ack |-> [imei |-> m, number |-> m]] \in acked

\* A record reaches the server over the channel its audience claim names, and
\* one reception yields at most one record per channel: the fallback formats
\* anew, and nothing is forwarded twice under two hashes on one channel.
OneRecordPerChannel ==
    /\ \A d \in delivered :
         \E r \in records : /\ r.hash = d[2]
                            /\ r.aud = (IF d[1] = "mobile" THEN "main" ELSE "secondary")
    /\ \A r, s \in records : r.rxn = s.rxn /\ r.aud = s.aud => r = s

\* When Ethernet was tried first, the mobile record of the same message either
\* takes the place of the Ethernet record in the chain (no reply was read) or
\* continues it (a reply was read before the connection failed).
FallbackLinks ==
    \A e, m \in records :
        e.rxn = m.rxn /\ e.aud = "secondary" /\ m.aud = "main" =>
            /\ e.hash < m.hash
            /\ IF e.hash \in answered
                 THEN m.prev = e.hash /\ m.seq > e.seq
                 ELSE m.prev = e.prev /\ m.seq = e.seq

\* What Gateway.h says of sequenceMessageNumber: it "increses with every
\* messages succefully sent to the remote server".  The code adds one for every
\* piece of the reply that recv() returns.
SeqCountsAnswered ==
    seq = Cardinality({r \in records : r.boot = boot /\ r.hash \in answered})
=============================================================================
