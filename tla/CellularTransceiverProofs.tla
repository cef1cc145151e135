--------------------- MODULE CellularTransceiverProofs ---------------------
(***************************************************************************)
(* Proofs about CellularTransceiver, for every number of attempts, every   *)
(* UART and every number of exchanges: what the module's type invariant    *)
(* says, that data handed on means that the message was posted, and that   *)
(* the repetitions of a POST are bounded.                                  *)
(***************************************************************************)
EXTENDS CellularTransceiver, TLAPS

\* The commands a poll can send: what waits for the modem is one of them.
Commands == {"command", "query", "url", "post", "read"}

\* What the modem was asked to post and the server has not got yet.
Awaited == {"post", "postData", "postSent", "posting"}

InJob   == IF job \in Awaited THEN 1 ELSE 0
InQueue == IF queued = "post" THEN 1 ELSE 0
Pending == posts + InJob + InQueue

\* POST commands sent in this exchange while PostHTTP is posting.
Sent == IF readyToSend THEN Attempts ELSE Attempts + 1

ResultLines == {"POST_OK", "POST_OK_EMPTY"}

QueueOK == queued \in Commands \cup {"idle"}

\* Whoever has the result of a POST got it from the server.
ResultInv ==
    /\ job = "posted" => posts > 0
    /\ \A i \in 1..Len(uart) : uart[i] \in ResultLines => posts > 0
    /\ step \in {"READING_DATA", "DECODING_DATA"} => posts > 0

\* The flags, among them a static that may be older than the exchange.
FlagInv ==
    /\ newDataAvailable => step = "DeactivatePDP" /\ posts > 0
    /\ watingForResponse /\ ~stale => posts > 0
    /\ step = "DeactivatePDP" /\ transmissionWasASuccess /\ ~stale => posts > 0

\* What an ended exchange has reported.
OutcomeInv ==
    /\ Ended /\ outcome.data => posts > 0
    /\ Ended /\ outcome.status = "SEND_OK" /\ ~stale => posts > 0

\* No POST before POSTING_DATA, there one for every command, none after it.
PendingInv ==
    /\ step \in Configuring \cup {"SETTING_URL"} => Pending = 0
    /\ step = "POSTING_DATA" => Pending <= Sent
    /\ Pending <= MAXATTEMPTS_POST

IInv ==
    /\ TypeOK
    /\ QueueOK
    /\ ResultInv
    /\ FlagInv
    /\ OutcomeInv
    /\ PendingInv

-----------------------------------------------------------------------------
(***************************************************************************)
(* The operators of the model                                              *)
(***************************************************************************)
LEMMA ConfiguringMembers ==
    Configuring = {"ASSING_PDPCONTEXT_TO_HTTP_STACK", "CONFIGURING_PDP_PROFILE",
                   "ACTIVATING_PDP_CONTEXT", "QUERING_PDP_CONTEXT",
                   "CONFIGURING_SERVER_DNS", "SETTING_SSL_CONTEXT",
                   "SETTING_SSL_VERSION", "SETTING_SSL_LEVEL"}
<1>1. \A i \in 1..8 : i = 1 \/ i = 2 \/ i = 3 \/ i = 4 \/ i = 5 \/ i = 6 \/ i = 7 \/ i = 8
  OBVIOUS
<1>2. Configuring = {ConfigureSteps[1], ConfigureSteps[2], ConfigureSteps[3],
                     ConfigureSteps[4], ConfigureSteps[5], ConfigureSteps[6],
                     ConfigureSteps[7], ConfigureSteps[8]}
  BY <1>1 DEF Configuring
<1> QED
  BY <1>2 DEF ConfigureSteps, PDPSteps, SSLSteps

\* A configuration step is followed by another or by the address.
LEMMA FollowingMember ==
    ASSUME NEW s \in Configuring
    PROVE  /\ Following(s) \in Configuring \cup {"SETTING_URL"}
           /\ Following(s) = "SETTING_URL" => s = "SETTING_SSL_LEVEL"
<1> DEFINE j == CHOOSE i \in 1..8 : ConfigureSteps[i] = s
<1>1. \E i \in 1..8 : ConfigureSteps[i] = s
  BY DEF Configuring
<1>2. j \in 1..8 /\ ConfigureSteps[j] = s
  BY <1>1
<1>3. Following(s) = ConfigureSteps[j + 1]
  BY DEF Following
<1> HIDE DEF j
<1>4. j = 1 \/ j = 2 \/ j = 3 \/ j = 4 \/ j = 5 \/ j = 6 \/ j = 7 \/ j = 8
  BY <1>2
<1> QED
  BY <1>2, <1>3, <1>4, ConfiguringMembers DEF ConfigureSteps, PDPSteps, SSLSteps

LEMMA CommandMember ==
    ASSUME NEW s
    PROVE  Command(s) \in Commands /\ (Command(s) = "post" => s = "POSTING_DATA")
  BY Zenon DEF Command, Commands

LEMMA PostResult ==
    ASSUME NEW line
    PROVE  /\ CheckHTTPPostResult(line) \in {"none", "empty", "some"}
           /\ CheckHTTPPostResult(line) # "none" <=> line \in ResultLines
  BY Zenon DEF CheckHTTPPostResult, ResultLines

\* Data is taken only by a modem that asked for it, and only the message that
\* follows AT+QHTTPPOST is on its way to the server.
LEMMA SendDataFacts ==
    ASSUME job \in Jobs, url \in BOOLEAN, NEW d, SendData(d)
    PROVE  /\ queued' = queued
           /\ job' = job \/ job' = "ok" \/ (job = "postData" /\ job' = "postSent")
           /\ job' \in Jobs
           /\ url' \in BOOLEAN
<1>1. job' = job \/ job' = "ok" \/ (job = "postData" /\ job' = "postSent")
  BY Zenon DEF SendData
<1>2. url' \in BOOLEAN /\ queued' = queued
  BY Zenon DEF SendData
<1> QED
  BY <1>1, <1>2 DEF Jobs

LEMMA SendATCommandFacts ==
    ASSUME job \in Jobs, QueueOK, NEW c \in Commands, SendATCommand(c)
    PROVE  /\ job' = job \/ (job = "idle" /\ job' = c)
           /\ queued' = queued \/ (job' = job /\ queued = "idle" /\ queued' = c)
           /\ job' = job \/ queued' = queued
           /\ job' \in Jobs
           /\ QueueOK'
  BY DEF SendATCommand, QueueOK, Commands, Jobs

LEMMA BecomesFacts ==
    ASSUME QueueOK, NEW j \in Jobs, Becomes(j)
    PROVE  /\ job' \in Jobs
           /\ QueueOK'
           /\ \/ job' = j /\ queued' = queued
              \/ j = "idle" /\ job' = queued /\ queued' = "idle"
  BY DEF Becomes, QueueOK, Commands, Jobs

LEMMA EmitFacts ==
    ASSUME uart \in Seq(Lines), NEW line \in Lines, Emit(line)
    PROVE  /\ uart' \in Seq(Lines)
           /\ Len(uart') <= MaxLines
           /\ \A i \in 1..Len(uart') :
                uart'[i] = line \/ (i \in 1..Len(uart) /\ uart'[i] = uart[i])
  BY TransceiverAssumption DEF Emit

LEMMA ReadFacts ==
    ASSUME uart \in Seq(Lines), ReadATResponse
    PROVE  /\ uart' \in Seq(Lines)
           /\ Len(uart') <= Len(uart)
           /\ Head(uart) \in Lines
           /\ 1 \in 1..Len(uart)
           /\ Head(uart) = uart[1]
           /\ \A i \in 1..Len(uart') : i + 1 \in 1..Len(uart) /\ uart'[i] = uart[i + 1]
  BY DEF ReadATResponse

LEMMA AnswersFacts ==
    ASSUME NEW a \in Answers
    PROVE  /\ a[1] \in Jobs /\ a[3] \in Jobs
           /\ a[2] \in Lines \ (ResultLines \cup {"REPLY"})
           /\ a[3] # "posted" /\ a[1] # "idle"
           /\ a[3] \in Awaited => a[1] \in Awaited
  BY DEF Answers, Jobs, Lines, ResultLines, Awaited

-----------------------------------------------------------------------------
(***************************************************************************)
(* The type invariant, part by part: the state objects, the statics, the   *)
(* UART, the modem and the history.                                        *)
(***************************************************************************)
AttemptsOK ==
    /\ Attempts \in Nat
    /\ Attempts < IF step \in Configuring THEN MAXATTEMPTS_CONFIGURE ELSE MAXATTEMPTS_POST

ObjectOK ==
    /\ step \in Steps
    /\ readyToSend \in BOOLEAN
    /\ AttemptsOK
    /\ transmissionWasASuccess \in BOOLEAN

StaticOK ==
    /\ watingForResponse \in BOOLEAN
    /\ urlSet \in BOOLEAN
    /\ dataLen \in {"none", "empty", "some"}
    /\ StringToBeRead \in Lines \cup {"EMPTY"}
    /\ newDataAvailable \in BOOLEAN

UartOK == uart \in Seq(Lines) /\ Len(uart) <= MaxLines

ModemOK ==
    /\ job \in Jobs
    /\ queued \in Jobs
    /\ url \in BOOLEAN
    /\ reply \in {"none", "empty", "some"}
    /\ posts \in Nat

Statuses == {"none", "SEND_OK", "UNAVAIBLE_TO_SEND", "FAIL_TO_ACTIVATE_PDP"}

HistoryOK ==
    /\ exch \in 0..MaxExchanges
    /\ stale \in BOOLEAN
    /\ outcome \in [status : Statuses, data : BOOLEAN, reply : Lines \cup {"EMPTY"}]

LEMMA TypeParts == TypeOK <=> ObjectOK /\ StaticOK /\ UartOK /\ ModemOK /\ HistoryOK
  BY DEF TypeOK, ObjectOK, AttemptsOK, StaticOK, UartOK, ModemOK, HistoryOK, Statuses

LEMMA FirstStep == ConfigureSteps[1] = "ASSING_PDPCONTEXT_TO_HTTP_STACK"
  BY DEF ConfigureSteps, PDPSteps, SSLSteps

LEMMA StepKinds ==
    /\ Configuring \subseteq Steps
    /\ "SETTING_URL" \in Steps \ Configuring
    /\ "POSTING_DATA" \in Steps \ Configuring
    /\ "READING_DATA" \in Steps \ Configuring
    /\ "DECODING_DATA" \in Steps \ Configuring
    /\ "DeactivatePDP" \in Steps \ Configuring
    /\ "TransceiverUnavailable" \in Steps \ Configuring
    /\ ConfigureSteps[1] \in Configuring
  BY ConfiguringMembers, FirstStep DEF Steps, PostSteps

LEMMA ObjectStep ==
    ASSUME ObjectOK, StaticOK, [Next]_vars
    PROVE  ObjectOK'
<1> USE TransceiverAssumption, StepKinds DEF ObjectOK
<1>1. CASE UNCHANGED objectVars
  BY <1>1 DEF objectVars, AttemptsOK
<1>2. CASE EnableTransceiver
  <2>1. step' \in Steps
    BY <1>2 DEF EnableTransceiver
  <2>2. AttemptsOK'
    BY <1>2 DEF EnableTransceiver, AttemptsOK
  <2>3. readyToSend' \in BOOLEAN /\ transmissionWasASuccess' \in BOOLEAN
    BY <1>2 DEF EnableTransceiver
  <2> QED
    BY <2>1, <2>2, <2>3
<1>3. CASE Send
  BY <1>3 DEF Send, AttemptsOK
<1>4. CASE ConfigureReads
  <2>1. /\ Following(step) \in Configuring \cup {"SETTING_URL"}
        /\ Following(step) = "SETTING_URL" => step = "SETTING_SSL_LEVEL"
    BY <1>4, FollowingMember DEF ConfigureReads
  <2>2. step' \in Steps
    BY <1>4, <2>1 DEF ConfigureReads
  <2>3. AttemptsOK'
    BY <1>4, <2>1, ConfiguringMembers DEF ConfigureReads, ConfigureAttempts, AttemptsOK
  <2>4. readyToSend' \in BOOLEAN /\ transmissionWasASuccess' \in BOOLEAN
    BY <1>4 DEF ConfigureReads
  <2> QED
    BY <2>2, <2>3, <2>4
<1>5. CASE SettingUrlReads
  <2>1. step' \in Steps
    BY <1>5 DEF SettingUrlReads
  <2>2. AttemptsOK'
    BY <1>5 DEF SettingUrlReads, AttemptsOK
  <2>3. readyToSend' \in BOOLEAN /\ transmissionWasASuccess' \in BOOLEAN
    BY <1>5 DEF SettingUrlReads
  <2> QED
    BY <2>1, <2>2, <2>3
<1>6. CASE PostingDataReads
  <2>1. step' \in Steps
    BY <1>6 DEF PostingDataReads, PostingDataAttempts
  <2>2. AttemptsOK'
    BY <1>6 DEF PostingDataReads, PostingDataAttempts, AttemptsOK
  <2>3. readyToSend' \in BOOLEAN /\ transmissionWasASuccess' \in BOOLEAN
    BY <1>6 DEF PostingDataReads, PostingDataAttempts
  <2> QED
    BY <2>1, <2>2, <2>3
<1>7. CASE ReadingDataReads
  BY <1>7 DEF ReadingDataReads, AttemptsOK
<1>8. CASE DecodingData
  <2>1. step' \in Steps
    BY <1>8 DEF DecodingData, Deactivate
  <2>2. AttemptsOK'
    BY <1>8 DEF DecodingData, Deactivate, AttemptsOK
  <2>3. readyToSend' \in BOOLEAN /\ transmissionWasASuccess' \in BOOLEAN
    BY <1>8 DEF DecodingData, Deactivate
  <2> QED
    BY <2>1, <2>2, <2>3
<1>9. CASE DeactivatePDPReads
  BY <1>9 DEF DeactivatePDPReads, Finish, AttemptsOK
<1>10. CASE ConfigureTimesOut
  BY <1>10 DEF ConfigureTimesOut, Finish, AttemptsOK
<1>11. CASE PostTimesOut
  <2>1. step' \in Steps
    BY <1>11 DEF PostTimesOut, PostGivesUp, Deactivate, StaticOK, PostSteps
  <2>2. AttemptsOK'
    BY <1>11 DEF PostTimesOut, PostGivesUp, Deactivate, StaticOK, PostSteps, AttemptsOK
  <2>3. readyToSend' \in BOOLEAN /\ transmissionWasASuccess' \in BOOLEAN
    BY <1>11 DEF PostTimesOut, PostGivesUp, Deactivate, StaticOK, PostSteps
  <2> QED
    BY <2>1, <2>2, <2>3
<1>12. CASE DeactivatePDPTimesOut
  BY <1>12 DEF DeactivatePDPTimesOut, AttemptsOK
<1>13. UNCHANGED vars \/ Modem => UNCHANGED objectVars
  BY DEF vars, Modem, ModemAnswers, ModemReportsPost, ModemReadsReply, ModemPosts,
         ModemSilent, objectVars
<1> QED
  BY <1>1, <1>2, <1>3, <1>4, <1>5, <1>6, <1>7, <1>8, <1>9, <1>10, <1>11, <1>12, <1>13
  DEF Next, Poll, Read

LEMMA StaticStep ==
    ASSUME StaticOK, UartOK, [Next]_vars
    PROVE  StaticOK'
<1> USE DEF StaticOK
<1>1. CASE UNCHANGED staticVars
  BY <1>1 DEF staticVars
<1>2. CASE SettingUrlReads
  BY <1>2, ReadFacts DEF SettingUrlReads, UartOK
<1>3. CASE PostingDataReads
  BY <1>3, ReadFacts, PostResult DEF PostingDataReads, UartOK
<1>4. CASE ReadingDataReads
  BY <1>4, ReadFacts DEF ReadingDataReads, UartOK
<1>5. CASE DecodingData
  BY <1>5 DEF DecodingData
<1>6. CASE DeactivatePDPReads
  BY <1>6 DEF DeactivatePDPReads, Finish
<1>7. CASE ConfigureTimesOut
  BY <1>7 DEF ConfigureTimesOut, Finish
<1>8. UNCHANGED vars \/ Modem \/ EnableTransceiver \/ Send \/ ConfigureReads \/ PostTimesOut
        \/ DeactivatePDPTimesOut => UNCHANGED staticVars
  BY DEF vars, Modem, ModemAnswers, ModemReportsPost, ModemReadsReply, ModemPosts,
         ModemSilent, EnableTransceiver, Send, ConfigureReads, PostTimesOut,
         DeactivatePDPTimesOut, staticVars
<1> QED
  BY <1>1, <1>2, <1>3, <1>4, <1>5, <1>6, <1>7, <1>8 DEF Next, Poll, Read

LEMMA UartStep ==
    ASSUME UartOK, [Next]_vars
    PROVE  UartOK'
<1> USE TransceiverAssumption DEF UartOK
<1>1. CASE UNCHANGED uart
  BY <1>1
<1>2. CASE EnableTransceiver
  <2>1. uart' = <<>> \/ uart' = <<"OK">>
    BY <1>2 DEF EnableTransceiver
  <2>2. "OK" \in Lines
    BY DEF Lines
  <2>3. MaxLines \in Nat /\ MaxLines >= 1
    OBVIOUS
  <2>4. CASE uart' = <<>>
    BY <2>3, <2>4
  <2>5. CASE uart' = <<"OK">>
    BY <2>2, <2>3, <2>5
  <2> QED
    BY <2>1, <2>4, <2>5
<1>3. CASE ReadATResponse
  BY <1>3, ReadFacts
<1>4. CASE \E line \in Lines : Emit(line)
  BY <1>4, EmitFacts
<1>5. Read => ReadATResponse
  BY DEF Read, ConfigureReads, SettingUrlReads, PostingDataReads, ReadingDataReads,
         DeactivatePDPReads
<1>6. ModemAnswers \/ ModemReportsPost \/ ModemReadsReply => \E line \in Lines : Emit(line)
  <2>1. ModemAnswers => \E a \in Answers : Emit(a[2])
    BY DEF ModemAnswers
  <2>2. ModemReportsPost => Emit("POST_OK") \/ Emit("POST_OK_EMPTY")
    BY DEF ModemReportsPost
  <2>3. ModemReadsReply => Emit("REPLY") \/ Emit("OK")
    BY DEF ModemReadsReply
  <2>4. {"POST_OK", "POST_OK_EMPTY", "REPLY", "OK"} \subseteq Lines
    BY DEF Lines
  <2> QED
    BY <2>1, <2>2, <2>3, <2>4, AnswersFacts, Zenon
<1>7. UNCHANGED vars \/ Send \/ DecodingData \/ ConfigureTimesOut \/ PostTimesOut
        \/ DeactivatePDPTimesOut \/ ModemPosts \/ ModemSilent => UNCHANGED uart
  BY DEF vars, Send, DecodingData, ConfigureTimesOut, PostTimesOut, DeactivatePDPTimesOut,
         ModemPosts, ModemSilent
<1> QED
  BY <1>1, <1>2, <1>3, <1>4, <1>5, <1>6, <1>7 DEF Next, Poll, Modem

\* What the modem does next is a command that waited, or a step of its job.
LEMMA ModemStep ==
    ASSUME ModemOK, QueueOK, [Next]_vars
    PROVE  ModemOK' /\ QueueOK'
<1> USE DEF ModemOK
<1>1. QueueOK' => queued' \in Jobs
  BY DEF QueueOK, Commands, Jobs
<1>2. CASE UNCHANGED modemVars
  BY <1>2 DEF modemVars, QueueOK
<1>3. CASE EnableTransceiver
  BY <1>3 DEF EnableTransceiver, Jobs, QueueOK
<1>4. CASE Send
  <2>1. job' \in Jobs /\ QueueOK'
    BY <1>4, CommandMember, SendATCommandFacts DEF Send
  <2> QED
    BY <1>1, <1>4, <2>1 DEF Send
<1>5. CASE SettingUrlReads
  <2>1. job' \in Jobs /\ queued' = queued /\ url' \in BOOLEAN
    BY <1>5, SendDataFacts DEF SettingUrlReads
  <2> QED
    BY <1>5, <2>1 DEF SettingUrlReads, QueueOK
<1>6. CASE PostingDataReads
  <2>1. job' \in Jobs /\ queued' = queued /\ url' \in BOOLEAN
    BY <1>6, SendDataFacts DEF PostingDataReads
  <2> QED
    BY <1>6, <2>1 DEF PostingDataReads, QueueOK
<1>7. CASE ModemAnswers
  <2>1. job' \in Jobs /\ QueueOK'
    BY <1>7, AnswersFacts, BecomesFacts DEF ModemAnswers
  <2> QED
    BY <1>1, <1>7, <2>1 DEF ModemAnswers
<1>8. CASE ModemReportsPost
  <2>1. job' \in Jobs /\ QueueOK'
    BY <1>8, BecomesFacts DEF ModemReportsPost, Jobs
  <2>2. reply' \in {"none", "empty", "some"}
    BY <1>8, TransceiverAssumption DEF ModemReportsPost
  <2> QED
    BY <1>1, <1>8, <2>1, <2>2 DEF ModemReportsPost
<1>9. CASE ModemReadsReply
  <2>1. Becomes("ok") \/ Becomes("idle")
    BY <1>9 DEF ModemReadsReply
  <2>2. job' \in Jobs /\ QueueOK'
    BY <2>1, BecomesFacts DEF Jobs
  <2> QED
    BY <1>1, <1>9, <2>2 DEF ModemReadsReply
<1>10. CASE ModemPosts
  BY <1>10 DEF ModemPosts, Jobs, QueueOK
<1>11. CASE ModemSilent
  <2>1. job' \in Jobs /\ QueueOK'
    BY <1>11, BecomesFacts DEF ModemSilent, Jobs
  <2> QED
    BY <1>1, <1>11, <2>1 DEF ModemSilent
<1>12. UNCHANGED vars \/ ConfigureReads \/ ReadingDataReads \/ DecodingData
         \/ DeactivatePDPReads \/ ConfigureTimesOut \/ PostTimesOut \/ DeactivatePDPTimesOut
         => UNCHANGED modemVars
  BY DEF vars, ConfigureReads, ReadingDataReads, DecodingData, DeactivatePDPReads,
         ConfigureTimesOut, PostTimesOut, DeactivatePDPTimesOut
<1> QED
  BY <1>2, <1>3, <1>4, <1>5, <1>6, <1>7, <1>8, <1>9, <1>10, <1>11, <1>12
  DEF Next, Poll, Read, Modem

LEMMA HistoryStep ==
    ASSUME HistoryOK, StaticOK, [Next]_vars
    PROVE  HistoryOK'
<1> USE DEF HistoryOK
<1>1. CASE UNCHANGED <<exch, stale, outcome>>
  BY <1>1
<1>2. CASE EnableTransceiver
  BY <1>2, TransceiverAssumption DEF EnableTransceiver, StaticOK
<1>3. ASSUME NEW status \in Statuses, Finish(status), UNCHANGED <<exch, stale>>
      PROVE  HistoryOK'
  BY <1>3 DEF Finish, StaticOK
<1>4. CASE DeactivatePDPReads
  <2>1. \/ UNCHANGED <<exch, stale, outcome>>
        \/ UNCHANGED <<exch, stale>> /\ (Finish("SEND_OK") \/ Finish("UNAVAIBLE_TO_SEND"))
    BY <1>4 DEF DeactivatePDPReads
  <2> QED
    BY <1>1, <1>3, <2>1 DEF Statuses
<1>5. CASE ConfigureTimesOut
  BY <1>1, <1>3, <1>5 DEF ConfigureTimesOut, Statuses
<1>6. UNCHANGED vars \/ Send \/ ConfigureReads \/ SettingUrlReads \/ PostingDataReads
        \/ ReadingDataReads \/ DecodingData \/ PostTimesOut \/ DeactivatePDPTimesOut \/ Modem
        => UNCHANGED <<exch, stale, outcome>>
  BY DEF vars, Send, ConfigureReads, SettingUrlReads, PostingDataReads, ReadingDataReads,
         DecodingData, PostTimesOut, DeactivatePDPTimesOut, Modem, ModemAnswers,
         ModemReportsPost, ModemReadsReply, ModemPosts, ModemSilent
<1> QED
  BY <1>1, <1>2, <1>4, <1>5, <1>6 DEF Next, Poll, Read

LEMMA TypeStep ==
    ASSUME TypeOK, QueueOK, [Next]_vars
    PROVE  TypeOK' /\ QueueOK'
<1>1. ObjectOK /\ StaticOK /\ UartOK /\ ModemOK /\ HistoryOK
  BY TypeParts
<1>2. ObjectOK' /\ StaticOK' /\ UartOK' /\ ModemOK' /\ QueueOK' /\ HistoryOK'
  BY <1>1, ObjectStep, StaticStep, UartStep, ModemStep, HistoryStep
<1> QED
  BY <1>2 DEF TypeOK, ObjectOK, AttemptsOK, StaticOK, UartOK, ModemOK, HistoryOK, Statuses

-----------------------------------------------------------------------------
(***************************************************************************)
(* Data means posted                                                       *)
(***************************************************************************)
\* Within an exchange the count of posts never falls.
LEMMA PostsGrow ==
    ASSUME posts \in Nat, [Next]_vars, ~EnableTransceiver
    PROVE  posts' \in Nat /\ (posts > 0 => posts' > 0)
<1>1. CASE ModemPosts
  BY <1>1 DEF ModemPosts
<1>2. CASE UNCHANGED posts
  BY <1>2
<1>3. UNCHANGED vars \/ Poll \/ ModemAnswers \/ ModemReportsPost \/ ModemReadsReply
        \/ ModemSilent => UNCHANGED posts
  BY DEF vars, modemVars, Poll, Read, ConfigureReads, SettingUrlReads, PostingDataReads,
         ReadingDataReads, DeactivatePDPReads, Send, DecodingData, ConfigureTimesOut,
         PostTimesOut, DeactivatePDPTimesOut, ModemAnswers, ModemReportsPost,
         ModemReadsReply, ModemSilent
<1> QED
  BY <1>1, <1>2, <1>3 DEF Next, Modem

\* A modem that says a message was posted has posted it.
LEMMA PostedStep ==
    ASSUME TypeOK, QueueOK, ResultInv, [Next]_vars
    PROVE  job' = "posted" => posts' > 0
<1> SUFFICES ASSUME job' = "posted" PROVE posts' > 0
  OBVIOUS
<1>1. CASE ModemPosts
  BY <1>1 DEF ModemPosts, TypeOK
<1>2. EnableTransceiver => job' = "idle"
  BY DEF EnableTransceiver
<1>3. QueueOK => queued # "posted" /\ "posted" \notin Commands
  BY DEF QueueOK, Commands
<1>4. Send => job = "posted"
  BY <1>3, CommandMember DEF Send, SendATCommand
<1>5. SettingUrlReads \/ PostingDataReads => job = "posted"
  BY SendDataFacts DEF SettingUrlReads, PostingDataReads, TypeOK
<1>6. \A j : Becomes(j) => j = "posted"
  BY <1>3 DEF Becomes
<1>7. ~(ModemAnswers \/ ModemReportsPost \/ ModemReadsReply \/ ModemSilent)
  BY <1>6, AnswersFacts DEF ModemAnswers, ModemReportsPost, ModemReadsReply, ModemSilent
<1>8. UNCHANGED vars \/ ConfigureReads \/ ReadingDataReads \/ DecodingData
        \/ DeactivatePDPReads \/ ConfigureTimesOut \/ PostTimesOut \/ DeactivatePDPTimesOut
        => job' = job
  BY DEF vars, modemVars, ConfigureReads, ReadingDataReads, DecodingData,
         DeactivatePDPReads, ConfigureTimesOut, PostTimesOut, DeactivatePDPTimesOut
<1>9. CASE job = "posted" /\ ~EnableTransceiver
  BY <1>9, PostsGrow DEF ResultInv, TypeOK
<1> QED
  BY <1>1, <1>2, <1>4, <1>5, <1>7, <1>8, <1>9 DEF Next, Poll, Read, Modem

\* A result in the UART comes from a message that was posted in this exchange.
LEMMA LinesStep ==
    ASSUME TypeOK, ResultInv, [Next]_vars
    PROVE  \A i \in 1..Len(uart') : uart'[i] \in ResultLines => posts' > 0
<1> SUFFICES ASSUME NEW i \in 1..Len(uart'), uart'[i] \in ResultLines
             PROVE  posts' > 0
  OBVIOUS
<1> USE DEF TypeOK
<1>1. EnableTransceiver => FALSE
  <2> SUFFICES ASSUME EnableTransceiver PROVE FALSE
    OBVIOUS
  <2>1. uart' = <<>> \/ uart' = <<"OK">>
    BY DEF EnableTransceiver
  <2>2. CASE uart' = <<>>
    BY <2>2
  <2>3. CASE uart' = <<"OK">>
    BY <2>3 DEF ResultLines
  <2> QED
    BY <2>1, <2>2, <2>3
<1>2. ASSUME NEW k \in 1..Len(uart), uart[k] \in ResultLines
      PROVE  posts' > 0
  BY <1>1, <1>2, PostsGrow DEF ResultInv
<1>3. CASE UNCHANGED uart
  BY <1>2, <1>3
<1>4. CASE ReadATResponse
  BY <1>2, <1>4, ReadFacts
<1>5. ASSUME NEW line \in Lines, Emit(line), line \notin ResultLines
      PROVE  posts' > 0
  BY <1>2, <1>5, EmitFacts
<1>6. Read => ReadATResponse
  BY DEF Read, ConfigureReads, SettingUrlReads, PostingDataReads, ReadingDataReads,
         DeactivatePDPReads
<1>7. CASE ModemAnswers
  BY <1>5, <1>7, AnswersFacts DEF ModemAnswers
<1>8. CASE ModemReportsPost
  BY <1>1, <1>8, PostsGrow DEF ModemReportsPost, ResultInv
<1>9. CASE ModemReadsReply
  BY <1>5, <1>9 DEF ModemReadsReply, Lines, ResultLines
<1>10. UNCHANGED vars \/ Send \/ DecodingData \/ ConfigureTimesOut \/ PostTimesOut
         \/ DeactivatePDPTimesOut \/ ModemPosts \/ ModemSilent => UNCHANGED uart
  BY DEF vars, Send, DecodingData, ConfigureTimesOut, PostTimesOut, DeactivatePDPTimesOut,
         ModemPosts, ModemSilent
<1> QED
  BY <1>1, <1>3, <1>4, <1>6, <1>7, <1>8, <1>9, <1>10 DEF Next, Poll, Modem

\* What may become of a step: all that the invariants below need of it.
LEMMA StepChanges ==
    ASSUME TypeOK, [Next]_vars
    PROVE  /\ step' = "READING_DATA" =>
                \/ step \in {"READING_DATA", "DECODING_DATA"}
                \/ /\ step = "POSTING_DATA"
                   /\ PostingDataReads
                   /\ Head(uart) \in ResultLines
           /\ step' = "DECODING_DATA" => step \in {"READING_DATA", "DECODING_DATA"}
           /\ step' = "POSTING_DATA" =>
                step = "POSTING_DATA" \/ (step = "SETTING_URL" /\ SettingUrlReads)
           /\ step' \in Configuring \cup {"SETTING_URL"} =>
                step \in Configuring \cup {"SETTING_URL"} \/ EnableTransceiver
<1> USE ConfiguringMembers DEF PostSteps
<1>1. CASE EnableTransceiver
  BY <1>1, FirstStep DEF EnableTransceiver
<1>2. CASE UNCHANGED step
  BY <1>2
<1>3. CASE ConfigureReads
  <2>1. Following(step) \in Configuring \cup {"SETTING_URL"} /\ step \in Configuring
    BY <1>3, FollowingMember DEF ConfigureReads
  <2> QED
    BY <1>3, <2>1 DEF ConfigureReads
<1>4. CASE SettingUrlReads
  BY <1>4 DEF SettingUrlReads
<1>5. CASE PostingDataReads
  BY <1>5, PostResult DEF PostingDataReads
<1>6. CASE ReadingDataReads
  BY <1>6 DEF ReadingDataReads
<1>7. CASE DecodingData
  BY <1>7 DEF DecodingData, Deactivate
<1>8. CASE DeactivatePDPReads
  BY <1>8 DEF DeactivatePDPReads, Finish
<1>9. CASE ConfigureTimesOut
  BY <1>9 DEF ConfigureTimesOut, Finish
<1>10. CASE PostTimesOut
  BY <1>10 DEF PostTimesOut, PostGivesUp, Deactivate
<1>11. UNCHANGED vars \/ Send \/ DeactivatePDPTimesOut \/ Modem => UNCHANGED step
  BY DEF vars, objectVars, Send, DeactivatePDPTimesOut, Modem, ModemAnswers,
         ModemReportsPost, ModemReadsReply, ModemPosts, ModemSilent
<1> QED
  BY <1>1, <1>2, <1>3, <1>4, <1>5, <1>6, <1>7, <1>8, <1>9, <1>10, <1>11 DEF Next, Poll, Read

LEMMA ResultStep ==
    ASSUME TypeOK, QueueOK, ResultInv, [Next]_vars
    PROVE  ResultInv'
<1>1. ASSUME step' \in {"READING_DATA", "DECODING_DATA"}
      PROVE  posts' > 0
  <2>1. ~EnableTransceiver
    BY <1>1, FirstStep DEF EnableTransceiver
  <2>2. CASE step \in {"READING_DATA", "DECODING_DATA"}
    BY <2>1, <2>2, PostsGrow DEF ResultInv, TypeOK
  <2>3. CASE PostingDataReads /\ Head(uart) \in ResultLines
    <3>1. 1 \in 1..Len(uart) /\ uart[1] \in ResultLines
      BY <2>3, ReadFacts DEF PostingDataReads, TypeOK
    <3> QED
      BY <2>1, <3>1, PostsGrow DEF ResultInv, TypeOK
  <2> QED
    BY <1>1, <2>2, <2>3, StepChanges
<1> QED
  BY <1>1, PostedStep, LinesStep DEF ResultInv

\* The flag of new data is set where the reply was read and is gone when the
\* exchange ends.
LEMMA DataFlagStep ==
    ASSUME TypeOK, ResultInv, FlagInv, [Next]_vars, newDataAvailable'
    PROVE  step' = "DeactivatePDP" /\ posts' > 0
<1>1. CASE DecodingData
  <2>1. step' = "DeactivatePDP"
    BY <1>1 DEF DecodingData, Deactivate, FlagInv
  <2>2. posts' = posts /\ posts > 0
    BY <1>1 DEF DecodingData, modemVars, ResultInv
  <2> QED
    BY <2>1, <2>2
<1>2. CASE DeactivatePDPReads
  BY <1>2 DEF DeactivatePDPReads, Finish, FlagInv, modemVars
<1>3. CASE ConfigureTimesOut
  BY <1>3, ConfiguringMembers DEF ConfigureTimesOut, Finish, FlagInv
<1>4. CASE EnableTransceiver
  BY <1>4 DEF EnableTransceiver, FlagInv, staticVars
<1>5. CASE newDataAvailable /\ step' = step /\ ~EnableTransceiver
  BY <1>5, PostsGrow DEF FlagInv, TypeOK
<1>6. UNCHANGED vars \/ Send \/ DeactivatePDPTimesOut \/ Modem
        => newDataAvailable /\ step' = step
  BY DEF vars, objectVars, staticVars, Send, DeactivatePDPTimesOut, Modem, ModemAnswers,
         ModemReportsPost, ModemReadsReply, ModemPosts, ModemSilent
<1>7. ConfigureReads \/ SettingUrlReads \/ PostingDataReads \/ ReadingDataReads
        \/ PostTimesOut => newDataAvailable /\ step # "DeactivatePDP"
  BY ConfiguringMembers
  DEF ConfigureReads, SettingUrlReads, PostingDataReads, ReadingDataReads, PostTimesOut,
      PostSteps, staticVars
<1> QED
  BY <1>1, <1>2, <1>3, <1>4, <1>5, <1>6, <1>7 DEF Next, Poll, Read, FlagInv

\* A response is awaited where there is one, or since before the exchange.
LEMMA WaitingStep ==
    ASSUME TypeOK, ResultInv, FlagInv, [Next]_vars, watingForResponse', ~stale'
    PROVE  posts' > 0
<1>1. EnableTransceiver => FALSE
  BY DEF EnableTransceiver, staticVars
<1>2. stale' = stale
  BY <1>1 DEF Next, Poll, Read, vars, Send, ConfigureReads, SettingUrlReads,
              PostingDataReads, ReadingDataReads, DecodingData, DeactivatePDPReads,
              ConfigureTimesOut, PostTimesOut, DeactivatePDPTimesOut, Modem, ModemAnswers,
              ModemReportsPost, ModemReadsReply, ModemPosts, ModemSilent
<1>3. CASE ReadingDataReads
  BY <1>1, <1>3, PostsGrow DEF ReadingDataReads, ResultInv, TypeOK
<1>4. CASE watingForResponse' = watingForResponse
  BY <1>1, <1>2, <1>4, PostsGrow DEF FlagInv, TypeOK
<1>5. UNCHANGED vars \/ Send \/ ConfigureReads \/ SettingUrlReads \/ PostingDataReads
        \/ DecodingData \/ DeactivatePDPReads \/ ConfigureTimesOut \/ PostTimesOut
        \/ DeactivatePDPTimesOut \/ Modem => watingForResponse' = watingForResponse
  BY DEF vars, staticVars, Send, ConfigureReads, SettingUrlReads, PostingDataReads,
         DecodingData, DeactivatePDPReads, ConfigureTimesOut, PostTimesOut,
         DeactivatePDPTimesOut, Modem, ModemAnswers, ModemReportsPost, ModemReadsReply,
         ModemPosts, ModemSilent
<1> QED
  BY <1>1, <1>3, <1>4, <1>5 DEF Next, Poll, Read

LEMMA FlagStep ==
    ASSUME TypeOK, ResultInv, FlagInv, [Next]_vars
    PROVE  FlagInv'
<1>1. ASSUME step' = "DeactivatePDP", transmissionWasASuccess', ~stale'
      PROVE  posts' > 0
  <2>1. ~EnableTransceiver
    BY <1>1, FirstStep DEF EnableTransceiver
  <2>2. stale' = stale
    BY <2>1 DEF Next, Poll, Read, vars, Send, ConfigureReads, SettingUrlReads,
                PostingDataReads, ReadingDataReads, DecodingData, DeactivatePDPReads,
                ConfigureTimesOut, PostTimesOut, DeactivatePDPTimesOut, Modem,
                ModemAnswers, ModemReportsPost, ModemReadsReply, ModemPosts, ModemSilent
  <2>3. CASE DecodingData
    BY <2>1, <2>3, PostsGrow DEF DecodingData, ResultInv, TypeOK
  <2>4. CASE PostTimesOut
    <3>1. watingForResponse
      BY <1>1, <2>4 DEF PostTimesOut, PostGivesUp, Deactivate, PostSteps
    <3> QED
      BY <1>1, <2>1, <2>2, <3>1, PostsGrow DEF FlagInv, TypeOK
  <2>5. CASE step = "DeactivatePDP" /\ transmissionWasASuccess
    BY <1>1, <2>1, <2>2, <2>5, PostsGrow DEF FlagInv, TypeOK
  <2>6. UNCHANGED vars \/ Send \/ DeactivatePDPReads \/ DeactivatePDPTimesOut \/ Modem
          => step = "DeactivatePDP" /\ transmissionWasASuccess
    BY <1>1 DEF vars, objectVars, Send, DeactivatePDPReads, Finish, DeactivatePDPTimesOut,
                Modem, ModemAnswers, ModemReportsPost, ModemReadsReply, ModemPosts,
                ModemSilent
  <2>7. ~SettingUrlReads /\ ~PostingDataReads /\ ~ReadingDataReads /\ ~ConfigureTimesOut
    BY <1>1, ConfiguringMembers DEF SettingUrlReads, PostingDataReads, ReadingDataReads,
                                    ConfigureTimesOut, Finish
  <2>8. ~ConfigureReads
    <3>1. ConfigureReads =>
            step \in Configuring /\ Following(step) \in Configuring \cup {"SETTING_URL"}
      BY FollowingMember DEF ConfigureReads
    <3> QED
      BY <1>1, <3>1, ConfiguringMembers DEF ConfigureReads
  <2> QED
    BY <2>1, <2>3, <2>4, <2>5, <2>6, <2>7, <2>8 DEF Next, Poll, Read
<1> QED
  BY <1>1, DataFlagStep, WaitingStep DEF FlagInv

LEMMA OutcomeStep ==
    ASSUME TypeOK, FlagInv, OutcomeInv, [Next]_vars
    PROVE  OutcomeInv'
<1>1. CASE EnableTransceiver
  BY <1>1, FirstStep DEF EnableTransceiver, OutcomeInv, Ended
<1>2. CASE DeactivatePDPReads /\ step' = "TransceiverUnavailable"
  <2>1. /\ outcome' = [status |-> IF transmissionWasASuccess THEN "SEND_OK"
                                    ELSE "UNAVAIBLE_TO_SEND",
                       data |-> newDataAvailable, reply |-> StringToBeRead]
        /\ step = "DeactivatePDP"
        /\ posts' = posts /\ stale' = stale
    BY <1>2 DEF DeactivatePDPReads, Finish, modemVars
  <2> QED
    BY <2>1 DEF OutcomeInv, FlagInv
<1>3. CASE ConfigureTimesOut /\ step' = "TransceiverUnavailable"
  <2>1. outcome' = [status |-> "FAIL_TO_ACTIVATE_PDP", data |-> newDataAvailable,
                    reply |-> StringToBeRead]
    BY <1>3, ConfiguringMembers DEF ConfigureTimesOut, Finish
  <2>2. newDataAvailable => FALSE
    BY <1>3, ConfiguringMembers DEF ConfigureTimesOut, FlagInv
  <2> QED
    BY <2>1, <2>2 DEF OutcomeInv
<1>4. CASE ~EnableTransceiver /\ Ended /\ UNCHANGED <<step, exch, outcome, stale>>
  BY <1>4, PostsGrow DEF OutcomeInv, Ended, TypeOK
<1>5. CASE step' # "TransceiverUnavailable"
  BY <1>5 DEF OutcomeInv, Ended
<1>6. CASE UNCHANGED <<step, exch, outcome, stale>>
  BY <1>1, <1>4, <1>6 DEF Ended, OutcomeInv
<1>7. UNCHANGED vars \/ Modem \/ Send \/ DeactivatePDPTimesOut
        => UNCHANGED <<step, exch, outcome, stale>>
  BY DEF vars, objectVars, Send, DeactivatePDPTimesOut, Modem, ModemAnswers,
         ModemReportsPost, ModemReadsReply, ModemPosts, ModemSilent
<1>8. SettingUrlReads \/ PostingDataReads \/ ReadingDataReads \/ DecodingData \/ PostTimesOut
        => step' # "TransceiverUnavailable"
  BY DEF SettingUrlReads, PostingDataReads, ReadingDataReads, DecodingData, PostTimesOut,
         PostGivesUp, Deactivate, PostSteps
<1>9. ConfigureReads => step' # "TransceiverUnavailable"
  <2>1. ConfigureReads =>
          step \in Configuring /\ Following(step) \in Configuring \cup {"SETTING_URL"}
    BY FollowingMember DEF ConfigureReads
  <2> QED
    BY <2>1, ConfiguringMembers DEF ConfigureReads
<1> QED
  BY <1>1, <1>2, <1>3, <1>5, <1>6, <1>7, <1>8, <1>9 DEF Next, Poll, Read

-----------------------------------------------------------------------------
(***************************************************************************)
(* Duplicates are bounded                                                  *)
(***************************************************************************)
\* Only AT+QHTTPPOST adds to what the modem was asked to post.
LEMMA PendingChanges ==
    ASSUME TypeOK, QueueOK, [Next]_vars
    PROVE  /\ Pending \in Nat /\ Pending' \in Nat
           /\ EnableTransceiver => Pending' = 0
           /\ Send /\ step = "POSTING_DATA" => Pending' <= Pending + 1
           /\ ~EnableTransceiver /\ ~(Send /\ step = "POSTING_DATA") => Pending' <= Pending
<1> USE DEF Pending, InJob, InQueue, Awaited
<1>1. posts \in Nat /\ posts' \in Nat
  <2>1. TypeOK'
    BY TypeStep
  <2> QED
    BY <2>1 DEF TypeOK
<1>2. Pending \in Nat /\ Pending' \in Nat
  <2>1. InJob \in Nat /\ InQueue \in Nat /\ InJob' \in Nat /\ InQueue' \in Nat
    OBVIOUS
  <2>2. \A x, y, z \in Nat : x + y + z \in Nat
    OBVIOUS
  <2>3. posts + InJob + InQueue \in Nat
    BY <1>1, <2>1, <2>2, Zenon
  <2>4. posts' + InJob' + InQueue' \in Nat
    BY <1>1, <2>1, <2>2, Zenon
  <2> QED
    BY <2>3, <2>4, Zenon
<1>3. EnableTransceiver => Pending' = 0
  BY DEF EnableTransceiver
<1>4. ASSUME Send
      PROVE  Pending' <= Pending + IF step = "POSTING_DATA" THEN 1 ELSE 0
  <2>1. /\ Command(step) \in Commands
        /\ Command(step) = "post" => step = "POSTING_DATA"
    BY CommandMember
  <2>2. posts' = posts
    BY <1>4 DEF Send
  <2>3. /\ job' = job \/ (job = "idle" /\ job' = Command(step))
        /\ queued' = queued \/ (job' = job /\ queued = "idle" /\ queued' = Command(step))
        /\ job' = job \/ queued' = queued
    BY <1>4, <2>1, SendATCommandFacts DEF Send, TypeOK
  <2>4. CASE step = "POSTING_DATA"
    BY <1>1, <2>2, <2>3, <2>4
  <2>5. CASE step # "POSTING_DATA"
    BY <1>1, <2>1, <2>2, <2>3, <2>5 DEF Commands
  <2> QED
    BY <2>4, <2>5
<1>5. ASSUME NEW j \in Jobs, Becomes(j), posts' = posts, j \in Awaited => job \in Awaited
      PROVE  Pending' <= Pending
  <2>1. CASE job' = j /\ queued' = queued
    BY <1>1, <1>5, <2>1
  <2>2. CASE j = "idle" /\ job' = queued /\ queued' = "idle"
    BY <1>1, <1>5, <2>2 DEF QueueOK, Commands
  <2> QED
    BY <1>5, <2>1, <2>2, BecomesFacts
<1>6. ASSUME SettingUrlReads \/ PostingDataReads
      PROVE  Pending' <= Pending
  <2>1. posts' = posts
    BY <1>6 DEF SettingUrlReads, PostingDataReads
  <2>2. /\ queued' = queued
        /\ job' = job \/ job' = "ok" \/ (job = "postData" /\ job' = "postSent")
    BY <1>6, SendDataFacts DEF SettingUrlReads, PostingDataReads, TypeOK
  <2> QED
    BY <1>1, <2>1, <2>2
<1>7. ModemAnswers => Pending' <= Pending
  BY <1>5, AnswersFacts DEF ModemAnswers
<1>8. ModemReportsPost \/ ModemReadsReply \/ ModemSilent => Pending' <= Pending
  <2>1. ModemReportsPost \/ ModemReadsReply \/ ModemSilent =>
          posts' = posts /\ (Becomes("idle") \/ Becomes("ok"))
    BY DEF ModemReportsPost, ModemReadsReply, ModemSilent
  <2> QED
    BY <1>5, <2>1 DEF Jobs
<1>9. ModemPosts => Pending' <= Pending
  BY <1>1 DEF ModemPosts
<1>10. UNCHANGED vars \/ ConfigureReads \/ ReadingDataReads \/ DecodingData
         \/ DeactivatePDPReads \/ ConfigureTimesOut \/ PostTimesOut \/ DeactivatePDPTimesOut
         => UNCHANGED modemVars
  BY DEF vars, ConfigureReads, ReadingDataReads, DecodingData, DeactivatePDPReads,
         ConfigureTimesOut, PostTimesOut, DeactivatePDPTimesOut
<1>11. UNCHANGED modemVars => Pending' = Pending
  BY DEF modemVars
<1> HIDE DEF Pending
<1>12. Send => Pending' <= Pending \/ (step = "POSTING_DATA" /\ Pending' <= Pending + 1)
  BY <1>2, <1>4
<1> QED
  BY <1>2, <1>3, <1>6, <1>7, <1>8, <1>9, <1>10, <1>11, <1>12 DEF Next, Poll, Read, Modem

LEMMA SentType ==
    ASSUME TypeOK, QueueOK, [Next]_vars
    PROVE  /\ Sent \in Nat /\ Sent' \in Nat
           /\ Sent' <= Attempts' + 1
<1>1. Attempts \in Nat /\ Attempts' \in Nat
  <2>1. TypeOK'
    BY TypeStep
  <2> QED
    BY <2>1 DEF TypeOK
<1>2. \A n \in Nat : n + 1 \in Nat /\ n <= n + 1 /\ n + 1 <= n + 1
  OBVIOUS
<1> QED
  BY <1>1, <1>2, Zenon DEF Sent

\* In POSTING_DATA a timeout pays for the next command with an attempt.
LEMMA SentStep ==
    ASSUME TypeOK, [Next]_vars, step = "POSTING_DATA", step' = "POSTING_DATA"
    PROVE  /\ Send => Sent' = Sent + 1
           /\ Sent' >= Sent
<1> USE DEF Sent
<1>1. Attempts \in Nat
  BY DEF TypeOK
<1>2. Send => Sent' = Sent + 1 /\ Sent' >= Sent
  BY <1>1 DEF Send
<1>3. PostTimesOut => Sent' >= Sent
  BY <1>1 DEF PostTimesOut, PostGivesUp, Deactivate
<1>4. PostingDataReads => Sent' >= Sent
  <2>1. PostingDataReads => CheckHTTPPostResult(Head(uart)) = "none"
    BY DEF PostingDataReads
  <2>2. PostingDataReads => Head(uart) \notin ResultLines
    BY <2>1, PostResult
  <2> QED
    BY <1>1, <2>1, <2>2 DEF PostingDataReads, PostingDataAttempts, ResultLines
<1>5. UNCHANGED vars \/ Modem => Sent' >= Sent
  BY <1>1 DEF vars, objectVars, Modem, ModemAnswers, ModemReportsPost, ModemReadsReply,
         ModemPosts, ModemSilent
<1>6. ~EnableTransceiver /\ ~ConfigureReads /\ ~SettingUrlReads /\ ~ReadingDataReads
        /\ ~DecodingData /\ ~DeactivatePDPReads /\ ~ConfigureTimesOut
        /\ ~DeactivatePDPTimesOut
  BY ConfiguringMembers
  DEF EnableTransceiver, ConfigureReads, SettingUrlReads, ReadingDataReads, DecodingData,
      DeactivatePDPReads, ConfigureTimesOut, DeactivatePDPTimesOut
<1> QED
  BY <1>2, <1>3, <1>4, <1>5, <1>6 DEF Next, Poll, Read

LEMMA PendingStep ==
    ASSUME TypeOK, QueueOK, PendingInv, [Next]_vars
    PROVE  PendingInv'
<1>1. AttemptsOK'
  BY TypeStep DEF TypeOK, AttemptsOK
<1>2. /\ Pending \in Nat /\ Pending' \in Nat
      /\ EnableTransceiver => Pending' = 0
      /\ Send /\ step = "POSTING_DATA" => Pending' <= Pending + 1
      /\ ~EnableTransceiver /\ ~(Send /\ step = "POSTING_DATA") => Pending' <= Pending
  BY PendingChanges
<1>3. Send => step' = step
  BY DEF Send
<1> HIDE DEF Pending
<1>4. ASSUME step' \in Configuring \cup {"SETTING_URL"}
      PROVE  Pending' = 0
  <2>1. step \in Configuring \cup {"SETTING_URL"} \/ EnableTransceiver
    BY <1>4, StepChanges
  <2>2. "POSTING_DATA" \notin Configuring \cup {"SETTING_URL"}
    BY ConfiguringMembers
  <2> QED
    BY <1>2, <2>1, <2>2 DEF PendingInv
<1>5. ASSUME step' = "POSTING_DATA"
      PROVE  Pending' <= Sent'
  <2>1. ~EnableTransceiver
    BY <1>5, FirstStep DEF EnableTransceiver
  <2>2. Sent \in Nat /\ Sent' \in Nat
    BY SentType
  <2>3. CASE step = "POSTING_DATA"
    <3>1. (Send => Sent' = Sent + 1) /\ Sent' >= Sent
      BY <1>5, <2>3, SentStep
    <3>2. Pending <= Sent
      BY <2>3 DEF PendingInv
    <3> QED
      BY <1>2, <2>1, <2>2, <3>1, <3>2
  <2>4. CASE step = "SETTING_URL"
    BY <1>2, <2>1, <2>2, <2>4 DEF PendingInv
  <2> QED
    BY <1>5, <2>3, <2>4, StepChanges
<1>6. Pending' <= MAXATTEMPTS_POST
  <2>1. MAXATTEMPTS_POST \in Nat
    BY TransceiverAssumption
  <2>2. CASE Send /\ step = "POSTING_DATA"
    <3>1. step' = "POSTING_DATA" /\ "POSTING_DATA" \notin Configuring
      BY <1>3, <2>2, StepKinds
    <3>2. Attempts' \in Nat /\ Attempts' < MAXATTEMPTS_POST
      BY <1>1, <3>1 DEF AttemptsOK
    <3>3. Pending' <= Sent'
      BY <1>5, <3>1
    <3>4. Sent' <= Attempts' + 1 /\ Sent' \in Nat
      BY <3>2, SentType
    <3>5. Pending' \in Nat
      BY <1>2
    <3>6. ASSUME NEW p \in Nat, NEW t \in Nat, NEW a \in Nat, NEW m \in Nat,
                 p <= t, t <= a + 1, a < m
          PROVE  p <= m
      BY <3>6
    <3> QED
      BY <2>1, <3>2, <3>3, <3>4, <3>5, <3>6
  <2> QED
    BY <1>2, <2>1, <2>2 DEF PendingInv
<1> QED
  BY <1>4, <1>5, <1>6 DEF PendingInv

-----------------------------------------------------------------------------
(***************************************************************************)
(* The theorems                                                            *)
(***************************************************************************)
LEMMA InitIInv == Init => IInv
<1> SUFFICES ASSUME Init PROVE IInv
  OBVIOUS
<1> USE TransceiverAssumption DEF Init
<1>1. ObjectOK
  <2>1. step \in Steps /\ readyToSend \in BOOLEAN /\ transmissionWasASuccess \in BOOLEAN
    BY StepKinds
  <2>2. AttemptsOK
    BY DEF AttemptsOK
  <2> QED
    BY <2>1, <2>2 DEF ObjectOK
<1>2. StaticOK
  BY DEF StaticOK
<1>3. ModemOK
  BY DEF ModemOK, Jobs
<1>4. HistoryOK
  <2>1. outcome \in [status : Statuses, data : BOOLEAN, reply : Lines \cup {"EMPTY"}]
    <3>1. "none" \in Statuses /\ "EMPTY" \in Lines \cup {"EMPTY"} /\ FALSE \in BOOLEAN
      BY DEF Statuses
    <3> QED
      BY ONLY <3>1, Init DEF Init
  <2>2. exch = 0 /\ stale \in BOOLEAN
    BY Zenon
  <2>3. 0 \in 0..MaxExchanges
    BY ONLY TransceiverAssumption
  <2> QED
    BY <2>1, <2>2, <2>3, Zenon DEF HistoryOK
<1>5. UartOK
  BY DEF UartOK
<1>6. TypeOK /\ QueueOK
  BY <1>1, <1>2, <1>3, <1>4, <1>5, TypeParts DEF QueueOK
<1>7. ResultInv /\ FlagInv /\ OutcomeInv
  BY DEF ResultInv, FlagInv, OutcomeInv, Ended
<1>8. PendingInv
  BY StepKinds DEF PendingInv, Pending, InJob, InQueue, Awaited
<1> QED
  BY <1>6, <1>7, <1>8 DEF IInv

LEMMA StepIInv == IInv /\ [Next]_vars => IInv'
  BY TypeStep, ResultStep, FlagStep, OutcomeStep, PendingStep DEF IInv

\* The inductive invariant of a behaviour of exchanges.
LEMMA Invariance == Spec => []IInv
  BY InitIInv, StepIInv, PTL DEF Spec

\* The transceiver's variables keep their types: in particular no state object
\* counts as many attempts as its limit, whichever object took over the count.
THEOREM TypeCorrect == Spec => []TypeOK
<1>1. IInv => TypeOK
  BY DEF IInv
<1> QED
  BY <1>1, Invariance, PTL

\* Data that PostHTTP hands on means that this exchange's message reached the
\* server, and so does SEND_OK unless watingForResponse was left over from an
\* earlier exchange, for every modem that may be silent, refuse and answer late.
THEOREM DataPosted == Spec => []DataMeansPosted
<1>1. IInv => DataMeansPosted
  BY DEF IInv, FlagInv, OutcomeInv, DataMeansPosted
<1> QED
  BY <1>1, Invariance, PTL

\* However often AT+QHTTPPOST is repeated and answered late, the server gets the
\* message of an exchange at most MAXATTEMPTS times.
THEOREM BoundedDuplicates == Spec => []DuplicatesBounded
<1>1. IInv => DuplicatesBounded
  BY TransceiverAssumption DEF IInv, TypeOK, PendingInv, Pending, InJob, InQueue,
                              DuplicatesBounded
<1> QED
  BY <1>1, Invariance, PTL
=============================================================================
