------------------------ MODULE CellularTransceiver ------------------------
(***************************************************************************)
(* One HTTP exchange over the mobile network: CellularModule's transceiver *)
(* states TransceiverUnavailable -> ConfigurePDPForHTTP -> ConfigureSSL -> *)
(* PostHTTP -> DeactivatePDP, driven by polling exchangeMessages.          *)
(*                                                                         *)
(* Each poll may send the command of the current step, finish reading one  *)
(* line of the UART (a poll reads one character) and find the refresh time *)
(* elapsed; the three are actions of their own.  Lines carry no mark of    *)
(* the command they answer: after a timeout the modem may answer both the  *)
(* first command and its repetition, and a late line is taken for the      *)
(* answer to whatever was sent last.  The statics of PostHTTP outlive the  *)
(* exchange.                                                               *)
(***************************************************************************)
EXTENDS Naturals, Sequences

CONSTANTS
    MAXATTEMPTS_CONFIGURE, \* MAXATTEMPTS of the two configuration states (20)
    MAXATTEMPTS_POST,      \* MAXATTEMPTS of PostHTTP (5)
    Replies,               \* lengths a reply may have: "some", "empty"
    MaxLines,              \* bound: lines waiting in the UART
    MaxExchanges           \* bound: exchanges in a behaviour

ASSUME TransceiverAssumption ==
    /\ MAXATTEMPTS_CONFIGURE \in Nat \ {0}
    /\ MAXATTEMPTS_POST \in Nat \ {0}
    /\ Replies \subseteq {"some", "empty"}
    /\ MaxLines \in Nat \ {0}
    /\ MaxExchanges \in Nat

VARIABLES
    step,                    \* the transceiver's class and its currentStatus
    readyToSend,
    Attempts,
    transmissionWasASuccess,
    watingForResponse,       \* static of PostHTTP
    urlSet,                  \* static of PostHTTP
    dataLen,                 \* static of PostHTTP: "none", "empty" or "some"
    StringToBeRead,          \* static of PostHTTP, after its truncation
    newDataAvailable,        \* static of ExchangingMessages
    uart,                    \* lines the modem has sent and nobody has read
    job,                     \* what the modem is doing
    queued,                  \* a command the modem will execute next
    url,                     \* the modem has the server's address
    reply,                   \* the response body the modem holds
    exch,                    \* history: exchanges started
    posts,                   \* history: times this exchange's message reached the server
    stale,                   \* history: watingForResponse when the exchange began
    outcome                  \* history: status, data and reply of the last exchange

objectVars == <<step, readyToSend, Attempts, transmissionWasASuccess>>
staticVars == <<watingForResponse, urlSet, dataLen, StringToBeRead, newDataAvailable>>
modemVars  == <<job, queued, url, reply, posts>>

vars == <<objectVars, staticVars, uart, modemVars, exch, stale, outcome>>

-----------------------------------------------------------------------------
PDPSteps == <<"ASSING_PDPCONTEXT_TO_HTTP_STACK", "CONFIGURING_PDP_PROFILE",
              "ACTIVATING_PDP_CONTEXT", "QUERING_PDP_CONTEXT",
              "CONFIGURING_SERVER_DNS">>

SSLSteps == <<"SETTING_SSL_CONTEXT", "SETTING_SSL_VERSION", "SETTING_SSL_LEVEL">>

ConfigureSteps == PDPSteps \o SSLSteps \o <<"SETTING_URL">>

PostSteps == {"SETTING_URL", "POSTING_DATA", "READING_DATA"}

Configuring == {ConfigureSteps[i] : i \in 1..8}

Following(s) ==
    LET i == CHOOSE i \in 1..8 : ConfigureSteps[i] = s IN ConfigureSteps[i + 1]

Steps == Configuring \cup PostSteps
           \cup {"DECODING_DATA", "DeactivatePDP", "TransceiverUnavailable"}

Init ==
    /\ step = "TransceiverUnavailable"
    /\ readyToSend = TRUE
    /\ Attempts = 0
    /\ transmissionWasASuccess = FALSE
    /\ watingForResponse = FALSE
    /\ urlSet = FALSE
    /\ dataLen = "empty"
    /\ StringToBeRead = "EMPTY"
    /\ newDataAvailable = FALSE
    /\ uart = <<>>
    /\ job = "idle"
    /\ queued = "idle"
    /\ url = FALSE
    /\ reply = "none"
    /\ exch = 0
    /\ posts = 0
    /\ stale = FALSE
    /\ outcome = [status |-> "none", data |-> FALSE, reply |-> "EMPTY"]

-----------------------------------------------------------------------------
(***************************************************************************)
(* The modem.  It answers, refuses or ignores a command; CONNECT puts it   *)
(* in data mode, where it swallows what it is sent until the data is       *)
(* complete or its input timeout passes.  A command that comes too early   *)
(* is executed afterwards or lost.                                         *)
(***************************************************************************)
Jobs == {"idle", "command", "query", "ok", "url", "urlData", "post", "postData",
         "postSent", "posting", "posted", "read", "readData"}

\* <<what it does, the line it sends, what it does next>>
Answers ==
    {<<"command", "OK", "idle">>,  <<"command", "ERROR", "idle">>,
     <<"query", "INFO", "ok">>,    <<"query", "ERROR", "idle">>,
     <<"ok", "OK", "idle">>,
     <<"url", "CONNECT", "urlData">>, <<"url", "ERROR", "idle">>,
     <<"urlData", "ERROR", "idle">>,
     <<"post", "CONNECT", "postData">>, <<"post", "ERROR", "idle">>,
     <<"postData", "ERROR", "idle">>,
     <<"postSent", "OK", "posting">>,
     <<"posting", "POST_FAILURE", "idle">>,
     <<"posted", "POST_FAILURE", "idle">>,
     <<"read", "CONNECT", "readData">>, <<"read", "ERROR", "idle">>}

Becomes(j) ==
    /\ job' = IF j = "idle" THEN queued ELSE j
    /\ queued' = IF j = "idle" THEN "idle" ELSE queued

Emit(line) ==
    /\ Len(uart) < MaxLines
    /\ uart' = Append(uart, line)

ModemAnswers ==
    /\ \E a \in Answers :
         /\ a[1] = job
         /\ a = <<"post", "CONNECT", "postData">> => url
         /\ a = <<"read", "CONNECT", "readData">> => reply # "none"
         /\ Emit(a[2])
         /\ Becomes(a[3])
    /\ UNCHANGED <<objectVars, staticVars, url, reply, posts, exch, stale, outcome>>

\* The result of a POST the server answered: its length comes with it.
ModemReportsPost ==
    /\ job = "posted"
    /\ \E length \in Replies :
         /\ reply' = length
         /\ Emit(IF length = "some" THEN "POST_OK" ELSE "POST_OK_EMPTY")
    /\ Becomes("idle")
    /\ UNCHANGED <<objectVars, staticVars, url, posts, exch, stale, outcome>>

ModemReadsReply ==
    /\ job = "readData"
    /\ IF reply = "some"
         THEN Emit("REPLY") /\ Becomes("ok")
         ELSE Emit("OK") /\ Becomes("idle")
    /\ UNCHANGED <<objectVars, staticVars, url, reply, posts, exch, stale, outcome>>

\* The server has the message; the modem has yet to report.
ModemPosts ==
    /\ job = "posting"
    /\ job' = "posted"
    /\ posts' = posts + 1
    /\ UNCHANGED <<objectVars, staticVars, uart, queued, url, reply, exch, stale, outcome>>

ModemSilent ==
    /\ job \in {"command", "query", "url", "post", "read"}
    /\ Becomes("idle")
    /\ UNCHANGED <<objectVars, staticVars, uart, url, reply, posts, exch, stale, outcome>>

Modem == ModemAnswers \/ ModemReportsPost \/ ModemReadsReply \/ ModemPosts \/ ModemSilent

Command(s) == CASE s = "QUERING_PDP_CONTEXT" -> "query"
                [] s = "SETTING_URL"         -> "url"
                [] s = "POSTING_DATA"        -> "post"
                [] s = "READING_DATA"        -> "read"
                [] OTHER                     -> "command"

\* sendATCommand of a command.
SendATCommand(c) ==
    \/ job = "idle" /\ job' = c /\ UNCHANGED queued
    \/ job # "idle" /\ UNCHANGED <<job, queued>>
    \/ /\ job \notin {"idle", "urlData", "postData"}
       /\ queued = "idle"
       /\ queued' = c
       /\ UNCHANGED job

\* sendATCommand of data, after CONNECT: the server's URL or the message.
SendData(d) ==
    /\ UNCHANGED queued
    /\ job' = (CASE job = "urlData"                      -> "ok"
                 [] job = "postData" /\ d = "message"    -> "postSent"
                 [] OTHER                                -> job)
    /\ url' = IF job = "urlData" THEN d = "url" ELSE url

-----------------------------------------------------------------------------
(***************************************************************************)
(* The exchange begins: ExchangingMessages calls enableTransceiver().  The *)
(* modem was switched off since the last one; the connection's last OK may *)
(* still be in the UART.                                                   *)
(***************************************************************************)
EnableTransceiver ==
    /\ step = "TransceiverUnavailable"
    /\ exch < MaxExchanges
    /\ exch' = exch + 1
    /\ step' = ConfigureSteps[1]
    /\ readyToSend' = TRUE
    /\ Attempts' = 0
    /\ uart' \in {<<>>, <<"OK">>}
    /\ job' = "idle"
    /\ queued' = "idle"
    /\ url' = FALSE
    /\ reply' = "none"
    /\ posts' = 0
    /\ stale' = watingForResponse
    /\ UNCHANGED <<transmissionWasASuccess, staticVars, outcome>>

\* A final status: CellularModule is Unavailable again and ExchangingMessages
\* takes the data, if any, and clears its flag.
Finish(status) ==
    /\ step' = "TransceiverUnavailable"
    /\ outcome' = [status |-> status, data |-> newDataAvailable, reply |-> StringToBeRead]
    /\ newDataAvailable' = FALSE

Send ==
    /\ step \in Configuring \cup PostSteps \cup {"DeactivatePDP"}
    /\ readyToSend
    /\ readyToSend' = FALSE
    /\ SendATCommand(Command(step))
    /\ UNCHANGED <<step, Attempts, transmissionWasASuccess, staticVars, uart,
                   url, reply, posts, exch, stale, outcome>>

ReadATResponse ==
    /\ ~readyToSend
    /\ uart # <<>>
    /\ uart' = Tail(uart)

\* Mutant of ConfigureAttempts: the count goes on in the next state object.
ConfigureAttemptsKept == Attempts

\* A new state object has its own Attempts, a new step has not.
ConfigureAttempts ==
    IF step \in {"CONFIGURING_SERVER_DNS", "SETTING_SSL_LEVEL"} THEN 0 ELSE Attempts

\* ConfigurePDPForHTTP and ConfigureSSL: OK goes on, and any line answers the
\* query.
ConfigureReads ==
    /\ step \in Configuring
    /\ ReadATResponse
    /\ IF Head(uart) = "OK" \/ step = "QUERING_PDP_CONTEXT"
         THEN /\ step' = Following(step)
              /\ readyToSend' = TRUE
              /\ Attempts' = ConfigureAttempts
         ELSE UNCHANGED <<step, readyToSend, Attempts>>
    /\ UNCHANGED <<transmissionWasASuccess, staticVars, modemVars, exch, stale, outcome>>

\* The address is sent on CONNECT; the next OK, whatever it answers, goes on.
SettingUrlReads ==
    /\ step = "SETTING_URL"
    /\ ReadATResponse
    /\ StringToBeRead' = Head(uart)
    /\ \/ /\ Head(uart) = "CONNECT"
          /\ SendData("url")
          /\ urlSet' = TRUE
          /\ UNCHANGED <<step, readyToSend, Attempts>>
       \/ /\ Head(uart) = "OK" /\ urlSet
          /\ step' = "POSTING_DATA"
          /\ readyToSend' = TRUE
          /\ Attempts' = 0
          /\ urlSet' = FALSE
          /\ UNCHANGED <<job, queued, url>>
       \/ /\ Head(uart) # "CONNECT" /\ ~(Head(uart) = "OK" /\ urlSet)
          /\ UNCHANGED <<step, readyToSend, Attempts, urlSet, job, queued, url>>
    /\ UNCHANGED <<transmissionWasASuccess, watingForResponse, dataLen, newDataAvailable,
                   reply, posts, exch, stale, outcome>>

\* Mutant of CheckHTTPPostResult: a failure counts as a result.
CheckHTTPPostResultLax(line) ==
    CASE line = "POST_OK_EMPTY" -> "empty"
      [] line \in {"POST_OK", "POST_FAILURE"} -> "some"
      [] OTHER                  -> "none"

\* checkHTTPPostResult: the length of the reply, "none" without one.
CheckHTTPPostResult(line) ==
    CASE line = "POST_OK"       -> "some"
      [] line = "POST_OK_EMPTY" -> "empty"
      [] OTHER                  -> "none"

\* Mutant of PostingDataAttempts: a repeated CONNECT starts the count again.
PostingDataAttemptsReset(line) ==
    IF line \in {"CONNECT", "POST_OK", "POST_OK_EMPTY"} THEN 0 ELSE Attempts

\* Only a result starts the count again.
PostingDataAttempts(line) ==
    IF line \in {"POST_OK", "POST_OK_EMPTY"} THEN 0 ELSE Attempts

\* The message is sent on every CONNECT; only +QHTTPPOST says what became of it.
PostingDataReads ==
    /\ step = "POSTING_DATA"
    /\ ReadATResponse
    /\ StringToBeRead' = Head(uart)
    /\ Attempts' = PostingDataAttempts(Head(uart))
    /\ IF Head(uart) = "CONNECT"
         THEN SendData("message")
         ELSE UNCHANGED <<job, queued, url>>
    /\ dataLen' = IF Head(uart) \in {"POST_OK", "POST_OK_EMPTY", "POST_FAILURE"}
                    THEN CheckHTTPPostResult(Head(uart)) ELSE dataLen
    /\ IF CheckHTTPPostResult(Head(uart)) # "none"
         THEN step' = "READING_DATA" /\ readyToSend' = TRUE
         ELSE UNCHANGED <<step, readyToSend>>
    /\ UNCHANGED <<transmissionWasASuccess, watingForResponse, urlSet, newDataAvailable,
                   reply, posts, exch, stale, outcome>>

\* After CONNECT the next line is the response, cut to the length announced.
ReadingDataReads ==
    /\ step = "READING_DATA"
    /\ ReadATResponse
    /\ IF watingForResponse
         THEN /\ StringToBeRead' = IF dataLen = "empty" THEN "EMPTY" ELSE Head(uart)
              /\ watingForResponse' = FALSE
              /\ step' = "DECODING_DATA"
              /\ Attempts' = 0
         ELSE /\ StringToBeRead' = Head(uart)
              /\ watingForResponse' = (Head(uart) = "CONNECT")
              /\ UNCHANGED <<step, Attempts>>
    /\ UNCHANGED <<readyToSend, transmissionWasASuccess, urlSet, dataLen, newDataAvailable,
                   modemVars, exch, stale, outcome>>

Deactivate(success) ==
    /\ step' = "DeactivatePDP"
    /\ readyToSend' = TRUE
    /\ Attempts' = 0
    /\ transmissionWasASuccess' = success

\* Nothing to decode: the response is asked for again.
DecodingData ==
    /\ step = "DECODING_DATA"
    /\ IF StringToBeRead = "EMPTY"
         THEN /\ step' = "READING_DATA"
              /\ readyToSend' = TRUE
              /\ UNCHANGED <<Attempts, transmissionWasASuccess, newDataAvailable>>
         ELSE /\ newDataAvailable' = TRUE
              /\ Deactivate(TRUE)
    /\ UNCHANGED <<watingForResponse, urlSet, dataLen, StringToBeRead, uart,
                   modemVars, exch, stale, outcome>>

DeactivatePDPReads ==
    /\ step = "DeactivatePDP"
    /\ ReadATResponse
    /\ IF Head(uart) = "OK"
         THEN Finish(IF transmissionWasASuccess THEN "SEND_OK" ELSE "UNAVAIBLE_TO_SEND")
         ELSE UNCHANGED <<step, newDataAvailable, outcome>>
    /\ UNCHANGED <<readyToSend, Attempts, transmissionWasASuccess, watingForResponse, urlSet,
                   dataLen, StringToBeRead, modemVars, exch, stale>>

-----------------------------------------------------------------------------
(***************************************************************************)
(* refreshTime->read() is true: the command is sent again or given up.     *)
(***************************************************************************)
ConfigureTimesOut ==
    /\ step \in Configuring
    /\ ~readyToSend
    /\ readyToSend' = TRUE
    /\ IF Attempts + 1 >= MAXATTEMPTS_CONFIGURE
         THEN Attempts' = 0 /\ Finish("FAIL_TO_ACTIVATE_PDP")
         ELSE Attempts' = Attempts + 1 /\ UNCHANGED <<step, newDataAvailable, outcome>>
    /\ UNCHANGED <<transmissionWasASuccess, watingForResponse, urlSet, dataLen,
                   StringToBeRead, uart, modemVars, exch, stale>>

\* While a response is awaited, giving up counts as a transmission.
PostGivesUp == Deactivate(watingForResponse)

PostTimesOut ==
    /\ step \in PostSteps
    /\ ~readyToSend
    /\ IF Attempts + 1 >= MAXATTEMPTS_POST
         THEN PostGivesUp
         ELSE /\ readyToSend' = TRUE
              /\ Attempts' = Attempts + 1
              /\ UNCHANGED <<step, transmissionWasASuccess>>
    /\ UNCHANGED <<staticVars, uart, modemVars, exch, stale, outcome>>

\* Mutant of DeactivatePDPTimesOut: the command is not sent again.
DeactivatePDPTimesOutOnce ==
    /\ step = "DeactivatePDP"
    /\ ~readyToSend
    /\ UNCHANGED vars

\* There is no limit to these repetitions.
DeactivatePDPTimesOut ==
    /\ step = "DeactivatePDP"
    /\ ~readyToSend
    /\ readyToSend' = TRUE
    /\ UNCHANGED <<step, Attempts, transmissionWasASuccess, staticVars, uart, modemVars,
                   exch, stale, outcome>>

-----------------------------------------------------------------------------
Read ==
    \/ ConfigureReads
    \/ SettingUrlReads
    \/ PostingDataReads
    \/ ReadingDataReads
    \/ DeactivatePDPReads

Poll ==
    \/ Read
    \/ Send
    \/ DecodingData
    \/ ConfigureTimesOut
    \/ PostTimesOut
    \/ DeactivatePDPTimesOut

Next == EnableTransceiver \/ Poll \/ Modem

Spec == Init /\ [][Next]_vars

(***************************************************************************)
(* The gateway polls for ever and the refresh time elapses; reading goes   *)
(* on at every poll, so that timeouts, seconds apart, do not starve it.    *)
(* Nothing is asked of the modem or the server.                            *)
(***************************************************************************)
FairSpec == Spec /\ WF_vars(Poll) /\ SF_vars(Read)

-----------------------------------------------------------------------------
Lines == {"OK", "ERROR", "INFO", "CONNECT", "POST_OK", "POST_OK_EMPTY", "POST_FAILURE",
          "REPLY"}

\* The type invariant.
TypeOK ==
    /\ step \in Steps
    /\ readyToSend \in BOOLEAN
    /\ Attempts \in Nat
    /\ Attempts < IF step \in Configuring THEN MAXATTEMPTS_CONFIGURE ELSE MAXATTEMPTS_POST
    /\ transmissionWasASuccess \in BOOLEAN
    /\ watingForResponse \in BOOLEAN
    /\ urlSet \in BOOLEAN
    /\ dataLen \in {"none", "empty", "some"}
    /\ StringToBeRead \in Lines \cup {"EMPTY"}
    /\ newDataAvailable \in BOOLEAN
    /\ uart \in Seq(Lines)
    /\ Len(uart) <= MaxLines
    /\ job \in Jobs
    /\ queued \in Jobs
    /\ url \in BOOLEAN
    /\ reply \in {"none", "empty", "some"}
    /\ exch \in 0..MaxExchanges
    /\ posts \in Nat
    /\ stale \in BOOLEAN
    /\ outcome \in [status : {"none", "SEND_OK", "UNAVAIBLE_TO_SEND",
                              "FAIL_TO_ACTIVATE_PDP"},
                    data : BOOLEAN, reply : Lines \cup {"EMPTY"}]

Ended == step = "TransceiverUnavailable" /\ exch > 0

\* Data handed to ExchangingMessages, which makes the gateway's hash chain go
\* on, means that this very message reached the server: neither an answer taken
\* for another command's nor a flag of an earlier exchange fakes it.  Nor does
\* an exchange report SEND_OK for less, if it began with PostHTTP's statics as
\* they should be.
DataMeansPosted ==
    /\ newDataAvailable \/ (Ended /\ outcome.data) => posts > 0
    /\ Ended /\ outcome.status = "SEND_OK" /\ ~stale => posts > 0

\* Timeouts make the POST be repeated while the first is still on its way: the
\* server gets a message at most MAXATTEMPTS times in one exchange.
DuplicatesBounded == posts <= MAXATTEMPTS_POST

\* The modem accepts a deactivation it was asked for.
AcceptCommand ==
    /\ step = "DeactivatePDP"
    /\ job = "command"
    /\ Emit("OK")
    /\ Becomes("idle")
    /\ UNCHANGED <<objectVars, staticVars, url, reply, posts, exch, stale, outcome>>

\* What the code leaves to the modem and the server, since it limits neither
\* the deactivations it asks for nor its questions for an empty response: every
\* job of the modem comes to an end, one deactivation out of endlessly many is
\* accepted, and the responses are not empty for ever.
ModemObliges ==
    WF_vars(Modem) /\ SF_vars(AcceptCommand) /\ <>[](step \in PostSteps => dataLen # "empty")

\* Where the modem and the server do that much, every exchange ends, whatever
\* else the modem ignores, refuses, doubles or answers late.  Without it an
\* exchange need not end: RetriesEnd.
ExchangeEnds ==
    ModemObliges => (step # "TransceiverUnavailable" ~> step = "TransceiverUnavailable")

\* What PostHTTP.h says of maxAttempts: "Maximum number of retry attempts."  A
\* POST is not retried for ever.  (DECODING_DATA goes back to READING_DATA with
\* Attempts at 0 for as long as the response is empty.)
RetriesEnd == step \in PostSteps ~> step = "DeactivatePDP"

\* What DeactivatePDP.h says of the flag behind SEND_OK: "True if the
\* transmission was successful."
SendOkMeansPosted == Ended /\ outcome.status = "SEND_OK" => posts > 0

\* What PostHTTP.h says: the exchange retrieves "the POST response".  The text
\* handed on as the response is one the server sent.
DataIsServerReply == Ended /\ outcome.data => outcome.reply = "REPLY"
=============================================================================
