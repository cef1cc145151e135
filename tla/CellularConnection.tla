------------------------- MODULE CellularConnection -------------------------
(***************************************************************************)
(* The way to the mobile network: the classes of ConnectionState, driven   *)
(* by ConnectingToMobileNetwork.  Each class sends a command, reads lines  *)
(* until it has the data it asked for and then an OK, and repeats the      *)
(* command when the refresh time elapses, up to a limit.                   *)
(*                                                                         *)
(* An attempt that fails leaves the state object where it is: the next     *)
(* attempt, a round later and with the modem switched off and on in        *)
(* between, goes on from there with the object's flags and counters.       *)
(***************************************************************************)
EXTENDS Naturals, Sequences

CONSTANTS
    MAXATTEMPTS,                      \* of every class but one (20)
    MAX_ATTEMPTS_TIMEOUT_NO_RESPONSE, \* of CheckingSignalStrength (40)
    MAX_ATTEMPTS_TO_GET_SIGNAL,       \* weak signals accepted (20)
    MaxLines,                         \* bound: lines waiting in the UART
    MaxCommands,                      \* bound: commands the modem holds
    MaxConnections                    \* bound: attempts in a behaviour

ASSUME ConnectionAssumption ==
    /\ MAXATTEMPTS \in Nat \ {0}
    /\ MAX_ATTEMPTS_TIMEOUT_NO_RESPONSE \in Nat \ {0}
    /\ MAX_ATTEMPTS_TO_GET_SIGNAL \in Nat \ {0}
    /\ MaxLines \in Nat
    /\ MaxCommands \in Nat
    /\ MaxConnections \in Nat

VARIABLES
    connecting,               \* the gateway is in ConnectingToMobileNetwork
    connection,               \* class of currentConnectionState
    readyToSend,
    retrived,                 \* signalLevelRetrived, IMEIRetrived, simCardDetected...
    good,                     \* signalLevel or registrationStatus is sufficient
    connectionAttempts,       \* connectionAttemptsATResponse too
    connectionAttemptsSignal,
    simCardSwitchOutput,
    uart,                     \* lines the modem has sent and nobody has read
    commands,                 \* commands the modem has yet to answer
    attempt,                  \* history: attempts started
    fresh,                    \* history: the data was received in this attempt
    stale,                    \* history: classes whose stored data was not
    timeouts,                 \* history: timeouts of this class in this attempt,
                              \* counted up to its limit
    outcome                   \* history: how the last attempt ended

objectVars  == <<connection, readyToSend, retrived, good, connectionAttempts,
                 connectionAttemptsSignal>>
modemVars   == <<uart, commands>>
historyVars == <<attempt, fresh, stale, timeouts, outcome>>

vars == <<connecting, objectVars, simCardSwitchOutput, modemVars, historyVars>>

-----------------------------------------------------------------------------
Chain == <<"Idle", "CheckingSignalStrength", "ConsultingIMEI",
           "ConsultingSIMCardStatus", "ConsultingNetworkStatus",
           "ConsultingAvailableOperators", "RetrievingTimeAndDate",
           "AttachingToPacketService", "DefinePDPContext", "Connected">>

Trying == {Chain[i] : i \in 1..9}

\* The classes that want data before the OK.
DataClasses == {Chain[i] : i \in 2..7}

NextClass(c) == LET i == CHOOSE i \in 1..9 : Chain[i] = c IN Chain[i + 1]

MaxAttemptsOf(c) ==
    IF c = "CheckingSignalStrength" THEN MAX_ATTEMPTS_TIMEOUT_NO_RESPONSE ELSE MAXATTEMPTS

Line(kind, class) == [kind |-> kind, of |-> class]

OK    == Line("OK", "any")
Other == Line("other", "any")

Init ==
    /\ connecting = FALSE
    /\ connection = "Unavailable"
    /\ readyToSend = TRUE
    /\ retrived = FALSE
    /\ good = FALSE
    /\ connectionAttempts = 0
    /\ connectionAttemptsSignal = 0
    /\ simCardSwitchOutput = FALSE
    /\ uart = <<>>
    /\ commands = <<>>
    /\ attempt = 0
    /\ fresh = FALSE
    /\ stale = {}
    /\ timeouts = 0
    /\ outcome = [result |-> "none", at |-> "Unavailable", timeouts |-> 0]

-----------------------------------------------------------------------------
(***************************************************************************)
(* The modem answers its commands in order, each with the data and OK, or  *)
(* with an error.  Weak signal and missing registration are data too, and  *)
(* the OK may be lost.                                                     *)
(***************************************************************************)
Replies(command) ==
    IF command \in DataClasses
      THEN {<<Line("data", command), OK>>, <<Line("data", command)>>}
             \cup (IF command \in {"CheckingSignalStrength", "ConsultingNetworkStatus"}
                     THEN {<<Line("poor", command), OK>>} ELSE {})
             \cup (IF command = "ConsultingSIMCardStatus"
                     THEN {<<Line("none", command)>>} ELSE {<<Other>>})
      ELSE {<<OK>>, <<Other>>}

ModemAnswers ==
    /\ commands # <<>>
    /\ \E lines \in Replies(Head(commands)) :
         /\ Len(uart) + Len(lines) <= MaxLines
         /\ uart' = uart \o lines
    /\ commands' = Tail(commands)
    /\ UNCHANGED <<connecting, objectVars, simCardSwitchOutput, historyVars>>

-----------------------------------------------------------------------------
(***************************************************************************)
(* connectToMobileNetwork: begin and end of an attempt                     *)
(***************************************************************************)
\* The object of class c as its constructor leaves it.
NewObject(c) ==
    /\ connection' = c
    /\ readyToSend' = TRUE
    /\ retrived' = FALSE
    /\ good' = FALSE
    /\ connectionAttempts' = 0
    /\ connectionAttemptsSignal' = 0

\* enableConnection() leaves Unavailable and does nothing anywhere else.  A
\* line of the last switch-off may still be in the UART.
BeginAttempt ==
    /\ ~connecting
    /\ connection # "Connected"
    /\ attempt < MaxConnections
    /\ connecting' = TRUE
    /\ attempt' = attempt + 1
    /\ IF connection = "Unavailable" THEN NewObject("Idle") ELSE UNCHANGED objectVars
    /\ uart' \in {<<>>, <<OK>>, <<Other>>}
    /\ commands' = <<>>
    /\ fresh' = FALSE
    /\ timeouts' = 0
    /\ UNCHANGED <<simCardSwitchOutput, stale, outcome>>

EndAttempt(result) ==
    /\ connecting' = FALSE
    /\ outcome' = [result |-> result, at |-> connection, timeouts |-> timeouts']

\* CONNECTED_TO_NETWORK: the gateway formats and exchanges its message.
ReportConnected ==
    /\ connecting
    /\ connection = "Connected"
    /\ timeouts' = 0
    /\ EndAttempt("connected")
    /\ UNCHANGED <<objectVars, simCardSwitchOutput, modemVars, attempt, fresh, stale>>

\* A final status of the exchange: the connection is given up with it.
ExchangeEnded ==
    /\ ~connecting
    /\ connection = "Connected"
    /\ NewObject("Unavailable")
    /\ UNCHANGED <<connecting, simCardSwitchOutput, modemVars, historyVars>>

-----------------------------------------------------------------------------
(***************************************************************************)
(* connect() of the current class                                          *)
(***************************************************************************)
\* ConsultingNetworkStatus sends two commands in a row.
CommandsOf(c) ==
    IF c = "ConsultingNetworkStatus" THEN <<"SetCREG", c>> ELSE <<c>>

\* A modem that is off, booting or busy does not take the command.
Send ==
    /\ connecting
    /\ connection \in Trying
    /\ readyToSend
    /\ readyToSend' = FALSE
    /\ \/ /\ Len(commands) + Len(CommandsOf(connection)) <= MaxCommands
          /\ commands' = commands \o CommandsOf(connection)
       \/ UNCHANGED commands
    /\ UNCHANGED <<connecting, connection, retrived, good, connectionAttempts,
                   connectionAttemptsSignal, simCardSwitchOutput, uart, historyVars>>

ReadATResponse ==
    /\ connecting
    /\ connection \in Trying
    /\ ~readyToSend
    /\ uart # <<>>
    /\ uart' = Tail(uart)

\* The line with the data asked for; "no SIM card" switches to the other one.
ReadData ==
    /\ connection \in DataClasses
    /\ ~retrived
    /\ ReadATResponse
    /\ IF Head(uart).kind \in {"data", "poor"} /\ Head(uart).of = connection
         THEN retrived' = TRUE /\ good' = (Head(uart).kind = "data") /\ fresh' = TRUE
         ELSE UNCHANGED <<retrived, good, fresh>>
    /\ simCardSwitchOutput' =
         IF connection = "ConsultingSIMCardStatus" /\ Head(uart).kind = "none"
           THEN ~simCardSwitchOutput ELSE simCardSwitchOutput
    /\ UNCHANGED <<connecting, connection, readyToSend, connectionAttempts,
                   connectionAttemptsSignal, commands, attempt, stale, timeouts, outcome>>

\* The data goes to currentCellInformation (and the time to the clock).
Store == stale' = IF fresh THEN stale \ {connection} ELSE stale \cup {connection}

\* The OK that ends a class: with data that is good enough where data is wanted.
ReadFinalOK ==
    /\ connection \in DataClasses => retrived /\ good
    /\ ReadATResponse
    /\ Head(uart) = OK
    /\ NewObject(NextClass(connection))
    /\ timeouts' = 0
    /\ IF connection \in DataClasses THEN Store ELSE UNCHANGED stale
    /\ UNCHANGED <<connecting, simCardSwitchOutput, commands, attempt, fresh, outcome>>

\* The OK after a missing registration is stored, and the class waits on.
ReadNotRegistered ==
    /\ connection = "ConsultingNetworkStatus"
    /\ retrived /\ ~good
    /\ ReadATResponse
    /\ Head(uart) = OK
    /\ Store
    /\ UNCHANGED <<connecting, objectVars, simCardSwitchOutput, commands, attempt,
                   fresh, timeouts, outcome>>

\* The OK after a weak signal: too many of them end the attempt, and only the
\* count of timeouts is taken back.
ReadWeakSignal ==
    /\ connection = "CheckingSignalStrength"
    /\ retrived /\ ~good
    /\ ReadATResponse
    /\ Head(uart) = OK
    /\ connectionAttemptsSignal' = connectionAttemptsSignal + 1
    /\ UNCHANGED timeouts
    /\ IF connectionAttemptsSignal + 1 >= MAX_ATTEMPTS_TO_GET_SIGNAL
         THEN EndAttempt("weak") /\ connectionAttempts' = 0
         ELSE UNCHANGED <<connecting, connectionAttempts, outcome>>
    /\ UNCHANGED <<connection, readyToSend, retrived, good, simCardSwitchOutput,
                   commands, attempt, fresh, stale>>

\* Any other line while an OK is awaited.
ReadIgnored ==
    /\ connection \in DataClasses => retrived
    /\ ReadATResponse
    /\ Head(uart) # OK
    /\ UNCHANGED <<connecting, objectVars, simCardSwitchOutput, commands, historyVars>>

Read == ReadData \/ ReadFinalOK \/ ReadNotRegistered \/ ReadWeakSignal \/ ReadIgnored

-----------------------------------------------------------------------------
(***************************************************************************)
(* refreshTime->read() is true                                             *)
(***************************************************************************)
\* Mutant of RetrivedAfterTimeout: the flag is never taken back.
RetrivedAfterTimeoutKept == retrived

\* Two classes keep their flag, and with it what they read, over a timeout.
RetrivedAfterTimeout ==
    IF connection \in {"ConsultingAvailableOperators", "RetrievingTimeAndDate"}
      THEN retrived ELSE FALSE

\* Mutant of LastAttempt: one attempt too many.
LastAttemptExclusive == connectionAttempts + 1 > MaxAttemptsOf(connection)

LastAttempt == connectionAttempts + 1 >= MaxAttemptsOf(connection)

\* Mutant of AttemptsAfterFailure: the count stays at its limit everywhere.
AttemptsAfterFailureKept == connectionAttempts + 1

\* IdleState alone does not start counting again.
AttemptsAfterFailure == IF connection = "Idle" THEN connectionAttempts + 1 ELSE 0

\* Mutant of AttemptsAfterTimeout: the timeout is not counted.
AttemptsAfterTimeoutUncounted == connectionAttempts

AttemptsAfterTimeout == connectionAttempts + 1

CountTimeout ==
    timeouts' = IF timeouts < MaxAttemptsOf(connection) THEN timeouts + 1 ELSE timeouts

\* reboot() once, in a class that sends it as the attempt ends: the power-down
\* command, unless an earlier one is still waited for, and a look for its answer.
reboot ==
    /\ commands' = commands \/ (Len(commands) < MaxCommands /\ commands' = Append(commands, "PowerDown"))
    /\ uart' = uart \/ (uart # <<>> /\ uart' = Tail(uart))

TimesOut ==
    /\ connecting
    /\ connection \in Trying
    /\ ~readyToSend
    /\ readyToSend' = TRUE
    /\ retrived' = RetrivedAfterTimeout
    /\ CountTimeout
    /\ IF LastAttempt
         THEN EndAttempt("silent") /\ connectionAttempts' = AttemptsAfterFailure
         ELSE connectionAttempts' = AttemptsAfterTimeout /\ UNCHANGED <<connecting, outcome>>
    /\ IF LastAttempt /\ connection = "ConsultingSIMCardStatus"
         THEN reboot ELSE UNCHANGED modemVars
    /\ UNCHANGED <<connection, good, connectionAttemptsSignal, simCardSwitchOutput,
                   attempt, fresh, stale>>

-----------------------------------------------------------------------------
Poll == Send \/ Read \/ TimesOut \/ ReportConnected

Next == BeginAttempt \/ Poll \/ ExchangeEnded \/ ModemAnswers

Spec == Init /\ [][Next]_vars

\* The gateway polls for ever and the refresh time elapses.  The modem need
\* not answer anything.
FairSpec == Spec /\ WF_vars(Poll)

-----------------------------------------------------------------------------
Classes == Trying \cup {"Connected", "Unavailable"}

Lines == {OK, Other, Line("none", "ConsultingSIMCardStatus")}
           \cup {Line(k, c) : k \in {"data", "poor"}, c \in DataClasses}

Commands == Trying \cup {"SetCREG", "PowerDown"}

\* The type invariant; every counter but IdleState's stays below its limit.
TypeOK ==
    /\ connecting \in BOOLEAN
    /\ connection \in Classes
    /\ readyToSend \in BOOLEAN
    /\ retrived \in BOOLEAN
    /\ good \in BOOLEAN
    /\ connectionAttempts \in Nat
    /\ connection # "Idle" => connectionAttempts < MaxAttemptsOf(connection)
    /\ connectionAttemptsSignal \in Nat
    /\ simCardSwitchOutput \in BOOLEAN
    /\ uart \in Seq(Lines)
    /\ commands \in Seq(Commands)
    /\ attempt \in 0..MaxConnections
    /\ fresh \in BOOLEAN
    /\ stale \subseteq DataClasses
    /\ timeouts \in Nat
    /\ outcome \in [result : {"none", "connected", "weak", "silent"},
                    at : Classes, timeouts : Nat]

\* The signal level, IMEI, SIM and registration the chain goes on with were
\* received in the attempt that uses them: what a failed attempt had read, and
\* the flag that says so, does not survive into the next one, not even where a
\* weak signal ends the attempt without a timeout.
StoredFresh ==
    stale \subseteq {"ConsultingAvailableOperators", "RetrievingTimeAndDate"}

\* Past IdleState, an attempt given up because the modem is silent has waited
\* for it as often as the limit says: no earlier attempt, and no other class,
\* has used up its tries.
FullBudget ==
    outcome.result = "silent" /\ outcome.at # "Idle" =>
        outcome.timeouts >= MaxAttemptsOf(outcome.at)

\* Every attempt ends, connected or not, even if the modem never says a word.
AttemptEnds == connecting ~> ~connecting

\* What IdleState.h says of maxConnectionAttempts: "Maximum allowed number of
\* attempts."  An attempt that ends in IdleState has made them.
IdleBudget ==
    outcome.result = "silent" /\ outcome.at = "Idle" => outcome.timeouts >= MAXATTEMPTS

\* What RetrievingTimeAndDate.h says: "Attempts to retrieve the current
\* network-provided timestamp."  The time the clock is set to was received in
\* this attempt.
TimeIsCurrent == "RetrievingTimeAndDate" \notin stale
=============================================================================
