---------------------------- MODULE PowerManager ----------------------------
(***************************************************************************)
(* Switching the modem on and off: PowerManager and the classes of         *)
(* PowerState.  The manager holds the current PowerState object, one timer *)
(* every operation shares, the three lines to the modem and the AT handler.*)
(*                                                                         *)
(* Most flags are members of the state object and die with it; the others  *)
(* are function statics, which outlive it: `statics' below.  A power line  *)
(* is the logic level the code writes; the status input is negated, it     *)
(* reads OFF while the modem is on.                                        *)
(***************************************************************************)
EXTENDS Naturals, Sequences

CONSTANTS
    MAX_TRIES,           \* AT+QPOWD repetitions before the supply is cut (10)
    MAX_COUNT_TURN_OFF,  \* readings of "off" that mean off (20)
    TURN_ON_COUNTER,     \* readings of "on" after the button (1000)
    MaxLines,            \* bound: lines waiting in the UART
    MaxOwed              \* bound: commands the modem has yet to answer

ASSUME PowerAssumption ==
    /\ MAX_TRIES \in Nat
    /\ MAX_COUNT_TURN_OFF \in Nat \ {0}
    /\ TURN_ON_COUNTER \in Nat
    /\ MaxLines \in Nat
    /\ MaxOwed \in Nat

VARIABLES
    power,    \* currentPowerState: its class and its members
    statics,  \* the static locals of the operations
    timer,    \* powerChangeDurationTimer: "stopped", "running" or "expired"
    key,      \* powerKeyOutput
    down,     \* powerDownOutput: FALSE cuts the supply
    dtr,      \* powerKeySleepOutput
    modem,    \* the modem is on
    pulse,    \* the modem has acted on the present pulse of the key line
    owed,     \* commands the modem has yet to answer, oldest first
    uart      \* lines it has sent that nobody has read, oldest first

objectVars == <<power, statics>>
lineVars   == <<key, down, dtr>>
modemVars  == <<modem, pulse, owed, uart>>
powerVars  == <<power, statics, timer, lineVars, modemVars>>

Classes  == {"PowerOFF", "PowerON", "Sleep", "ManualPowerOFF"}
Timers   == {"stopped", "running", "expired"}
Commands == {"CBC", "QPOWD", "QSCLK", "GNSSCFG", "GPS1", "GPSLOC", "GPS0"}
Kinds    == {"OK", "CBC", "LOC", "504", "505", "POWERED DOWN", "other"}


-----------------------------------------------------------------------------
(***************************************************************************)
(* NonBlockingDelay::read starts a stopped delay, and reports an elapsed   *)
(* one once.  restart() starts it from now.                                *)
(***************************************************************************)
AfterRead(t) == CASE t = "stopped" -> "running"
                  [] t = "running" -> "running"
                  [] t = "expired" -> "stopped"

\* A main-loop iteration takes milliseconds and reads a character; the delays
\* are of 7 s and 10 s.  What has arrived is read before one elapses.
DelayElapses ==
    /\ timer = "running"
    /\ uart = <<>>
    /\ timer' = "expired"
    /\ UNCHANGED <<objectVars, lineVars, modemVars>>

\* ATCommandHandler: a command to a modem that is off goes nowhere.
Sent(command) ==
    IF modem /\ Len(owed) < MaxOwed THEN Append(owed, command) ELSE owed

LineRead == uart # <<>>
IsRead(k) == LineRead /\ Head(uart) = k
RestOfUart == IF LineRead THEN Tail(uart) ELSE uart

-----------------------------------------------------------------------------
(***************************************************************************)
(* The constructors                                                        *)
(***************************************************************************)
NewState(class) ==
    [class |-> class, ManualTurningPower |-> FALSE, SignalTurningPowerUp |-> FALSE,
     Turning |-> FALSE,         \* TurningDown or TurningUP
     turnOfWasCall |-> FALSE,
     buttonPushed |-> FALSE, turnONCounter |-> 0]

NewOff == [readyToSend |-> TRUE, hardPowerOffUnderProcess |-> FALSE, retryCounter |-> 0]

PowerInit ==
    /\ power = NewState("PowerOFF")
    /\ statics = [turnOffCounter |-> 0, off |-> [c \in {"PowerON", "Sleep"} |-> NewOff],
                  reboot |-> TRUE, sleep |-> TRUE, measure |-> TRUE,
                  SignalTurningOn |-> FALSE, turningPower |-> FALSE]
    /\ timer = "stopped"
    /\ key = FALSE
    /\ down = TRUE
    /\ dtr = FALSE
    /\ modem \in BOOLEAN      \* it may still be on after a watchdog reset
    /\ pulse = FALSE
    /\ owed = <<>>
    /\ uart = <<>>

\* ManualPowerOFFState's constructor cuts the supply, and with it the modem.
BecomeManualOff ==
    /\ power' = NewState("ManualPowerOFF")
    /\ down' = FALSE
    /\ modem' = FALSE
    /\ owed' = <<>>

-----------------------------------------------------------------------------
(***************************************************************************)
(* startStopUpdate, by class                                               *)
(***************************************************************************)
\* The button's pulse on the key line, the same in two classes: p is the
\* object once the button was read.
ButtonPulse(p) ==
    LET starts == p.ManualTurningPower /\ ~p.SignalTurningPowerUp /\ p.Turning
        q      == IF starts THEN [p EXCEPT !.SignalTurningPowerUp = TRUE] ELSE p
        t      == IF starts THEN "running" ELSE timer
        waits  == q.SignalTurningPowerUp /\ q.Turning
        ends   == waits /\ t = "expired"
    IN  /\ power' = IF ends THEN [q EXCEPT !.SignalTurningPowerUp = FALSE, !.Turning = FALSE]
                            ELSE q
        /\ timer' = IF ends THEN "running" ELSE IF waits THEN AfterRead(t) ELSE t
        /\ key' = IF ends THEN FALSE ELSE IF starts THEN TRUE ELSE key
        /\ pulse' = IF key' THEN pulse ELSE FALSE

Pressed(button) ==
    IF button THEN [power EXCEPT !.ManualTurningPower = TRUE, !.Turning = TRUE,
                                 !.buttonPushed = (power.class = "ManualPowerOFF")]
              ELSE power

\* The count of readings only matters up to the one after the limit.
CountOff == IF modem THEN 0
            ELSE IF statics.turnOffCounter <= MAX_COUNT_TURN_OFF
                   THEN statics.turnOffCounter + 1 ELSE statics.turnOffCounter

StartStopON(button) ==
    IF power.turnOfWasCall
      THEN UNCHANGED powerVars
      ELSE /\ statics' = [statics EXCEPT !.turnOffCounter = CountOff]
           /\ IF CountOff = MAX_COUNT_TURN_OFF
                THEN /\ IF power.ManualTurningPower
                          THEN BecomeManualOff
                          ELSE /\ power' = NewState("PowerOFF")
                               /\ UNCHANGED <<down, modem, owed>>
                     /\ UNCHANGED <<timer, key, dtr, pulse, uart>>
                ELSE /\ ButtonPulse(Pressed(button))
                     /\ UNCHANGED <<down, dtr, modem, owed, uart>>

StartStopManual(button) ==
    IF modem /\ power.buttonPushed /\ power.turnONCounter > TURN_ON_COUNTER
      THEN /\ power' = NewState("PowerON")
           /\ UNCHANGED <<statics, timer, lineVars, modemVars>>
      ELSE /\ LET p == Pressed(button)
                  counts == modem /\ power.buttonPushed
              IN  ButtonPulse([p EXCEPT !.turnONCounter = @ + (IF counts THEN 1 ELSE 0)])
           /\ UNCHANGED <<statics, down, dtr, modem, owed, uart>>

\* PowerOFFState turns the modem on by itself, one pulse after the other.
StartStopOFF ==
    IF modem
      THEN /\ power' = NewState("PowerON")
           /\ UNCHANGED <<statics, timer, lineVars, modemVars>>
      ELSE LET starts == ~statics.turningPower /\ timer = "expired"
               t      == IF statics.turningPower THEN timer
                         ELSE IF starts THEN "running" ELSE AfterRead(timer)
               up     == statics.turningPower \/ starts
               ends   == up /\ t = "expired"
           IN  /\ statics' = [statics EXCEPT !.turningPower = up /\ ~ends]
               /\ timer' = IF ends THEN "running" ELSE IF up THEN AfterRead(t) ELSE t
               /\ key' = IF ends THEN FALSE ELSE IF starts THEN TRUE ELSE key
               /\ pulse' = IF key' THEN pulse ELSE FALSE
               /\ UNCHANGED <<power, down, dtr, modem, owed, uart>>

startStopUpdate(button) ==
    CASE power.class = "PowerON"        -> StartStopON(button)
      [] power.class = "ManualPowerOFF" -> StartStopManual(button)
      [] power.class = "PowerOFF"       -> StartStopOFF
      [] power.class = "Sleep"          -> UNCHANGED powerVars

-----------------------------------------------------------------------------
(***************************************************************************)
(* turnOn                                                                  *)
(***************************************************************************)
TurnOnManual ==
    /\ down' = TRUE
    /\ IF modem
         THEN /\ power' = NewState("PowerON")
              /\ UNCHANGED <<statics, timer, key, pulse>>
         ELSE LET fires == timer = "expired"
                  up    == ~statics.SignalTurningOn
              IN  /\ statics' = [statics EXCEPT !.SignalTurningOn = IF fires THEN up ELSE @]
                  /\ key' = IF fires THEN up ELSE key
                  /\ pulse' = IF key' THEN pulse ELSE FALSE
                  /\ timer' = IF fires THEN "running" ELSE AfterRead(timer)
                  /\ UNCHANGED power
    /\ UNCHANGED <<dtr, modem, owed, uart>>

awake ==
    /\ IF power.class = "Sleep"
         THEN dtr' = FALSE /\ power' = NewState("PowerON")
         ELSE UNCHANGED <<dtr, power>>
    /\ UNCHANGED <<statics, timer, key, down, modemVars>>

turnOn ==
    CASE power.class = "PowerON"        -> UNCHANGED powerVars
      [] power.class = "ManualPowerOFF" -> TurnOnManual
      [] power.class = "PowerOFF"       -> StartStopOFF
      [] power.class = "Sleep"          -> awake

-----------------------------------------------------------------------------
(***************************************************************************)
(* turnOff: AT+QPOWD until the modem says POWERED DOWN, and when it does   *)
(* not, the supply.  PowerONState and SleepState have it each, with its    *)
(* own statics.  result is what the operation returns.                     *)
(***************************************************************************)
\* Mutant of Retried: the repetition is not counted.
RetriedUncounted(off) == [off EXCEPT !.readyToSend = TRUE]

Retried(off) == [off EXCEPT !.readyToSend = TRUE, !.retryCounter = @ + 1]

\* Mutant of SupplyCut: the hard switch-off is not recorded.
SupplyCutUnrecorded(off) == [off EXCEPT !.readyToSend = FALSE]

SupplyCut(off) == [off EXCEPT !.readyToSend = FALSE, !.hardPowerOffUnderProcess = TRUE]

TurnOffByCommand(result) ==
    LET c     == power.class
        off   == statics.off[c]
        sends == IF off.readyToSend THEN Sent("QPOWD") ELSE owed
        fires == timer = "expired"
        hard  == off.retryCounter > MAX_TRIES /\ fires
        called == power.turnOfWasCall \/ (c = "PowerON" /\ off.readyToSend)
        StoreOff(o) == statics' = [statics EXCEPT !.off[c] = o]
        waiting == [off EXCEPT !.readyToSend = FALSE]
    IN  /\ uart' = RestOfUart
        /\ UNCHANGED <<key, dtr, pulse>>
        /\ CASE IsRead("POWERED DOWN") ->
                  /\ result = TRUE
                  /\ StoreOff(waiting)
                  /\ BecomeManualOff
                  /\ UNCHANGED timer
             [] ~IsRead("POWERED DOWN") /\ hard /\ off.hardPowerOffUnderProcess ->
                  /\ result = TRUE
                  /\ StoreOff(NewOff)
                  /\ BecomeManualOff
                  /\ timer' = AfterRead(timer)
             [] ~IsRead("POWERED DOWN") /\ hard /\ ~off.hardPowerOffUnderProcess ->
                  /\ result = FALSE
                  /\ StoreOff(SupplyCut(off))
                  /\ down' = FALSE /\ modem' = FALSE /\ owed' = <<>>
                  /\ power' = [power EXCEPT !.turnOfWasCall = called]
                  /\ timer' = AfterRead(timer)
             [] OTHER ->
                  /\ result = FALSE
                  /\ StoreOff(IF fires THEN Retried(off) ELSE waiting)
                  /\ owed' = sends
                  /\ power' = [power EXCEPT !.turnOfWasCall = called]
                  /\ timer' = AfterRead(timer)
                  /\ UNCHANGED <<down, modem>>

turnOff(result) ==
    IF power.class \in {"PowerON", "Sleep"}
      THEN TurnOffByCommand(result)
      ELSE /\ result = TRUE
           /\ IF power.class = "PowerOFF" THEN BecomeManualOff
                ELSE down' = FALSE /\ modem' = FALSE /\ owed' = <<>> /\ UNCHANGED power
           /\ UNCHANGED <<statics, timer, key, dtr, pulse, uart>>

-----------------------------------------------------------------------------
(***************************************************************************)
(* The commands PowerONState sends for others: measureBattery, goToSleep   *)
(* and reboot share their shape.  Success leaves readyToSend FALSE: the    *)
(* next caller waits for the timer before its command goes out.            *)
(***************************************************************************)
CommandUntil(flag, command, reply, result) ==
    LET accepted == IsRead(reply)
    IN  /\ result = accepted
        /\ owed' = IF statics[flag] THEN Sent(command) ELSE owed
        /\ uart' = RestOfUart
        /\ statics' = [statics EXCEPT ![flag] = ~accepted /\ timer = "expired"]
        /\ timer' = IF accepted THEN timer ELSE AfterRead(timer)

measureBattery(result) ==
    IF power.class = "PowerON"
      THEN /\ CommandUntil("measure", "CBC", "CBC", result)
           /\ UNCHANGED <<power, lineVars, modem, pulse>>
      ELSE result = FALSE /\ UNCHANGED powerVars

goToSleep(result) ==
    IF power.class = "PowerON"
      THEN /\ CommandUntil("sleep", "QSCLK", "OK", result)
           /\ power' = IF result THEN NewState("Sleep") ELSE power
           /\ dtr' = (dtr \/ result)
           /\ UNCHANGED <<key, down, modem, pulse>>
      ELSE result = (power.class = "Sleep") /\ UNCHANGED powerVars

reboot(result) ==
    IF power.class = "PowerON"
      THEN /\ CommandUntil("reboot", "QPOWD", "POWERED DOWN", result)
           /\ power' = IF result THEN NewState("PowerOFF") ELSE power
           /\ UNCHANGED <<lineVars, modem, pulse>>
      ELSE result = FALSE /\ UNCHANGED powerVars

-----------------------------------------------------------------------------
(***************************************************************************)
(* The modem (external): it answers its commands in order, an echo or an   *)
(* error counting as "other", and any answer may stay away; a pulse on the *)
(* key line turns it on or off; it may lose power at any time.             *)
(***************************************************************************)
Replies(command) ==
    CASE command = "CBC"     -> {<<"CBC", "OK">>, <<"other">>}
      [] command = "QPOWD"   -> {<<"OK", "POWERED DOWN">>, <<"other">>}
      [] command = "QSCLK"   -> {<<"OK">>}
      [] command = "GNSSCFG" -> {<<"OK">>, <<"other">>}
      [] command = "GPS1"    -> {<<"OK">>, <<"504">>}
      [] command = "GPSLOC"  -> {<<"LOC", "OK">>, <<"other">>, <<"505">>}
      [] command = "GPS0"    -> {<<"OK">>, <<"505">>}

ModemAnswers ==
    /\ owed # <<>>
    /\ \E reply \in Replies(Head(owed)) \cup {<<>>} :
         /\ Len(uart) + Len(reply) <= MaxLines
         /\ uart' = uart \o reply
         /\ IF reply # <<>> /\ reply[Len(reply)] = "POWERED DOWN"
              THEN modem' = FALSE /\ owed' = <<>>
              ELSE owed' = Tail(owed) /\ UNCHANGED modem
    /\ UNCHANGED <<objectVars, timer, lineVars, pulse>>

KeyPressed ==
    /\ key /\ ~pulse /\ down
    /\ pulse' = TRUE
    /\ modem' = ~modem
    /\ owed' = <<>>
    /\ UNCHANGED <<objectVars, timer, lineVars, uart>>

PowerLost ==
    /\ modem
    /\ modem' = FALSE
    /\ owed' = <<>>
    /\ UNCHANGED <<objectVars, timer, lineVars, pulse, uart>>

-----------------------------------------------------------------------------
PowerTypeOK ==
    /\ power \in [class : Classes, ManualTurningPower : BOOLEAN,
                  SignalTurningPowerUp : BOOLEAN, Turning : BOOLEAN,
                  turnOfWasCall : BOOLEAN, buttonPushed : BOOLEAN,
                  turnONCounter : 0..TURN_ON_COUNTER + 1]
    /\ statics \in [turnOffCounter : 0..MAX_COUNT_TURN_OFF + 1,
                    off : [{"PowerON", "Sleep"} ->
                             [readyToSend : BOOLEAN, hardPowerOffUnderProcess : BOOLEAN,
                              retryCounter : 0..MAX_TRIES + 1]],
                    reboot : BOOLEAN, sleep : BOOLEAN, measure : BOOLEAN,
                    SignalTurningOn : BOOLEAN, turningPower : BOOLEAN]
    /\ timer \in Timers
    /\ {key, down, dtr, modem, pulse} \subseteq BOOLEAN
    /\ owed \in Seq(Commands) /\ Len(owed) <= MaxOwed
    /\ uart \in Seq(Kinds) /\ Len(uart) <= MaxLines
=============================================================================
