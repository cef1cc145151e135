----------------------------- MODULE Positioning -----------------------------
(***************************************************************************)
(* One modem, three users: the gateway's rounds drive PowerManager, the    *)
(* GNSS chain (GNSSModule and the classes of GeopositioningState) and the  *)
(* connection to the mobile network over the same UART.                    *)
(*                                                                         *)
(* A round measures the battery, asks for a position, switches the modem   *)
(* off, waits for a LoRa message and forwards it, over the mobile network  *)
(* when Ethernet fails.  Every call of an iteration of Gateway::update is  *)
(* a step; the modem, the delays and the button act between them.          *)
(***************************************************************************)
EXTENDS PowerManager

CONSTANTS
    MAX_RETRIES,     \* of ConfigurateConstellation (20)
    MAXRETRIES,      \* of ObtainingPositionInformation (30)
    MaxPresses,      \* bound: times the power button is pressed
    OtherCalls       \* offer goToSleep, awake and reboot, which no gateway state calls

ASSUME GNSSAssumption ==
    /\ MAX_RETRIES \in Nat \ {0}
    /\ MAXRETRIES \in Nat \ {0}
    /\ MaxPresses \in Nat
    /\ OtherCalls \in BOOLEAN

VARIABLES
    gnss,              \* currentGeopositioningState: class, readyToSend, numberOfTries
    refreshTime,       \* the chain's own delay
    moduleTurningOff,  \* static of obtainGNSSPosition
    state,             \* class of the gateway's current state
    call,              \* what the iteration calls next
    presses            \* times the power button was seen pressed

gnssVars    == <<gnss, refreshTime, moduleTurningOff>>
gatewayVars == <<state, call, presses>>
vars        == <<powerVars, gnssVars, gatewayVars>>

GNSSClasses == {"GNSSUnavailable", "ConfigurateConstellation", "TurningOnGNSS",
                "ObtainingPositionInformation", "TurningOffGNSS"}

NewGNSS(class) == [class |-> class, readyToSend |-> TRUE, numberOfTries |-> 0]

Init ==
    /\ PowerInit
    /\ gnss = NewGNSS("GNSSUnavailable")
    /\ refreshTime = "stopped"
    /\ moduleTurningOff = FALSE
    /\ state = "SensingBatteryStatus"
    /\ call = "startStopUpdate"
    /\ presses = 0

-----------------------------------------------------------------------------
(***************************************************************************)
(* The classes of GeopositioningState.  A class sends its command, reads a *)
(* line, and repeats the command when refreshTime elapses.                 *)
(***************************************************************************)
\* The comparison with the "already" replies lacks == 0: every line but that
\* one is accepted.
AcceptedBy(class) ==
    CASE class = "ConfigurateConstellation" -> IsRead("OK")
      [] class = "TurningOnGNSS"            -> LineRead /\ ~IsRead("504")
      [] class = "ObtainingPositionInformation" -> IsRead("LOC")
      [] class = "TurningOffGNSS"           -> LineRead /\ ~IsRead("505")

CommandsOf(class) ==
    CASE class = "ConfigurateConstellation" -> "GNSSCFG"
      [] class = "TurningOnGNSS"            -> "GPS1"
      [] class = "ObtainingPositionInformation" -> "GPSLOC"
      [] class = "TurningOffGNSS"           -> "GPS0"

\* AT+QGPSLOC=2 and AT+QGPSLOC? go out together.
SentByChain ==
    LET c == CommandsOf(gnss.class)
        one == Sent(c)
    IN  CASE ~gnss.readyToSend -> owed
          [] gnss.readyToSend /\ c = "GPSLOC" /\ modem /\ Len(one) < MaxOwed -> Append(one, c)
          [] OTHER -> one

NextGNSS == [ConfigurateConstellation |-> "TurningOnGNSS",
             TurningOnGNSS |-> "ObtainingPositionInformation",
             ObtainingPositionInformation |-> "TurningOffGNSS",
             TurningOffGNSS |-> "GNSSUnavailable"]

\* Mutant of TriesOf: the limits are lost.
TriesOfLost(class) == 1000

\* The number of timeouts after which a class gives up; two never do.
TriesOf(class) ==
    CASE class = "ConfigurateConstellation"     -> MAX_RETRIES
      [] class = "ObtainingPositionInformation" -> MAXRETRIES
      [] OTHER -> 0

\* retrivGeopositioning.  outcome is GNSS_STATE_...: TRYING stands for
\* TRYING_TO_CONNECT and DISCONNECTED, which the gateway treats alike.
retrivGeopositioning(outcome) ==
    IF gnss.class = "GNSSUnavailable"
      THEN outcome = "TRYING" /\ UNCHANGED <<gnss, refreshTime, owed, uart>>
      ELSE LET c        == gnss.class
               accepted == AcceptedBy(c)
               inactive == c = "ObtainingPositionInformation" /\ IsRead("505")
               fires    == refreshTime = "expired"
               tries    == IF TriesOf(c) = 0 THEN 0 ELSE gnss.numberOfTries + 1
           IN  /\ owed' = SentByChain
               /\ uart' = RestOfUart
               /\ CASE accepted ->
                         /\ gnss' = NewGNSS(NextGNSS[c])
                         /\ outcome = IF c = "ObtainingPositionInformation"
                                        THEN "OBTAIN" ELSE "TRYING"
                         /\ UNCHANGED refreshTime
                    [] ~accepted /\ inactive ->
                         /\ gnss' = NewGNSS("TurningOnGNSS")
                         /\ outcome = "TRYING"
                         /\ UNCHANGED refreshTime
                    [] ~accepted /\ ~inactive /\ fires /\ tries # 0 /\ tries >= TriesOf(c) ->
                         /\ gnss' = NewGNSS("TurningOffGNSS")
                         /\ outcome = "UNAVAILABLE"
                         /\ refreshTime' = AfterRead(refreshTime)
                    [] OTHER ->
                         /\ gnss' = [gnss EXCEPT !.readyToSend = fires,
                                       !.numberOfTries = IF fires THEN tries ELSE @]
                         /\ outcome = "TRYING"
                         /\ refreshTime' = AfterRead(refreshTime)

enableGNSS == IF gnss.class = "GNSSUnavailable"
                THEN NewGNSS("ConfigurateConstellation") ELSE gnss

RefreshTimeElapses ==
    /\ refreshTime = "running"
    /\ uart = <<>>
    /\ refreshTime' = "expired"
    /\ UNCHANGED <<powerVars, gnss, moduleTurningOff, gatewayVars>>

-----------------------------------------------------------------------------
(***************************************************************************)
(* The gateway's rounds                                                    *)
(***************************************************************************)
ModemStates == {"SensingBatteryStatus", "GettingGNSSPosition",
                "ConnectingToMobileNetwork", "ExchangingMessages"}

\* changeState in the middle of an iteration: the calls that follow are the
\* new state's.
GoTo(s, c) == state' = s /\ call' = c /\ UNCHANGED presses

AfterStartStop == CASE state = "GettingGNSSPosition" -> "obtainGNSSPosition"
                    [] state = "ExchangingMessages"  -> "useModem"
                    [] OTHER -> "turnOn"

UpdatePowerStatus ==
    /\ call = "startStopUpdate"
    /\ \E button \in BOOLEAN :
         /\ button => presses < MaxPresses
         /\ startStopUpdate(button)
         /\ presses' = presses + (IF button THEN 1 ELSE 0)
    /\ state' = state
    /\ call' = AfterStartStop
    /\ UNCHANGED gnssVars

TurnOn ==
    /\ call = "turnOn"
    /\ turnOn
    /\ GoTo(state, IF state = "SensingBatteryStatus" THEN "measureBattery" ELSE "useModem")
    /\ UNCHANGED gnssVars

MeasureBattery ==
    /\ call = "measureBattery"
    /\ \E measured \in BOOLEAN :
         /\ measureBattery(measured)
         /\ IF measured THEN GoTo("GettingGNSSPosition", "obtainGNSSPosition")
                        ELSE GoTo(state, "startStopUpdate")
    /\ UNCHANGED gnssVars

ObtainGNSSPosition ==
    /\ call = "obtainGNSSPosition"
    /\ ~moduleTurningOff
    /\ GoTo(state, "startStopUpdate")
    /\ IF gnss.class = "GNSSUnavailable"
         THEN \* enableGNSS, then the new class's first call
              LET new == enableGNSS
              IN  /\ gnss' = [new EXCEPT !.readyToSend = FALSE]
                  /\ owed' = Sent(CommandsOf(new.class))
                  /\ uart' = uart
                  /\ refreshTime' = AfterRead(refreshTime)
                  /\ UNCHANGED moduleTurningOff
         ELSE \E outcome \in {"TRYING", "OBTAIN", "UNAVAILABLE"} :
                /\ retrivGeopositioning(outcome)
                /\ moduleTurningOff' = (outcome # "TRYING")
    /\ UNCHANGED <<objectVars, timer, lineVars, modem, pulse>>

TurnModemOff ==
    /\ call = "obtainGNSSPosition"
    /\ moduleTurningOff
    /\ \E off \in BOOLEAN :
         /\ turnOff(off)
         /\ moduleTurningOff' = ~off
         /\ IF off THEN GoTo("WaitingForMessage", "none") ELSE GoTo(state, "startStopUpdate")
    /\ UNCHANGED <<gnss, refreshTime>>

\* A message came and was forwarded over Ethernet, or goes to the mobile
\* network.
MessageForwarded ==
    /\ state = "WaitingForMessage"
    /\ \/ GoTo("SensingBatteryStatus", "startStopUpdate")
       \/ GoTo("ConnectingToMobileNetwork", "startStopUpdate")
    /\ UNCHANGED <<powerVars, gnssVars>>

\* ConnectionState and TransceiverState (CellularConnection, CellularTransceiver):
\* here, readers of the UART that end somehow.
UseModem ==
    /\ call = "useModem"
    /\ uart' = RestOfUart
    /\ \/ GoTo(state, "startStopUpdate")
       \/ state = "ConnectingToMobileNetwork" /\ GoTo("ExchangingMessages", "startStopUpdate")
       \/ GoTo("SensingBatteryStatus", "startStopUpdate")
    /\ UNCHANGED <<objectVars, timer, lineVars, modem, pulse, owed, gnssVars>>

\* The operations no gateway state calls, offered where the modem is in use.
OtherCall ==
    /\ OtherCalls
    /\ state = "ExchangingMessages" /\ call = "startStopUpdate"
    /\ \/ \E r \in BOOLEAN : goToSleep(r)
       \/ awake
       \/ \E r \in BOOLEAN : reboot(r)
    /\ UNCHANGED <<gnssVars, gatewayVars>>

Modem == /\ ModemAnswers \/ KeyPressed \/ PowerLost
         /\ UNCHANGED <<gnssVars, gatewayVars>>

Delay == DelayElapses /\ UNCHANGED <<gnssVars, gatewayVars>>

Loop == \/ UpdatePowerStatus \/ TurnOn \/ MeasureBattery \/ ObtainGNSSPosition
        \/ TurnModemOff \/ UseModem

Next == Loop \/ MessageForwarded \/ OtherCall \/ Modem \/ Delay \/ RefreshTimeElapses

Spec == Init /\ [][Next]_vars

\* The main loop runs for ever, and a running delay elapses.
FairSpec == Spec /\ WF_vars(Loop) /\ WF_vars(Delay) /\ WF_vars(RefreshTimeElapses)

-----------------------------------------------------------------------------
\* The type invariant; no operation repeats more often than its limit.
TypeOK ==
    /\ PowerTypeOK
    /\ gnss \in [class : GNSSClasses, readyToSend : BOOLEAN,
                 numberOfTries : 0..MAX_RETRIES + MAXRETRIES]
    /\ refreshTime \in Timers
    /\ moduleTurningOff \in BOOLEAN
    /\ state \in ModemStates \cup {"WaitingForMessage"}
    /\ presses \in 0..MaxPresses

\* While the gateway waits for a message the modem is off, its supply cut,
\* whatever way turnOff took: the reply, the supply after the last repetition,
\* or a power state that had nothing to switch off.  PowerONState stands for a
\* modem with its supply on, whoever switched it on; only a hard switch-off
\* under way cuts the supply under it.
SupplyFollowsState ==
    /\ state = "WaitingForMessage" =>
         power.class = "ManualPowerOFF" /\ ~down /\ ~modem
    /\ power.class = "PowerON" /\ ~down => statics.off["PowerON"].hardPowerOffUnderProcess

\* Once the position is settled the modem is switched off and the gateway
\* goes back to waiting, even when the modem is silent or loses power.
TurningOffEnds == moduleTurningOff ~> state = "WaitingForMessage"

\* PowerONState.h:44, "Monitors power status and triggers transitions to other
\* states if necessary": a modem that is off for good is noticed.
LossDetected ==
    (power.class = "PowerON" /\ ~modem) ~> (power.class # "PowerON" \/ modem)
=============================================================================
