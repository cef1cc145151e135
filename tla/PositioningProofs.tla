-------------------------- MODULE PositioningProofs --------------------------
(***************************************************************************)
(* Proofs about Positioning and PowerManager, for every limit of attempts  *)
(* and every bound: the type invariant with its limits, and that the       *)
(* modem's supply follows the gateway's state.                             *)
(***************************************************************************)
EXTENDS Positioning, TLAPS

\* Which call an iteration makes in which state.
CallInv ==
    /\ state = "WaitingForMessage" <=> call = "none"
    /\ call = "measureBattery" => state = "SensingBatteryStatus"
    /\ call = "obtainGNSSPosition" => state = "GettingGNSSPosition"

\* A modem without its supply is off.  Under an object that takes it to be on,
\* the supply is cut only by a hard switch-off, which goToSleep may follow but
\* no class but PowerON begins: the gateway never switches a sleeping modem off.
SupplyInv ==
    /\ ~down => ~modem
    /\ power.class \in {"PowerON", "Sleep"} /\ ~down =>
         statics.off["PowerON"].hardPowerOffUnderProcess
    /\ state = "GettingGNSSPosition" => power.class # "Sleep"
    /\ state = "WaitingForMessage" => power.class = "ManualPowerOFF" /\ ~down

\* A class with a limit has not reached it; the others do not count.
TriesInv ==
    /\ gnss.class = "ConfigurateConstellation" => gnss.numberOfTries < MAX_RETRIES
    /\ gnss.class = "ObtainingPositionInformation" => gnss.numberOfTries < MAXRETRIES
    /\ gnss.class \notin {"ConfigurateConstellation", "ObtainingPositionInformation"} =>
         gnss.numberOfTries = 0

IInv == TypeOK /\ CallInv /\ SupplyInv /\ TriesInv

-----------------------------------------------------------------------------
(***************************************************************************)
(* The types of the parts                                                  *)
(***************************************************************************)
PowerObjects ==
    [class : Classes, ManualTurningPower : BOOLEAN, SignalTurningPowerUp : BOOLEAN,
     Turning : BOOLEAN, turnOfWasCall : BOOLEAN, buttonPushed : BOOLEAN,
     turnONCounter : 0..TURN_ON_COUNTER + 1]

OffRecords ==
    [readyToSend : BOOLEAN, hardPowerOffUnderProcess : BOOLEAN,
     retryCounter : 0..MAX_TRIES + 1]

StaticsRecords ==
    [turnOffCounter : 0..MAX_COUNT_TURN_OFF + 1, off : [{"PowerON", "Sleep"} -> OffRecords],
     reboot : BOOLEAN, sleep : BOOLEAN, measure : BOOLEAN,
     SignalTurningOn : BOOLEAN, turningPower : BOOLEAN]

PinsOK ==
    /\ timer \in Timers
    /\ key \in BOOLEAN /\ down \in BOOLEAN /\ dtr \in BOOLEAN
    /\ modem \in BOOLEAN /\ pulse \in BOOLEAN

OwedOK == owed \in Seq(Commands) /\ Len(owed) <= MaxOwed
UartOK == uart \in Seq(Kinds) /\ Len(uart) <= MaxLines

PowerParts ==
    power \in PowerObjects /\ statics \in StaticsRecords /\ PinsOK /\ OwedOK /\ UartOK

LEMMA PowerTypeParts == PowerTypeOK <=> PowerParts
<1>1. {key, down, dtr, modem, pulse} \subseteq BOOLEAN <=>
        /\ key \in BOOLEAN /\ down \in BOOLEAN /\ dtr \in BOOLEAN
        /\ modem \in BOOLEAN /\ pulse \in BOOLEAN
  OBVIOUS
<1> QED
  BY <1>1, Zenon DEF PowerTypeOK, PowerParts, PowerObjects, StaticsRecords, OffRecords, PinsOK,
                OwedOK, UartOK

LEMMA NewStateType ==
    ASSUME NEW c \in Classes
    PROVE  NewState(c) \in PowerObjects /\ NewState(c).class = c
  BY PowerAssumption DEF NewState, PowerObjects

LEMMA AfterReadType ==
    ASSUME NEW t \in Timers
    PROVE  AfterRead(t) \in Timers
  BY Zenon DEF AfterRead, Timers

LEMMA SentType ==
    ASSUME OwedOK, NEW c \in Commands
    PROVE  Sent(c) \in Seq(Commands) /\ Len(Sent(c)) <= MaxOwed
  BY PowerAssumption DEF OwedOK, Sent

LEMMA RestType ==
    ASSUME UartOK
    PROVE  RestOfUart \in Seq(Kinds) /\ Len(RestOfUart) <= MaxLines
  BY PowerAssumption DEF UartOK, RestOfUart, LineRead

LEMMA NoneOwed == <<>> \in Seq(Commands) /\ Len(<<>>) <= MaxOwed
  BY PowerAssumption

LEMMA PressedType ==
    ASSUME power \in PowerObjects, NEW button \in BOOLEAN
    PROVE  /\ Pressed(button) \in PowerObjects
           /\ Pressed(button).class = power.class
           /\ Pressed(button).turnONCounter = power.turnONCounter
  BY DEF Pressed, PowerObjects

\* The button's pulse leaves the object in its class.
LEMMA ButtonPulseType ==
    ASSUME PinsOK, NEW p \in PowerObjects, ButtonPulse(p)
    PROVE  /\ power' \in PowerObjects
           /\ power'.class = p.class
           /\ timer' \in Timers /\ key' \in BOOLEAN /\ pulse' \in BOOLEAN
<1> DEFINE starts == p.ManualTurningPower /\ ~p.SignalTurningPowerUp /\ p.Turning
           q      == IF starts THEN [p EXCEPT !.SignalTurningPowerUp = TRUE] ELSE p
           t      == IF starts THEN "running" ELSE timer
           waits  == q.SignalTurningPowerUp /\ q.Turning
           ends   == waits /\ t = "expired"
<1>1. q \in PowerObjects /\ q.class = p.class
  BY DEF PowerObjects
<1>2. t \in Timers
  BY DEF PinsOK, Timers
<1>3. /\ power' = IF ends THEN [q EXCEPT !.SignalTurningPowerUp = FALSE, !.Turning = FALSE]
                          ELSE q
      /\ timer' = IF ends THEN "running" ELSE IF waits THEN AfterRead(t) ELSE t
      /\ key' = IF ends THEN FALSE ELSE IF starts THEN TRUE ELSE key
      /\ pulse' = IF key' THEN pulse ELSE FALSE
  BY DEF ButtonPulse
<1> HIDE DEF starts, q, t, waits, ends
<1>4. power' \in PowerObjects /\ power'.class = p.class
  BY <1>1, <1>3 DEF PowerObjects
<1>5. timer' \in Timers
  BY <1>2, <1>3, AfterReadType DEF Timers
<1>6. key' \in BOOLEAN /\ pulse' \in BOOLEAN
  BY <1>3 DEF PinsOK
<1> QED
  BY <1>4, <1>5, <1>6

-----------------------------------------------------------------------------
(***************************************************************************)
(* The operations of the power states                                      *)
(***************************************************************************)
Hard == statics.off["PowerON"].hardPowerOffUnderProcess

\* What every operation keeps of the supply.
PowerInv ==
    /\ ~down => ~modem
    /\ power.class \in {"PowerON", "Sleep"} /\ ~down => Hard

LEMMA BecomeManualOffType ==
    ASSUME BecomeManualOff
    PROVE  /\ power' \in PowerObjects /\ power'.class = "ManualPowerOFF"
           /\ down' = FALSE /\ modem' = FALSE
           /\ OwedOK'
  BY NewStateType, NoneOwed DEF BecomeManualOff, Classes, OwedOK

LEMMA CountOffType ==
    ASSUME statics \in StaticsRecords
    PROVE  CountOff \in 0..MAX_COUNT_TURN_OFF + 1
  BY PowerAssumption DEF CountOff, StaticsRecords

LEMMA StartStopONStep ==
    ASSUME PowerParts, PowerInv, power.class = "PowerON", NEW button \in BOOLEAN,
           StartStopON(button)
    PROVE  PowerParts' /\ PowerInv' /\ power'.class # "Sleep"
<1> USE DEF PowerParts
<1>1. CASE power.turnOfWasCall
  BY <1>1 DEF StartStopON, powerVars, lineVars, modemVars, PinsOK, OwedOK, UartOK, PowerInv,
              Hard
<1>2. CASE ~power.turnOfWasCall
  <2>1. statics' = [statics EXCEPT !.turnOffCounter = CountOff]
    BY <1>2 DEF StartStopON
  <2>2. statics' \in StaticsRecords /\ Hard' = Hard
    BY <2>1, CountOffType DEF StaticsRecords, Hard
  <2>3. CASE CountOff = MAX_COUNT_TURN_OFF /\ power.ManualTurningPower
    <3>1. BecomeManualOff /\ UNCHANGED <<timer, key, dtr, pulse, uart>>
      BY <1>2, <2>3 DEF StartStopON
    <3>2. PinsOK' /\ UartOK'
      BY <3>1, BecomeManualOffType DEF PinsOK, UartOK
    <3> QED
      BY <2>2, <3>1, <3>2, BecomeManualOffType DEF PowerInv
  <2>4. CASE CountOff = MAX_COUNT_TURN_OFF /\ ~power.ManualTurningPower
    <3>1. power' = NewState("PowerOFF") /\ UNCHANGED <<down, modem, owed, timer, key, dtr,
                                                       pulse, uart>>
      BY <1>2, <2>4 DEF StartStopON
    <3>2. power' \in PowerObjects /\ power'.class = "PowerOFF"
      BY <3>1, NewStateType DEF Classes
    <3>3. PinsOK' /\ UartOK' /\ OwedOK'
      BY <3>1 DEF PinsOK, UartOK, OwedOK
    <3> QED
      BY <2>2, <3>1, <3>2, <3>3 DEF PowerInv
  <2>5. CASE CountOff # MAX_COUNT_TURN_OFF
    <3>1. ButtonPulse(Pressed(button)) /\ UNCHANGED <<down, dtr, modem, owed, uart>>
      BY <1>2, <2>5 DEF StartStopON
    <3>2. /\ power' \in PowerObjects /\ power'.class = power.class
          /\ timer' \in Timers /\ key' \in BOOLEAN /\ pulse' \in BOOLEAN
      BY <3>1, PressedType, ButtonPulseType
    <3>3. PinsOK' /\ UartOK' /\ OwedOK'
      BY <3>1, <3>2 DEF PinsOK, UartOK, OwedOK
    <3> QED
      BY <2>2, <3>1, <3>2, <3>3 DEF PowerInv
  <2> QED
    BY <2>3, <2>4, <2>5
<1> QED
  BY <1>1, <1>2

\* An object that finds the modem on finds its supply on.
LEMMA BecomeONStep ==
    ASSUME PowerParts, PowerInv, modem, power' = NewState("PowerON"),
           UNCHANGED <<statics, timer, lineVars, modemVars>>
    PROVE  PowerParts' /\ PowerInv' /\ power'.class # "Sleep"
<1>1. power' \in PowerObjects /\ power'.class = "PowerON"
  BY NewStateType DEF Classes
<1>2. down' = down /\ down
  BY DEF lineVars, PowerInv, PowerParts, PinsOK
<1>3. statics' = statics /\ PinsOK' /\ OwedOK' /\ UartOK'
  BY DEF PowerParts, PinsOK, OwedOK, UartOK, lineVars, modemVars
<1> QED
  BY <1>1, <1>2, <1>3 DEF PowerParts, PowerInv

LEMMA StartStopManualStep ==
    ASSUME PowerParts, PowerInv, power.class = "ManualPowerOFF", NEW button \in BOOLEAN,
           StartStopManual(button)
    PROVE  PowerParts' /\ PowerInv' /\ power'.class # "Sleep"
<1>1. CASE modem /\ power.buttonPushed /\ power.turnONCounter > TURN_ON_COUNTER
  BY <1>1, BecomeONStep DEF StartStopManual
<1>2. CASE ~(modem /\ power.buttonPushed /\ power.turnONCounter > TURN_ON_COUNTER)
  <2> DEFINE n == IF modem /\ power.buttonPushed THEN 1 ELSE 0
             p == [Pressed(button) EXCEPT !.turnONCounter = @ + n]
  <2>1. ButtonPulse(p) /\ UNCHANGED <<statics, down, dtr, modem, owed, uart>>
    BY <1>2 DEF StartStopManual
  <2>2. /\ Pressed(button) \in PowerObjects /\ Pressed(button).class = power.class
        /\ Pressed(button).turnONCounter = power.turnONCounter
    BY PressedType DEF PowerParts
  <2>3. power.turnONCounter \in 0..TURN_ON_COUNTER + 1
    BY DEF PowerParts, PowerObjects
  <2>4. power.turnONCounter + n \in 0..TURN_ON_COUNTER + 1
    BY <1>2, <2>3, PowerAssumption
  <2> HIDE DEF n
  <2>5. p \in PowerObjects /\ p.class = power.class
    BY <2>2, <2>4 DEF PowerObjects
  <2> HIDE DEF p
  <2>6. /\ power' \in PowerObjects /\ power'.class = power.class
        /\ timer' \in Timers /\ key' \in BOOLEAN /\ pulse' \in BOOLEAN
    BY <2>1, <2>5, ButtonPulseType DEF PowerParts
  <2>7. PinsOK' /\ UartOK' /\ OwedOK'
    BY <2>1, <2>6 DEF PowerParts, PinsOK, UartOK, OwedOK
  <2> QED
    BY <2>1, <2>6, <2>7 DEF PowerParts, PowerInv
<1> QED
  BY <1>1, <1>2

LEMMA StartStopOFFStep ==
    ASSUME PowerParts, PowerInv, power.class = "PowerOFF", StartStopOFF
    PROVE  PowerParts' /\ PowerInv' /\ power'.class # "Sleep"
<1>1. CASE modem
  BY <1>1, BecomeONStep DEF StartStopOFF
<1>2. CASE ~modem
  <2> DEFINE starts == ~statics.turningPower /\ timer = "expired"
             t      == IF statics.turningPower THEN timer
                       ELSE IF starts THEN "running" ELSE AfterRead(timer)
             up     == statics.turningPower \/ starts
             ends   == up /\ t = "expired"
  <2>1. /\ statics' = [statics EXCEPT !.turningPower = up /\ ~ends]
        /\ timer' = IF ends THEN "running" ELSE IF up THEN AfterRead(t) ELSE t
        /\ key' = IF ends THEN FALSE ELSE IF starts THEN TRUE ELSE key
        /\ pulse' = IF key' THEN pulse ELSE FALSE
        /\ UNCHANGED <<power, down, dtr, modem, owed, uart>>
    BY <1>2 DEF StartStopOFF
  <2>2. t \in Timers
    BY AfterReadType DEF PowerParts, PinsOK, Timers
  <2>3. (up /\ ~ends) \in BOOLEAN
    OBVIOUS
  <2> HIDE DEF starts, t, up, ends
  <2>4. statics' \in StaticsRecords
    BY <2>1, <2>3 DEF PowerParts, StaticsRecords
  <2>5. timer' \in Timers
    BY <2>1, <2>2, AfterReadType DEF Timers
  <2>6. key' \in BOOLEAN /\ pulse' \in BOOLEAN
    BY <2>1 DEF PowerParts, PinsOK
  <2>7. PinsOK' /\ UartOK' /\ OwedOK'
    BY <2>1, <2>5, <2>6 DEF PowerParts, PinsOK, UartOK, OwedOK
  <2> QED
    BY <2>1, <2>4, <2>7 DEF PowerParts, PowerInv
<1> QED
  BY <1>1, <1>2

LEMMA PowerUnchanged ==
    ASSUME PowerParts, PowerInv, UNCHANGED powerVars
    PROVE  PowerParts' /\ PowerInv' /\ power' = power
  BY DEF PowerParts, PowerInv, Hard, PinsOK, OwedOK, UartOK, powerVars, lineVars, modemVars

\* startStopUpdate: no class falls asleep by itself.
LEMMA StartStopUpdateStep ==
    ASSUME PowerParts, PowerInv, NEW button \in BOOLEAN, startStopUpdate(button)
    PROVE  PowerParts' /\ PowerInv' /\ (power'.class = "Sleep" => power.class = "Sleep")
<1>1. power.class \in Classes
  BY DEF PowerParts, PowerObjects
<1>2. \/ power.class = "PowerON" /\ StartStopON(button)
      \/ power.class = "ManualPowerOFF" /\ StartStopManual(button)
      \/ power.class = "PowerOFF" /\ StartStopOFF
      \/ power.class = "Sleep" /\ UNCHANGED powerVars
  BY <1>1, Zenon DEF startStopUpdate, Classes
<1> QED
  BY <1>2, StartStopONStep, StartStopManualStep, StartStopOFFStep, PowerUnchanged

LEMMA TurnOnManualStep ==
    ASSUME PowerParts, PowerInv, power.class = "ManualPowerOFF", TurnOnManual
    PROVE  PowerParts' /\ PowerInv' /\ power'.class # "Sleep"
<1>1. down' = TRUE /\ UNCHANGED <<dtr, modem, owed, uart>>
  BY DEF TurnOnManual
<1>2. OwedOK' /\ UartOK'
  BY <1>1 DEF PowerParts, OwedOK, UartOK
<1>3. CASE modem
  <2>1. power' = NewState("PowerON") /\ UNCHANGED <<statics, timer, key, pulse>>
    BY <1>3 DEF TurnOnManual
  <2>2. power' \in PowerObjects /\ power'.class = "PowerON"
    BY <2>1, NewStateType DEF Classes
  <2>3. PinsOK'
    BY <1>1, <2>1 DEF PowerParts, PinsOK
  <2> QED
    BY <1>1, <1>2, <2>1, <2>2, <2>3 DEF PowerParts, PowerInv
<1>4. CASE ~modem
  <2> DEFINE fires == timer = "expired"
             up    == ~statics.SignalTurningOn
  <2>1. /\ statics' = [statics EXCEPT !.SignalTurningOn = IF fires THEN up ELSE @]
        /\ key' = IF fires THEN up ELSE key
        /\ pulse' = IF key' THEN pulse ELSE FALSE
        /\ timer' = IF fires THEN "running" ELSE AfterRead(timer)
        /\ UNCHANGED power
    BY <1>4 DEF TurnOnManual
  <2>2. up \in BOOLEAN
    OBVIOUS
  <2> HIDE DEF up
  <2>3. statics' \in StaticsRecords
    BY <2>1, <2>2 DEF PowerParts, StaticsRecords
  <2>4. timer' \in Timers
    BY <2>1, AfterReadType DEF PowerParts, PinsOK, Timers
  <2>5. key' \in BOOLEAN /\ pulse' \in BOOLEAN
    BY <2>1, <2>2 DEF PowerParts, PinsOK
  <2>6. PinsOK'
    BY <1>1, <2>4, <2>5 DEF PowerParts, PinsOK
  <2> QED
    BY <1>1, <1>2, <2>1, <2>3, <2>6 DEF PowerParts, PowerInv
<1> QED
  BY <1>3, <1>4

\* awake: a sleeping modem's object is one that takes it to be on.
LEMMA AwakeStep ==
    ASSUME PowerParts, PowerInv, awake
    PROVE  PowerParts' /\ PowerInv' /\ power'.class # "Sleep"
<1>1. CASE power.class = "Sleep"
  <2>1. dtr' = FALSE /\ power' = NewState("PowerON") /\ UNCHANGED <<statics, timer, key, down,
                                                                    modemVars>>
    BY <1>1 DEF awake
  <2>2. power' \in PowerObjects /\ power'.class = "PowerON"
    BY <2>1, NewStateType DEF Classes
  <2>3. PinsOK' /\ OwedOK' /\ UartOK'
    BY <2>1 DEF PowerParts, PinsOK, OwedOK, UartOK, modemVars
  <2>4. modem' = modem /\ down' = down /\ Hard' = Hard
    BY <2>1 DEF modemVars, Hard
  <2> QED
    BY <1>1, <2>1, <2>2, <2>3, <2>4 DEF PowerParts, PowerInv
<1>2. CASE power.class # "Sleep"
  <2>1. UNCHANGED powerVars
    BY <1>2 DEF awake, powerVars, lineVars
  <2> QED
    BY <1>2, <2>1, PowerUnchanged
<1> QED
  BY <1>1, <1>2

LEMMA TurnOnStep ==
    ASSUME PowerParts, PowerInv, turnOn
    PROVE  PowerParts' /\ PowerInv' /\ power'.class # "Sleep"
<1>1. power.class \in Classes
  BY DEF PowerParts, PowerObjects
<1>2. \/ power.class = "PowerON" /\ UNCHANGED powerVars
      \/ power.class = "ManualPowerOFF" /\ TurnOnManual
      \/ power.class = "PowerOFF" /\ StartStopOFF
      \/ awake
  BY <1>1, Zenon DEF turnOn, Classes
<1> QED
  BY <1>2, TurnOnManualStep, StartStopOFFStep, AwakeStep, PowerUnchanged

-----------------------------------------------------------------------------
(***************************************************************************)
(* turnOff                                                                 *)
(***************************************************************************)
LEMMA NewOffType == NewOff \in OffRecords
  BY PowerAssumption DEF OffRecords, NewOff

LEMMA OffType ==
    ASSUME statics \in StaticsRecords
    PROVE  statics.off["PowerON"] \in OffRecords
  BY DEF StaticsRecords

LEMMA StoreOffType ==
    ASSUME statics \in StaticsRecords, NEW o \in OffRecords,
           statics' = [statics EXCEPT !.off["PowerON"] = o]
    PROVE  statics' \in StaticsRecords /\ Hard' = o.hardPowerOffUnderProcess
  BY DEF StaticsRecords, Hard

\* turnOff under PowerONState: TRUE means that the supply is cut.
LEMMA TurnOffByCommandStep ==
    ASSUME PowerParts, PowerInv, power.class = "PowerON", NEW result \in BOOLEAN,
           TurnOffByCommand(result)
    PROVE  /\ PowerParts' /\ PowerInv' /\ power'.class # "Sleep"
           /\ result => power'.class = "ManualPowerOFF" /\ ~down'
<1> DEFINE off    == statics.off["PowerON"]
           sends  == IF off.readyToSend THEN Sent("QPOWD") ELSE owed
           fires  == timer = "expired"
           hard   == off.retryCounter > MAX_TRIES /\ fires
           called == power.turnOfWasCall \/ off.readyToSend
           waiting == [off EXCEPT !.readyToSend = FALSE]
           StoreOff(o) == statics' = [statics EXCEPT !.off["PowerON"] = o]
<1> USE DEF PowerParts
<1>1. off \in OffRecords
  BY OffType
<1>2. waiting \in OffRecords /\ SupplyCut(off) \in OffRecords /\ NewOff \in OffRecords
  <2>1. waiting \in OffRecords
    BY <1>1 DEF OffRecords
  <2>2. SupplyCut(off) \in OffRecords
    BY <1>1 DEF OffRecords, SupplyCut
  <2>3. NewOff \in OffRecords
    BY NewOffType
  <2> QED
    BY <2>1, <2>2, <2>3
<1>3. /\ waiting.hardPowerOffUnderProcess = off.hardPowerOffUnderProcess
      /\ SupplyCut(off).hardPowerOffUnderProcess
  BY <1>1 DEF OffRecords, SupplyCut
<1>4. off.hardPowerOffUnderProcess = Hard
  BY DEF Hard
<1>5. ASSUME ~hard, fires
      PROVE  Retried(off) \in OffRecords
             /\ Retried(off).hardPowerOffUnderProcess = off.hardPowerOffUnderProcess
  <2>1. off.retryCounter \in 0..MAX_TRIES + 1 /\ ~(off.retryCounter > MAX_TRIES)
    BY <1>1, <1>5 DEF OffRecords
  <2>2. off.retryCounter + 1 \in 0..MAX_TRIES + 1
    BY <2>1, PowerAssumption
  <2> HIDE DEF off
  <2> QED
    BY <1>1, <2>2 DEF Retried, OffRecords
<1>6. sends \in Seq(Commands) /\ Len(sends) <= MaxOwed
  BY SentType DEF Commands, OwedOK
<1>7. called \in BOOLEAN
  OBVIOUS
<1>8. uart' = RestOfUart /\ UNCHANGED <<key, dtr, pulse>>
  BY DEF TurnOffByCommand
<1>9. UartOK'
  BY <1>8, RestType DEF UartOK
<1>10. \/ /\ StoreOff(waiting) /\ BecomeManualOff /\ UNCHANGED timer
       \/ /\ StoreOff(NewOff) /\ BecomeManualOff /\ timer' = AfterRead(timer)
       \/ /\ result = FALSE
          /\ StoreOff(SupplyCut(off))
          /\ down' = FALSE /\ modem' = FALSE /\ owed' = <<>>
          /\ power' = [power EXCEPT !.turnOfWasCall = called]
          /\ timer' = AfterRead(timer)
       \/ /\ result = FALSE
          /\ ~hard \/ IsRead("POWERED DOWN")
          /\ ~IsRead("POWERED DOWN")
          /\ StoreOff(IF fires THEN Retried(off) ELSE waiting)
          /\ owed' = sends
          /\ power' = [power EXCEPT !.turnOfWasCall = called]
          /\ timer' = AfterRead(timer)
          /\ UNCHANGED <<down, modem>>
  <2> HIDE DEF off, sends
  <2> QED
    BY Zenon DEF TurnOffByCommand, off, sends
<1> HIDE DEF off, sends, fires, hard, called, waiting
<1>11. timer \in Timers /\ AfterRead(timer) \in Timers
  BY AfterReadType DEF PinsOK
<1>12. /\ [power EXCEPT !.turnOfWasCall = called] \in PowerObjects
       /\ [power EXCEPT !.turnOfWasCall = called].class = "PowerON"
  BY <1>7 DEF PowerObjects
<1>13. CASE BecomeManualOff /\ (timer' = timer \/ timer' = AfterRead(timer))
              /\ (StoreOff(waiting) \/ StoreOff(NewOff))
  <2>1. statics' \in StaticsRecords
    BY <1>2, <1>13, StoreOffType
  <2>2. PinsOK'
    BY <1>8, <1>11, <1>13, BecomeManualOffType DEF PinsOK
  <2> QED
    BY <1>9, <1>13, <2>1, <2>2, BecomeManualOffType DEF PowerInv
<1>14. CASE /\ result = FALSE
            /\ StoreOff(SupplyCut(off))
            /\ down' = FALSE /\ modem' = FALSE /\ owed' = <<>>
            /\ power' = [power EXCEPT !.turnOfWasCall = called]
            /\ timer' = AfterRead(timer)
  <2>1. statics' \in StaticsRecords /\ Hard'
    BY <1>2, <1>3, <1>14, StoreOffType
  <2>2. PinsOK' /\ OwedOK'
    BY <1>8, <1>11, <1>14, NoneOwed DEF PinsOK, OwedOK
  <2> QED
    BY <1>9, <1>12, <1>14, <2>1, <2>2 DEF PowerInv
<1>15. CASE /\ result = FALSE
            /\ ~hard
            /\ StoreOff(IF fires THEN Retried(off) ELSE waiting)
            /\ owed' = sends
            /\ power' = [power EXCEPT !.turnOfWasCall = called]
            /\ timer' = AfterRead(timer)
            /\ UNCHANGED <<down, modem>>
  <2> DEFINE o == IF fires THEN Retried(off) ELSE waiting
  <2>1. o \in OffRecords /\ o.hardPowerOffUnderProcess = off.hardPowerOffUnderProcess
    BY <1>2, <1>3, <1>5, <1>15
  <2>2. StoreOff(o)
    BY <1>15
  <2> HIDE DEF o
  <2>3. statics' \in StaticsRecords /\ Hard' = Hard
    BY <1>4, <2>1, <2>2, StoreOffType
  <2>4. PinsOK' /\ OwedOK'
    BY <1>6, <1>8, <1>11, <1>15 DEF PinsOK, OwedOK
  <2> QED
    BY <1>9, <1>12, <1>15, <2>3, <2>4 DEF PowerInv
<1> QED
  BY <1>10, <1>13, <1>14, <1>15

\* turnOff, asked of any class but Sleep.
LEMMA TurnOffStep ==
    ASSUME PowerParts, PowerInv, power.class # "Sleep", NEW result \in BOOLEAN,
           turnOff(result)
    PROVE  /\ PowerParts' /\ PowerInv' /\ power'.class # "Sleep"
           /\ result => power'.class = "ManualPowerOFF" /\ ~down'
<1>1. power.class \in Classes
  BY DEF PowerParts, PowerObjects
<1>2. CASE power.class = "PowerON"
  BY <1>2, TurnOffByCommandStep DEF turnOff
<1>3. CASE power.class = "PowerOFF"
  <2>1. BecomeManualOff /\ UNCHANGED <<statics, timer, key, dtr, pulse, uart>>
    BY <1>3 DEF turnOff
  <2>2. PinsOK' /\ UartOK'
    BY <2>1, BecomeManualOffType DEF PowerParts, PinsOK, UartOK
  <2> QED
    BY <2>1, <2>2, BecomeManualOffType DEF PowerParts, PowerInv
<1>4. CASE power.class = "ManualPowerOFF"
  <2>1. /\ down' = FALSE /\ modem' = FALSE /\ owed' = <<>> /\ UNCHANGED power
        /\ UNCHANGED <<statics, timer, key, dtr, pulse, uart>>
    BY <1>4 DEF turnOff
  <2>2. PinsOK' /\ UartOK' /\ OwedOK'
    BY <2>1, NoneOwed DEF PowerParts, PinsOK, UartOK, OwedOK
  <2> QED
    BY <1>4, <2>1, <2>2 DEF PowerParts, PowerInv
<1> QED
  BY <1>1, <1>2, <1>3, <1>4 DEF Classes

-----------------------------------------------------------------------------
(***************************************************************************)
(* The other commands                                                      *)
(***************************************************************************)
LEMMA CommandUntilStep ==
    ASSUME PowerParts, NEW flag \in {"measure", "sleep", "reboot"}, NEW command \in Commands,
           NEW reply, NEW result, CommandUntil(flag, command, reply, result)
    PROVE  /\ statics' \in StaticsRecords /\ Hard' = Hard
           /\ timer' \in Timers /\ OwedOK' /\ UartOK'
<1> USE DEF PowerParts
<1> DEFINE b == ~IsRead(reply) /\ timer = "expired"
<1>1. statics' = [statics EXCEPT ![flag] = b]
  BY DEF CommandUntil
<1>2. b \in BOOLEAN
  OBVIOUS
<1> HIDE DEF b
<1>3. statics' \in StaticsRecords /\ Hard' = Hard
  BY <1>1, <1>2 DEF StaticsRecords, Hard
<1>4. timer' \in Timers
  BY AfterReadType DEF CommandUntil, PinsOK
<1>5. OwedOK'
  BY SentType DEF CommandUntil, OwedOK
<1>6. UartOK'
  BY RestType DEF CommandUntil, UartOK
<1> QED
  BY <1>3, <1>4, <1>5, <1>6

\* Only PowerONState measures.
LEMMA MeasureBatteryStep ==
    ASSUME PowerParts, PowerInv, NEW result \in BOOLEAN, measureBattery(result)
    PROVE  PowerParts' /\ PowerInv' /\ power' = power /\ (result => power.class = "PowerON")
<1>1. CASE power.class = "PowerON"
  <2>1. CommandUntil("measure", "CBC", "CBC", result) /\ UNCHANGED <<power, lineVars, modem,
                                                                     pulse>>
    BY <1>1 DEF measureBattery
  <2>2. /\ statics' \in StaticsRecords /\ Hard' = Hard
        /\ timer' \in Timers /\ OwedOK' /\ UartOK'
    BY <2>1, CommandUntilStep DEF Commands
  <2>3. PinsOK' /\ down' = down
    BY <2>1, <2>2 DEF PowerParts, PinsOK, lineVars
  <2> QED
    BY <1>1, <2>1, <2>2, <2>3 DEF PowerParts, PowerInv
<1>2. CASE power.class # "PowerON"
  BY <1>2, PowerUnchanged DEF measureBattery
<1> QED
  BY <1>1, <1>2

LEMMA GoToSleepStep ==
    ASSUME PowerParts, PowerInv, NEW result \in BOOLEAN, goToSleep(result)
    PROVE  PowerParts' /\ PowerInv'
<1>1. CASE power.class = "PowerON"
  <2>1. /\ CommandUntil("sleep", "QSCLK", "OK", result)
        /\ power' = IF result THEN NewState("Sleep") ELSE power
        /\ dtr' = (dtr \/ result)
        /\ UNCHANGED <<key, down, modem, pulse>>
    BY <1>1 DEF goToSleep
  <2>2. /\ statics' \in StaticsRecords /\ Hard' = Hard
        /\ timer' \in Timers /\ OwedOK' /\ UartOK'
    BY <2>1, CommandUntilStep DEF Commands
  <2>3. PinsOK'
    BY <2>1, <2>2 DEF PowerParts, PinsOK
  <2>4. power' \in PowerObjects /\ power'.class \in {"PowerON", "Sleep"}
    BY <1>1, <2>1, NewStateType DEF PowerParts, Classes
  <2> QED
    BY <1>1, <2>1, <2>2, <2>3, <2>4 DEF PowerParts, PowerInv
<1>2. CASE power.class # "PowerON"
  BY <1>2, PowerUnchanged DEF goToSleep
<1> QED
  BY <1>1, <1>2

LEMMA RebootStep ==
    ASSUME PowerParts, PowerInv, NEW result \in BOOLEAN, reboot(result)
    PROVE  PowerParts' /\ PowerInv'
<1>1. CASE power.class = "PowerON"
  <2>1. /\ CommandUntil("reboot", "QPOWD", "POWERED DOWN", result)
        /\ power' = IF result THEN NewState("PowerOFF") ELSE power
        /\ UNCHANGED <<lineVars, modem, pulse>>
    BY <1>1 DEF reboot
  <2>2. /\ statics' \in StaticsRecords /\ Hard' = Hard
        /\ timer' \in Timers /\ OwedOK' /\ UartOK'
    BY <2>1, CommandUntilStep DEF Commands
  <2>3. PinsOK' /\ down' = down
    BY <2>1, <2>2 DEF PowerParts, PinsOK, lineVars
  <2>4. power' \in PowerObjects /\ power'.class \in {"PowerON", "PowerOFF"}
    BY <1>1, <2>1, NewStateType DEF PowerParts, Classes
  <2> QED
    BY <1>1, <2>1, <2>2, <2>3, <2>4 DEF PowerParts, PowerInv
<1>2. CASE power.class # "PowerON"
  BY <1>2, PowerUnchanged DEF reboot
<1> QED
  BY <1>1, <1>2

-----------------------------------------------------------------------------
(***************************************************************************)
(* The modem and the delay                                                 *)
(***************************************************************************)
LEMMA RepliesType ==
    ASSUME NEW c \in Commands, NEW r \in Replies(c) \cup {<<>>}
    PROVE  r \in Seq(Kinds)
<1>1. \/ Replies(c) = {<<"CBC", "OK">>, <<"other">>}
      \/ Replies(c) = {<<"OK", "POWERED DOWN">>, <<"other">>}
      \/ Replies(c) = {<<"OK">>}
      \/ Replies(c) = {<<"OK">>, <<"other">>}
      \/ Replies(c) = {<<"OK">>, <<"504">>}
      \/ Replies(c) = {<<"LOC", "OK">>, <<"other">>, <<"505">>}
      \/ Replies(c) = {<<"OK">>, <<"505">>}
  BY Zenon DEF Replies, Commands
<1>2. /\ <<>> \in Seq(Kinds) /\ <<"OK">> \in Seq(Kinds) /\ <<"other">> \in Seq(Kinds)
      /\ <<"504">> \in Seq(Kinds) /\ <<"505">> \in Seq(Kinds)
  BY DEF Kinds
<1>3. /\ <<"CBC", "OK">> \in Seq(Kinds) /\ <<"OK", "POWERED DOWN">> \in Seq(Kinds)
      /\ <<"LOC", "OK">> \in Seq(Kinds)
  BY DEF Kinds
<1> QED
  BY <1>1, <1>2, <1>3, Zenon

LEMMA ModemAnswersStep ==
    ASSUME PowerParts, PowerInv, ModemAnswers
    PROVE  PowerParts' /\ PowerInv' /\ power' = power /\ down' = down
<1> USE DEF PowerParts
<1>1. PICK reply \in Replies(Head(owed)) \cup {<<>>} :
        /\ Len(uart) + Len(reply) <= MaxLines
        /\ uart' = uart \o reply
        /\ \/ modem' = FALSE /\ owed' = <<>>
           \/ owed' = Tail(owed) /\ UNCHANGED modem
  BY DEF ModemAnswers
<1>2. owed # <<>> /\ UNCHANGED <<objectVars, timer, lineVars, pulse>>
  BY DEF ModemAnswers
<1>3. Head(owed) \in Commands /\ Tail(owed) \in Seq(Commands) /\ Len(Tail(owed)) <= MaxOwed
  BY <1>2, PowerAssumption DEF OwedOK
<1>4. reply \in Seq(Kinds)
  BY <1>3, RepliesType
<1>5. UartOK'
  BY <1>1, <1>4 DEF UartOK
<1>6. OwedOK'
  BY <1>1, <1>3, NoneOwed DEF OwedOK
<1>7. PinsOK' /\ power' = power /\ statics' = statics /\ down' = down
  BY <1>1, <1>2 DEF PinsOK, lineVars, objectVars
<1>8. modem' => modem
  BY <1>1
<1> QED
  BY <1>5, <1>6, <1>7, <1>8 DEF PowerInv, Hard

\* Only a modem with its supply reacts to the key.
LEMMA KeyOrLossStep ==
    ASSUME PowerParts, PowerInv, KeyPressed \/ PowerLost
    PROVE  PowerParts' /\ PowerInv' /\ power' = power /\ down' = down
<1> USE DEF PowerParts
<1>1. owed' = <<>> /\ UNCHANGED <<objectVars, timer, lineVars, uart>>
  BY DEF KeyPressed, PowerLost
<1>2. modem' \in BOOLEAN /\ pulse' \in BOOLEAN /\ (down \/ ~modem')
  BY DEF KeyPressed, PowerLost, PinsOK
<1>3. OwedOK' /\ UartOK'
  BY <1>1, NoneOwed DEF OwedOK, UartOK
<1>4. PinsOK' /\ power' = power /\ statics' = statics /\ down' = down
  BY <1>1, <1>2 DEF PinsOK, lineVars, objectVars
<1> QED
  BY <1>2, <1>3, <1>4 DEF PowerInv, Hard

LEMMA DelayElapsesStep ==
    ASSUME PowerParts, PowerInv, DelayElapses
    PROVE  PowerParts' /\ PowerInv' /\ power' = power /\ down' = down
<1>1. PinsOK' /\ OwedOK' /\ UartOK' /\ power' = power /\ statics' = statics
        /\ down' = down /\ modem' = modem
  BY DEF PowerParts, DelayElapses, PinsOK, OwedOK, UartOK, Timers, objectVars, lineVars,
         modemVars
<1> QED
  BY <1>1 DEF PowerParts, PowerInv, Hard

-----------------------------------------------------------------------------
(***************************************************************************)
(* The chain of GeopositioningState                                        *)
(***************************************************************************)
GNSSObjects ==
    [class : GNSSClasses, readyToSend : BOOLEAN, numberOfTries : 0..MAX_RETRIES + MAXRETRIES]

Working == GNSSClasses \ {"GNSSUnavailable"}

LEMMA NewGNSSType ==
    ASSUME NEW c \in GNSSClasses
    PROVE  /\ NewGNSS(c) \in GNSSObjects
           /\ NewGNSS(c).class = c /\ NewGNSS(c).numberOfTries = 0
  BY GNSSAssumption DEF NewGNSS, GNSSObjects

LEMMA CommandsOfType ==
    ASSUME NEW c \in Working
    PROVE  CommandsOf(c) \in Commands
  BY Zenon DEF CommandsOf, Working, GNSSClasses, Commands

LEMMA TriesOfValue ==
    ASSUME NEW c
    PROVE  /\ c = "ConfigurateConstellation" => TriesOf(c) = MAX_RETRIES
           /\ c = "ObtainingPositionInformation" => TriesOf(c) = MAXRETRIES
           /\ c \notin {"ConfigurateConstellation", "ObtainingPositionInformation"} =>
                TriesOf(c) = 0
<1>1. "ConfigurateConstellation" # "ObtainingPositionInformation"
  OBVIOUS
<1> QED
  BY <1>1, Zenon DEF TriesOf

LEMMA SentByChainType ==
    ASSUME OwedOK, gnss.class \in Working
    PROVE  SentByChain \in Seq(Commands) /\ Len(SentByChain) <= MaxOwed
<1> DEFINE c   == CommandsOf(gnss.class)
           one == Sent(c)
<1>1. c \in Commands
  BY CommandsOfType
<1>2. one \in Seq(Commands) /\ Len(one) <= MaxOwed
  BY <1>1, SentType
<1>3. \/ SentByChain = owed
      \/ SentByChain = Append(one, c) /\ Len(one) < MaxOwed
      \/ SentByChain = one
  BY Zenon DEF SentByChain
<1> HIDE DEF c, one
<1>4. CASE SentByChain = Append(one, c) /\ Len(one) < MaxOwed
  BY <1>1, <1>2, <1>4, PowerAssumption
<1> QED
  BY <1>2, <1>3, <1>4 DEF OwedOK

LEMMA NewTriesInv ==
    ASSUME NEW c \in GNSSClasses, gnss' = NewGNSS(c)
    PROVE  gnss' \in GNSSObjects /\ TriesInv'
<1>1. gnss' \in GNSSObjects /\ gnss'.numberOfTries = 0
  BY NewGNSSType
<1> QED
  BY <1>1, GNSSAssumption DEF TriesInv

\* retrivGeopositioning: a class gives up with its last try.
LEMMA RetrivStep ==
    ASSUME gnss \in GNSSObjects, TriesInv, refreshTime \in Timers, OwedOK, UartOK,
           NEW outcome, retrivGeopositioning(outcome)
    PROVE  gnss' \in GNSSObjects /\ TriesInv' /\ refreshTime' \in Timers /\ OwedOK' /\ UartOK'
<1> DEFINE c     == gnss.class
           fires == refreshTime = "expired"
           tries == IF TriesOf(c) = 0 THEN 0 ELSE gnss.numberOfTries + 1
<1>1. CASE c = "GNSSUnavailable"
  <2>1. UNCHANGED <<gnss, refreshTime, owed, uart>>
    BY <1>1 DEF retrivGeopositioning
  <2> QED
    BY <2>1 DEF TriesInv, OwedOK, UartOK
<1>2. CASE c # "GNSSUnavailable"
  <2>1. c \in Working
    BY <1>2 DEF Working, GNSSObjects
  <2>2. owed' = SentByChain /\ uart' = RestOfUart
    BY <1>2 DEF retrivGeopositioning
  <2>3. OwedOK' /\ UartOK'
    BY <2>1, <2>2, SentByChainType, RestType DEF OwedOK, UartOK
  <2>4. \/ gnss' = NewGNSS(NextGNSS[c]) /\ UNCHANGED refreshTime
        \/ gnss' = NewGNSS("TurningOnGNSS") /\ UNCHANGED refreshTime
        \/ gnss' = NewGNSS("TurningOffGNSS") /\ refreshTime' = AfterRead(refreshTime)
        \/ /\ ~(fires /\ tries # 0 /\ tries >= TriesOf(c))
           /\ gnss' = [gnss EXCEPT !.readyToSend = fires,
                                   !.numberOfTries = IF fires THEN tries ELSE @]
           /\ refreshTime' = AfterRead(refreshTime)
    BY <1>2, Zenon DEF retrivGeopositioning
  <2>5. refreshTime' \in Timers
    BY <2>4, AfterReadType
  <2>6. NextGNSS[c] \in GNSSClasses
    BY <2>1 DEF NextGNSS, Working, GNSSClasses
  <2>7. CASE \/ gnss' = NewGNSS(NextGNSS[c])
             \/ gnss' = NewGNSS("TurningOnGNSS")
             \/ gnss' = NewGNSS("TurningOffGNSS")
    <3>1. \E k \in GNSSClasses : gnss' = NewGNSS(k)
      BY <2>6, <2>7 DEF GNSSClasses
    <3> QED
      BY <2>3, <2>5, <3>1, NewTriesInv
  <2>8. CASE /\ ~(fires /\ tries # 0 /\ tries >= TriesOf(c))
             /\ gnss' = [gnss EXCEPT !.readyToSend = fires,
                                     !.numberOfTries = IF fires THEN tries ELSE @]
    <3> DEFINE n == IF fires THEN tries ELSE gnss.numberOfTries
    <3>1. gnss.numberOfTries \in Nat /\ c \in GNSSClasses
      BY GNSSAssumption DEF GNSSObjects
    <3>2. /\ c = "ConfigurateConstellation" => n \in Nat /\ n < MAX_RETRIES
          /\ c = "ObtainingPositionInformation" => n \in Nat /\ n < MAXRETRIES
          /\ c \notin {"ConfigurateConstellation", "ObtainingPositionInformation"} => n = 0
      <4>1. CASE c = "ConfigurateConstellation"
        BY <2>8, <3>1, <4>1, TriesOfValue, GNSSAssumption DEF TriesInv
      <4>2. CASE c = "ObtainingPositionInformation"
        BY <2>8, <3>1, <4>2, TriesOfValue, GNSSAssumption DEF TriesInv
      <4>3. CASE c \notin {"ConfigurateConstellation", "ObtainingPositionInformation"}
        BY <4>3, TriesOfValue DEF TriesInv
      <4> QED
        BY <4>1, <4>2, <4>3
    <3>3. n \in 0..MAX_RETRIES + MAXRETRIES
      BY <3>2, GNSSAssumption
    <3>4. gnss' = [gnss EXCEPT !.readyToSend = fires, !.numberOfTries = n]
      BY <2>8
    <3>5. fires \in BOOLEAN
      OBVIOUS
    <3> HIDE DEF n, fires
    <3>6. gnss' \in GNSSObjects /\ gnss'.class = c /\ gnss'.numberOfTries = n
      BY <3>3, <3>4, <3>5 DEF GNSSObjects
    <3> QED
      BY <2>3, <2>5, <3>2, <3>6 DEF TriesInv
  <2> QED
    BY <2>4, <2>7, <2>8
<1> QED
  BY <1>1, <1>2

-----------------------------------------------------------------------------
(***************************************************************************)
(* The gateway's rounds                                                    *)
(***************************************************************************)
GNSSOK == gnss \in GNSSObjects /\ refreshTime \in Timers /\ moduleTurningOff \in BOOLEAN

RoundOK == state \in ModemStates \cup {"WaitingForMessage"} /\ presses \in 0..MaxPresses

\* The inductive invariant in the parts the operations keep.
Parts ==
    /\ PowerParts /\ PowerInv
    /\ GNSSOK /\ TriesInv
    /\ RoundOK /\ CallInv
    /\ state = "GettingGNSSPosition" => power.class # "Sleep"
    /\ state = "WaitingForMessage" => power.class = "ManualPowerOFF" /\ ~down

LEMMA IInvParts == IInv <=> Parts
<1>1. TypeOK <=> PowerTypeOK /\ GNSSOK /\ RoundOK
  BY DEF TypeOK, GNSSOK, RoundOK, GNSSObjects
<1>2. SupplyInv <=> /\ PowerInv
                    /\ state = "GettingGNSSPosition" => power.class # "Sleep"
                    /\ state = "WaitingForMessage" => power.class = "ManualPowerOFF" /\ ~down
  BY DEF SupplyInv, PowerInv, Hard
<1> QED
  BY <1>1, <1>2, PowerTypeParts DEF IInv, Parts

LEMMA AfterStartStopValue ==
    ASSUME state \in ModemStates
    PROVE  /\ AfterStartStop \in {"obtainGNSSPosition", "useModem", "turnOn"}
           /\ AfterStartStop = "obtainGNSSPosition" => state = "GettingGNSSPosition"
<1>1. /\ "obtainGNSSPosition" # "useModem" /\ "obtainGNSSPosition" # "turnOn"
  OBVIOUS
<1> QED
  BY <1>1, Zenon DEF AfterStartStop

LEMMA GNSSFrame ==
    ASSUME GNSSOK, TriesInv, UNCHANGED gnssVars
    PROVE  GNSSOK' /\ TriesInv'
  BY DEF GNSSOK, TriesInv, gnssVars

LEMMA GatewayFrame ==
    ASSUME Parts, UNCHANGED gatewayVars, power' = power, down' = down
    PROVE  /\ RoundOK' /\ CallInv'
           /\ state' = "GettingGNSSPosition" => power'.class # "Sleep"
           /\ state' = "WaitingForMessage" => power'.class = "ManualPowerOFF" /\ ~down'
  BY DEF Parts, RoundOK, CallInv, gatewayVars

LEMMA UpdatePowerStatusStep ==
    ASSUME Parts, UpdatePowerStatus
    PROVE  Parts'
<1>1. PICK button \in BOOLEAN : /\ button => presses < MaxPresses
                                /\ startStopUpdate(button)
                                /\ presses' = presses + (IF button THEN 1 ELSE 0)
  BY DEF UpdatePowerStatus
<1>2. call = "startStopUpdate" /\ state' = state /\ call' = AfterStartStop
        /\ UNCHANGED gnssVars
  BY DEF UpdatePowerStatus
<1>3. state \in ModemStates
  BY <1>2 DEF Parts, RoundOK, CallInv
<1>4. PowerParts' /\ PowerInv' /\ (power'.class = "Sleep" => power.class = "Sleep")
  BY <1>1, StartStopUpdateStep DEF Parts
<1>5. presses' \in 0..MaxPresses
  BY <1>1, GNSSAssumption DEF Parts, RoundOK
<1>6. RoundOK'
  BY <1>2, <1>3, <1>5 DEF RoundOK
<1>7. state # "WaitingForMessage"
  BY <1>3 DEF ModemStates
<1>8. CallInv'
  BY <1>2, <1>3, <1>7, AfterStartStopValue DEF CallInv
<1> QED
  BY <1>2, <1>4, <1>6, <1>7, <1>8, GNSSFrame DEF Parts

LEMMA TurnOnActionStep ==
    ASSUME Parts, TurnOn
    PROVE  Parts'
<1>1. /\ call = "turnOn" /\ turnOn /\ UNCHANGED gnssVars
      /\ state' = state /\ presses' = presses
      /\ call' = IF state = "SensingBatteryStatus" THEN "measureBattery" ELSE "useModem"
  BY DEF TurnOn, GoTo
<1>2. PowerParts' /\ PowerInv' /\ power'.class # "Sleep"
  BY <1>1, TurnOnStep DEF Parts
<1>3. RoundOK' /\ CallInv' /\ state' # "WaitingForMessage"
  BY <1>1 DEF Parts, RoundOK, CallInv
<1> QED
  BY <1>1, <1>2, <1>3, GNSSFrame DEF Parts

LEMMA MeasureBatteryActionStep ==
    ASSUME Parts, MeasureBattery
    PROVE  Parts'
<1>1. PICK measured \in BOOLEAN :
        /\ measureBattery(measured)
        /\ presses' = presses
        /\ IF measured THEN state' = "GettingGNSSPosition" /\ call' = "obtainGNSSPosition"
                       ELSE state' = state /\ call' = "startStopUpdate"
  BY DEF MeasureBattery, GoTo
<1>2. call = "measureBattery" /\ UNCHANGED gnssVars
  BY DEF MeasureBattery
<1>3. /\ PowerParts' /\ PowerInv' /\ power' = power
      /\ measured => power.class = "PowerON"
  BY <1>1, MeasureBatteryStep DEF Parts
<1>4. state = "SensingBatteryStatus"
  BY <1>2 DEF Parts, CallInv
<1>5. RoundOK' /\ CallInv' /\ state' # "WaitingForMessage"
  BY <1>1, <1>4 DEF Parts, RoundOK, CallInv, ModemStates
<1>6. state' = "GettingGNSSPosition" => measured
  BY <1>1, <1>4
<1> QED
  BY <1>2, <1>3, <1>5, <1>6, GNSSFrame DEF Parts

LEMMA ObtainGNSSPositionStep ==
    ASSUME Parts, ObtainGNSSPosition
    PROVE  Parts'
<1>1. /\ call = "obtainGNSSPosition" /\ state' = state /\ call' = "startStopUpdate"
      /\ presses' = presses /\ UNCHANGED <<objectVars, timer, lineVars, modem, pulse>>
  BY DEF ObtainGNSSPosition, GoTo
<1>2. RoundOK' /\ CallInv' /\ state' # "WaitingForMessage"
  BY <1>1 DEF Parts, RoundOK, CallInv
<1>3. GNSSOK' /\ TriesInv' /\ OwedOK' /\ UartOK'
  <2>1. CASE gnss.class = "GNSSUnavailable"
    <3> DEFINE new == NewGNSS("ConfigurateConstellation")
    <3>1. /\ gnss' = [new EXCEPT !.readyToSend = FALSE]
          /\ owed' = Sent(CommandsOf(new.class))
          /\ uart' = uart
          /\ refreshTime' = AfterRead(refreshTime)
          /\ moduleTurningOff' = moduleTurningOff
      BY <2>1 DEF ObtainGNSSPosition, enableGNSS
    <3>2. /\ new \in GNSSObjects
          /\ new.class = "ConfigurateConstellation" /\ new.numberOfTries = 0
      BY NewGNSSType DEF GNSSClasses
    <3> HIDE DEF new
    <3>3. /\ gnss' \in GNSSObjects
          /\ gnss'.class = "ConfigurateConstellation" /\ gnss'.numberOfTries = 0
      BY <3>1, <3>2 DEF GNSSObjects
    <3>4. TriesInv'
      BY <3>3, GNSSAssumption DEF TriesInv
    <3>5. CommandsOf(new.class) \in Commands
      BY <3>2, CommandsOfType DEF Working, GNSSClasses
    <3>6. OwedOK' /\ UartOK'
      BY <3>1, <3>5, SentType DEF Parts, PowerParts, OwedOK, UartOK
    <3> QED
      BY <3>1, <3>3, <3>4, <3>6, AfterReadType DEF Parts, GNSSOK
  <2>2. CASE gnss.class # "GNSSUnavailable"
    <3>1. PICK outcome \in {"TRYING", "OBTAIN", "UNAVAILABLE"} :
            /\ retrivGeopositioning(outcome)
            /\ moduleTurningOff' = (outcome # "TRYING")
      BY <2>2 DEF ObtainGNSSPosition
    <3>2. moduleTurningOff' \in BOOLEAN
      BY <3>1
    <3> QED
      BY <3>1, <3>2, RetrivStep DEF Parts, GNSSOK, PowerParts
  <2> QED
    BY <2>1, <2>2
<1>4. power' = power /\ statics' = statics /\ PinsOK' /\ down' = down /\ modem' = modem
  BY <1>1 DEF Parts, PowerParts, PinsOK, objectVars, lineVars
<1>5. PowerParts' /\ PowerInv'
  BY <1>3, <1>4 DEF Parts, PowerParts, PowerInv, Hard
<1> QED
  BY <1>1, <1>2, <1>3, <1>4, <1>5 DEF Parts

\* The modem's supply is cut when the gateway begins to wait.
LEMMA TurnModemOffStep ==
    ASSUME Parts, TurnModemOff
    PROVE  Parts'
<1>1. PICK off \in BOOLEAN :
        /\ turnOff(off)
        /\ moduleTurningOff' = ~off
        /\ presses' = presses
        /\ IF off THEN state' = "WaitingForMessage" /\ call' = "none"
                  ELSE state' = state /\ call' = "startStopUpdate"
  BY DEF TurnModemOff, GoTo
<1>2. call = "obtainGNSSPosition" /\ UNCHANGED <<gnss, refreshTime>>
  BY DEF TurnModemOff
<1>3. state = "GettingGNSSPosition" /\ power.class # "Sleep"
  BY <1>2 DEF Parts, CallInv
<1>4. /\ PowerParts' /\ PowerInv' /\ power'.class # "Sleep"
      /\ off => power'.class = "ManualPowerOFF" /\ ~down'
  BY <1>1, <1>3, TurnOffStep DEF Parts
<1>5. GNSSOK' /\ TriesInv'
  BY <1>1, <1>2 DEF Parts, GNSSOK, TriesInv
<1>6. RoundOK' /\ CallInv' /\ (state' = "WaitingForMessage" => off)
  BY <1>1, <1>3 DEF Parts, RoundOK, CallInv
<1> QED
  BY <1>4, <1>5, <1>6 DEF Parts

LEMMA MessageForwardedStep ==
    ASSUME Parts, MessageForwarded
    PROVE  Parts'
<1>1. /\ UNCHANGED powerVars /\ UNCHANGED gnssVars
      /\ presses' = presses /\ call' = "startStopUpdate"
      /\ state' \in {"SensingBatteryStatus", "ConnectingToMobileNetwork"}
  BY DEF MessageForwarded, GoTo
<1>2. RoundOK' /\ CallInv' /\ state' \notin {"WaitingForMessage", "GettingGNSSPosition"}
  BY <1>1 DEF Parts, RoundOK, CallInv, ModemStates
<1> QED
  BY <1>1, <1>2, PowerUnchanged, GNSSFrame DEF Parts

LEMMA UseModemStep ==
    ASSUME Parts, UseModem
    PROVE  Parts'
<1>1. /\ call = "useModem" /\ uart' = RestOfUart
      /\ UNCHANGED <<objectVars, timer, lineVars, modem, pulse, owed, gnssVars>>
      /\ presses' = presses /\ call' = "startStopUpdate"
      /\ state' \in {state, "ExchangingMessages", "SensingBatteryStatus"}
  BY DEF UseModem, GoTo
<1>2. power' = power /\ statics' = statics /\ PinsOK' /\ OwedOK' /\ down' = down
        /\ modem' = modem
  BY <1>1 DEF Parts, PowerParts, PinsOK, OwedOK, objectVars, lineVars
<1>3. UartOK'
  BY <1>1, RestType DEF Parts, PowerParts, UartOK
<1>4. PowerParts' /\ PowerInv'
  BY <1>2, <1>3 DEF Parts, PowerParts, PowerInv, Hard
<1>5. RoundOK' /\ CallInv' /\ state' # "WaitingForMessage"
        /\ (state' = "GettingGNSSPosition" => state = "GettingGNSSPosition")
  BY <1>1 DEF Parts, RoundOK, CallInv, ModemStates
<1> QED
  BY <1>1, <1>2, <1>4, <1>5, GNSSFrame DEF Parts

LEMMA OtherCallStep ==
    ASSUME Parts, OtherCall
    PROVE  Parts'
<1>1. state = "ExchangingMessages" /\ UNCHANGED gnssVars /\ UNCHANGED gatewayVars
  BY DEF OtherCall
<1>2. PowerParts' /\ PowerInv'
  BY GoToSleepStep, AwakeStep, RebootStep DEF OtherCall, Parts
<1>3. RoundOK' /\ CallInv' /\ state' = state
  BY <1>1 DEF Parts, RoundOK, CallInv, gatewayVars
<1> QED
  BY <1>1, <1>2, <1>3, GNSSFrame DEF Parts

LEMMA SurroundingsStep ==
    ASSUME Parts, Modem \/ Delay \/ RefreshTimeElapses \/ UNCHANGED vars
    PROVE  Parts'
<1>1. CASE Modem \/ Delay
  <2>1. PowerParts' /\ PowerInv' /\ power' = power /\ down' = down
    BY <1>1, ModemAnswersStep, KeyOrLossStep, DelayElapsesStep DEF Modem, Delay, Parts
  <2>2. UNCHANGED gnssVars /\ UNCHANGED gatewayVars
    BY <1>1 DEF Modem, Delay
  <2> QED
    BY <2>1, <2>2, GNSSFrame, GatewayFrame DEF Parts
<1>2. CASE RefreshTimeElapses
  <2>1. UNCHANGED powerVars /\ UNCHANGED gatewayVars
    BY <1>2 DEF RefreshTimeElapses
  <2>2. GNSSOK' /\ TriesInv'
    BY <1>2 DEF RefreshTimeElapses, Parts, GNSSOK, TriesInv, Timers
  <2>3. power' = power /\ down' = down
    BY <2>1 DEF powerVars, lineVars
  <2> QED
    BY <2>1, <2>2, <2>3, PowerUnchanged, GatewayFrame DEF Parts
<1>3. CASE UNCHANGED vars
  <2>1. UNCHANGED powerVars /\ UNCHANGED gatewayVars /\ UNCHANGED gnssVars
    BY <1>3 DEF vars
  <2>2. power' = power /\ down' = down
    BY <2>1 DEF powerVars, lineVars
  <2> QED
    BY <2>1, <2>2, PowerUnchanged, GNSSFrame, GatewayFrame DEF Parts
<1> QED
  BY <1>1, <1>2, <1>3

-----------------------------------------------------------------------------
(***************************************************************************)
(* The theorems                                                            *)
(***************************************************************************)
LEMMA InitStatics == Init => statics \in StaticsRecords
<1>1. NewOff \in OffRecords
  BY NewOffType
<1>2. [c \in {"PowerON", "Sleep"} |-> NewOff] \in [{"PowerON", "Sleep"} -> OffRecords]
  BY <1>1
<1>3. 0 \in 0..MAX_COUNT_TURN_OFF + 1
  BY PowerAssumption
<1> QED
  BY <1>2, <1>3 DEF Init, PowerInit, StaticsRecords

LEMMA InitParts == Init => Parts
<1> SUFFICES ASSUME Init PROVE Parts
  OBVIOUS
<1>1. power \in PowerObjects /\ power.class = "PowerOFF"
  BY NewStateType DEF Init, PowerInit, Classes
<1>2. PinsOK /\ down
  BY DEF Init, PowerInit, PinsOK, Timers
<1>3. OwedOK /\ UartOK
  <2>1. owed = <<>> /\ uart = <<>>
    BY DEF Init, PowerInit
  <2>2. <<>> \in Seq(Kinds) /\ Len(<<>>) <= MaxLines
    BY ONLY PowerAssumption
  <2> QED
    BY <2>1, <2>2, NoneOwed DEF OwedOK, UartOK
<1>4. PowerParts /\ PowerInv
  BY <1>1, <1>2, <1>3, InitStatics DEF PowerParts, PowerInv
<1>5. gnss \in GNSSObjects /\ gnss.numberOfTries = 0
  BY NewGNSSType DEF Init, GNSSClasses
<1>6. GNSSOK /\ TriesInv
  <2>1. refreshTime \in Timers /\ moduleTurningOff \in BOOLEAN
    BY DEF Init, Timers
  <2>2. TriesInv
    BY <1>5, GNSSAssumption DEF TriesInv
  <2> QED
    BY <1>5, <2>1, <2>2 DEF GNSSOK
<1>7. state = "SensingBatteryStatus" /\ call = "startStopUpdate" /\ presses = 0
  BY DEF Init
<1>8. RoundOK /\ CallInv
  BY <1>7, GNSSAssumption DEF RoundOK, CallInv, ModemStates
<1> QED
  BY <1>4, <1>6, <1>7, <1>8 DEF Parts

LEMMA StepParts == Parts /\ [Next]_vars => Parts'
  BY UpdatePowerStatusStep, TurnOnActionStep, MeasureBatteryActionStep,
     ObtainGNSSPositionStep, TurnModemOffStep, MessageForwardedStep, UseModemStep,
     OtherCallStep, SurroundingsStep
  DEF Next, Loop

LEMMA Invariance == Spec => []IInv
  BY InitParts, StepParts, IInvParts, PTL DEF Spec

\* Every object, static, line and counter keeps its type, for every limit: the
\* repetitions of AT+QPOWD, the readings of the status input and the tries of
\* the GNSS classes stay within theirs, though the statics outlive the objects.
THEOREM TypeCorrect == Spec => []TypeOK
<1>1. IInv => TypeOK
  BY DEF IInv
<1> QED
  BY <1>1, Invariance, PTL

\* Whichever way turnOff took and whatever the button, the modem and the timers
\* did meanwhile: the gateway waits for messages with the modem's supply cut,
\* and only a hard switch-off under way cuts it under PowerONState.
THEOREM SupplyFollows == Spec => []SupplyFollowsState
<1>1. IInv => SupplyFollowsState
  BY DEF IInv, SupplyInv, SupplyFollowsState
<1> QED
  BY <1>1, Invariance, PTL
=============================================================================
