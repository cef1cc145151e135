---------------------- MODULE CellularConnectionProofs ----------------------
(***************************************************************************)
(* Safety of the connection chain, for every limit of attempts and every   *)
(* bound.                                                                  *)
(***************************************************************************)
EXTENDS CellularConnection, TLAPS

KeepsFlag == {"ConsultingAvailableOperators", "RetrievingTimeAndDate"}

\* A flag that was not set in this attempt is one that no timeout takes back,
\* or it stands for a weak signal, which ends no class.
FreshInv ==
    /\ retrived => connection \in DataClasses
    /\ retrived /\ ~(connecting /\ fresh) =>
         \/ connection \in KeepsFlag
         \/ connection = "CheckingSignalStrength" /\ ~good

\* Past IdleState an object's count is of timeouts of this attempt.
BudgetInv ==
    connection \in Trying \ {"Idle"} =>
        IF connecting THEN connectionAttempts <= timeouts ELSE connectionAttempts = 0

IInv == TypeOK /\ FreshInv /\ StoredFresh /\ BudgetInv /\ FullBudget

-----------------------------------------------------------------------------
(***************************************************************************)
(* The chain of classes                                                    *)
(***************************************************************************)
LEMMA ChainMembers ==
    /\ Trying = {"Idle", "CheckingSignalStrength", "ConsultingIMEI",
                 "ConsultingSIMCardStatus", "ConsultingNetworkStatus",
                 "ConsultingAvailableOperators", "RetrievingTimeAndDate",
                 "AttachingToPacketService", "DefinePDPContext"}
    /\ DataClasses = Trying \ {"Idle", "AttachingToPacketService", "DefinePDPContext"}
<1>1. \A i \in 1..9 : i = 1 \/ i = 2 \/ i = 3 \/ i = 4 \/ i = 5 \/ i = 6
                        \/ i = 7 \/ i = 8 \/ i = 9
  OBVIOUS
<1>2. \A i \in 2..7 : i = 2 \/ i = 3 \/ i = 4 \/ i = 5 \/ i = 6 \/ i = 7
  OBVIOUS
<1>3. Trying = {Chain[1], Chain[2], Chain[3], Chain[4], Chain[5], Chain[6],
                Chain[7], Chain[8], Chain[9]}
  BY <1>1 DEF Trying
<1>4. DataClasses = {Chain[2], Chain[3], Chain[4], Chain[5], Chain[6], Chain[7]}
  BY <1>2 DEF DataClasses
<1> QED
  BY <1>3, <1>4 DEF Chain

\* A class is followed by another, and never by IdleState.
LEMMA NextClassMember ==
    ASSUME NEW c \in Trying
    PROVE  NextClass(c) \in Classes \ {"Idle"}
<1> DEFINE j == CHOOSE i \in 1..9 : Chain[i] = c
<1>1. \E i \in 1..9 : Chain[i] = c
  BY DEF Trying
<1>2. j \in 1..9
  BY <1>1
<1>3. NextClass(c) = Chain[j + 1]
  BY DEF NextClass
<1> HIDE DEF j
<1>4. \/ j = 1 \/ j = 2 \/ j = 3 \/ j = 4 \/ j = 5 \/ j = 6 \/ j = 7 \/ j = 8 \/ j = 9
  BY <1>2
<1>5. Chain[j + 1] \in Classes \ {"Idle"}
  BY <1>4, ChainMembers DEF Chain, Classes
<1> QED
  BY <1>3, <1>5

LEMMA LimitPositive == \A c : MaxAttemptsOf(c) \in Nat \ {0}
  BY ConnectionAssumption DEF MaxAttemptsOf

-----------------------------------------------------------------------------
(***************************************************************************)
(* Types of the parts                                                      *)
(***************************************************************************)
LEMMA ShortSequences ==
    ASSUME NEW S, NEW a \in S, NEW b \in S
    PROVE  <<>> \in Seq(S) /\ <<a>> \in Seq(S) /\ <<a, b>> \in Seq(S)
  OBVIOUS

LEMMA ConcatType ==
    ASSUME NEW S, NEW s \in Seq(S), NEW t \in Seq(S)
    PROVE  s \o t \in Seq(S)
  OBVIOUS

LEMMA ReplyType ==
    ASSUME NEW command \in Commands, NEW lines \in Replies(command)
    PROVE  lines \in Seq(Lines)
<1>1. OK \in Lines /\ Other \in Lines
  BY DEF Lines
<1>2. command \in DataClasses =>
        Line("data", command) \in Lines /\ Line("poor", command) \in Lines
  BY DEF Lines
<1>3. command = "ConsultingSIMCardStatus" => Line("none", command) \in Lines
  BY DEF Lines
<1>4. CASE command \in DataClasses
  <2>1. \/ lines = <<Line("data", command), OK>>
        \/ lines = <<Line("data", command)>>
        \/ lines = <<Line("poor", command), OK>>
        \/ lines = <<Line("none", command)>> /\ command = "ConsultingSIMCardStatus"
        \/ lines = <<Other>>
    BY <1>4, Zenon DEF Replies
  <2> QED
    BY <1>1, <1>2, <1>3, <1>4, <2>1, ShortSequences, Zenon
<1>5. CASE command \notin DataClasses
  <2>1. lines = <<OK>> \/ lines = <<Other>>
    BY <1>5, Zenon DEF Replies
  <2> QED
    BY <1>1, <2>1, ShortSequences, Zenon
<1> QED
  BY <1>4, <1>5

LEMMA NewObjectStep ==
    ASSUME NEW c \in Classes, NewObject(c)
    PROVE  /\ connection' \in Classes
           /\ readyToSend' \in BOOLEAN /\ retrived' \in BOOLEAN /\ good' \in BOOLEAN
           /\ connectionAttempts' \in Nat
           /\ connection' # "Idle" => connectionAttempts' < MaxAttemptsOf(connection')
           /\ connectionAttemptsSignal' \in Nat
<1>1. 0 < MaxAttemptsOf(c)
  BY LimitPositive
<1>2. connectionAttempts' < MaxAttemptsOf(connection')
  BY <1>1 DEF NewObject
<1> QED
  BY <1>2 DEF NewObject

\* Reading a line leaves the rest of the lines.
LEMMA ReadStep ==
    ASSUME TypeOK, ReadATResponse
    PROVE  uart' \in Seq(Lines) /\ connection \in Trying /\ connecting
  BY DEF TypeOK, ReadATResponse

Outcomes == [result : {"none", "connected", "weak", "silent"}, at : Classes,
             timeouts : Nat]

LEMMA EndStep ==
    ASSUME TypeOK, NEW r \in {"connected", "weak", "silent"}, EndAttempt(r),
           timeouts' \in Nat
    PROVE  connecting' = FALSE /\ outcome' \in Outcomes
  BY DEF TypeOK, EndAttempt, Outcomes

-----------------------------------------------------------------------------
(***************************************************************************)
(* Every step keeps the types                                              *)
(***************************************************************************)
LEMMA TypeStep == TypeOK /\ [Next]_vars => TypeOK'
<1> SUFFICES ASSUME TypeOK, [Next]_vars
             PROVE  TypeOK'
  OBVIOUS
<1> USE DEF objectVars, modemVars, historyVars
<1>1. CASE BeginAttempt
  <2>1. "Idle" \in Classes
    BY ChainMembers DEF Classes
  <2>2. /\ connection' \in Classes
        /\ readyToSend' \in BOOLEAN /\ retrived' \in BOOLEAN /\ good' \in BOOLEAN
        /\ connectionAttempts' \in Nat
        /\ connection' # "Idle" => connectionAttempts' < MaxAttemptsOf(connection')
        /\ connectionAttemptsSignal' \in Nat
    <3>1. CASE connection = "Unavailable"
      BY <1>1, <2>1, <3>1, NewObjectStep DEF BeginAttempt
    <3>2. CASE connection # "Unavailable"
      BY <1>1, <3>2 DEF BeginAttempt, TypeOK
    <3> QED
      BY <3>1, <3>2
  <2>3. uart' \in Seq(Lines)
    <3>1. OK \in Lines /\ Other \in Lines
      BY DEF Lines
    <3>2. uart' = <<>> \/ uart' = <<OK>> \/ uart' = <<Other>>
      BY <1>1 DEF BeginAttempt
    <3> QED
      BY <3>1, <3>2, ShortSequences, Zenon
  <2>4. commands' \in Seq(Commands)
    BY <1>1 DEF BeginAttempt
  <2>5. attempt' \in 0..MaxConnections
    BY <1>1, ConnectionAssumption DEF BeginAttempt, TypeOK
  <2> QED
    BY <1>1, <2>2, <2>3, <2>4, <2>5 DEF BeginAttempt, TypeOK
<1>2. CASE Send
  <2>1. CommandsOf(connection) \in Seq(Commands)
    <3>1. connection \in Commands /\ "SetCREG" \in Commands
      BY <1>2 DEF Send, Commands
    <3> QED
      BY <3>1, ShortSequences, Zenon DEF CommandsOf
  <2>2. commands' \in Seq(Commands)
    <3>1. commands \in Seq(Commands)
      BY DEF TypeOK
    <3>2. commands' = commands \/ commands' = commands \o CommandsOf(connection)
      BY <1>2 DEF Send
    <3> QED
      BY <2>1, <3>1, <3>2, ConcatType, Zenon
  <2> QED
    BY <1>2, <2>2 DEF Send, TypeOK
<1>3. CASE ReadData
  <2>1. uart' \in Seq(Lines)
    BY <1>3, ReadStep DEF ReadData
  <2>2. retrived' \in BOOLEAN /\ good' \in BOOLEAN /\ fresh' \in BOOLEAN
    BY <1>3 DEF ReadData, TypeOK
  <2>3. simCardSwitchOutput' \in BOOLEAN
    BY <1>3 DEF ReadData, TypeOK
  <2> QED
    BY <1>3, <2>1, <2>2, <2>3 DEF ReadData, TypeOK
<1>4. CASE ReadFinalOK
  <2>1. uart' \in Seq(Lines) /\ connection \in Trying
    BY <1>4, ReadStep DEF ReadFinalOK
  <2>2. NextClass(connection) \in Classes
    BY <2>1, NextClassMember
  <2>3. NewObject(NextClass(connection))
    BY <1>4 DEF ReadFinalOK
  <2>4. stale' \subseteq DataClasses
    BY <1>4 DEF ReadFinalOK, Store, TypeOK
  <2>5. timeouts' \in Nat
    BY <1>4 DEF ReadFinalOK
  <2> QED
    BY <1>4, <2>1, <2>2, <2>3, <2>4, <2>5, NewObjectStep DEF ReadFinalOK, TypeOK
<1>5. CASE ReadNotRegistered
  <2>1. uart' \in Seq(Lines)
    BY <1>5, ReadStep DEF ReadNotRegistered
  <2>2. stale' \subseteq DataClasses
    BY <1>5, ChainMembers DEF ReadNotRegistered, Store, TypeOK
  <2> QED
    BY <1>5, <2>1, <2>2 DEF ReadNotRegistered, TypeOK
<1>6. CASE ReadWeakSignal
  <2>1. uart' \in Seq(Lines)
    BY <1>6, ReadStep DEF ReadWeakSignal
  <2>2. connectionAttemptsSignal' \in Nat /\ timeouts' \in Nat
    BY <1>6 DEF ReadWeakSignal, TypeOK
  <2>3. /\ connecting' \in BOOLEAN
        /\ outcome' \in Outcomes
        /\ connectionAttempts' \in Nat
        /\ connectionAttempts' < MaxAttemptsOf(connection)
    <3>1. CASE connectionAttemptsSignal + 1 >= MAX_ATTEMPTS_TO_GET_SIGNAL
      BY <1>6, <2>2, <3>1, EndStep, LimitPositive DEF ReadWeakSignal
    <3>2. CASE ~(connectionAttemptsSignal + 1 >= MAX_ATTEMPTS_TO_GET_SIGNAL)
      BY <1>6, <3>2 DEF ReadWeakSignal, TypeOK, Outcomes
    <3> QED
      BY <3>1, <3>2
  <2> QED
    BY <1>6, <2>1, <2>2, <2>3 DEF ReadWeakSignal, TypeOK, Outcomes
<1>7. CASE ReadIgnored
  <2>1. uart' \in Seq(Lines)
    BY <1>7, ReadStep DEF ReadIgnored
  <2> QED
    BY <1>7, <2>1 DEF ReadIgnored, TypeOK
<1>8. CASE TimesOut
  <2>0. retrived' \in BOOLEAN
    BY <1>8, Zenon DEF TimesOut, RetrivedAfterTimeout, TypeOK
  <2>1. timeouts' \in Nat
    BY <1>8 DEF TimesOut, CountTimeout, TypeOK
  <2>2. /\ connecting' \in BOOLEAN
        /\ outcome' \in Outcomes
        /\ connectionAttempts' \in Nat
        /\ connection # "Idle" => connectionAttempts' < MaxAttemptsOf(connection)
    <3>1. CASE LastAttempt
      <4>1. connectionAttempts' = AttemptsAfterFailure /\ EndAttempt("silent")
        BY <1>8, <3>1 DEF TimesOut
      <4>2. /\ connectionAttempts' \in Nat
            /\ connection # "Idle" => connectionAttempts' < MaxAttemptsOf(connection)
        BY <4>1, LimitPositive DEF AttemptsAfterFailure, TypeOK
      <4> QED
        BY <2>1, <4>1, <4>2, EndStep
    <3>2. CASE ~LastAttempt
      <4>1. connectionAttempts + 1 < MaxAttemptsOf(connection)
        BY <3>2, LimitPositive DEF LastAttempt, TypeOK
      <4> QED
        BY <1>8, <3>2, <4>1 DEF TimesOut, AttemptsAfterTimeout, TypeOK, Outcomes
    <3> QED
      BY <3>1, <3>2
  <2>3. uart' \in Seq(Lines) /\ commands' \in Seq(Commands)
    <3>1. reboot \/ UNCHANGED modemVars
      BY <1>8 DEF TimesOut
    <3>2. \/ commands' = commands
          \/ commands' = Append(commands, "PowerDown")
      BY <3>1 DEF reboot
    <3>3. uart' = uart \/ (uart # <<>> /\ uart' = Tail(uart))
      BY <3>1 DEF reboot
    <3>4. "PowerDown" \in Commands
      BY DEF Commands
    <3>5. commands \in Seq(Commands) /\ uart \in Seq(Lines)
      BY DEF TypeOK
    <3>6. commands' \in Seq(Commands)
      BY <3>2, <3>4, <3>5
    <3>7. uart' \in Seq(Lines)
      BY <3>3, <3>5
    <3> QED
      BY <3>6, <3>7
  <2> QED
    BY <1>8, <2>0, <2>1, <2>2, <2>3 DEF TimesOut, TypeOK, Outcomes
<1>9. CASE ReportConnected
  <2>1. timeouts' \in Nat
    BY <1>9 DEF ReportConnected
  <2>2. connecting' = FALSE /\ outcome' \in Outcomes
    BY <1>9, <2>1, EndStep DEF ReportConnected
  <2> QED
    BY <1>9, <2>1, <2>2 DEF ReportConnected, TypeOK, Outcomes
<1>10. CASE ExchangeEnded
  <2>1. "Unavailable" \in Classes
    BY DEF Classes
  <2> QED
    BY <1>10, <2>1, NewObjectStep DEF ExchangeEnded, TypeOK
<1>11. CASE ModemAnswers
  <2>1. Head(commands) \in Commands
    BY <1>11 DEF ModemAnswers, TypeOK
  <2>2. PICK lines \in Replies(Head(commands)) : uart' = uart \o lines
    BY <1>11 DEF ModemAnswers
  <2>3. uart' \in Seq(Lines)
    BY <2>1, <2>2, ReplyType DEF TypeOK
  <2>4. commands' \in Seq(Commands)
    BY <1>11 DEF ModemAnswers, TypeOK
  <2> QED
    BY <1>11, <2>3, <2>4 DEF ModemAnswers, TypeOK
<1>12. CASE UNCHANGED vars
  BY <1>12 DEF vars, TypeOK
<1> QED
  BY <1>1, <1>2, <1>3, <1>4, <1>5, <1>6, <1>7, <1>8, <1>9, <1>10, <1>11, <1>12
     DEF Next, Poll, Read

-----------------------------------------------------------------------------
(***************************************************************************)
(* Every step keeps the rest of the invariant                              *)
(***************************************************************************)
LEMMA InitIInv == Init => IInv
<1> SUFFICES ASSUME Init
             PROVE  IInv
  OBVIOUS
<1>1. "Unavailable" \in Classes /\ "Unavailable" \notin Trying
  BY ChainMembers DEF Classes
<1>2. outcome \in Outcomes
  BY <1>1 DEF Init, Outcomes
<1>3. 0 < MaxAttemptsOf("Unavailable")
  BY LimitPositive
<1>4. TypeOK
  <2>1. connection # "Idle" => connectionAttempts < MaxAttemptsOf(connection)
    BY <1>3 DEF Init
  <2>2. uart \in Seq(Lines) /\ commands \in Seq(Commands)
    BY DEF Init
  <2>3. attempt \in 0..MaxConnections
    BY ConnectionAssumption DEF Init
  <2> QED
    BY <1>1, <1>2, <2>1, <2>2, <2>3 DEF Init, TypeOK, Outcomes
<1> QED
  BY <1>1, <1>4 DEF Init, IInv, FreshInv, StoredFresh, BudgetInv, FullBudget

LEMMA FreshStep ==
    TypeOK /\ FreshInv /\ StoredFresh /\ [Next]_vars => FreshInv' /\ StoredFresh'
<1> SUFFICES ASSUME TypeOK, FreshInv, StoredFresh, [Next]_vars
             PROVE  FreshInv' /\ StoredFresh'
  OBVIOUS
<1> USE DEF objectVars, modemVars, historyVars
<1>1. CASE BeginAttempt
  BY <1>1 DEF BeginAttempt, NewObject, FreshInv, StoredFresh
<1>2. CASE Send
  BY <1>2 DEF Send, FreshInv, StoredFresh
<1>3. CASE ReadData
  \* The flag is set by a line of this attempt.
  BY <1>3, Zenon DEF ReadData, ReadATResponse, FreshInv, StoredFresh
<1>4. CASE ReadFinalOK
  <2>1. connecting /\ (connection \in DataClasses => retrived /\ good)
    BY <1>4 DEF ReadFinalOK, ReadATResponse
  <2>2. connection \in DataClasses /\ ~fresh => connection \in KeepsFlag
    BY <2>1, Zenon DEF FreshInv
  <2>3. StoredFresh'
    BY <1>4, <2>2 DEF ReadFinalOK, Store, StoredFresh, KeepsFlag
  <2>4. retrived' = FALSE
    BY <1>4 DEF ReadFinalOK, NewObject
  <2> QED
    BY <2>3, <2>4 DEF FreshInv
<1>5. CASE ReadNotRegistered
  <2>1. fresh
    BY <1>5, Zenon DEF ReadNotRegistered, FreshInv, KeepsFlag
  <2> QED
    BY <1>5, <2>1 DEF ReadNotRegistered, Store, FreshInv, StoredFresh
<1>6. CASE ReadWeakSignal
  \* The flag stays, and with it the weak signal.
  BY <1>6, Zenon DEF ReadWeakSignal, FreshInv, StoredFresh
<1>7. CASE ReadIgnored
  BY <1>7 DEF ReadIgnored, FreshInv, StoredFresh
<1>8. CASE TimesOut
  <2>1. retrived' = RetrivedAfterTimeout /\ UNCHANGED <<connection, good, fresh, stale>>
    BY <1>8 DEF TimesOut
  <2>2. retrived' => retrived /\ connection \in KeepsFlag
    BY <2>1, Zenon DEF RetrivedAfterTimeout, KeepsFlag
  <2> QED
    BY <2>1, <2>2, Zenon DEF FreshInv, StoredFresh
<1>9. CASE ReportConnected
  <2>1. ~retrived
    BY <1>9, ChainMembers DEF ReportConnected, FreshInv
  <2> QED
    BY <1>9, <2>1 DEF ReportConnected, FreshInv, StoredFresh
<1>10. CASE ExchangeEnded
  BY <1>10 DEF ExchangeEnded, NewObject, FreshInv, StoredFresh
<1>11. CASE ModemAnswers
  BY <1>11 DEF ModemAnswers, FreshInv, StoredFresh
<1>12. CASE UNCHANGED vars
  BY <1>12 DEF vars, FreshInv, StoredFresh
<1> QED
  BY <1>1, <1>2, <1>3, <1>4, <1>5, <1>6, <1>7, <1>8, <1>9, <1>10, <1>11, <1>12
     DEF Next, Poll, Read

LEMMA BudgetStep ==
    TypeOK /\ BudgetInv /\ FullBudget /\ [Next]_vars => BudgetInv' /\ FullBudget'
<1> SUFFICES ASSUME TypeOK, BudgetInv, FullBudget, [Next]_vars
             PROVE  BudgetInv' /\ FullBudget'
  OBVIOUS
<1> USE DEF objectVars, modemVars, historyVars
<1>1. CASE BeginAttempt
  BY <1>1 DEF BeginAttempt, NewObject, BudgetInv, FullBudget
<1>2. CASE Send
  BY <1>2 DEF Send, BudgetInv, FullBudget
<1>3. CASE ReadData
  BY <1>3 DEF ReadData, BudgetInv, FullBudget
<1>4. CASE ReadFinalOK
  BY <1>4 DEF ReadFinalOK, ReadATResponse, NewObject, BudgetInv, FullBudget
<1>5. CASE ReadNotRegistered
  BY <1>5 DEF ReadNotRegistered, BudgetInv, FullBudget
<1>6. CASE ReadWeakSignal
  <2>1. CASE connectionAttemptsSignal + 1 >= MAX_ATTEMPTS_TO_GET_SIGNAL
    BY <1>6, <2>1 DEF ReadWeakSignal, EndAttempt, BudgetInv, FullBudget
  <2>2. CASE ~(connectionAttemptsSignal + 1 >= MAX_ATTEMPTS_TO_GET_SIGNAL)
    BY <1>6, <2>2 DEF ReadWeakSignal, BudgetInv, FullBudget
  <2> QED
    BY <2>1, <2>2
<1>7. CASE ReadIgnored
  BY <1>7 DEF ReadIgnored, BudgetInv, FullBudget
<1>8. CASE TimesOut
  <2>1. connecting /\ connection \in Trying /\ connection' = connection
    BY <1>8 DEF TimesOut
  <2>2. connection # "Idle" => connectionAttempts + 1 <= timeouts'
    <3>1. connection # "Idle" =>
            connectionAttempts <= timeouts /\ connectionAttempts < MaxAttemptsOf(connection)
      BY <2>1 DEF BudgetInv, TypeOK
    <3>2. CountTimeout
      BY <1>8 DEF TimesOut
    <3> QED
      BY <3>1, <3>2, LimitPositive DEF CountTimeout, TypeOK
  <2>3. CASE LastAttempt
    <3>1. connectionAttempts' = AttemptsAfterFailure /\ EndAttempt("silent")
      BY <1>8, <2>3 DEF TimesOut
    <3>2. connection # "Idle" => timeouts' >= MaxAttemptsOf(connection)
      <4>1. timeouts' \in Nat
        BY <1>8 DEF TimesOut, CountTimeout, TypeOK
      <4> QED
        BY <2>2, <2>3, <4>1, LimitPositive DEF LastAttempt, TypeOK
    <3>3. outcome'.at = connection /\ outcome'.timeouts = timeouts' /\ connecting' = FALSE
      BY <2>1, <3>1 DEF EndAttempt
    <3>4. FullBudget'
      BY <3>2, <3>3 DEF FullBudget
    <3>5. connection # "Idle" => connectionAttempts' = 0
      BY <3>1 DEF AttemptsAfterFailure
    <3> QED
      BY <2>1, <3>3, <3>4, <3>5 DEF BudgetInv
  <2>4. CASE ~LastAttempt
    <3>1. connectionAttempts' = connectionAttempts + 1 /\ UNCHANGED <<connecting, outcome>>
      BY <1>8, <2>4 DEF TimesOut, AttemptsAfterTimeout
    <3>2. connection # "Idle" => connectionAttempts' <= timeouts'
      BY <2>1, <2>2, <3>1 DEF TypeOK
    <3> QED
      BY <2>1, <3>1, <3>2 DEF BudgetInv, FullBudget
  <2> QED
    BY <2>3, <2>4
<1>9. CASE ReportConnected
  BY <1>9, ChainMembers DEF ReportConnected, EndAttempt, BudgetInv, FullBudget
<1>10. CASE ExchangeEnded
  BY <1>10, ChainMembers DEF ExchangeEnded, NewObject, BudgetInv, FullBudget
<1>11. CASE ModemAnswers
  BY <1>11 DEF ModemAnswers, BudgetInv, FullBudget
<1>12. CASE UNCHANGED vars
  BY <1>12 DEF vars, BudgetInv, FullBudget
<1> QED
  BY <1>1, <1>2, <1>3, <1>4, <1>5, <1>6, <1>7, <1>8, <1>9, <1>10, <1>11, <1>12
     DEF Next, Poll, Read

-----------------------------------------------------------------------------
\* The inductive invariant holds in every state of every behaviour of the
\* ConnectionState classes.
THEOREM IInvariance == Spec => []IInv
<1>1. IInv /\ [Next]_vars => IInv'
  BY TypeStep, FreshStep, BudgetStep DEF IInv
<1> QED
  BY InitIInv, <1>1, PTL DEF Spec

\* Types, and counters below their limits everywhere but in IdleState.
THEOREM TypeCorrect == Spec => []TypeOK
<1>1. IInv => TypeOK
  BY DEF IInv
<1> QED
  BY IInvariance, <1>1, PTL

\* The data a class hands on was received in the attempt that uses it, for
\* every class but the two that keep their flag over a timeout.
THEOREM FreshnessCorrect == Spec => []StoredFresh
<1>1. IInv => StoredFresh
  BY DEF IInv
<1> QED
  BY IInvariance, <1>1, PTL

\* Past IdleState, giving up takes as many timeouts of this attempt as the
\* class's limit says.
THEOREM BudgetCorrect == Spec => []FullBudget
<1>1. IInv => FullBudget
  BY DEF IInv
<1> QED
  BY IInvariance, <1>1, PTL

=============================================================================
