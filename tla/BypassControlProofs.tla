------------------------- MODULE BypassControlProofs -------------------------
(* Proofs about BypassControl for every value of its constants.              *)
EXTENDS BypassControl, TLAPS

(* What has to be known of every point of the loop for the safety            *)
(* properties to be inductive.                                               *)

\* the timer runs exactly while the module says it is in bypass
TimerFollowsBypass == timerOn => inBypass \/ pc = "stop timer"
LoadNeedsTimer == loadOn => timerOn \/ pc = "stop load"
\* a bypass cycle always has loops left to count down
CycleRunning == inBypass => countDown > 0
\* inside StopBalance(): what is already stopped at each of its statements
Stopping ==
  /\ pc \in {"stop timer", "stop load"} => ~inBypass /\ countDown = 0
  /\ pc = "stop load" => ~timerOn
VoltageOutsideCycle == pc = "voltage" => countDown = 0
AsleepOutsideCycle == pc = "asleep" => ~inBypass
\* from the temperature check to the next reading
HotMeansStopped ==
  temperature > Cutoff =>
    /\ pc \in {"enter", "drive", "count", "finished", "settle", "top", "configure", "idle"}
         => ~inBypass
    /\ pc \in {"enter", "drive"} => countDown = 0

IInv ==
  /\ TypeOK
  /\ TimerFollowsBypass /\ LoadNeedsTimer /\ CycleRunning /\ Stopping
  /\ VoltageOutsideCycle /\ AsleepOutsideCycle /\ HotMeansStopped

(* StopBalance() only writes zeroes and FALSE.                               *)
LEMMA StopEffect ==
  ASSUME NEW r, StopBalance(r)
  PROVE  /\ inBypass' = FALSE /\ countDown' = 0 /\ justFinished' = 0 /\ pwm' = 0
         /\ pc' = "stop timer" /\ timerOn' = timerOn /\ loadOn' = loadOn
         /\ CountersOK'
<1>1. /\ inBypass' = FALSE /\ countDown' = 0 /\ justFinished' = 0 /\ pwm' = 0
      /\ pc' = "stop timer" /\ timerOn' = timerOn /\ loadOn' = loadOn
  BY DEF StopBalance, output
<1>2. 0 \in 0 .. CounterSize - 1 /\ 0 \in 0 .. SettleCycles /\ 0 \in 0 .. 255
  BY BypassAssumption
<1>3. CountersOK'
  BY <1>1, <1>2 DEF CountersOK
<1>4. QED BY <1>1, <1>3

(* Configuring the PID, with parameters it takes or not, gives a PID state.  *)
LEMMA ConfiguredType ==
  ASSUME NEW g \in AllGains PROVE Configured(g) \in PidStates
<1> DEFINE e == g \in BadGains
<1>1. e \in BOOLEAN
  OBVIOUS
<1>2. \A b \in BOOLEAN : [gains |-> g, err |-> b] \in [gains : AllGains, err : BOOLEAN]
  OBVIOUS
<1> HIDE DEF e
<1>3. [gains |-> g, err |-> e] \in [gains : AllGains, err : BOOLEAN]
  BY <1>1, <1>2
<1> QED BY <1>3 DEF Configured, PidStates, e

(* FastPID::clear() changes the error flag only.                             *)
LEMMA ClearedType ==
  ASSUME NEW p \in PidStates PROVE Cleared(p) \in PidStates
  BY DEF Cleared, PidStates

(* The PID parameters of a configuration are among those considered.         *)
LEMMA ConfigGains == ASSUME NEW c \in Configs PROVE c.gains \in AllGains
  BY DEF Configs

-----------------------------------------------------------------------------
(* Typing, one group of variables at a time.                                 *)

(* setup() leaves every variable within its range.                           *)
LEMMA TypeInit == Init => TypeOK
<1> SUFFICES ASSUME Init PROVE TypeOK
  OBVIOUS
<1>1. PointsOK /\ FlagsOK
  BY DEF Init, Points, PointsOK, FlagsOK
<1>2. CountersOK
  BY BypassAssumption DEF Init, CountersOK
<1>3. DataOK
  BY ConfiguredType, ConfigGains DEF Init, DataOK
<1>4. QED BY <1>1, <1>2, <1>3 DEF TypeOK

(* No step leaves the points at which loop() was cut, and StopBalance()      *)
(* always knows where it returns to.                                         *)
LEMMA PointStep == PointsOK /\ [Next]_vars => PointsOK'
<1> SUFFICES ASSUME PointsOK, [Next]_vars PROVE PointsOK'
  OBVIOUS
<1> USE DEF PointsOK, Points, Returns
<1>1. CASE Top \/ ConfigurePID \/ Overheat
  BY <1>1 DEF Top, ConfigurePID, Overheat, StopBalance
<1>2. CASE HandleWatchdog
  BY <1>2 DEF HandleWatchdog, StopBalance
<1>3. CASE StopTimer1 \/ DumpLoadOff
  BY <1>3 DEF StopTimer1, DumpLoadOff
<1>4. CASE ReadTemperature \/ ReadVoltage \/ MissVoltage \/ CheckInputStream
  BY <1>4 DEF ReadTemperature, ReadVoltage, MissVoltage, CheckInputStream
<1>5. CASE Drive
  BY <1>5 DEF Drive, NotDriving, DriveLoad, PidError, StopBalance
<1>6. CASE CountLoop
  BY <1>6 DEF CountLoop, CountDown, FinishCycle, StopBalance
<1>7. CASE \/ Sleep \/ StayAwake \/ WakeOnSerial \/ EnterBypass \/ KeepState
           \/ StartSettling \/ Settle
  BY <1>7 DEF Sleep, StayAwake, WakeOnSerial, EnterBypass, KeepState, StartSettling, Settle
<1>8. CASE WatchdogISR \/ TimerISR \/ DriftCell
  BY <1>8 DEF WatchdogISR, TimerISR, DriftCell
<1>9. CASE UNCHANGED vars
  BY <1>9 DEF vars
<1>10. QED
  BY <1>1, <1>2, <1>3, <1>4, <1>5, <1>6, <1>7, <1>8, <1>9 DEF Next, Loop

(* The flags, the timer and the pin stay Booleans.                           *)
LEMMA FlagsStep == FlagsOK /\ [Next]_vars => FlagsOK'
<1> SUFFICES ASSUME FlagsOK, [Next]_vars PROVE FlagsOK'
  OBVIOUS
<1> USE DEF FlagsOK
<1>1. CASE Top \/ ConfigurePID \/ Overheat \/ HandleWatchdog
  BY <1>1 DEF Top, ConfigurePID, Overheat, HandleWatchdog, StopBalance, balance, output
<1>2. CASE StopTimer1 \/ DumpLoadOff
  BY <1>2 DEF StopTimer1, DumpLoadOff, balance
<1>3. CASE ReadTemperature
  <2>1. (countDown = 0) \in BOOLEAN
    OBVIOUS
  <2>2. interrupts' \in BOOLEAN
    BY <1>3, <2>1 DEF ReadTemperature
  <2>3. UNCHANGED <<inBypass, settingsChanged, wdt, timerOn, loadOn>>
    BY <1>3 DEF ReadTemperature, balance, output
  <2>4. QED BY <2>2, <2>3
<1>4. CASE ReadVoltage \/ MissVoltage
  BY <1>4 DEF ReadVoltage, MissVoltage, balance, output
<1>5. CASE CheckInputStream
  BY <1>5 DEF CheckInputStream, NoPacket, WriteSettings, WritePIDconfig,
              WriteBalanceLevel, output
<1>6. CASE Drive
  BY <1>6 DEF Drive, NotDriving, DriveLoad, PidError, StopBalance, balance, output
<1>7. CASE CountLoop
  BY <1>7 DEF CountLoop, CountDown, FinishCycle, StopBalance, output
<1>8. CASE \/ Sleep \/ StayAwake \/ WakeOnSerial \/ EnterBypass \/ KeepState
           \/ StartSettling \/ Settle
  BY <1>8 DEF Sleep, StayAwake, WakeOnSerial, EnterBypass, KeepState, StartSettling,
              Settle, balance, output
<1>9. CASE WatchdogISR \/ TimerISR \/ DriftCell
  BY <1>9 DEF WatchdogISR, TimerISR, DriftCell, balance, output
<1>10. CASE UNCHANGED vars
  BY <1>10 DEF vars, balance, output
<1>11. QED
  BY <1>1, <1>2, <1>3, <1>4, <1>5, <1>6, <1>7, <1>8, <1>9, <1>10 DEF Next, Loop

(* The counters stay in their ranges: the wrapped count down after a PID     *)
(* error is a uint16_t, and the settling loops stop at zero (Settle).        *)
LEMMA CountersStep == CountersOK /\ [Next]_vars => CountersOK'
<1> SUFFICES ASSUME CountersOK, [Next]_vars PROVE CountersOK'
  OBVIOUS
<1> USE BypassAssumption DEF CountersOK
<1>1. CASE Top \/ Overheat \/ HandleWatchdog
  <2>1. UNCHANGED balance \/ \E r \in Returns : StopBalance(r)
    BY <1>1 DEF Top, Overheat, HandleWatchdog, Returns
  <2>2. CASE UNCHANGED balance
    BY <2>2 DEF balance
  <2>3. QED BY <2>1, <2>2, StopEffect
<1>2. CASE ReadTemperature \/ ReadVoltage \/ MissVoltage
  BY <1>2 DEF ReadTemperature, ReadVoltage, MissVoltage, balance
<1>3. CASE EnterBypass
  BY <1>3 DEF EnterBypass
<1>4. CASE Drive
  <2>1. CASE PidError
    BY <2>1, StopEffect DEF PidError
  <2>2. CASE NotDriving
    BY <2>2 DEF NotDriving, balance
  <2>3. CASE DriveLoad
    BY <2>3 DEF DriveLoad
  <2>4. QED BY <1>4, <2>1, <2>2, <2>3 DEF Drive
<1>5. CASE CountLoop
  <2>1. CASE CountDown
    BY <1>5, <2>1 DEF CountLoop, CountDown
  <2>2. CASE FinishCycle
    BY <2>2, StopEffect DEF FinishCycle
  <2>3. QED BY <1>5, <2>1, <2>2 DEF CountLoop
<1>6. CASE StartSettling \/ Settle
  BY <1>6 DEF StartSettling, Settle
<1>7. CASE \/ ConfigurePID \/ Sleep \/ StayAwake \/ WakeOnSerial \/ StopTimer1
           \/ DumpLoadOff \/ KeepState
  BY <1>7 DEF ConfigurePID, Sleep, StayAwake, WakeOnSerial, StopTimer1, DumpLoadOff,
              KeepState, balance
<1>8. CASE CheckInputStream
  BY <1>8 DEF CheckInputStream
<1>9. CASE WatchdogISR \/ TimerISR \/ DriftCell
  BY <1>9 DEF WatchdogISR, TimerISR, DriftCell, balance
<1>10. CASE UNCHANGED vars
  BY <1>10 DEF vars, balance
<1>11. QED
  BY <1>1, <1>2, <1>3, <1>4, <1>5, <1>6, <1>7, <1>8, <1>9, <1>10 DEF Next, Loop

(* Readings, settings and the PID stay among those considered.               *)
LEMMA DataStep == DataOK /\ [Next]_vars => DataOK'
<1> SUFFICES ASSUME DataOK, [Next]_vars PROVE DataOK'
  OBVIOUS
<1> USE DEF DataOK
<1>1. CASE ConfigurePID
  BY <1>1, ConfiguredType, ConfigGains DEF ConfigurePID, reading, setting
<1>2. CASE Top \/ Sleep \/ Overheat
  BY <1>2, ClearedType DEF Top, Sleep, Overheat, reading, setting
<1>3. CASE Drive
  <2>1. pid' = pid \/ pid' = Cleared(pid)
    BY <1>3 DEF Drive, NotDriving, DriveLoad, PidError
  <2>2. QED BY <1>3, <2>1, ClearedType DEF Drive, reading, setting
<1>4. CASE CheckInputStream
  <2>1. config' \in Configs /\ level' \in BalanceLevels \cup {0}
    BY <1>4 DEF CheckInputStream, NoPacket, WriteSettings, WritePIDconfig,
                WriteBalanceLevel, setting, Configs
  <2>2. QED BY <1>4, <2>1 DEF CheckInputStream, reading
<1>5. CASE ReadTemperature
  BY <1>5 DEF ReadTemperature, setting
<1>6. CASE ReadVoltage \/ MissVoltage
  BY <1>6 DEF ReadVoltage, MissVoltage, reading, setting
<1>7. CASE \/ StayAwake \/ WakeOnSerial \/ HandleWatchdog \/ StopTimer1
           \/ DumpLoadOff \/ EnterBypass \/ KeepState \/ CountLoop \/ StartSettling
           \/ Settle
  BY <1>7 DEF StayAwake, WakeOnSerial, HandleWatchdog, StopTimer1, DumpLoadOff,
              EnterBypass, KeepState, CountLoop, StartSettling, Settle, reading, setting
<1>8. CASE WatchdogISR \/ TimerISR \/ DriftCell
  BY <1>8 DEF WatchdogISR, TimerISR, DriftCell, reading, setting
<1>9. CASE UNCHANGED vars
  BY <1>9 DEF vars, reading, setting
<1>10. QED
  BY <1>1, <1>2, <1>3, <1>4, <1>5, <1>6, <1>7, <1>8, <1>9 DEF Next, Loop

(* Every step keeps every variable within its range.                         *)
LEMMA TypeStep == TypeOK /\ [Next]_vars => TypeOK'
  BY PointStep, FlagsStep, CountersStep, DataStep DEF TypeOK

(* Every variable keeps its range, for every choice of settings, readings    *)
(* and cycle lengths that fit the 16-bit counter: in particular the wrapped  *)
(* count down after a PID error stays a uint16_t (main.cpp:472).             *)
THEOREM TypeCorrect == Spec => []TypeOK
  BY TypeInit, TypeStep, PTL DEF Spec

-----------------------------------------------------------------------------
(* Safety.  IInv says at every point of the loop which of the timer, the     *)
(* load and the cycle are already stopped; the named parts are above.        *)

(* The invariant holds after setup().                                        *)
LEMMA InvInit == Init => IInv
  BY TypeInit DEF Init, IInv, TimerFollowsBypass, LoadNeedsTimer, CycleRunning,
     Stopping, VoltageOutsideCycle, AsleepOutsideCycle, HotMeansStopped

(* Every step of the loop, an interrupt or the battery keeps the invariant.  *)
LEMMA InvStep == IInv /\ [Next]_vars => IInv'
<1> SUFFICES ASSUME IInv, [Next]_vars PROVE IInv'
  OBVIOUS
<1> DEFINE Rest == /\ TimerFollowsBypass /\ LoadNeedsTimer /\ CycleRunning
                   /\ Stopping /\ VoltageOutsideCycle
                   /\ AsleepOutsideCycle /\ HotMeansStopped
<1>1. TypeOK'
  BY TypeStep DEF IInv
<1>2. Rest'
  <2>0. /\ temperature \in Nat /\ Cutoff \in Nat
        /\ countDown \in Nat
    BY BypassAssumption DEF IInv, TypeOK, DataOK, CountersOK
  <2> USE DEF IInv, TimerFollowsBypass, LoadNeedsTimer, CycleRunning,
          Stopping, VoltageOutsideCycle, AsleepOutsideCycle, HotMeansStopped
  <2>1. CASE Top
    <3>1. CASE settingsChanged
      BY <2>1, <3>1, StopEffect DEF Top, reading
    <3>2. CASE ~settingsChanged
      <4>1. /\ UNCHANGED <<inBypass, countDown, timerOn, loadOn, temperature>>
            /\ pc = "top" /\ pc' = "idle"
        BY <2>1, <3>2 DEF Top, balance, output, reading
      <4>2. QED BY <4>1
    <3>3. QED BY <3>1, <3>2
  <2>2. CASE ConfigurePID \/ Sleep \/ StayAwake \/ WakeOnSerial
    <3>1. UNCHANGED <<inBypass, countDown, timerOn, loadOn, temperature>>
      BY <2>2 DEF ConfigurePID, Sleep, StayAwake, WakeOnSerial, balance, output, reading
    <3>2. \/ pc = "configure" /\ pc' = "idle"
          \/ pc = "idle" /\ pc' = "asleep" /\ ~inBypass
          \/ pc \in {"idle", "asleep"} /\ pc' = "watchdog"
      BY <2>2 DEF ConfigurePID, Sleep, StayAwake, WakeOnSerial
    <3>3. QED BY <3>1, <3>2
  <2>3. CASE HandleWatchdog
    <3>1. CASE wdt
      BY <2>3, <3>1, StopEffect DEF HandleWatchdog, reading
    <3>2. CASE ~wdt
      <4>1. /\ UNCHANGED <<inBypass, countDown, timerOn, loadOn, temperature>>
            /\ pc = "watchdog" /\ pc' = "temperature"
        BY <2>3, <3>2 DEF HandleWatchdog, balance, output, reading
      <4>2. QED BY <4>1
    <3>3. QED BY <3>1, <3>2
  <2>4. CASE StopTimer1
    <3>1. /\ timerOn' = FALSE /\ loadOn' = loadOn /\ inBypass' = inBypass
          /\ countDown' = countDown /\ temperature' = temperature
          /\ pc = "stop timer" /\ pc' = "stop load"
      BY <2>4 DEF StopTimer1, balance, reading
    <3>2. QED BY <3>1
  <2>5. CASE DumpLoadOff
    <3>1. /\ timerOn' = timerOn /\ loadOn' = FALSE /\ inBypass' = inBypass
          /\ countDown' = countDown /\ temperature' = temperature
          /\ pc = "stop load" /\ pc' = back
      BY <2>5 DEF DumpLoadOff, balance, reading
    <3>2. back \in Returns
      BY <3>1 DEF TypeOK, PointsOK
    <3>3. QED BY <3>1, <3>2 DEF Returns
  <2>6. CASE ReadTemperature
    BY <2>6 DEF ReadTemperature, balance, output
  <2>7. CASE ReadVoltage \/ MissVoltage
    <3>1. /\ UNCHANGED <<inBypass, countDown, timerOn, loadOn, temperature>>
          /\ pc = "voltage" /\ pc' = "serial"
      BY <2>7 DEF ReadVoltage, MissVoltage, balance, output, reading
    <3>2. QED BY <3>1
  <2>8. CASE CheckInputStream
    BY <2>8 DEF CheckInputStream, output, reading
  <2>9. CASE Overheat
    <3>1. CASE TooHot(temperature)
      BY <2>9, <3>1, StopEffect DEF Overheat, reading
    <3>2. CASE ~TooHot(temperature)
      <4>1. ~(temperature > Cutoff)
        BY <3>2 DEF TooHot
      <4>2. /\ UNCHANGED <<inBypass, countDown, timerOn, loadOn, temperature>>
            /\ pc = "overheat" /\ pc' = "enter"
        BY <2>9, <3>2 DEF Overheat, balance, output, reading
      <4>3. QED BY <4>1, <4>2
    <3>3. QED BY <3>1, <3>2
  <2>10. CASE EnterBypass
    <3>1. temperature' = temperature /\ ~(temperature > Cutoff)
      BY <2>0, <2>10 DEF EnterBypass, MayBypass, reading
    <3>2. QED BY <2>10, <3>1, BypassAssumption DEF EnterBypass
  <2>11. CASE KeepState
    BY <2>11 DEF KeepState, balance, output, reading
  <2>12. CASE Drive
    <3>1. CASE NotDriving
      BY <2>12, <3>1 DEF Drive, NotDriving, balance, output, reading
    <3>2. CASE DriveLoad
      BY <2>12, <3>2 DEF Drive, DriveLoad, output, reading
    <3>3. CASE PidError
      BY <2>12, <3>3 DEF Drive, PidError, StopBalance, output, reading
    <3>4. QED BY <2>12, <3>1, <3>2, <3>3 DEF Drive
  <2>13. CASE CountLoop
    <3>1. CASE CountDown
      BY <2>0, <2>13, <3>1 DEF CountLoop, CountDown, output, reading
    <3>2. CASE FinishCycle
      BY <2>13, <3>2, StopEffect DEF CountLoop, FinishCycle, reading
    <3>3. QED BY <2>13, <3>1, <3>2 DEF CountLoop
  <2>14. CASE StartSettling \/ Settle
    <3>1. /\ UNCHANGED <<inBypass, countDown, timerOn, loadOn, temperature>>
          /\ \/ pc = "finished" /\ pc' = "settle"
             \/ pc = "settle" /\ pc' = "top"
      BY <2>14 DEF StartSettling, Settle, output, reading
    <3>2. QED BY <3>1
  <2>15. CASE WatchdogISR
    BY <2>15 DEF WatchdogISR, balance, output, reading
  <2>16. CASE TimerISR
    <3>1. /\ timerOn' = timerOn /\ inBypass' = inBypass /\ countDown' = countDown
          /\ temperature' = temperature /\ pc' = pc /\ timerOn
      BY <2>16 DEF TimerISR, balance, reading
    <3>2. QED BY <3>1
  <2>17. CASE DriftCell
    BY <2>17 DEF DriftCell, balance, output, reading
  <2>18. CASE UNCHANGED vars
    BY <2>18 DEF vars, balance, output, reading
  <2>19. QED
    BY <2>1, <2>2, <2>3, <2>4, <2>5, <2>6, <2>7, <2>8, <2>9, <2>10, <2>11, <2>12, <2>13,
       <2>14, <2>15, <2>16, <2>17, <2>18 DEF Next, Loop
<1>3. QED BY <1>1, <1>2 DEF IInv

(* The invariant holds in every state of the cell module.                    *)
LEMMA Invariance == Spec => []IInv
  BY InvInit, InvStep, PTL DEF Spec

(* The dump load is never on outside a running bypass cycle, except between  *)
(* the statements of StopBalance() (main.cpp:189, ISR at 261).               *)
THEOREM LoadSafe == Spec => []LoadOnlyInBypass
<1>1. IInv => LoadOnlyInBypass
  BY DEF IInv, TimerFollowsBypass, LoadNeedsTimer, CycleRunning, LoadOnlyInBypass
<1>2. QED BY <1>1, Invariance, PTL

(* No voltage is ever sampled with the load or its timer on (main.cpp:387).  *)
THEOREM ReadingsUnloaded == Spec => []VoltageReadUnloaded
<1>1. IInv => VoltageReadUnloaded
  BY BypassAssumption DEF IInv, TypeOK, CountersOK, TimerFollowsBypass, LoadNeedsTimer,
     CycleRunning, VoltageOutsideCycle, VoltageReadUnloaded
<1>2. QED BY <1>1, Invariance, PTL

(* The processor never sleeps with the load or its timer on (main.cpp:339).  *)
THEOREM SleepSafe == Spec => []SleepsUnloaded
<1>1. IInv => SleepsUnloaded
  BY DEF IInv, TimerFollowsBypass, LoadNeedsTimer, AsleepOutsideCycle, SleepsUnloaded
<1>2. QED BY <1>1, Invariance, PTL

(* Above the safety cut-off the loop always ends with the load off, whatever *)
(* settings were written and whatever the PID did (main.cpp:421-448).        *)
THEOREM CutoffSafe == Spec => []CutoffRespected
<1>1. IInv => CutoffRespected
  BY DEF IInv, TimerFollowsBypass, LoadNeedsTimer, HotMeansStopped, CutoffRespected
<1>2. QED BY <1>1, Invariance, PTL
=============================================================================
