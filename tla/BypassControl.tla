---------------------------- MODULE BypassControl ----------------------------
(***************************************************************************)
(* The balancing firmware of one cell module (ATTINYCellModule): the main  *)
(* loop(), the watchdog and TIMER1 interrupt routines, and the part of the *)
(* packet handlers that changes what the loop works on.                    *)
(*                                                                         *)
(* loop() is cut at the places where an interrupt matters, and interrupts  *)
(* says whether one can get in there.  Every analogue reading leaves them  *)
(* disabled (HAL::BeginADCReading ends with noInterrupts()), usually up to *)
(* the sleep decision of the next loop; but the loop that enters bypass    *)
(* enables them with the timer (HAL::StartTimer1, ResumePWM), and from     *)
(* there to noInterrupts() in the next loop the PID's and the settings'    *)
(* StopBalance() is preempted like the one of the watchdog branch.         *)
(***************************************************************************)
EXTENDS Integers

CONSTANTS
  Voltages,           \* cell voltages, as the sum of SAMPLEAVERAGING ADC samples
  Temperatures,       \* readings of the on-board thermistor
  ProgrammerVoltage,  \* DIYBMS_MODULE_ProgrammerVoltage * SAMPLEAVERAGING
  Cutoff,             \* DIYBMS_MODULE_SafetyTemperatureCutoff
  BypassCycles,       \* loops between two voltage readings in bypass (50)
  SettleCycles,       \* loops without sleep after a bypass cycle (200)
  CounterSize,        \* values of the uint16_t bypassCountDown (2^16)
  BypassTemperatures, \* settings a controller may write
  BypassThresholds,
  BalanceLevels,      \* temporary thresholds; 0 is none
  Gains,              \* PID parameter sets the PID library accepts
  BadGains,           \* PID parameter sets it rejects (err() becomes true)
  Outputs             \* values the PID may compute for the PWM

ASSUME BypassAssumption ==
  /\ Voltages \subseteq Nat /\ Temperatures \subseteq Nat
  /\ BypassTemperatures \subseteq Nat /\ BypassThresholds \subseteq Nat
  /\ BalanceLevels \subseteq Nat /\ Outputs \subseteq 0 .. 255
  /\ ProgrammerVoltage \in Nat /\ Cutoff \in Nat
  /\ BypassCycles \in Nat \ {0} /\ SettleCycles \in Nat
  /\ CounterSize \in Nat /\ BypassCycles < CounterSize

VARIABLES
  pc,               \* where loop() is
  back,             \* where StopBalance(), if it runs, returns to
  interrupts,       \* the global interrupt enable flag
  inBypass,         \* PP.WeAreInBypass
  countDown,        \* PP.bypassCountDown
  justFinished,     \* PP.bypassHasJustFinished
  pwm,              \* PP.PWMSetPoint
  settingsChanged,  \* PP.SettingsHaveChanged
  timerOn,          \* the TIMER1 compare interrupt is enabled
  loadOn,           \* the dump load pin
  wdt,              \* wdt_triggered
  voltage,          \* raw_adc_voltage
  temperature,      \* raw_adc_onboard_temperature
  config,           \* myConfig
  level,            \* bypassThreshold, the temporary limit
  pid,              \* what the PID was configured with, and its error flag
  cell              \* the real voltage of the cell

balance == <<inBypass, countDown, justFinished, pwm, settingsChanged>>
output  == <<timerOn, loadOn>>
reading == <<voltage, temperature>>
setting == <<config, level>>
vars == <<pc, back, interrupts, balance, output, wdt, reading, setting, pid, cell>>

AllGains == Gains \cup BadGains
Configs == [temperature : BypassTemperatures, threshold : BypassThresholds,
            gains : AllGains]
PidStates == [gains : AllGains, err : BOOLEAN]

\* what is executed next; the last two are inside StopBalance()
Points == {"top", "configure", "idle", "asleep", "watchdog", "temperature", "voltage",
           "serial", "overheat", "enter", "drive", "count", "finished", "settle",
           "stop timer", "stop load"}

\* where the calls of StopBalance() go on
Returns == {"configure", "temperature", "enter", "count", "finished"}

FlagsOK ==
  /\ interrupts \in BOOLEAN
  /\ inBypass \in BOOLEAN /\ settingsChanged \in BOOLEAN /\ wdt \in BOOLEAN
  /\ timerOn \in BOOLEAN /\ loadOn \in BOOLEAN
CountersOK ==
  /\ countDown \in 0 .. CounterSize - 1
  /\ justFinished \in 0 .. SettleCycles
  /\ pwm \in 0 .. 255
DataOK ==
  /\ voltage \in Voltages \cup {0} /\ temperature \in Temperatures \cup {0}
  /\ config \in Configs
  /\ level \in BalanceLevels \cup {0}
  /\ pid \in PidStates
  /\ cell \in Voltages
PointsOK ==
  /\ pc \in Points
  /\ back \in (IF pc \in {"stop timer", "stop load"} THEN Returns ELSE {"none"})
TypeOK == PointsOK /\ FlagsOK /\ CountersOK /\ DataOK

-----------------------------------------------------------------------------
(* Arithmetic of loop(): uint16_t throughout. *)

U16(n) == n % 65536

\* about the change of the reading for one degree, around temperature t
Delta(t) == IF t > 950 THEN 2 ELSE 21 - (t \div 50)

TooHot(t) == t > Cutoff \/ t > U16(config.temperature + 10 * Delta(t))

FarBelowSetpoint(t) == t < U16(config.temperature - 15 * Delta(t))

\* seeded faults: the "no temporary level" test lost; the hard limit lost
BypassCheck_LevelZero ==
  voltage < ProgrammerVoltage /\ (voltage > level \/ voltage > config.threshold)
BypassCheck_LevelOnly ==
  voltage < ProgrammerVoltage /\ level > 0 /\ voltage > level

BypassCheck ==
  /\ voltage < ProgrammerVoltage
  /\ \/ level > 0 /\ voltage > level
     \/ voltage > config.threshold

Cleared(p) == [p EXCEPT !.err = FALSE]
Configured(gains) == [gains |-> gains, err |-> gains \in BadGains]

-----------------------------------------------------------------------------
(* StopBalance() in the order of its assignments: the fields here, then the  *)
(* timer and the pin in steps of their own, as an interrupt routine may run  *)
(* in between; afterwards loop() goes on at r.                               *)
StopBalance(r) ==
  /\ inBypass' = FALSE /\ countDown' = 0 /\ justFinished' = 0 /\ pwm' = 0
  /\ settingsChanged' = FALSE
  /\ pc' = "stop timer" /\ back' = r
  /\ UNCHANGED output

\* seeded fault: only the pin is switched off
StopTimer1_Missing ==
  /\ pc = "stop timer"
  /\ pc' = "stop load"
  /\ UNCHANGED <<back, interrupts, balance, output, wdt, reading, setting, pid, cell>>

StopTimer1 ==
  /\ pc = "stop timer"
  /\ timerOn' = FALSE
  /\ pc' = "stop load"
  /\ UNCHANGED <<back, interrupts, balance, loadOn, wdt, reading, setting, pid, cell>>

DumpLoadOff ==
  /\ pc = "stop load"
  /\ loadOn' = FALSE
  /\ pc' = back /\ back' = "none"
  /\ UNCHANGED <<interrupts, balance, timerOn, wdt, reading, setting, pid, cell>>

(* setup(), with the configuration that was found in the EEPROM. *)
Init ==
  /\ pc = "top" /\ back = "none" /\ interrupts = TRUE
  /\ inBypass = FALSE /\ countDown = 0 /\ justFinished = 0 /\ pwm = 0
  /\ settingsChanged = FALSE /\ timerOn = FALSE /\ loadOn = FALSE /\ wdt = FALSE
  /\ voltage = 0 /\ temperature = 0
  /\ config \in Configs /\ level = 0
  /\ pid = Configured(config.gains)
  /\ cell \in Voltages

(* A new configuration restarts the balancing and reconfigures the PID, then *)
(* noInterrupts() protects the sleep decision.                               *)
Top ==
  /\ pc = "top"
  /\ \/ /\ settingsChanged
        /\ pid' = Cleared(pid)
        /\ StopBalance("configure")
        /\ UNCHANGED interrupts
     \/ /\ ~settingsChanged
        /\ pc' = "idle" /\ interrupts' = FALSE
        /\ UNCHANGED <<back, balance, output, pid>>
  /\ UNCHANGED <<wdt, reading, setting, cell>>

ConfigurePID ==
  /\ pc = "configure"
  /\ pid' = Configured(config.gains)
  /\ pc' = "idle" /\ interrupts' = FALSE
  /\ UNCHANGED <<back, balance, output, wdt, reading, setting, cell>>

(* The serial line is idle and there is nothing to balance: sleep, with the  *)
(* interrupts enabled.                                                       *)
Sleep ==
  /\ pc = "idle"
  /\ ~inBypass /\ justFinished = 0
  /\ pid' = Cleared(pid)
  /\ pc' = "asleep" /\ interrupts' = TRUE
  /\ UNCHANGED <<back, balance, output, wdt, reading, setting, cell>>

(* Go on without sleeping: balancing, settling, or a busy serial line. *)
StayAwake ==
  /\ pc = "idle"
  /\ pc' = "watchdog" /\ interrupts' = TRUE
  /\ UNCHANGED <<back, balance, output, wdt, reading, setting, pid, cell>>

(* The start of a frame wakes the processor (USART0_START_vect). *)
WakeOnSerial ==
  /\ pc = "asleep"
  /\ pc' = "watchdog"
  /\ UNCHANGED <<back, interrupts, balance, output, wdt, reading, setting, pid, cell>>

(* WDT_vect: eight seconds without a packet.  It wakes a sleeping processor; *)
(* in the few instructions before sleep_cpu(), which EnableStartFrame-       *)
(* Detection() already runs with the interrupts on, it only sets the flag.   *)
WatchdogISR ==
  /\ interrupts
  /\ wdt' = TRUE
  /\ pc' \in (IF pc = "asleep" THEN {"asleep", "watchdog"} ELSE {pc})
  /\ UNCHANGED <<back, interrupts, balance, output, reading, setting, pid, cell>>

(* TIMER1_COMPA_vect: every millisecond switches the load on or off.  Its    *)
(* 8-bit phase counter runs freely, so below full power both outcomes occur. *)
TimerISR ==
  /\ interrupts /\ pc # "asleep"
  /\ timerOn
  /\ loadOn' \in (IF pwm = 255 THEN {TRUE} ELSE BOOLEAN)
  /\ UNCHANGED <<pc, back, interrupts, balance, timerOn, wdt, reading, setting, pid, cell>>

(* The watchdog branch. *)
HandleWatchdog ==
  /\ pc = "watchdog"
  /\ \/ /\ ~wdt
        /\ pc' = "temperature"
        /\ UNCHANGED <<back, balance, output, wdt>>
     \/ /\ wdt
        /\ wdt' = FALSE
        /\ StopBalance("temperature")
  /\ UNCHANGED <<interrupts, reading, setting, pid, cell>>

(* The on-board temperature is read in every loop, the voltage only outside  *)
(* a bypass cycle.  The wait for a conversion lets the interrupts in and     *)
(* leaves them disabled.  A reading is missed when another interrupt ends    *)
(* the wait as the conversion completes: BeginADCReading sees ADSC clear and *)
(* goes on with the ADC interrupt still pending, and the next one drops it.  *)
ReadTemperature ==
  /\ pc = "temperature"
  /\ temperature' \in Temperatures \cup {temperature}
  /\ pc' = IF countDown = 0 THEN "voltage" ELSE "serial"
  /\ interrupts' = (countDown = 0)
  /\ UNCHANGED <<back, balance, output, wdt, voltage, setting, pid, cell>>

ReadVoltage ==
  /\ pc = "voltage"
  /\ voltage' = cell
  /\ pc' = "serial" /\ interrupts' = FALSE
  /\ UNCHANGED <<back, balance, output, wdt, temperature, setting, pid, cell>>

MissVoltage ==
  /\ pc = "voltage"
  /\ pc' = "serial" /\ interrupts' = FALSE
  /\ UNCHANGED <<back, balance, output, wdt, reading, setting, pid, cell>>

-----------------------------------------------------------------------------
(* checkInputStream(): at most one packet, with what its handler stores. *)

NoPacket ==
  /\ UNCHANGED <<settingsChanged, setting>>

WriteSettings ==
  /\ \E t \in BypassTemperatures, v \in BypassThresholds :
       config' = [config EXCEPT !.temperature = t, !.threshold = v]
  /\ settingsChanged' = TRUE
  /\ UNCHANGED level

WritePIDconfig ==
  /\ \E g \in AllGains : config' = [config EXCEPT !.gains = g]
  /\ settingsChanged' = TRUE
  /\ UNCHANGED level

WriteBalanceLevel ==
  /\ level' \in BalanceLevels
  /\ UNCHANGED <<settingsChanged, config>>

CheckInputStream ==
  /\ pc = "serial"
  /\ pc' = "overheat"
  /\ NoPacket \/ WriteSettings \/ WritePIDconfig \/ WriteBalanceLevel
  /\ UNCHANGED <<back, interrupts, inBypass, countDown, justFinished, pwm, output, wdt,
                 reading, pid, cell>>

-----------------------------------------------------------------------------
(* The rest of the loop. *)

Overheat ==
  /\ pc = "overheat"
  /\ \/ /\ TooHot(temperature)
        /\ pid' = Cleared(pid)
        /\ StopBalance("enter")
     \/ /\ ~TooHot(temperature)
        /\ pc' = "enter"
        /\ UNCHANGED <<back, balance, output, pid>>
  /\ UNCHANGED <<interrupts, wdt, reading, setting, cell>>

\* seeded fault: the cut-off is not looked at again
MayBypass_NoCutoff == BypassCheck

MayBypass == BypassCheck /\ temperature < Cutoff

(* The timer is started last, and starting it enables the interrupts. *)
EnterBypass ==
  /\ pc = "enter"
  /\ pc' = "drive"
  /\ MayBypass /\ ~inBypass
  /\ inBypass' = TRUE /\ countDown' = BypassCycles /\ justFinished' = 0
  /\ timerOn' = TRUE /\ interrupts' = TRUE /\ pwm' = 0
  /\ UNCHANGED <<back, settingsChanged, loadOn, wdt, reading, setting, pid, cell>>

KeepState ==
  /\ pc = "enter"
  /\ pc' = "drive"
  /\ ~MayBypass \/ inBypass
  /\ UNCHANGED <<back, interrupts, balance, output, wdt, reading, setting, pid, cell>>

PidFails == ~FarBelowSetpoint(temperature) /\ pid.err

NotDriving ==
  /\ countDown = 0
  /\ pc' = "settle"
  /\ UNCHANGED <<back, balance, output, pid>>

(* Full power far below the setpoint, else what the PID says. *)
DriveLoad ==
  /\ countDown > 0 /\ ~PidFails
  /\ pwm' \in (IF FarBelowSetpoint(temperature) THEN {255} ELSE Outputs)
  /\ pc' = "count"
  /\ UNCHANGED <<back, inBypass, countDown, justFinished, settingsChanged, output, pid>>

(* The PID reports an error: StopBalance() zeroes the count down. *)
PidError ==
  /\ countDown > 0 /\ PidFails
  /\ pid' = Cleared(pid)
  /\ StopBalance("count")

Drive ==
  /\ pc = "drive"
  /\ NotDriving \/ DriveLoad \/ PidError
  /\ UNCHANGED <<interrupts, wdt, reading, setting, cell>>

\* seeded fault: the count down is not counted
CountDown_Lost ==
  /\ countDown # 1
  /\ pc' = "settle"
  /\ UNCHANGED <<back, balance, output>>

(* After a PID error this wraps the zeroed count down around. *)
CountDown ==
  /\ countDown # 1
  /\ countDown' = IF countDown = 0 THEN CounterSize - 1 ELSE countDown - 1
  /\ pc' = "settle"
  /\ UNCHANGED <<back, inBypass, justFinished, pwm, settingsChanged, output>>

\* seeded fault: the end of the cycle leaves the timer running
FinishCycle_TimerRuns ==
  /\ countDown = 1
  /\ inBypass' = FALSE /\ countDown' = 0 /\ pwm' = 0
  /\ pc' = "finished"
  /\ UNCHANGED <<back, justFinished, settingsChanged, output>>

FinishCycle ==
  /\ countDown = 1
  /\ StopBalance("finished")

CountLoop ==
  /\ pc = "count"
  /\ CountDown \/ FinishCycle
  /\ UNCHANGED <<interrupts, wdt, reading, setting, pid, cell>>

(* No sleep for some loops, so that the cell is measured without the load. *)
StartSettling ==
  /\ pc = "finished"
  /\ justFinished' = SettleCycles
  /\ pc' = "settle"
  /\ UNCHANGED <<back, interrupts, inBypass, countDown, pwm, settingsChanged, output, wdt,
                 reading, setting, pid, cell>>

Settle ==
  /\ pc = "settle"
  /\ pc' = "top"
  /\ justFinished' = IF justFinished > 0 THEN justFinished - 1 ELSE 0
  /\ UNCHANGED <<back, interrupts, inBypass, countDown, pwm, settingsChanged, output, wdt,
                 reading, setting, pid, cell>>

(* The cell is charged or discharged from one loop to the next. *)
DriftCell ==
  /\ pc = "top"
  /\ cell' \in Voltages
  /\ UNCHANGED <<pc, back, interrupts, balance, output, wdt, reading, setting, pid>>

Loop ==
  \/ Top \/ ConfigurePID \/ Sleep \/ StayAwake \/ WakeOnSerial \/ HandleWatchdog
  \/ StopTimer1 \/ DumpLoadOff \/ ReadTemperature \/ ReadVoltage \/ MissVoltage
  \/ CheckInputStream \/ Overheat \/ EnterBypass \/ KeepState \/ Drive \/ CountLoop
  \/ StartSettling \/ Settle

Next == Loop \/ WatchdogISR \/ TimerISR \/ DriftCell

Spec == Init /\ [][Next]_vars

(* The processor keeps running, a watchdog or a packet always wakes it, and  *)
(* the race that loses a voltage sample is not lost every time.              *)
Fairness == WF_vars(Loop) /\ SF_vars(ReadVoltage)

FairSpec == Spec /\ Fairness
-----------------------------------------------------------------------------
(* Properties. *)

(* The dump load pin is high only while a bypass cycle runs with the timer   *)
(* that modulates it; StopBalance() (main.cpp:189), wherever an interrupt    *)
(* preempts it, leaves it high only until its last two statements have run.  *)
LoadOnlyInBypass ==
  /\ loadOn => timerOn \/ pc = "stop load"
  /\ timerOn => (inBypass /\ countDown > 0) \/ pc = "stop timer"

(* "take another cell voltage reading without the bypass being enabled"      *)
(* (main.cpp:478): the reading that decides the next cycle, and the one that *)
(* is reported, never sees the drop caused by the load.                      *)
VoltageReadUnloaded == pc = "voltage" => ~timerOn /\ ~loadOn

(* A processor in power-down has no TIMER1 to turn the load off again.       *)
SleepsUnloaded == pc = "asleep" => ~timerOn /\ ~loadOn /\ ~inBypass

(* After the temperature check of a loop no module above the safety cut-off  *)
(* is balancing, whatever its settings and whatever packet it just handled.  *)
CutoffRespected ==
  pc \in {"settle", "top", "idle"} /\ temperature > Cutoff => ~inBypass /\ ~loadOn

(* "Force shut down if temperature is too high" (main.cpp:423), cut-off or   *)
(* ten degrees above the setpoint: the loop ends with the balancing stopped. *)
ShutDownWhenTooHot == pc = "settle" /\ TooHot(temperature) => ~inBypass

(* Every bypass episode is interrupted: the cell is measured again.          *)
BypassEnds == inBypass ~> ~inBypass

(* A cell that stays below every threshold, on a board that stays cool, is   *)
(* in the end left alone: the module stops draining it for good.             *)
LowCell == \A v \in BypassThresholds \cup (BalanceLevels \ {0}) : cell <= v
Cool == ~TooHot(temperature)
DrainStops == <>[](LowCell /\ Cool) => <>[](~inBypass)

(* A cell that stays above every threshold, on a board that stays below the  *)
(* cut-off, is drained again and again.                                      *)
HighCell == cell < ProgrammerVoltage /\ \A v \in BypassThresholds : cell > v
OverVoltageIsDrained ==
  <>[](HighCell /\ temperature < Cutoff) => []<>inBypass
=============================================================================
