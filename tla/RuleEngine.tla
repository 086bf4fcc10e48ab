------------------------------ MODULE RuleEngine ------------------------------
(***************************************************************************)
(* The rules of the ESP32 controller: ProcessRules() walks the cells one   *)
(* by one and Rules::RunRules() decides which rules are active, while the  *)
(* reply task and the web server change the cells and the outcomes.        *)
(*                                                                         *)
(* One ProcessCell() call is one step.  The warnings, the errors and the   *)
(* addresses of the extreme cells are shown only and are left out.         *)
(***************************************************************************)
EXTENDS Integers

CONSTANTS
  Banks, Series,    \* totalNumberOfBanks, totalNumberOfSeriesModules
  Voltages,         \* cell voltages a reply may bring; 0 is a failed reading
  Temperatures,     \* [internal, external] a reply may bring
  Monitors,         \* [valid, current, voltage] of the current monitor
  Minutes,          \* minutes since midnight
  TimeOuts,         \* whether the communication may have timed out
  Value,            \* mysettings.rulevalue
  Hysteresis,       \* mysettings.rulehysteresis
  MaxVoltage,       \* 0xFFFF and 0xFFFFFFFF: above every cell, every bank
  MaxPack

OverRules == {"CurrentMonitorOverCurrentAmps", "CurrentMonitorOverVoltage",
  "ModuleOverVoltage", "ModuleOverTemperatureInternal",
  "ModuleOverTemperatureExternal", "BankOverVoltage"}
UnderRules == {"CurrentMonitorUnderVoltage", "ModuleUnderVoltage",
  "ModuleUnderTemperatureInternal", "ModuleUnderTemperatureExternal",
  "BankUnderVoltage"}
MonitorRules == {"CurrentMonitorOverCurrentAmps", "CurrentMonitorOverVoltage",
  "CurrentMonitorUnderVoltage"}
BankRules == {"BankOverVoltage", "BankUnderVoltage"}
ExternalRules == {"ModuleOverTemperatureExternal", "ModuleUnderTemperatureExternal"}
ModuleRules == (OverRules \cup UnderRules) \ (MonitorRules \cup BankRules)
TimerRules == {"Timer1", "Timer2"}
ValueRules == OverRules \cup UnderRules \cup TimerRules
Rule == ValueRules \cup {"EmergencyStop", "BMSError"}

Cell == 0 .. Banks * Series - 1
Bank == 0 .. Banks - 1
NoSensor == -100

ASSUME RuleAssumption ==
  /\ Banks \in Nat \ {0} /\ Series \in Nat \ {0}
  /\ Voltages \subseteq Nat /\ Minutes \subseteq Nat
  /\ Temperatures \subseteq [internal : -127 .. 126, external : -127 .. 126]
  /\ Monitors \subseteq [valid : BOOLEAN, current : Nat, voltage : Nat]
  /\ Value \in [ValueRules -> Nat] /\ Hysteresis \in [ValueRules -> Nat]
  /\ TimeOuts \subseteq BOOLEAN /\ MaxVoltage \in Nat /\ MaxPack \in Nat
  /\ \A v \in Voltages : v < MaxVoltage /\ v * Series < MaxPack

VARIABLES
  cmi,            \* cmi[], what the replies brought for each cell
  scan,           \* the totals of the class Rules
  next,           \* cellid in ProcessRules(); -1 between two passes
  seen,           \* what this pass has read of each cell (history)
  outcome,        \* rule_outcome[]
  state,          \* _controller_state
  emergencyStop   \* set by the input task, never cleared

ruleVars == <<cmi, scan, next, seen, outcome, state, emergencyStop>>
pass == <<scan, next, seen>>

Readings == [valid : BOOLEAN, voltage : Voltages \cup {0},
             internal : Int, external : Int]
Cleared == [valid |-> FALSE, voltage |-> 0, internal |-> NoSensor, external |-> NoSensor]

\* seeded fault: the highest voltages of the last pass are kept
ClearValues_KeepsHighest ==
  [pack |-> [b \in Bank |-> 0], highPack |-> scan.highPack, lowPack |-> MaxPack,
   highCell |-> scan.highCell, lowCell |-> MaxVoltage, highExternal |-> -127,
   lowExternal |-> 127, highInternal |-> -127, lowInternal |-> 127,
   zero |-> 0, invalid |-> 0, sensor |-> FALSE]

ClearValues ==
  [pack |-> [b \in Bank |-> 0], highPack |-> 0, lowPack |-> MaxPack,
   highCell |-> 0, lowCell |-> MaxVoltage, highExternal |-> -127,
   lowExternal |-> 127, highInternal |-> -127, lowInternal |-> 127,
   zero |-> 0, invalid |-> 0, sensor |-> FALSE]

Totals == [pack : [Bank -> Nat], highPack : Nat, lowPack : Nat, highCell : Nat,
           lowCell : Nat, highExternal : Int, lowExternal : Int, highInternal : Int,
           lowInternal : Int, zero : Nat, invalid : Nat, sensor : BOOLEAN]

RulesTypeOK ==
  /\ cmi \in [Cell -> Readings]
  /\ scan \in Totals /\ scan.zero + scan.invalid <= Banks * Series
  /\ seen \in [Cell -> Readings]
  /\ next \in -1 .. Banks * Series
  /\ outcome \in [Rule -> BOOLEAN]
  /\ state \in {"Stabilizing", "Running"}
  /\ emergencyStop \in BOOLEAN
-----------------------------------------------------------------------------
(* Arithmetic of the comparisons. *)

Higher(a, b) == IF b > a THEN b ELSE a
Lower(a, b) == IF b < a THEN b ELSE a

\* (uint8_t) of a temperature, before it is compared with an uint32_t
U8(t) == t % 256

\* setup(): the cells cleared, no rule active
RulesInit ==
  /\ cmi = [c \in Cell |-> Cleared]
  /\ scan = [pack |-> [b \in Bank |-> 0], highPack |-> 0, lowPack |-> 0,
             highCell |-> 0, lowCell |-> 0, highExternal |-> 0,
             lowExternal |-> 0, highInternal |-> 0, lowInternal |-> 0,
             zero |-> 0, invalid |-> 0, sensor |-> FALSE]
  /\ next = -1 /\ seen = [c \in Cell |-> Cleared]
  /\ outcome = [r \in Rule |-> FALSE]
  /\ state = "Stabilizing"
  /\ emergencyStop = FALSE
-----------------------------------------------------------------------------
(* What the other tasks do. *)

(* A voltage reply; a reading of zero is stored but validates nothing.       *)
ReplyVoltage(c) ==
  /\ \E v \in Voltages :
       cmi' = [cmi EXCEPT ![c].voltage = v, ![c].valid = @ \/ v > 0]
  /\ UNCHANGED <<pass, outcome, state, emergencyStop>>

ReplyTemperature(c) ==
  /\ \E t \in Temperatures :
       cmi' = [cmi EXCEPT ![c].internal = t.internal, ![c].external = t.external]
  /\ UNCHANGED <<pass, outcome, state, emergencyStop>>

(* A save on one of the settings pages forgets what is known of a cell.      *)
clearModuleValues(c) ==
  /\ cmi' = [cmi EXCEPT ![c] = Cleared]
  /\ UNCHANGED <<pass, outcome, state, emergencyStop>>

(* The page of the rules resets the outcomes, whatever the rules task does.  *)
SaveRules ==
  /\ outcome' = [r \in Rule |-> FALSE]
  /\ UNCHANGED <<cmi, pass, state, emergencyStop>>

EmergencyInput ==
  /\ emergencyStop' = TRUE
  /\ UNCHANGED <<cmi, pass, outcome, state>>
-----------------------------------------------------------------------------
(* The rules task. *)

(* The totals are cleared and a communication time-out is the first reason   *)
(* for a BMS error.                                                          *)
StartPass ==
  /\ next = -1
  /\ scan' = ClearValues /\ next' = 0
  /\ \E timedOut \in TimeOuts : outcome' = [outcome EXCEPT !["BMSError"] = timedOut]
  /\ UNCHANGED <<cmi, seen, state, emergencyStop>>

(* A valid cell enters all totals.  The lowest internal temperature is       *)
(* compared with the external one, as the code does.                         *)
WithTemperatures(s, c) ==
  [s EXCEPT
    !.sensor = @ \/ c.external # NoSensor,
    !.highExternal = IF c.external # NoSensor THEN Higher(@, c.external) ELSE @,
    !.lowExternal = IF c.external # NoSensor THEN Lower(@, c.external) ELSE @,
    !.highInternal = Higher(@, c.internal),
    !.lowInternal = IF c.external < @ THEN c.internal ELSE @]

WithVoltage(s, b, v) ==
  [s EXCEPT
    !.pack[b] = @ + v,
    !.zero = IF v = 0 THEN @ + 1 ELSE @,
    !.highCell = Higher(@, v),
    !.lowCell = Lower(@, v)]

WithBank(s, b) ==
  [s EXCEPT !.highPack = Higher(@, s.pack[b]), !.lowPack = Lower(@, s.pack[b])]

WithCell(s, b, c) ==
  IF c.valid
  THEN WithTemperatures(WithVoltage(s, b, c.voltage), c)
  ELSE [s EXCEPT !.invalid = @ + 1]

(* ProcessCell(), with ProcessBank() after the last cell of a bank.          *)
ProcessCell ==
  /\ next \in Cell
  /\ LET b == next \div Series
         s == WithCell(scan, b, cmi[next])
     IN  scan' = IF next % Series = Series - 1 THEN WithBank(s, b) ELSE s
  /\ seen' = [seen EXCEPT ![next] = cmi[next]]
  /\ next' = next + 1
  /\ UNCHANGED <<cmi, outcome, state, emergencyStop>>

(* A rule is switched on beyond its value and off beyond its hysteresis.     *)
Latched(r, x) ==
  LET above == IF r \in OverRules THEN x > Value[r] ELSE x < Value[r]
      below == IF r \in OverRules THEN x < Hysteresis[r] ELSE x > Hysteresis[r]
  IN  IF outcome[r] THEN ~below ELSE above

Quantity ==
  [ModuleOverVoltage |-> scan.highCell,
   ModuleUnderVoltage |-> scan.lowCell,
   ModuleOverTemperatureInternal |-> U8(scan.highInternal),
   ModuleUnderTemperatureInternal |-> U8(scan.lowInternal),
   ModuleOverTemperatureExternal |-> U8(scan.highExternal),
   ModuleUnderTemperatureExternal |-> U8(scan.lowExternal),
   BankOverVoltage |-> scan.highPack,
   BankUnderVoltage |-> scan.lowPack]

Measured(monitor, r) ==
  IF r = "CurrentMonitorOverCurrentAmps" THEN monitor.current ELSE monitor.voltage

(* What RunRules() decides for rule r.  A cell of zero volts switches the    *)
(* rules about modules off and leaves those about banks as they were.        *)
Decide(r, monitor, minute) ==
  CASE r = "EmergencyStop" -> emergencyStop
    [] r = "BMSError" -> outcome[r] \/ (state = "Running" /\ scan.zero > 0)
    [] r \in TimerRules -> Value[r] <= minute /\ minute <= Hysteresis[r]
    [] r \in MonitorRules -> monitor.valid /\ Latched(r, Measured(monitor, r))
    [] r \in BankRules -> IF scan.zero > 0 THEN outcome[r] ELSE Latched(r, Quantity[r])
    [] r \in ExternalRules -> scan.zero = 0 /\ scan.sensor /\ Latched(r, Quantity[r])
    [] OTHER -> scan.zero = 0 /\ Latched(r, Quantity[r])

(* The end of a pass: all rules are decided, and when every cell has been    *)
(* read the controller is running.                                           *)
RunRules ==
  /\ next = Banks * Series
  /\ \E monitor \in Monitors, minute \in Minutes :
       outcome' = [r \in Rule |-> Decide(r, monitor, minute)]
  /\ state' = IF scan.zero = 0 /\ scan.invalid = 0 THEN "Running" ELSE state
  /\ next' = -1
  /\ seen' = [c \in Cell |-> Cleared]
  /\ UNCHANGED <<cmi, scan, emergencyStop>>

RulesTask == StartPass \/ ProcessCell \/ RunRules

RulesNext ==
  \/ \E c \in Cell : ReplyVoltage(c) \/ ReplyTemperature(c) \/ clearModuleValues(c)
  \/ SaveRules \/ EmergencyInput
  \/ RulesTask

RulesSpec == RulesInit /\ [][RulesNext]_ruleVars
-----------------------------------------------------------------------------
(* Properties. *)

ValidSeen == {c \in Cell : seen[c].valid}
ZeroSeen == \E c \in ValidSeen : seen[c].voltage = 0
SensorSeen == {c \in ValidSeen : seen[c].external # NoSensor}
PackVoltage(b) ==
  LET total[i \in 0 .. Series] ==
        IF i = 0 THEN 0
        ELSE total[i - 1] + (LET c == seen[b * Series + i - 1]
                             IN  IF c.valid THEN c.voltage ELSE 0)
  IN  total[Series]

(* The values a rule is about, taken straight from what the pass has seen.   *)
Values(r) ==
  CASE r \in {"ModuleOverVoltage", "ModuleUnderVoltage"} ->
         {seen[c].voltage : c \in ValidSeen}
    [] r \in {"ModuleOverTemperatureInternal", "ModuleUnderTemperatureInternal"} ->
         {seen[c].internal : c \in ValidSeen}
    [] r \in ExternalRules -> {seen[c].external : c \in SensorSeen}
    [] r \in BankRules -> {PackVoltage(b) : b \in Bank}

Triggered(r) ==
  \E x \in Values(r) : IF r \in OverRules THEN x > Value[r] ELSE x < Value[r]
Released(r) ==
  \A x \in Values(r) : IF r \in OverRules THEN x < Hysteresis[r] ELSE x > Hysteresis[r]

\* "Doesn't cater for negative temperatures on rule" (Rules.cpp:266, 297)
NegativeSeen ==
  \/ \E c \in ValidSeen : seen[c].internal < 0
  \/ \E c \in SensorSeen : seen[c].external < 0

(* "Rules are triggered when the relevant value meets or exceeds the         *)
(* 'trigger' value.  The rule will only disable when the value then passes   *)
(* the 'reset' value" (default.htm:399; the code takes "exceeds" only): at   *)
(* the end of a pass every rule about modules or banks agrees with the cells *)
(* the pass has seen, whatever arrived in between.  No cell that is out of   *)
(* range is missed and no rule is switched off while a cell is in the band.  *)
(* A cell of zero volts silences the rules about modules.                    *)
Follows(r) ==
  /\ Triggered(r) /\ ~Released(r) => outcome'[r]
  /\ Released(r) /\ ~Triggered(r) => ~outcome'[r]
  /\ ~Triggered(r) /\ ~Released(r) => outcome'[r] = outcome[r]

CheckedRules == (ModuleRules \cup BankRules) \ {"ModuleUnderTemperatureInternal"}
RulesFollowCells ==
  [][next >= 0 /\ next' = -1 =>
       /\ ZeroSeen => \A r \in ModuleRules : ~outcome'[r]
       /\ ~ZeroSeen /\ ~NegativeSeen /\ ValidSeen # {} => \A r \in CheckedRules : Follows(r)]_ruleVars
=============================================================================
