------------------------------- MODULE RulePass -------------------------------
(***************************************************************************)
(* What the reporting tasks of the ESP32 controller see of the rules task: *)
(* ProcessRules() clears its totals and the BMS error, counts through the  *)
(* cells and sets the outcomes at its end, while nobody is kept from       *)
(* reading them.  The arithmetic of the rules is that of RuleEngine.       *)
(***************************************************************************)
EXTENDS Integers

CONSTANTS
  Cells,       \* bound: modules there are room for
  MaxSaves     \* bound: saves by the web pages

ASSUME PassAssumption == Cells \in Nat \ {0} /\ MaxSaves \in Nat

Cell == 0 .. Cells - 1
Readings == {"unknown", "zero", "ok", "bypass"}

VARIABLES
  cmi,         \* of each cell: not valid, no voltage, a good one, in bypass
  total,       \* TotalNumberOfCells()
  next,        \* the cell that ProcessRules() is at; -1 between two passes
  invalid, zero, balancing,   \* its counts
  bmsError, stopped,   \* outcomes: BMSError, EmergencyStop
  emergencyStop,
  state,       \* _controller_state
  saves,
  resized,     \* the number of cells was changed since the pass began (history)
  fault        \* a voltage of zero outlasts a pass: "none", "walked", "found" (history)

totals == <<next, invalid, zero, balancing, bmsError, stopped, state>>
inputs == <<cmi, total, emergencyStop, saves>>
passVars == <<totals, inputs, resized, fault>>

PassTypeOK ==
  /\ cmi \in [Cell -> Readings] /\ total \in 1 .. Cells
  /\ next \in -1 .. Cells
  /\ invalid \in 0 .. Cells /\ zero \in 0 .. Cells /\ balancing \in 0 .. Cells
  /\ {bmsError, stopped, emergencyStop, resized} \subseteq BOOLEAN
  /\ state \in {"Stabilizing", "Running"} /\ saves \in 0 .. MaxSaves
  /\ fault \in {"none", "walked", "found"}

PassInit ==
  /\ cmi = [c \in Cell |-> "unknown"] /\ total = Cells
  /\ next = -1 /\ invalid = 0 /\ zero = 0 /\ balancing = 0
  /\ bmsError = FALSE /\ stopped = FALSE /\ emergencyStop = FALSE
  /\ state = "Stabilizing" /\ saves = 0 /\ resized = FALSE /\ fault = "none"

Valid(c) == cmi[c] # "unknown"
ZeroVolts == \E c \in 0 .. total - 1 : cmi[c] = "zero"

-----------------------------------------------------------------------------
(* A voltage of zero makes no cell valid.                                  *)
Reply(c, readings) ==
  /\ \E r \in readings :
       /\ cmi' = [cmi EXCEPT ![c] = IF r = "zero" /\ ~Valid(c) THEN "unknown" ELSE r]
       /\ fault' = IF cmi[c] = "zero" THEN "none" ELSE fault
  /\ UNCHANGED <<totals, total, emergencyStop, saves, resized>>

EmergencyInput ==
  /\ emergencyStop' = TRUE
  /\ UNCHANGED <<totals, cmi, total, saves, resized, fault>>

(* The pages: the settings of a cell, the number of cells, the rules.      *)
ClearCell(c) ==
  /\ saves < MaxSaves /\ saves' = saves + 1
  /\ cmi' = [cmi EXCEPT ![c] = "unknown"] /\ fault' = "none"
  /\ UNCHANGED <<totals, total, emergencyStop, resized>>

SaveBankConfiguration ==
  /\ saves < MaxSaves /\ saves' = saves + 1
  /\ total' \in 1 .. Cells /\ resized' = TRUE /\ fault' = "none"
  /\ UNCHANGED <<totals, cmi, emergencyStop>>

SaveRuleConfiguration ==
  /\ saves < MaxSaves /\ saves' = saves + 1
  /\ bmsError' = FALSE /\ stopped' = FALSE /\ fault' = "none"
  /\ UNCHANGED <<next, invalid, zero, balancing, state, cmi, total, emergencyStop,
                 resized>>

-----------------------------------------------------------------------------
Cleared == invalid' = 0 /\ zero' = 0

(* A time-out of the communication is an error at once.                    *)
StartPass ==
  /\ next = -1 /\ next' = 0
  /\ Cleared /\ balancing' = 0
  /\ bmsError' \in BOOLEAN
  /\ resized' = FALSE
  /\ fault' = IF ~ZeroVolts \/ state # "Running" THEN "none"
              ELSE IF fault = "none" THEN "walked" ELSE fault
  /\ UNCHANGED <<stopped, state, inputs>>

ProcessCell ==
  /\ next \in 0 .. total - 1 /\ next' = next + 1
  /\ invalid' = IF Valid(next) THEN invalid ELSE invalid + 1
  /\ zero' = IF cmi[next] = "zero" THEN zero + 1 ELSE zero
  /\ balancing' = IF cmi[next] = "bypass" THEN balancing + 1 ELSE balancing
  /\ UNCHANGED <<bmsError, stopped, state, inputs, resized, fault>>

\* seeded fault: a cell without a voltage is no error
ZeroIsError_Never == FALSE
ZeroIsError == state = "Running" /\ zero > 0

(* RunRules(), as far as the reports of an error depend on it.             *)
\* seeded fault: the emergency stop counts for one pass only
EndPass_Once ==
  /\ next >= total /\ next' = -1
  /\ bmsError' = (bmsError \/ ZeroIsError)
  /\ stopped' = (emergencyStop /\ ~stopped)
  /\ state' = IF zero = 0 /\ invalid = 0 THEN "Running" ELSE state
  /\ fault' = IF fault = "walked" THEN "found" ELSE fault
  /\ UNCHANGED <<invalid, zero, balancing, inputs, resized>>
EndPass ==
  /\ next >= total /\ next' = -1
  /\ bmsError' = (bmsError \/ ZeroIsError)
  /\ stopped' = emergencyStop
  /\ state' = IF zero = 0 /\ invalid = 0 THEN "Running" ELSE state
  /\ fault' = IF fault = "walked" THEN "found" ELSE fault
  /\ UNCHANGED <<invalid, zero, balancing, inputs, resized>>

RulesTask == StartPass \/ ProcessCell \/ EndPass
Pages == (\E c \in Cell : ClearCell(c)) \/ SaveBankConfiguration \/ SaveRuleConfiguration
=============================================================================
