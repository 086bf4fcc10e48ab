----------------------------- MODULE MCRuleEngine -----------------------------
(* Small instances of RuleEngine; the cfg files choose among these sets.     *)
EXTENDS RuleEngine

\* a failed reading, a low and a high voltage
Levels == {0, 1, 3}

\* the low voltage triggers the rules about too little and is within the
\* band of those about too much; a bank is two cells
Triggers == [r \in ValueRules |-> IF r \in BankRules THEN 3 ELSE 2]
Resets == [r \in ValueRules |->
  CASE r = "BankOverVoltage" -> 2 [] r = "BankUnderVoltage" -> 4
    [] r \in OverRules -> 1 [] OTHER -> 3]

\* a cold cell on a normal board; a hot board without an external sensor
Some == {[internal |-> 2, external |-> 1], [internal |-> 3, external |-> NoSensor]}

\* too much current at too little voltage
Overload == {[valid |-> TRUE, current |-> 3, voltage |-> 1]}
=============================================================================
