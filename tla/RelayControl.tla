----------------------------- MODULE RelayControl -----------------------------
(***************************************************************************)
(* The relays of the ESP32 controller: rules_task() turns the active rules *)
(* into relay states, pulse_relay_off_task() ends the pulses and the web   *)
(* server changes the configuration under both of them.                    *)
(*                                                                         *)
(* The outputs are changed by reading all pins of the expander and writing *)
(* them back with one changed.  Two tasks do so, 0.2 s after the end of a  *)
(* pass and 3 s after it; four changes take at most 2.4 s, so the model    *)
(* starts no pass while a pulse is pending and a change is one step.       *)
(***************************************************************************)
EXTENDS Integers

CONSTANTS
  Relays,      \* RELAY_TOTAL
  Rules,       \* RELAY_RULES; rule 0 has the highest priority
  Configs,     \* what may be saved: [type, default, rule]
  MaxFaults    \* I2C transfers that may fail

Relay == 0 .. Relays - 1
Rule == 0 .. Rules - 1

ASSUME RelayAssumption ==
  /\ Relays \in Nat \ {0} /\ Rules \in Nat \ {0} /\ MaxFaults \in Nat
  /\ Configs \subseteq [type : [Relay -> {"STANDARD", "PULSE"}],
                        default : [Relay -> {"ON", "OFF"}],
                        rule : [Rule -> [Relay -> {"ON", "OFF", "X"}]]]

VARIABLES
  config,     \* relaytype, rulerelaydefault and rulerelaystate of mysettings
  active,     \* the rules whose rule_outcome is true
  step,       \* where rules_task is
  relay,      \* the relay it is at
  target,     \* the local array relay[]
  previous,   \* previousRelayState[]
  toPulse,    \* previousRelayPulse[]
  fire,       \* firePulse
  pulsing,    \* pulse_relay_off_task was notified
  pins,       \* the outputs of the expander
  faults,     \* transfers that have failed
  last,       \* the targets of the pass before (history)
  saved,      \* the rules were saved since the pass began (history)
  retyped     \* relays whose type was saved since they were set (history)

rulesTask == <<step, relay, target, fire>>
history == <<last, saved, retyped>>
vars == <<config, active, rulesTask, previous, toPulse, pulsing, pins, faults, history>>

TypeOK ==
  /\ config \in [type : [Relay -> {"STANDARD", "PULSE"}],
                 default : [Relay -> {"ON", "OFF"}],
                 rule : [Rule -> [Relay -> {"ON", "OFF", "X"}]]]
  /\ active \subseteq Rule
  /\ step \in {"idle", "test", "set", "record"} /\ relay \in 0 .. Relays
  /\ target \in [Relay -> {"ON", "OFF"}] /\ last \in [Relay -> {"ON", "OFF"}]
  /\ previous \in [Relay -> {"ON", "OFF", "X"}]
  /\ toPulse \in [Relay -> BOOLEAN] /\ pins \in [Relay -> BOOLEAN]
  /\ fire \in BOOLEAN /\ pulsing \in BOOLEAN /\ saved \in BOOLEAN
  /\ retyped \subseteq Relay
  /\ faults \in 0 .. MaxFaults
-----------------------------------------------------------------------------
\* "Force pulsed relays to be OFF by default, they pulse ON"
Forced(c) ==
  [c EXCEPT !.default =
     [r \in Relay |-> IF c.type[r] = "PULSE" THEN "OFF" ELSE c.default[r]]]

(* setup() has set every relay to its default.                               *)
Init ==
  /\ config \in {Forced(c) : c \in Configs}
  /\ active = {}
  /\ step = "idle" /\ relay = 0 /\ fire = FALSE
  /\ target = config.default /\ last = config.default
  /\ previous = config.default
  /\ toPulse = [r \in Relay |-> FALSE] /\ pulsing = FALSE
  /\ pins = [r \in Relay |-> config.default[r] = "ON"]
  /\ faults = 0 /\ saved = FALSE /\ retyped = {}

(* SetOutputState(): nobody looks at its I2C errors.  A failed read leaves   *)
(* anything in the other pins, a failed write leaves the pins as they were.  *)
SetOutputState(r, on) ==
  \/ /\ pins' = [pins EXCEPT ![r] = on]
     /\ UNCHANGED faults
  \/ /\ faults < MaxFaults /\ faults' = faults + 1
     /\ \E garbage \in [Relay -> BOOLEAN] : pins' = [garbage EXCEPT ![r] = on]
  \/ /\ faults < MaxFaults /\ faults' = faults + 1
     /\ UNCHANGED pins
-----------------------------------------------------------------------------
(* rules_task. *)

(* ProcessRules(): which rules are active is up to RuleEngine.               *)
ProcessRules ==
  /\ step = "idle" /\ ~pulsing
  /\ active' \in SUBSET Rule
  /\ step' = "test" /\ saved' = FALSE
  /\ UNCHANGED <<config, relay, target, fire, previous, toPulse, pulsing, pins,
                 faults, last, retyped>>

Demand_LastWins(r) ==
  LET from[n \in 0 .. Rules] ==
        IF n = 0 THEN config.default[r]
        ELSE IF n - 1 \in active /\ config.rule[n - 1][r] # "X"
             THEN config.rule[n - 1][r]
             ELSE from[n - 1]
  IN  from[Rules]

(* The rules are applied from the last to the first, each over the others.   *)
Demand(r) ==
  LET from[n \in 0 .. Rules] ==
        IF n = Rules THEN config.default[r]
        ELSE IF n \in active /\ config.rule[n][r] # "X"
             THEN config.rule[n][r]
             ELSE from[n + 1]
  IN  from[0]

TestRules ==
  /\ step = "test"
  /\ last' = target
  /\ target' = [r \in Relay |-> Demand(r)]
  /\ step' = "set" /\ relay' = 0 /\ fire' = FALSE
  /\ UNCHANGED <<config, active, previous, toPulse, pulsing, pins, faults,
                 saved, retyped>>

SkipRelay ==
  /\ step = "set" /\ relay \in Relay
  /\ previous[relay] = target[relay]
  /\ relay' = relay + 1
  /\ UNCHANGED <<config, active, step, target, fire, previous, toPulse, pulsing,
                 pins, faults, history>>

SetRelay ==
  /\ step = "set" /\ relay \in Relay
  /\ previous[relay] # target[relay]
  /\ SetOutputState(relay, target[relay] = "ON")
  /\ step' = "record"
  /\ UNCHANGED <<config, active, relay, target, fire, previous, toPulse, pulsing,
                 history>>

RecordRelay ==
  /\ step = "record"
  /\ previous' = [previous EXCEPT ![relay] = target[relay]]
  /\ LET pulsed == config.type[relay] = "PULSE"
     IN  /\ toPulse' = [toPulse EXCEPT ![relay] = @ \/ pulsed]
         /\ fire' = (fire \/ pulsed)
  /\ retyped' = retyped \ {relay}
  /\ relay' = relay + 1 /\ step' = "set"
  /\ UNCHANGED <<config, active, target, pulsing, pins, faults, last, saved>>

\* seeded fault: the pulse task is not told
EndPass_Silent ==
  /\ step = "set" /\ relay = Relays
  /\ step' = "idle"
  /\ UNCHANGED <<config, active, relay, target, fire, previous, toPulse, pulsing,
                 pins, faults, history>>

EndPass ==
  /\ step = "set" /\ relay = Relays
  /\ pulsing' = fire
  /\ step' = "idle"
  /\ UNCHANGED <<config, active, relay, target, fire, previous, toPulse, pins,
                 faults, history>>

RulesTask == ProcessRules \/ TestRules \/ SkipRelay \/ SetRelay \/ RecordRelay \/ EndPass
-----------------------------------------------------------------------------
(* pulse_relay_off_task, after its 200 ms: one relay after the other.        *)

\* seeded fault: the end of the pulse is recorded as the state of the relay
PulseOff_Recorded(r) ==
  /\ pulsing /\ toPulse[r] /\ \A q \in Relay : q < r => ~toPulse[q]
  /\ SetOutputState(r, FALSE)
  /\ toPulse' = [toPulse EXCEPT ![r] = FALSE]
  /\ previous' = [previous EXCEPT ![r] = "OFF"]
  /\ UNCHANGED <<config, active, rulesTask, pulsing, history>>

(* previousRelayState stays as the rules have left it.                       *)
PulseOff(r) ==
  /\ pulsing /\ toPulse[r] /\ \A q \in Relay : q < r => ~toPulse[q]
  /\ SetOutputState(r, FALSE)
  /\ toPulse' = [toPulse EXCEPT ![r] = FALSE]
  /\ UNCHANGED <<config, active, rulesTask, previous, pulsing, history>>

PulseDone ==
  /\ pulsing /\ \A r \in Relay : ~toPulse[r]
  /\ pulsing' = FALSE
  /\ UNCHANGED <<config, active, rulesTask, previous, toPulse, pins, faults, history>>

PulseTask == (\E r \in Relay : PulseOff(r)) \/ PulseDone
-----------------------------------------------------------------------------
(* The page of the rules: a relay of another type is set anew, and no rule   *)
(* is active until the next pass.                                            *)
SaveRules ==
  /\ \E c \in Configs :
       LET changed == {r \in Relay : config.type[r] # c.type[r]}
       IN  /\ config' = Forced(c)
           /\ previous' = [r \in Relay |-> IF r \in changed THEN "X" ELSE previous[r]]
           /\ retyped' = retyped \cup changed
  /\ active' = {}
  /\ saved' = TRUE
  /\ UNCHANGED <<rulesTask, toPulse, pulsing, pins, faults, last>>

Next == RulesTask \/ PulseTask \/ SaveRules

Spec == Init /\ [][Next]_vars

(* Both tasks sleep for a bounded time only, and have high priorities.       *)
Fairness == WF_vars(RulesTask) /\ WF_vars(PulseTask)

FairSpec == Spec /\ Fairness
-----------------------------------------------------------------------------
(* Properties. *)

(* "Rules are processed from lowest priorty to highest (bottom up)"          *)
(* (default.htm:396): what the rules want of a relay.                        *)
Deciding(r) == {n \in active : config.rule[n][r] # "X"}
Wanted(r) ==
  IF Deciding(r) = {} THEN config.default[r]
  ELSE config.rule[CHOOSE n \in Deciding(r) : \A k \in Deciding(r) : n <= k][r]

(* Between two passes and after the pulses every relay is as the rules want  *)
(* it and no pulse is left on, whatever was saved while a pass was under     *)
(* way, unless the expander failed or the rules were saved in this pass.     *)
RelaysFollowRules ==
  step = "idle" /\ ~pulsing /\ ~saved /\ faults = 0 =>
    \A r \in Relay :
      pins[r] = (config.type[r] = "STANDARD" /\ Wanted(r) = "ON")

(* "to prevent multiple pulses being sent on each rule refresh"              *)
(* (main.cpp:1174): a pulse begins only when the rules want the relay on and *)
(* did not in the pass before, or when its type was saved.                   *)
OnePulsePerTrigger ==
  [][\A r \in Relay :
       config.type[r] = "PULSE" /\ ~pins[r] /\ pins'[r] /\ faults' = 0 =>
         last[r] # "ON" \/ r \in retyped]_vars

(* "We now need to rapidly turn off the relay after a fixed period of time"  *)
(* (main.cpp:1172): no pulse lasts.                                          *)
PulseEnds ==
  \A r \in Relay :
    config.type[r] = "PULSE" /\ pins[r] ~>
      ~pins[r] \/ config.type[r] = "STANDARD" \/ faults > 0
=============================================================================
