------------------------------- MODULE MCOutputs -------------------------------
(***************************************************************************)
(* A small instance of what the ESP32 controller puts out: the relays, the *)
(* expander with the emergency stop, and the display.  They share nothing  *)
(* that their modules tell apart, so that one behaviour moves one of them. *)
(***************************************************************************)
EXTENDS RelayControl, PowerExpander, Display

VARIABLE part     \* which of them moves

outputVars == <<part, vars, expanderVars, displayVars>>

\* relay 0 is switched by both rules, against each other, relay 1 by the last
Ruling == [n \in Rule |-> [r \in Relay |->
  IF n = 0 THEN (IF r = 0 THEN "OFF" ELSE "X") ELSE "ON"]]

\* every relay of either type and with either default
AllTypes == [type : [Relay -> {"STANDARD", "PULSE"}],
             default : [Relay -> {"ON", "OFF"}], rule : {Ruling}]

OutputsInit ==
  /\ Init /\ ExpanderInit /\ DisplayInit
  /\ part \in {"relays", "expander", "display"}
  /\ part # "relays" =>
       \A r \in Relay : config.type[r] = "STANDARD" /\ config.default[r] = "OFF"
  /\ low = {} /\ alarm = "none" /\ monitoring /\ banks = 1

OutputsNext ==
  /\ \/ part = "relays" /\ Next /\ UNCHANGED <<expanderVars, displayVars>>
     \/ part = "expander" /\ ExpanderNext /\ UNCHANGED <<vars, displayVars>>
     \/ part = "display" /\ DisplayNext /\ UNCHANGED <<vars, expanderVars>>
  /\ UNCHANGED part

(* The fairness of each component, for the one that moves.                 *)
OutputsFairness ==
  /\ WF_vars(part = "relays" /\ RulesTask) /\ WF_vars(part = "relays" /\ PulseTask)
  /\ WF_expanderVars(part = "expander" /\ ReadInputs)
  /\ WF_expanderVars(part = "expander" /\ StoreShadow)
  /\ WF_expanderVars(part = "expander" /\ HandleInputs)
  /\ \A o \in Output : /\ WF_expanderVars(part = "expander" /\ SetOutput(o))
                       /\ WF_expanderVars(part = "expander" /\ WriteOutput(o))
  /\ WF_displayVars(part = "display" /\ WakeNext)
  /\ WF_displayVars(part = "display" /\ UpdateNext)
  /\ WF_displayVars(part = "display" /\ SleepNext)
  /\ WF_displayVars(part = "display" /\ Snapshot)

OutputsSpec == OutputsInit /\ [][OutputsNext]_outputVars /\ OutputsFairness
=============================================================================
