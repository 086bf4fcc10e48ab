---------------------------- MODULE PowerExpander ----------------------------
(***************************************************************************)
(* The TCA9534 expander of the ESP32 controller.  Its inputs are the       *)
(* emergency stop and the wake-up contact, its outputs the LED and the     *)
(* backlight.  The chip pulls its interrupt line low while an input        *)
(* differs from what was last read; the falling edge notifies              *)
(* tca9534_isr_task.  All tasks share TCA9534APWR_Value, a shadow of the   *)
(* port that each changes without a lock and then writes.                  *)
(***************************************************************************)
EXTENDS Integers

CONSTANTS MaxMoves,    \* bound: changes of the inputs
          MaxFailures    \* bound: I2C transfers that fail

ASSUME BoundAssumption == MaxMoves \in Nat /\ MaxFailures \in Nat

Input == {"stop", "wake"}
Output == {"led", "backlight"}     \* each is changed by a task of its own

VARIABLES
  low,          \* inputs pulled to ground
  readLow,      \* inputs that were low when the chip was last read
  out,          \* outputs that are on
  shadow,       \* TCA9534APWR_Value: outputs that are on; the chip ignores its other bits
  isr,          \* tca9534_isr_task: "off" before it runs, "waiting", ...
  read,         \* what it read
  emergencyStop,
  writer,       \* Led() and TFTScreenBacklight(): [step, local, on]
  moves, failures,
  pressed,      \* the stop was pressed (history)
  missedEdge,   \* an edge met a task that was not waiting (history)
  broken,       \* a read failed (history)
  overlapped    \* two tasks used the shadow at once, or a write failed (history)

chip == <<low, readLow, out>>
expanderHistory == <<pressed, missedEdge, broken, overlapped>>
expanderVars == <<chip, shadow, isr, read, emergencyStop, writer, moves, failures, expanderHistory>>

Port == Input \cup Output
Busy(o) == writer[o].step # "idle"
Levels == (Input \ low) \cup out

ExpanderTypeOK ==
  /\ low \subseteq Input /\ readLow \subseteq Input /\ out \subseteq Output
  /\ shadow \subseteq Output /\ read \subseteq Port
  /\ isr \in {"off", "waiting", "ready", "store", "act"}
  /\ writer \in [Output -> [step : {"idle", "store", "write"}, local : SUBSET Output, on : BOOLEAN]]
  /\ moves \in 0 .. MaxMoves /\ failures \in 0 .. MaxFailures
  /\ {emergencyStop, pressed, missedEdge, broken, overlapped} \subseteq BOOLEAN

(* setup() after ConfigureI2C(), which reads the port and attaches the     *)
(* interrupt: a stop that is pressed by then is the level that was read.   *)
ExpanderInit ==
  /\ low \in SUBSET Input /\ readLow = low
  /\ out = {} /\ shadow = {} /\ read = {}
  /\ isr = "off" /\ emergencyStop = FALSE
  /\ writer = [o \in Output |-> [step |-> "idle", local |-> {}, on |-> FALSE]]
  /\ moves = 0 /\ failures = 0
  /\ pressed = ("stop" \in low) /\ missedEdge = FALSE /\ broken = FALSE /\ overlapped = FALSE

StartTask ==
  /\ isr = "off" /\ isr' = "waiting"
  /\ UNCHANGED <<chip, shadow, read, emergencyStop, writer, moves, failures, expanderHistory>>

(* An input moves.  TCA9534AInterrupt() runs on the falling edge of the    *)
(* interrupt line; eNoAction wakes the task only while it is waiting.      *)
TCA9534AInterrupt_Unattached(edge) ==
  /\ isr' = isr
  /\ missedEdge' = (missedEdge \/ (edge /\ isr \notin {"waiting", "ready"}))
TCA9534AInterrupt(edge) ==
  /\ isr' = IF edge /\ isr = "waiting" THEN "ready" ELSE isr
  /\ missedEdge' = (missedEdge \/ (edge /\ isr \notin {"waiting", "ready"}))

Move(i) ==
  /\ moves < MaxMoves /\ moves' = moves + 1
  /\ low' = IF i \in low THEN low \ {i} ELSE low \cup {i}
  /\ TCA9534AInterrupt(low = readLow /\ low' # readLow)
  /\ pressed' = (pressed \/ "stop" \in low')
  /\ UNCHANGED <<readLow, out, shadow, read, emergencyStop, writer, failures,
                 broken, overlapped>>

-----------------------------------------------------------------------------
(* ReadTCA9534InputRegisters(): without the mutex it returns 0, after a    *)
(* failed transfer any value; reading releases the interrupt line.  The    *)
(* value read becomes the shadow, outputs included.                        *)
ReadInputs ==
  /\ isr = "ready" /\ isr' = "store"
  /\ overlapped' = (overlapped \/ \E o \in Output : Busy(o))
  /\ \/ read' = Levels /\ readLow' = low /\ UNCHANGED <<failures, broken>>
     \/ /\ failures < MaxFailures /\ failures' = failures + 1
        /\ read' \in {{}, Port} /\ broken' = TRUE /\ UNCHANGED readLow
  /\ UNCHANGED <<low, out, shadow, emergencyStop, writer, moves, pressed, missedEdge>>

StoreShadow ==
  /\ isr = "store" /\ isr' = "act" /\ shadow' = read \cap Output
  /\ overlapped' = (overlapped \/ \E o \in Output : Busy(o))
  /\ UNCHANGED <<chip, read, emergencyStop, writer, moves, failures, pressed, missedEdge,
                 broken>>

(* The emergency stop is latched; nothing but a restart releases it.       *)
HandleInputs_Inverted ==
  /\ isr = "act" /\ isr' = "waiting" /\ read' = {}
  /\ emergencyStop' = (emergencyStop \/ "wake" \notin read)
  /\ UNCHANGED <<chip, shadow, writer, moves, failures, expanderHistory>>
HandleInputs ==
  /\ isr = "act" /\ isr' = "waiting" /\ read' = {}
  /\ emergencyStop' = (emergencyStop \/ "stop" \notin read)
  /\ UNCHANGED <<chip, shadow, writer, moves, failures, expanderHistory>>

-----------------------------------------------------------------------------
(* Led() and TFTScreenBacklight(): load the shadow, store it with the bits *)
(* of the output changed, write it.                                        *)
LoadShadow(o) ==
  /\ ~Busy(o)
  /\ \E on \in BOOLEAN :
       writer' = [writer EXCEPT ![o] = [step |-> "store", local |-> shadow, on |-> on]]
  /\ overlapped' = (overlapped \/ isr = "store" \/ \E p \in Output : Busy(p))
  /\ UNCHANGED <<chip, shadow, isr, read, emergencyStop, moves, failures, pressed,
                 missedEdge, broken>>

SetOutput_All(o) ==
  /\ writer[o].step = "store"
  /\ shadow' = IF writer[o].on THEN writer[o].local \cup {o} ELSE {}
  /\ writer' = [writer EXCEPT ![o] = [step |-> "write", local |-> {}, on |-> @.on]]
  /\ UNCHANGED <<chip, isr, read, emergencyStop, moves, failures, expanderHistory>>
SetOutput(o) ==
  /\ writer[o].step = "store"
  /\ shadow' = IF writer[o].on THEN writer[o].local \cup {o} ELSE writer[o].local \ {o}
  /\ writer' = [writer EXCEPT ![o] = [step |-> "write", local |-> {}, on |-> @.on]]
  /\ UNCHANGED <<chip, isr, read, emergencyStop, moves, failures, expanderHistory>>

(* The registers of the inputs ignore what is written to them.             *)
WriteOutput(o) ==
  /\ writer[o].step = "write"
  /\ \/ out' = shadow /\ UNCHANGED <<failures, overlapped>>
     \/ /\ failures < MaxFailures /\ failures' = failures + 1
        /\ overlapped' = TRUE /\ UNCHANGED out
  /\ writer' = [writer EXCEPT ![o] = [step |-> "idle", local |-> {}, on |-> FALSE]]
  /\ UNCHANGED <<low, readLow, shadow, isr, read, emergencyStop, moves, pressed, missedEdge,
                 broken>>

ExpanderNext ==
  \/ StartTask \/ \E i \in Input : Move(i)
  \/ ReadInputs \/ StoreShadow \/ HandleInputs
  \/ \E o \in Output : LoadShadow(o) \/ SetOutput(o) \/ WriteOutput(o)

(* The task runs once notified, and a write that was begun ends.           *)
ExpanderFairness ==
  /\ WF_expanderVars(ReadInputs) /\ WF_expanderVars(StoreShadow) /\ WF_expanderVars(HandleInputs)
  /\ \A o \in Output : WF_expanderVars(SetOutput(o)) /\ WF_expanderVars(WriteOutput(o))

ExpanderSpec == ExpanderInit /\ [][ExpanderNext]_expanderVars /\ ExpanderFairness

-----------------------------------------------------------------------------
(* A stop that the chip reports as a change is latched if it is held,      *)
(* whatever the other input, the LED and the backlight do, unless an edge  *)
(* of the interrupt met the task while it was not waiting.                 *)
StopIsLatched ==
  "stop" \in low \ readLow /\ ~missedEdge /\ ~broken
    ~> emergencyStop \/ "stop" \notin low \/ missedEdge \/ broken

(* The stop is latched only after it was pressed, unless a read failed: a  *)
(* failed read looks like all inputs low.                                  *)
NoFalseStop == emergencyStop => pressed \/ broken

(* An LED or backlight switched by one task keeps its state while the      *)
(* other is switched and the inputs are read, unless two of them used the  *)
(* shadow at once or a transfer failed.                                    *)
OutputsKept ==
  [][\A o, p \in Output :
       WriteOutput(o) /\ p # o /\ ~overlapped' /\ ~broken =>
         (p \in out' <=> p \in out)]_expanderVars
=============================================================================
