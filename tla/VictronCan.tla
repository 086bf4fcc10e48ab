------------------------------ MODULE VictronCan ------------------------------
(***************************************************************************)
(* victron_canbus_tx() tells a Victron inverter, once a second, how much   *)
(* it may charge and discharge the battery, its alarms and its cells.      *)
(* Each message is built from the totals of the rules when its turn comes. *)
(***************************************************************************)
EXTENDS RulePass

CONSTANTS MaxFailures     \* bound: messages that the CAN driver does not take

ASSUME CanAssumption == MaxFailures \in Nat

VARIABLES
  stage,      \* the message whose turn it is
  frame,      \* what was sent last: [id, flags]
  failed      \* canbus_messages_failed_sent

can == <<stage, frame, failed>>

Ids == {"none", "351", "35a", "372"}
Flags == {"error", "balance", "internal", "imbalance", "offline", "wrapped"}

CanTypeOK ==
  /\ stage \in Ids /\ failed \in 0 .. MaxFailures
  /\ frame \in [id : Ids, flags : SUBSET Flags]

CanInit == stage = "351" /\ frame = [id |-> "none", flags |-> {}] /\ failed = 0

-----------------------------------------------------------------------------
SendCanbusMessage(flags, following) ==
  /\ \/ frame' = [id |-> stage, flags |-> flags] /\ UNCHANGED failed
     \/ failed < MaxFailures /\ failed' = failed + 1 /\ UNCHANGED frame
  /\ stage' = following
  /\ UNCHANGED passVars

(* The limits: those for an error, for balancing or the usual ones.  Rules *)
(* of the banks and the external temperatures count like these two.        *)
\* seeded fault: balancing comes first
Limits_BalanceFirst ==
  IF balancing > 0 THEN {"balance"}
  ELSE IF state # "Running" \/ bmsError \/ stopped THEN {"error"} ELSE {}
Limits ==
  IF state # "Running" \/ bmsError \/ stopped THEN {"error"}
  ELSE IF balancing > 0 THEN {"balance"} ELSE {}

Message351 == stage = "351" /\ SendCanbusMessage(Limits, "35a")

Alarms ==
  {f \in {"internal", "imbalance", "offline"} :
     \/ f = "internal" /\ (bmsError \/ stopped)
     \/ f = "imbalance" /\ balancing > 0
     \/ f = "offline" /\ state # "Running"}

(* The name of the controller goes before it.                              *)
Message35a == stage = "35a" /\ SendCanbusMessage(Alarms, "372")

(* The modules that are well, a difference of 16 bits.  What follows tells *)
(* of the battery and its extreme cells and is left out.                   *)
Message372 ==
  /\ stage = "372"
  /\ SendCanbusMessage(IF invalid > total THEN {"wrapped"} ELSE {}, "351")

(* VictronEnabled is tested once a round.                                  *)
VictronTask(enabled) ==
  \/ enabled /\ Message351
  \/ Message35a
  \/ Message372
=============================================================================
