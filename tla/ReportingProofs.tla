---------------------------- MODULE ReportingProofs ----------------------------
(* Proofs about Reporting for any number of cells, saves and failures.       *)
EXTENDS Reporting, TLAPS

-----------------------------------------------------------------------------
(* The counts of a pass.                                                     *)

(* A pass has counted no more cells than it has seen, and sees no more than  *)
(* there are unless their number is changed meanwhile.                       *)
CountInv ==
  /\ cmi \in [Cell -> Readings]
  /\ total \in 1 .. Cells /\ next \in -1 .. Cells
  /\ invalid \in 0 .. Cells /\ zero \in 0 .. Cells /\ balancing \in 0 .. Cells
  /\ next >= 0 => invalid <= next /\ zero <= next /\ balancing <= next
  /\ ~resized => next <= total /\ invalid <= total

(* A cell without voltage that outlasts a pass is ahead of the pass or was   *)
(* counted by it; the pass that has counted it raises the error.             *)
FaultInv ==
  /\ fault # "none" => state = "Running"
  /\ fault # "none" /\ next >= 0 => zero > 0 \/ \E c \in next .. total - 1 : cmi[c] = "zero"
  /\ fault = "found" /\ next = -1 => bmsError
  /\ failed \in Nat

(* What can change the totals of the rules and what they are made from.      *)
PassStep ==
  \/ RulesTask \/ Pages \/ EmergencyInput
  \/ \E c \in Cell, readings \in SUBSET Readings : Reply(c, readings)

(* The channels only read; a save of theirs changes nothing of the pass.     *)
LEMMA ChannelsRead ==
  [Next]_vars => PassStep \/ UNCHANGED <<totals, cmi, total, emergencyStop, resized, fault>>
<1>1. {"zero", "ok"} \in SUBSET Readings /\ {"bypass"} \in SUBSET Readings
  BY DEF Readings
<1> QED
  BY <1>1 DEF Next, Rules, Others, SaveChannel, Victron, VictronTask, Message351, Message35a, Message372,
     SendCanbusMessage, Loop, OnWifiConnect, OnWifiDisconnect, OnMqttConnect, OnMqttDisconnect,
     Reports, FiveSeconds, CheckError, PublishCell, EndBatch, InfluxTask, OnConnect, OnError,
     OnDisconnect, PassStep, passVars, inputs, vars

(* Before the first pass nothing is counted.                                 *)
LEMMA CountInit == Init => CountInv /\ FaultInv
  BY PassAssumption DEF Init, PassInit, CanInit, CountInv, FaultInv, Readings

(* Counting keeps the counts within the cells seen.                          *)
LEMMA CountStep == CountInv /\ [Next]_vars => CountInv'
<1> SUFFICES ASSUME CountInv, [Next]_vars PROVE CountInv'
  OBVIOUS
<1> USE PassAssumption DEF CountInv
<1>1. CASE StartPass
  BY <1>1 DEF StartPass, Cleared, inputs
<1>2. CASE ProcessCell
  BY <1>2 DEF ProcessCell, inputs
<1>3. CASE EndPass
  BY <1>3 DEF EndPass, inputs
<1>4. CASE Pages
  <2>1. ASSUME NEW c \in Cell, ClearCell(c) PROVE cmi' \in [Cell -> Readings]
    BY <2>1 DEF ClearCell, Readings
  <2> QED
    BY <1>4, <2>1 DEF Pages, ClearCell, SaveBankConfiguration, SaveRuleConfiguration, totals
<1>5. CASE EmergencyInput
  BY <1>5 DEF EmergencyInput, totals
<1>6. ASSUME NEW c \in Cell, NEW readings \in SUBSET Readings, Reply(c, readings)
      PROVE  CountInv'
  <2>1. cmi' \in [Cell -> Readings]
    BY <1>6 DEF Reply, Readings
  <2> QED BY <1>6, <2>1 DEF Reply, totals
<1>7. CASE UNCHANGED <<totals, cmi, total, emergencyStop, resized, fault>>
  BY <1>7 DEF totals
<1> QED BY <1>1, <1>2, <1>3, <1>4, <1>5, <1>6, <1>7, ChannelsRead DEF PassStep, RulesTask

(* Only what ends a fault, and a pass that does not find it, forgets it.     *)
LEMMA FaultStep == CountInv /\ FaultInv /\ [Next]_vars => FaultInv'
<1> SUFFICES ASSUME CountInv, FaultInv, [Next]_vars PROVE FaultInv'
  OBVIOUS
<1>1. failed' \in Nat
  BY DEF Next, Rules, Others, SaveChannel, Victron, VictronTask, Message351, Message35a,
     Message372, SendCanbusMessage, Loop, OnWifiConnect, OnWifiDisconnect, OnMqttConnect,
     OnMqttDisconnect, Reports, FiveSeconds, CheckError, PublishCell, EndBatch, InfluxTask, OnConnect,
     OnError, OnDisconnect, can, vars, FaultInv
<1>2. CASE StartPass
  <2>1. next' = 0 /\ UNCHANGED <<cmi, total, state>>
    BY <1>2 DEF StartPass, inputs
  <2>2. fault' # "none" => ZeroVolts /\ state = "Running"
    BY <1>2 DEF StartPass
  <2> QED BY <1>1, <2>1, <2>2 DEF FaultInv, ZeroVolts
<1>3. CASE ProcessCell
  <2>1. next' = next + 1 /\ next \in 0 .. total - 1 /\ zero \in Nat /\ next' # -1
        /\ UNCHANGED <<cmi, total, state, fault>>
    BY <1>3, PassAssumption DEF ProcessCell, inputs, CountInv
  <2>2. zero' \in Nat /\ (zero > 0 \/ cmi[next] = "zero" => zero' > 0)
    BY <1>3, <2>1 DEF ProcessCell
  <2>3. ASSUME NEW c \in next .. total - 1, cmi[c] = "zero"
        PROVE  zero' > 0 \/ \E d \in next + 1 .. total - 1 : cmi[d] = "zero"
    BY <2>1, <2>2, <2>3
  <2> QED BY <1>1, <2>1, <2>2, <2>3 DEF FaultInv
<1>4. CASE EndPass
  <2>1. next >= total /\ total \in Nat /\ next \in Int /\ next' = -1
    BY <1>4 DEF EndPass, CountInv
  <2>2. fault # "none" => state = "Running" /\ zero > 0
    <3>1. next .. total - 1 = {} /\ next >= 0
      BY <2>1, PassAssumption DEF CountInv
    <3> QED BY <3>1 DEF FaultInv
  <2>3. fault # "none" => state' = "Running"
    BY <1>4, <2>2 DEF EndPass
  <2>4. fault # "none" => bmsError'
    <3>1. fault # "none" => ZeroIsError
      BY <2>2 DEF ZeroIsError
    <3>2. bmsError' = (bmsError \/ ZeroIsError)
      BY <1>4 DEF EndPass
    <3> QED BY <3>1, <3>2
  <2>5. fault' # "none" => fault # "none"
    BY <1>4 DEF EndPass
  <2> QED BY <1>1, <2>1, <2>2, <2>3, <2>4, <2>5 DEF FaultInv
<1>5. CASE Pages
  BY <1>1, <1>5 DEF Pages, ClearCell, SaveBankConfiguration, SaveRuleConfiguration, FaultInv
<1>6. CASE EmergencyInput
  BY <1>1, <1>6 DEF EmergencyInput, totals, FaultInv
<1>7. ASSUME NEW c \in Cell, NEW readings \in SUBSET Readings, Reply(c, readings)
      PROVE  FaultInv'
  <2>1. fault' # "none" => fault' = fault /\ cmi[c] # "zero"
    BY <1>7 DEF Reply
  <2>2. ASSUME NEW d \in next .. total - 1, cmi[d] = "zero", d # c, next >= 0
        PROVE  cmi'[d] = "zero"
    <3>1. d \in Cell
      BY <2>2, PassAssumption DEF CountInv, Cell
    <3> QED BY <1>7, <2>2, <3>1 DEF Reply, CountInv
  <2>3. UNCHANGED <<next, total, zero, state, bmsError>>
    BY <1>7 DEF Reply, totals
  <2> QED BY <1>1, <2>1, <2>2, <2>3 DEF FaultInv
<1>8. CASE UNCHANGED <<totals, cmi, total, emergencyStop, resized, fault>>
  BY <1>1, <1>8 DEF totals, FaultInv
<1> QED BY <1>2, <1>3, <1>4, <1>5, <1>6, <1>7, <1>8, ChannelsRead DEF PassStep, RulesTask

(* The inverter is never told of more modules than there are.                *)
THEOREM ModulesFit == Spec => CountsFit
<1> DEFINE Fit == Message372 /\ failed' = failed /\ ~resized => "wrapped" \notin frame'.flags
<1>1. CountInv /\ FaultInv => [Fit]_vars
  <2> SUFFICES ASSUME CountInv, FaultInv, Message372, failed' = failed, ~resized
               PROVE  "wrapped" \notin frame'.flags
    OBVIOUS
  <2>1. (IF invalid > total THEN {"wrapped"} ELSE {}) = {}
    BY DEF CountInv
  <2>2. failed' # failed + 1
    BY DEF FaultInv
  <2>3. frame' = [id |-> stage, flags |-> {}]
    BY <2>1, <2>2 DEF Message372, SendCanbusMessage
  <2> QED BY <2>3
<1> QED BY <1>1, CountInit, CountStep, FaultStep, PTL DEF Spec, CountsFit

(* The outcome of a pass that found the fault outlasts its end.              *)
LEMMA ErrorStands ==
  FaultInv /\ fault = "found" /\ next = -1 => bmsError /\ state = "Running"
  BY DEF FaultInv

(* Between two passes the inverter is told of a fault that outlasted one.    *)
THEOREM InverterIsTold == Spec => ErrorIsReported
<1> DEFINE Told == Message351 /\ failed' = failed /\ fault = "found" /\ next = -1
                     => frame'.flags = {"error"}
<1>1. FaultInv => [Told]_vars
  <2> SUFFICES ASSUME FaultInv, Message351, failed' = failed, fault = "found", next = -1
               PROVE  frame'.flags = {"error"}
    OBVIOUS
  <2>1. Limits = {"error"}
    BY ErrorStands DEF Limits
  <2>2. failed' # failed + 1
    BY DEF FaultInv
  <2>3. frame' = [id |-> stage, flags |-> {"error"}]
    BY <2>1, <2>2 DEF Message351, SendCanbusMessage
  <2> QED BY <2>3
<1> QED BY <1>1, CountInit, CountStep, FaultStep, PTL DEF Spec, ErrorIsReported

-----------------------------------------------------------------------------
(* The types.                                                                *)

(* What the rules task and the pages leave in their variables.               *)
LEMMA PassTyped == PassTypeOK /\ CountInv /\ [Next]_vars => PassTypeOK'
<1> SUFFICES ASSUME PassTypeOK, CountInv, [Next]_vars PROVE PassTypeOK'
  OBVIOUS
<1>1. /\ bmsError \in BOOLEAN /\ stopped \in BOOLEAN /\ emergencyStop \in BOOLEAN
      /\ resized \in BOOLEAN /\ state \in {"Stabilizing", "Running"}
      /\ saves \in 0 .. MaxSaves /\ fault \in {"none", "walked", "found"} /\ MaxSaves \in Nat
  BY PassAssumption DEF PassTypeOK
<1>2. CountInv'
  BY CountStep
<1>3. saves' \in 0 .. MaxSaves
  <2>1. saves' = saves \/ (saves < MaxSaves /\ saves' = saves + 1)
    BY DEF Next, Rules, RulesTask, StartPass, ProcessCell, EndPass, Others, Pages, ClearCell,
       SaveBankConfiguration, SaveRuleConfiguration, Reply, EmergencyInput, SaveChannel, Victron,
       VictronTask, Message351, Message35a, Message372, SendCanbusMessage, Loop, OnWifiConnect,
       OnWifiDisconnect, OnMqttConnect, OnMqttDisconnect, Reports, FiveSeconds, CheckError, PublishCell, EndBatch, InfluxTask, OnConnect, OnError, OnDisconnect, passVars, inputs, vars
  <2> QED BY <1>1, <2>1
<1>4. /\ bmsError' \in BOOLEAN /\ stopped' \in BOOLEAN /\ emergencyStop' \in BOOLEAN
      /\ resized' \in BOOLEAN /\ state' \in {"Stabilizing", "Running"}
      /\ fault' \in {"none", "walked", "found"}
  <2>1. CASE StartPass
    BY <1>1, <2>1 DEF StartPass, inputs
  <2>2. CASE ProcessCell
    BY <1>1, <2>2 DEF ProcessCell, inputs
  <2>3. CASE EndPass
    <3>1. bmsError' \in BOOLEAN
      <4>1. bmsError' = (bmsError \/ ZeroIsError)
        BY <2>3 DEF EndPass
      <4> QED BY <4>1, Zenon
    <3> QED BY <1>1, <2>3, <3>1 DEF EndPass, inputs
  <2>4. CASE Pages
    BY <1>1, <2>4 DEF Pages, ClearCell, SaveBankConfiguration, SaveRuleConfiguration, totals
  <2>5. CASE EmergencyInput
    BY <1>1, <2>5 DEF EmergencyInput, totals
  <2>6. ASSUME NEW c \in Cell, NEW readings \in SUBSET Readings, Reply(c, readings)
        PROVE  /\ UNCHANGED <<bmsError, stopped, emergencyStop, resized, state>>
               /\ fault' \in {"none", fault}
    BY <2>6 DEF Reply, totals
  <2>7. CASE UNCHANGED <<totals, cmi, total, emergencyStop, resized, fault>>
    BY <1>1, <2>7 DEF totals
  <2> QED BY <1>1, <2>1, <2>2, <2>3, <2>4, <2>5, <2>6, <2>7, ChannelsRead DEF PassStep, RulesTask
<1> QED BY <1>2, <1>3, <1>4 DEF PassTypeOK, CountInv

(* A message that is not taken is counted, another one is sent.              *)
LEMMA CanTyped == CanTypeOK /\ [Next]_vars => CanTypeOK'
<1> SUFFICES ASSUME CanTypeOK, [Next]_vars PROVE CanTypeOK'
  OBVIOUS
<1> USE CanAssumption
<1>1. ASSUME NEW flags \in SUBSET Flags, NEW following \in Ids, SendCanbusMessage(flags, following)
      PROVE  CanTypeOK'
  BY <1>1 DEF SendCanbusMessage, CanTypeOK
<1>2. CASE Message351
  <2>1. Limits \in SUBSET Flags
    BY DEF Limits, Flags
  <2> QED BY <1>1, <1>2, <2>1 DEF Message351, Ids
<1>3. CASE Message35a
  <2>1. Alarms \in SUBSET Flags
    BY DEF Alarms, Flags
  <2> QED BY <1>1, <1>3, <2>1 DEF Message35a, Ids
<1>4. CASE Message372
  <2>1. (IF invalid > total THEN {"wrapped"} ELSE {}) \in SUBSET Flags
    BY DEF Flags
  <2> QED BY <1>1, <1>4, <2>1 DEF Message372, Ids
<1>5. CASE UNCHANGED can
  BY <1>5 DEF can, CanTypeOK
<1> QED BY <1>2, <1>3, <1>4, <1>5 DEF Next, Rules, Others, SaveChannel, Victron, VictronTask, Loop,
     OnWifiConnect, OnWifiDisconnect, OnMqttConnect, OnMqttDisconnect, Reports, FiveSeconds, CheckError, PublishCell, EndBatch, InfluxTask, OnConnect, OnError, OnDisconnect, vars

(* A batch begins at a cell there is, however their number has changed since *)
(* the last one.                                                             *)
LEMMA BatchTyped ==
  ASSUME CountInv, start \in 0 .. Cells, BeginBatch
  PROVE  /\ turn' = "batch" /\ start' \in 0 .. Cells /\ counter' \in 0 .. Batch
         /\ reported' \subseteq Cell /\ start' + counter' <= Cells
<1>1. total \in 1 .. Cells /\ Cells \in Nat /\ Batch \in Nat \ {0}
  BY PassAssumption, ReportAssumption DEF CountInv
<1>2. Beginning \in 0 .. Cells
  BY <1>1 DEF Beginning
<1> QED BY <1>1, <1>2 DEF BeginBatch

(* The connections and the reports.                                          *)
ChannelTypeOK ==
  /\ channel \in Channels /\ enabled \in BOOLEAN /\ server \in BOOLEAN
  /\ turn \in {"delay", "check", "batch"} /\ counter \in 0 .. Batch
  /\ start + counter <= Cells
  /\ wifi \in {"off", "connecting", "on"} /\ mqtt \in {"off", "connecting", "on"}
  /\ client \in {"none", "connecting", "connected"}
  /\ start \in 0 .. Cells /\ reported \subseteq Cell /\ drops \in 0 .. MaxDrops

LEMMA ChannelTyped == CountInv /\ ChannelTypeOK /\ [Next]_vars => ChannelTypeOK'
<1> SUFFICES ASSUME CountInv, ChannelTypeOK, [Next]_vars PROVE ChannelTypeOK'
  OBVIOUS
<1> USE ReportAssumption, PassAssumption DEF ChannelTypeOK
<1>1. \A network : ConnectToMqtt(network) \in {"off", "connecting", "on"}
  BY DEF ConnectToMqtt
<1>2. CASE OnConnect
  BY <1>2, BatchTyped DEF OnConnect, links
<1>5. CASE Reports
  <2>1. CASE FiveSeconds
    BY <2>1 DEF FiveSeconds, links
  <2>2. CASE CheckError
    <3>1. CASE BeginBatch
      BY <2>2, <3>1, BatchTyped DEF CheckError, links
    <3>2. CASE turn' = "delay" /\ UNCHANGED <<start, counter, reported>>
      BY <2>2, <3>2 DEF CheckError, links
    <3> QED BY <2>2, <3>1, <3>2 DEF CheckError
  <2>3. CASE PublishCell
    <3>1. total \in 1 .. Cells /\ Cells \in Nat /\ NextCell \in Cell /\ counter < Batch
          /\ start + counter < Cells
      BY <2>3 DEF PublishCell, MoreCells, NextCell, CountInv, Cell
    <3>2. counter' = counter + 1 /\ UNCHANGED <<channel, enabled, links, turn, client, start>>
      BY <2>3 DEF PublishCell
    <3>3. reported' \subseteq Cell
      BY <2>3, <3>1 DEF PublishCell
    <3> QED BY <3>1, <3>2, <3>3 DEF links
  <2>4. CASE EndBatch
    BY <2>4 DEF EndBatch, NextCell, links
  <2> QED BY <1>5, <2>1, <2>2, <2>3, <2>4 DEF Reports
<1>3. CASE Loop \/ OnWifiConnect
  BY <1>1, <1>3 DEF Loop, OnWifiConnect, report
<1>4. CASE OnWifiDisconnect \/ OnMqttConnect \/ OnMqttDisconnect
  BY <1>4 DEF OnWifiDisconnect, OnMqttConnect, OnMqttDisconnect, report
<1>9. CASE InfluxTask
  <2>1. /\ client' \in {"none", "connecting"} /\ start' = 0
        /\ UNCHANGED <<channel, enabled, server, turn, counter, reported, wifi, mqtt>>
    BY <1>9 DEF InfluxTask
  <2>2. drops' \in 0 .. MaxDrops
    BY <1>9 DEF InfluxTask
  <2> QED BY <2>1, <2>2
<1>6. CASE OnError \/ OnDisconnect
  BY <1>6 DEF OnError, OnDisconnect, links
<1>7. CASE SaveChannel
  BY <1>7 DEF SaveChannel, links, report
<1>8. CASE UNCHANGED <<channel, enabled, links, report>>
  BY <1>8 DEF links, report
<1> QED BY <1>2, <1>3, <1>4, <1>5, <1>6, <1>7, <1>8, <1>9 DEF Next, Rules, Others, Victron,
     vars

(* The rules, the frames and the reports stay within their types: a batch    *)
(* names cells there are, however their number changes while it is made      *)
(* (mqtt1, influxdb_onConnect).                                              *)
THEOREM ReportingTyped == Spec => []TypeOK
<1> DEFINE Types == CountInv /\ PassTypeOK /\ CanTypeOK /\ ChannelTypeOK
<1>1. Init => Types
  <2> SUFFICES ASSUME Init PROVE Types
    OBVIOUS
  <2>1. CountInv
    BY CountInit
  <2>2. PassTypeOK
    <3>1. cmi \in [Cell -> Readings] /\ total \in 1 .. Cells /\ next \in -1 .. Cells
          /\ invalid \in 0 .. Cells /\ zero \in 0 .. Cells /\ balancing \in 0 .. Cells
      BY <2>1 DEF CountInv
    <3>2. {bmsError, stopped, emergencyStop, resized} \subseteq BOOLEAN
      BY DEF Init, PassInit
    <3> QED BY <3>1, <3>2, PassAssumption DEF Init, PassInit, PassTypeOK
  <2>3. CanTypeOK
    BY CanAssumption DEF Init, CanInit, CanTypeOK, Ids
  <2>4. ChannelTypeOK
    <3>1. 0 \in 0 .. Cells /\ 0 \in 0 .. MaxDrops /\ 0 \in 0 .. Batch /\ 0 + 0 <= Cells
      BY PassAssumption, ReportAssumption
    <3>2. enabled \in BOOLEAN /\ server \in BOOLEAN
      BY DEF Init
    <3> QED BY <3>1, <3>2 DEF Init, ChannelTypeOK
  <2> QED BY <2>1, <2>2, <2>3, <2>4
<1>2. Types /\ [Next]_vars => Types'
  BY CountStep, PassTyped, CanTyped, ChannelTyped
<1>3. Types => TypeOK
  BY DEF TypeOK, ChannelTypeOK
<1> QED BY <1>1, <1>2, <1>3, PTL DEF Spec
=============================================================================
