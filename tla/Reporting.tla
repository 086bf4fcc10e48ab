------------------------------- MODULE Reporting -------------------------------
(***************************************************************************)
(* The three channels on which the ESP32 controller reports: the CAN bus   *)
(* (VictronCan), MQTT and InfluxDB, with the WiFi connection.  They share  *)
(* nothing but the rules, so that one behaviour has one of them.           *)
(***************************************************************************)
EXTENDS VictronCan

CONSTANTS
  Channels,        \* of "victron", "mqtt", "influx"
  Batch,           \* cells in one report: 8 for MQTT, 16 for InfluxDB
  MaxDrops         \* bound: connections that are lost

ASSUME ReportAssumption ==
  Channels \subseteq {"victron", "mqtt", "influx"} /\ Batch \in Nat \ {0} /\ MaxDrops \in Nat

VARIABLES
  channel, enabled,   \* the channel and whether the settings enable it
  wifi, mqtt,         \* the connections: "off", "connecting", "on"
  server,             \* server_running
  turn,               \* of the present report: "delay", "check" (MQTT), "batch"
  client,             \* influx_Client: "none", "connecting", "connected"
  start,              \* mqttStartModule or influx_StartModule
  counter,            \* the cells of the batch that are done
  reported,           \* the cells in the present report
  drops

links == <<wifi, mqtt, server, drops>>
report == <<turn, client, start, counter, reported>>
vars == <<passVars, can, channel, enabled, links, report>>

TypeOK ==
  /\ PassTypeOK /\ CanTypeOK
  /\ channel \in Channels /\ {enabled, server} \subseteq BOOLEAN
  /\ turn \in {"delay", "check", "batch"} /\ counter \in 0 .. Batch
  /\ {wifi, mqtt} \subseteq {"off", "connecting", "on"}
  /\ client \in {"none", "connecting", "connected"}
  /\ start \in 0 .. Cells /\ reported \subseteq Cell /\ drops \in 0 .. MaxDrops

Init ==
  /\ PassInit /\ CanInit
  /\ channel \in Channels /\ enabled \in BOOLEAN
  /\ wifi = "off" /\ mqtt = "off" /\ server = FALSE /\ drops = 0
  /\ turn = "delay" /\ client = "none" /\ start = 0 /\ counter = 0 /\ reported = {}

(* saveVictron(), saveMQTTSetting(), saveInfluxDBSetting().                *)
SaveChannel ==
  /\ saves < MaxSaves /\ saves' = saves + 1
  /\ enabled' \in BOOLEAN
  /\ UNCHANGED <<totals, cmi, total, emergencyStop, resized, fault, can, channel, links,
                 report>>

-----------------------------------------------------------------------------
(* WiFi and the MQTT client.                                               *)
ConnectToMqtt(network) ==
  IF channel # "mqtt" THEN mqtt
  ELSE IF enabled /\ network = "on" /\ mqtt = "off" THEN "connecting"
  ELSE IF ~enabled /\ mqtt = "on" THEN "off" ELSE mqtt

(* loop(), every thirty seconds.                                           *)
Loop ==
  /\ channel # "victron"
  /\ wifi' = IF wifi = "off" THEN "connecting" ELSE wifi
  /\ mqtt' = ConnectToMqtt(wifi)
  /\ UNCHANGED <<passVars, can, channel, enabled, server, drops, report>>

OnWifiConnect ==
  /\ wifi = "connecting" /\ wifi' = "on" /\ server' = TRUE
  /\ mqtt' = ConnectToMqtt("on")
  /\ UNCHANGED <<passVars, can, channel, enabled, drops, report>>

OnWifiDisconnect ==
  /\ wifi = "on" /\ drops < MaxDrops /\ drops' = drops + 1
  /\ wifi' = "off" /\ mqtt' = "off"
  /\ UNCHANGED <<passVars, can, channel, enabled, server, report>>

OnMqttConnect ==
  /\ mqtt = "connecting" /\ mqtt' = "on"
  /\ UNCHANGED <<passVars, can, channel, enabled, wifi, server, drops, report>>

OnMqttDisconnect ==
  /\ mqtt # "off" /\ drops < MaxDrops /\ drops' = drops + 1
  /\ mqtt' = "off"
  /\ UNCHANGED <<passVars, can, channel, enabled, wifi, server, report>>

-----------------------------------------------------------------------------
(* A report goes on where the last one ended, a cell at a time while pages *)
(* change their number.  What is published without a connection is lost.   *)
\* seeded fault: only the end of the configured cells starts anew
Beginning_Exact == IF start = Cells THEN 0 ELSE start
Beginning == IF start > total - 1 THEN 0 ELSE start

BeginBatch ==
  /\ turn' = "batch"
  /\ start' = Beginning /\ counter' = 0 /\ reported' = {}

NextCell == start + counter
MoreCells == NextCell < total /\ counter < Batch

PublishCell ==
  /\ turn = "batch" /\ MoreCells /\ counter' = counter + 1
  /\ reported' = IF Valid(NextCell) /\ (channel = "mqtt" => mqtt = "on")
                 THEN reported \union {NextCell} ELSE reported
  /\ UNCHANGED <<passVars, can, channel, enabled, links, turn, client, start>>

EndBatch ==
  /\ turn = "batch" /\ ~MoreCells
  /\ start' = NextCell /\ counter' = 0 /\ turn' = "delay"
  /\ UNCHANGED <<passVars, can, channel, enabled, links, client, reported>>

FiveSeconds ==
  /\ channel = "mqtt" /\ turn = "delay" /\ turn' = "check"
  /\ UNCHANGED <<passVars, can, channel, enabled, links, client, start, counter, reported>>

(* mqtt1: the error is looked at once, before the batch.                   *)
CheckError ==
  /\ turn = "check"
  /\ IF enabled /\ mqtt = "on" /\ ~bmsError THEN BeginBatch
     ELSE turn' = "delay" /\ UNCHANGED <<start, counter, reported>>
  /\ UNCHANGED <<passVars, can, channel, enabled, links, client>>

(* influxdb_task and influx_task_action(): a new client for each report.   *)
InfluxTask ==
  /\ channel = "influx" /\ enabled /\ wifi = "on"
  /\ invalid = 0 /\ state = "Running" /\ ~bmsError
  /\ client = "none"
  /\ start' = 0
  /\ \/ client' = "connecting" /\ UNCHANGED drops
     \/ client' = "none" /\ drops < MaxDrops /\ drops' = drops + 1
  /\ UNCHANGED <<passVars, can, channel, enabled, wifi, mqtt, server, turn, counter,
                 reported>>

(* The data is sent whatever the rules have found since.                   *)
OnConnect ==
  /\ client = "connecting" /\ client' = "connected"
  /\ BeginBatch
  /\ UNCHANGED <<passVars, can, channel, enabled, links>>

\* seeded fault: the client is not forgotten
OnError_Kept ==
  /\ client = "connecting" /\ client' = "failed"
  /\ drops < MaxDrops /\ drops' = drops + 1
  /\ UNCHANGED <<passVars, can, channel, enabled, wifi, mqtt, server, turn, start, counter,
                 reported>>
OnError ==
  /\ client = "connecting" /\ client' = "none"
  /\ drops < MaxDrops /\ drops' = drops + 1
  /\ UNCHANGED <<passVars, can, channel, enabled, wifi, mqtt, server, turn, start, counter,
                 reported>>

(* The server closes the connection after its answer.  The callbacks of a  *)
(* client follow each other.                                               *)
OnDisconnect ==
  /\ client = "connected" /\ turn = "delay" /\ client' = "none"
  /\ UNCHANGED <<passVars, can, channel, enabled, links, turn, start, counter, reported>>

(* Only the CAN bus tells of the emergency stop and of the cells that are  *)
(* balanced: the other channels do without them.                           *)
Rules == RulesTask /\ UNCHANGED <<can, channel, enabled, links, report>>
Others ==
  /\ \/ Pages
     \/ \E c \in Cell : Reply(c, {"zero", "ok"})
     \/ channel = "victron" /\ (EmergencyInput \/ \E c \in Cell : Reply(c, {"bypass"}))
  /\ UNCHANGED <<can, channel, enabled, links, report>>
Victron ==
  /\ channel = "victron" /\ VictronTask(enabled)
  /\ UNCHANGED <<channel, enabled, links, report>>
Reports == FiveSeconds \/ CheckError \/ PublishCell \/ EndBatch

Next ==
  \/ Rules \/ Others \/ SaveChannel
  \/ Victron
  \/ Loop \/ OnWifiConnect \/ OnWifiDisconnect \/ OnMqttConnect \/ OnMqttDisconnect
  \/ Reports
  \/ InfluxTask \/ OnConnect \/ OnError \/ OnDisconnect

(* The tasks run after their delays, which are short and finite; the       *)
(* network answers in the end.                                             *)
Fairness ==
  /\ WF_vars(Rules) /\ WF_vars(Victron)
  /\ WF_vars(Loop) /\ WF_vars(OnWifiConnect) /\ WF_vars(OnMqttConnect)
  /\ WF_vars(Reports)
  /\ WF_vars(InfluxTask) /\ WF_vars(OnConnect) /\ WF_vars(OnDisconnect)

Spec == Init /\ [][Next]_vars /\ Fairness

-----------------------------------------------------------------------------
(* The emergency stop reaches the inverter as the limits of an error, also *)
(* when the rules are saved meanwhile (victron_message_351()).             *)
StopReachesInverter ==
  channel = "victron" /\ enabled /\ emergencyStop
    ~> (frame.id = "351" /\ frame.flags = {"error"}) \/ ~enabled

(* The limits that are sent between two passes are those of an error when  *)
(* a cell has been without voltage all through a pass.                     *)
ErrorIsReported ==
  [][Message351 /\ failed' = failed /\ fault = "found" /\ next = -1
       => frame'.flags = {"error"}]_vars

(* As many modules are said to be well as there are at most, unless their  *)
(* number was changed since the pass began (victron_message_372()).        *)
CountsFit ==
  [][Message372 /\ failed' = failed /\ ~resized => "wrapped" \notin frame'.flags]_vars

(* "keep track so we send the next batch on following calls": every valid  *)
(* cell is published again and again, whatever connections are lost and    *)
(* however the number of cells changes (mqtt1).                            *)
EveryCellPublished ==
  \A c \in Cell :
    <>[](channel = "mqtt" /\ enabled /\ c < total /\ Valid(c) /\ ~bmsError)
      => []<>(c \in reported)

(* Connections that fail stop no later report to InfluxDB: as long as all  *)
(* is well, the cells of the first batch are reported anew again and again *)
(* ("client already exists, so don't do this again", influxdb.cpp:133).    *)
InfluxGoesOn ==
  \A c \in Cell :
    <>[](channel = "influx" /\ enabled /\ wifi = "on" /\ invalid = 0 /\ state = "Running"
           /\ ~bmsError /\ c < total /\ c < Batch /\ Valid(c))
      => []<><<c \notin reported /\ c \in reported'>>_vars
=============================================================================
