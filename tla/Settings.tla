------------------------------- MODULE Settings -------------------------------
(***************************************************************************)
(* What survives a restart.  The ESP32 controller keeps two records in its *)
(* flash, its settings and the WiFi details, each as a block and, written  *)
(* after it, a checksum (lib/settings).  The pages change the settings in  *)
(* RAM before they are saved, other tasks while they are; power may fail   *)
(* between any two steps.  At the start the WiFi details decide between    *)
(* the access point and the station.  The cell modules' settings are those *)
(* of CellSettings.                                                        *)
(***************************************************************************)
EXTENDS CellSettings

CONSTANTS
  Networks, None,        \* WiFi details: a network and its password; nothing
  MaxSaves, MaxRestarts, \* bounds: saves by the pages, restarts of either device
  MaxPresses             \* bound: presses of the BOOT button

ASSUME SettingsAssumption ==
  /\ Networks # {} /\ None \notin Networks /\ MaxSaves \in Nat /\ MaxRestarts \in Nat /\ MaxPresses \in Nat

VARIABLES
  ram,          \* mysettings
  nvs,          \* "diybms" in the flash: [bytes, checksum]
  page,         \* the save page that runs, there is only one task
  wifi,         \* DIYBMSSoftAP::_config
  wifiNvs,      \* "diybmswifi" in the flash
  writing,      \* WiFi details between the block and its checksum
  card,         \* /diybms/wifi.json on the SD card
  state,        \* the start of the controller and _controller_state
  button, ResetWifi, pin,    \* the BOOT button, its flag, whether it is an input
  clearTime,    \* WifiPasswordClearTime: zero, or four seconds after a press
  saves, restarts, presses,
  acknowledged, \* the settings of the last save that succeeded (history)
  torn          \* the checksum is of other settings than the block (history)

storage == <<ram, nvs, page, acknowledged, torn>>
network == <<wifi, wifiNvs, writing, card>>
boot == <<button, ResetWifi, pin, clearTime, presses>>
vars == <<storage, network, state, boot, saves, restarts, cell>>

(* The settings the properties tell apart: logging, the pause of InfluxDB  *)
(* (0: below five seconds) and, for the others, the page that set them     *)
(* last.                                                                   *)
Pages == {"default", "display", "ntp", "mqtt", "victron", "rules", "global"}
AllSettings == [logging : BOOLEAN, pause : 0 .. 1, rest : Pages]
Defaults == [logging |-> FALSE, pause |-> 1, rest |-> "default"]

(* An empty flash holds nothing that could be taken for settings.          *)
ASSUME NoneAssumption == None \notin AllSettings

Blocks == AllSettings \cup {None}
Stored(b) == [bytes |-> b, checksum |-> b]
Intact(store) == store.bytes # None /\ store.checksum = store.bytes

TypeOK ==
  /\ CellTypeOK
  /\ ram \in AllSettings /\ acknowledged \in AllSettings
  /\ nvs \in [bytes : Blocks, checksum : Blocks]
  /\ page \in {"idle", "assigned", "checked", "block"}
  /\ wifi \in Networks \cup {None} /\ card \in Networks \cup {None}
  /\ wifiNvs \in [bytes : Networks \cup {None}, checksum : Networks \cup {None}]
  /\ writing \in {"no", "block", "done"}
  /\ state \in {"start", "wifi", "terminal", "card", "softAP", "Stabilizing", "Running"}
  /\ button \in {"up", "down", "held"} /\ {ResetWifi, torn} \subseteq BOOLEAN
  /\ pin \in {"input", "output"} /\ clearTime \in {"zero", "set"}
  /\ saves \in 0 .. MaxSaves /\ restarts \in 0 .. MaxRestarts /\ presses \in 0 .. MaxPresses

Init ==
  /\ CellInit
  /\ ram = Defaults /\ nvs = Stored(None) /\ page = "idle" /\ acknowledged = Defaults
  /\ torn = FALSE
  /\ wifi = None /\ wifiNvs = Stored(None) /\ writing = "no" /\ card \in Networks \cup {None}
  /\ state = "start"
  /\ button = "up" /\ ResetWifi = FALSE /\ pin = "input" /\ clearTime = "zero"
  /\ saves = 0 /\ restarts = 0 /\ presses = 0

-----------------------------------------------------------------------------
(* The pages, served while the controller is a station.  Each assigns what *)
(* the request brings, checks some of it, and saves everything there is.   *)
Serving == state \in {"Stabilizing", "Running"}

Assign(field, value) ==
  /\ Serving /\ page = "idle" /\ saves < MaxSaves /\ saves' = saves + 1
  /\ ram' = [ram EXCEPT ![field] = value] /\ page' = "assigned"
  /\ UNCHANGED <<nvs, acknowledged, torn, network, state, boot, restarts, cell>>

SaveStorage == \E on \in BOOLEAN : Assign("logging", on)
SaveInfluxDBSetting == \E pause \in 0 .. 1 : Assign("pause", pause)
SaveDisplaySetting == Assign("rest", "display")
SaveNTP == Assign("rest", "ntp")
SaveMQTTSetting == Assign("rest", "mqtt")
SaveVictron == Assign("rest", "victron")
SaveRuleConfiguration == Assign("rest", "rules")

(* The limits of the cells are sent to them first; when the request queue  *)
(* is full the page fails, with the new values in RAM.                     *)
SaveGlobalSetting ==
  /\ Serving /\ page = "idle" /\ saves < MaxSaves /\ saves' = saves + 1
  /\ ram' = [ram EXCEPT !.rest = "global"]
  /\ page' \in {"assigned", "idle"}
  /\ UNCHANGED <<nvs, acknowledged, torn, network, state, boot, restarts, cell>>

(* The pause has to be five seconds at least.  The page of the display     *)
(* checks its limits, too: a lower limit above the upper one becomes zero, *)
(* which is still above a negative one.                                    *)
Checked(s) == [s EXCEPT !.pause = 1]

Check ==
  /\ page = "assigned" /\ page' = "checked"
  /\ ram' = Checked(ram)
  /\ UNCHANGED <<nvs, acknowledged, torn, network, state, boot, saves, restarts, cell>>

(* Settings::WriteConfig() works on the settings themselves, not on a copy.*)
PutBytes ==
  /\ page = "checked" /\ page' = "block"
  /\ nvs' = [nvs EXCEPT !.bytes = ram] /\ torn' = TRUE
  /\ UNCHANGED <<ram, acknowledged, network, state, boot, saves, restarts, cell>>

\* seeded fault: the checksum is that of the settings that were read
PutChecksum_Old ==
  /\ page = "block" /\ page' = "idle"
  /\ torn' = (ram # nvs.bytes) /\ acknowledged' = ram
  /\ UNCHANGED <<ram, nvs, network, state, boot, saves, restarts, cell>>
PutChecksum ==
  /\ page = "block" /\ page' = "idle"
  /\ nvs' = [nvs EXCEPT !.checksum = ram]
  /\ torn' = (ram # nvs.bytes) /\ acknowledged' = ram
  /\ UNCHANGED <<ram, network, state, boot, saves, restarts, cell>>

(* The loggers stop when the card is full, whatever the pages do.          *)
StopLogging ==
  /\ state = "Running" /\ ram.logging
  /\ ram' = [ram EXCEPT !.logging = FALSE]
  /\ UNCHANGED <<nvs, page, acknowledged, torn, network, state, boot, saves, restarts, cell>>

-----------------------------------------------------------------------------
(* setup().                                                                *)
LoadConfiguration ==
  /\ state = "start" /\ state' = "wifi"
  /\ ram' = IF Intact(nvs) THEN [nvs.bytes EXCEPT !.pause = 1] ELSE Defaults
  /\ UNCHANGED <<nvs, page, acknowledged, torn, network, boot, saves, restarts, cell>>

Loaded(store, old) == IF store.bytes = None THEN old ELSE store.bytes

(* The details on the card are written when they are not those in the      *)
(* flash; the access point is opened when there are none.                  *)
LoadWiFiConfig ==
  /\ state = "wifi"
  /\ wifi' = Loaded(wifiNvs, wifi)
  /\ IF card # None /\ (~Intact(wifiNvs) \/ wifi' # card)
     THEN state' = "card"
     ELSE state' = IF Intact(wifiNvs) THEN "Stabilizing" ELSE "softAP"
  /\ UNCHANGED <<storage, wifiNvs, writing, card, boot, saves, restarts, cell>>

(* WriteConfig() for the WiFi details, by setup() from the card, by the    *)
(* terminal or by the page of the access point.                            *)
\* seeded fault: the checksum is left out
PutWifi_Unsummed(details, sum) ==
  /\ \/ /\ writing = "no" /\ writing' = "block"
        /\ wifiNvs' = [wifiNvs EXCEPT !.bytes = details]
     \/ /\ writing = "block" /\ writing' = "done"
        /\ UNCHANGED wifiNvs
  /\ UNCHANGED <<storage, card, state, boot, saves, restarts, cell>>
PutWifi(details, sum) ==
  /\ \/ /\ writing = "no" /\ writing' = "block"
        /\ wifiNvs' = [wifiNvs EXCEPT !.bytes = details]
     \/ /\ writing = "block" /\ writing' = "done"
        /\ wifiNvs' = [wifiNvs EXCEPT !.checksum = sum]
  /\ UNCHANGED <<storage, card, state, boot, saves, restarts, cell>>

WriteCard == state = "card" /\ PutWifi(card, card) /\ UNCHANGED wifi

CardWritten ==
  /\ state = "card" /\ writing = "done"
  /\ writing' = "no" /\ state' = "wifi"
  /\ UNCHANGED <<storage, wifi, wifiNvs, card, boot, saves, restarts, cell>>

(* A key on the serial terminal; a network and its password are read, or   *)
(* the time for them runs out, and the controller restarts.                *)
TerminalBasedWifiSetup ==
  /\ state = "wifi" /\ writing = "no" /\ saves < MaxSaves /\ saves' = saves + 1
  /\ state' = "terminal"
  /\ \E details \in Networks \cup {None} : wifi' = details
  /\ UNCHANGED <<storage, wifiNvs, writing, card, boot, restarts, cell>>

WriteTerminal == state = "terminal" /\ wifi # None /\ PutWifi(wifi, wifi) /\ UNCHANGED wifi

HandleSave ==
  /\ state = "softAP" /\ writing = "no" /\ saves < MaxSaves /\ saves' = saves + 1
  /\ \E details \in Networks :
       wifi' = details /\ wifiNvs' = [wifiNvs EXCEPT !.bytes = details]
  /\ writing' = "block"
  /\ UNCHANGED <<storage, card, state, boot, restarts, cell>>

WriteSoftAP == state = "softAP" /\ writing = "block" /\ PutWifi(wifi, wifi) /\ UNCHANGED wifi

StartRunning ==
  /\ state = "Stabilizing" /\ state' = "Running"
  /\ UNCHANGED <<storage, network, boot, saves, restarts, cell>>

(* Everything in RAM is lost.                                              *)
Restart ==
  /\ state' = "start" /\ page' = "idle" /\ writing' = "no"
  /\ ram' = Defaults /\ wifi' = None /\ ResetWifi' = FALSE /\ pin' = "input"
  /\ clearTime' = "zero"
  /\ UNCHANGED <<nvs, acknowledged, torn, wifiNvs, card, button, presses, saves, cell>>

(* The power fails, or the page restarts the controller.                   *)
RestartController ==
  /\ restarts < MaxRestarts /\ restarts' = restarts + 1
  /\ Restart

(* The terminal, and the page of the access point after six seconds.       *)
RestartWithWifi ==
  /\ \/ state = "terminal" /\ (writing = "done" \/ wifi = None)
     \/ state = "softAP" /\ writing = "done"
  /\ Restart /\ UNCHANGED restarts

-----------------------------------------------------------------------------
(* The BOOT button: pressed for more than four seconds it erases the WiFi  *)
(* details, until its pin becomes an output twenty seconds after the       *)
(* controller is running.  The stored time is zero at the start.           *)
Press ==
  /\ button = "up" /\ presses < MaxPresses /\ presses' = presses + 1
  /\ button' = "down"
  /\ IF pin = "input" THEN clearTime' = "set" /\ ResetWifi' = FALSE
     ELSE UNCHANGED <<clearTime, ResetWifi>>
  /\ UNCHANGED <<storage, network, state, pin, saves, restarts, cell>>

FourSeconds ==
  /\ button = "down" /\ button' = "held"
  /\ UNCHANGED <<storage, network, state, ResetWifi, pin, clearTime, presses, saves, restarts,
                 cell>>

Release ==
  /\ button # "up" /\ button' = "up"
  /\ ResetWifi' = IF pin = "input" /\ (button = "held" \/ clearTime = "zero") THEN TRUE
                  ELSE ResetWifi
  /\ UNCHANGED <<storage, network, state, pin, clearTime, presses, saves, restarts, cell>>

SwapGPIO0ToOutput ==
  /\ state = "Running" /\ pin = "input" /\ pin' = "output"
  /\ UNCHANGED <<storage, network, state, button, ResetWifi, clearTime, presses, saves,
                 restarts, cell>>

(* loop(), once setup() is done.                                           *)
FactoryReset ==
  /\ state \in {"softAP", "Stabilizing", "Running"} /\ ResetWifi
  /\ wifiNvs' = Stored(None) /\ ResetWifi' = FALSE
  /\ UNCHANGED <<storage, wifi, writing, card, state, button, pin, clearTime, presses, saves,
                 restarts, cell>>

(* The details in use are copied to the card.                              *)
SaveWifiConfigToSDCard ==
  /\ Serving /\ page = "idle" /\ saves < MaxSaves /\ saves' = saves + 1
  /\ card' = wifi
  /\ UNCHANGED <<storage, wifi, wifiNvs, writing, state, boot, restarts, cell>>

Start ==
  \/ LoadConfiguration \/ LoadWiFiConfig \/ WriteCard \/ CardWritten \/ WriteTerminal
  \/ WriteSoftAP \/ RestartWithWifi
Page ==
  \/ SaveStorage \/ SaveInfluxDBSetting \/ SaveDisplaySetting \/ SaveNTP \/ SaveMQTTSetting
  \/ SaveVictron \/ SaveRuleConfiguration \/ SaveGlobalSetting
  \/ Check \/ PutBytes \/ PutChecksum \/ SaveWifiConfigToSDCard
Button == Press \/ FourSeconds \/ Release \/ SwapGPIO0ToOutput \/ FactoryReset

Controller ==
  Start \/ Page \/ Button \/ StopLogging \/ TerminalBasedWifiSetup \/ HandleSave
    \/ StartRunning \/ RestartController

ControllerVars == <<storage, network, state, boot, saves, restarts>>

(* The packets that change a module's settings are sent by a page.         *)
SaveSetting ==
  /\ Serving /\ page = "idle" /\ saves < MaxSaves /\ saves' = saves + 1
  /\ WriteSettings \/ WritePIDconfig
  /\ UNCHANGED <<storage, network, state, boot, restarts>>

ModuleLosesPower ==
  /\ restarts < MaxRestarts /\ restarts' = restarts + 1
  /\ PowerCut
  /\ UNCHANGED <<storage, network, state, boot, saves>>

Module ==
  \/ SaveSetting \/ ModuleLosesPower
  \/ (WriteByte \/ WriteChecksum) /\ UNCHANGED ControllerVars

Next == Controller \/ Module

Spec == Init /\ [][Next]_vars /\ WF_vars(Start)

-----------------------------------------------------------------------------
(* A controller that restarts works with the settings of the last save     *)
(* that succeeded, as the page saved them: the check at the start changes  *)
(* nothing that passed the check of the page.  Only when block and         *)
(* checksum are of two moments, because a logger stopped or the power      *)
(* failed between the two writes, may it start with the defaults instead,  *)
(* and never with anything else (settings.cpp).                            *)
RestartKeepsSettings ==
  [][LoadConfiguration => ram' = acknowledged \/ (torn /\ ram' = Defaults)]_vars

(* Details that the user saved in the access point bring the controller    *)
(* into a network, by a restart of its own, unless the button erases them  *)
(* or a key stops the start for the terminal (handleSave, setup()).        *)
JoinsNetwork ==
  state = "softAP" /\ writing = "done"
    ~> state = "Stabilizing" \/ wifiNvs.bytes = None \/ state = "terminal"
=============================================================================
