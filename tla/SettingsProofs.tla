----------------------------- MODULE SettingsProofs -----------------------------
(* Proofs about Settings and CellSettings for every value of their constants. *)
EXTENDS Settings, TLAPS

(* What the steps of a save know of the settings they work on.               *)
Good(s) == s.pause = 1
PageInv ==
  /\ ram \in AllSettings /\ acknowledged \in AllSettings
  /\ nvs \in [bytes : Blocks, checksum : Blocks]
  /\ page # "idle" => Serving
  /\ page \in {"checked", "block"} => Good(ram)

(* The checksum is that of the last save that succeeded, and the block too   *)
(* unless they are of two moments.                                           *)
SavedInv ==
  /\ \/ nvs.checksum = None /\ acknowledged = Defaults
     \/ nvs.checksum = acknowledged /\ acknowledged.pause = 1 /\ acknowledged \in AllSettings
  /\ ~torn => nvs.bytes = nvs.checksum

(* A save only ever changes one field, within its range.                     *)
LEMMA DefaultsType == Defaults \in AllSettings /\ Good(Defaults)
  BY DEF Defaults, AllSettings, Pages, Good

(* What assigning a field to the settings gives is settings.               *)
LEMMA AssignType ==
  ASSUME NEW s \in AllSettings
  PROVE  /\ \A v \in BOOLEAN : [s EXCEPT !.logging = v] \in AllSettings
         /\ \A v \in 0 .. 1 : [s EXCEPT !.pause = v] \in AllSettings
         /\ \A v \in Pages : [s EXCEPT !.rest = v] \in AllSettings
  BY DEF AllSettings

(* Switching logging off leaves checked settings checked.                    *)
LEMMA LoggingGood ==
  ASSUME NEW s \in AllSettings, NEW v \in BOOLEAN, Good(s)
  PROVE  Good([s EXCEPT !.logging = v])
  BY DEF AllSettings, Good

(* The pages' checks give checked settings.                                  *)
LEMMA CheckedGood ==
  ASSUME NEW s \in AllSettings PROVE Checked(s) \in AllSettings /\ Good(Checked(s))
  BY DEF Checked, AllSettings, Good

(* The start of a controller whose flash is empty.                           *)
LEMMA PageInit == Init => PageInv /\ SavedInv
  BY DefaultsType DEF Init, PageInv, SavedInv, Stored, Blocks

(* Nothing but the two steps of a save changes the flash.                    *)
LEMMA OnlySavesStore ==
  [Next]_vars => PutBytes \/ PutChecksum \/ UNCHANGED <<nvs, acknowledged, torn>>
  BY DEF Next, Controller, Start, Page, Button, Module, LoadConfiguration, LoadWiFiConfig,
     WriteCard, PutWifi, CardWritten, WriteTerminal, WriteSoftAP, RestartWithWifi, Restart,
     SaveStorage, SaveInfluxDBSetting, SaveDisplaySetting, SaveNTP, SaveMQTTSetting,
     SaveVictron, SaveRuleConfiguration, Assign, SaveGlobalSetting, Check, SaveWifiConfigToSDCard,
     Press, FourSeconds, Release, SwapGPIO0ToOutput, FactoryReset, StopLogging,
     TerminalBasedWifiSetup, HandleSave, StartRunning, RestartController, SaveSetting,
     ModuleLosesPower, ControllerVars, storage, vars

(* The page that saves goes through its steps with checked settings.         *)
LEMMA PageStep == PageInv /\ [Next]_vars => PageInv'
<1> SUFFICES ASSUME PageInv, [Next]_vars PROVE PageInv'
  OBVIOUS
<1> USE DEF PageInv, Blocks, Serving
<1>1. ASSUME NEW field, NEW value, Assign(field, value),
             [ram EXCEPT ![field] = value] \in AllSettings
      PROVE  PageInv'
  BY <1>1 DEF Assign
<1>2. CASE SaveStorage \/ SaveInfluxDBSetting
  BY <1>1, <1>2, AssignType DEF SaveStorage, SaveInfluxDBSetting
<1>3. CASE SaveDisplaySetting \/ SaveNTP \/ SaveMQTTSetting \/ SaveVictron \/ SaveRuleConfiguration
  <2>1. PICK value \in Pages : Assign("rest", value)
    BY <1>3 DEF SaveDisplaySetting, SaveNTP, SaveMQTTSetting, SaveVictron, SaveRuleConfiguration,
       Pages
  <2> QED BY <2>1, <1>1, AssignType
<1>4. CASE SaveGlobalSetting
  <2>1. "global" \in Pages
    BY DEF Pages
  <2> QED BY <1>4, <2>1, AssignType DEF SaveGlobalSetting
<1>5. CASE Check
  BY <1>5, CheckedGood DEF Check
<1>6. CASE PutBytes \/ PutChecksum
  BY <1>6 DEF PutBytes, PutChecksum
<1>7. CASE StopLogging
  BY <1>7, AssignType, LoggingGood DEF StopLogging
<1>8. CASE LoadConfiguration
  <2>1. page = "idle" /\ UNCHANGED <<nvs, page, acknowledged>>
    BY <1>8 DEF LoadConfiguration
  <2>2. Intact(nvs) => [nvs.bytes EXCEPT !.pause = 1] \in AllSettings
    <3>1. Intact(nvs) => nvs.bytes \in AllSettings
      BY DEF Intact
    <3>2. 1 \in 0 .. 1
      OBVIOUS
    <3> QED BY <3>1, <3>2, AssignType
  <2>3. ram' \in AllSettings
    BY <1>8, <2>2, DefaultsType DEF LoadConfiguration
  <2> QED BY <2>1, <2>3
<1>9. CASE RestartController \/ RestartWithWifi
  BY <1>9, DefaultsType DEF RestartController, RestartWithWifi, Restart
<1>10. CASE LoadWiFiConfig \/ WriteCard \/ CardWritten \/ WriteTerminal \/ WriteSoftAP
            \/ TerminalBasedWifiSetup \/ HandleSave
  BY <1>10 DEF LoadWiFiConfig, WriteCard, CardWritten, WriteTerminal, WriteSoftAP, PutWifi,
     TerminalBasedWifiSetup, HandleSave, storage
<1>11. CASE StartRunning \/ SaveWifiConfigToSDCard \/ Button
  BY <1>11 DEF StartRunning, SaveWifiConfigToSDCard, Button, Press, FourSeconds, Release,
     SwapGPIO0ToOutput, FactoryReset, storage
<1>12. CASE Module \/ UNCHANGED vars
  BY <1>12 DEF Module, SaveSetting, ModuleLosesPower, ControllerVars, vars, storage
<1> QED BY <1>2, <1>3, <1>4, <1>5, <1>6, <1>7, <1>8, <1>9, <1>10, <1>11, <1>12
     DEF Next, Controller, Start, Page

-----------------------------------------------------------------------------
(* A save that tears nothing leaves the settings it acknowledges.            *)
LEMMA SavedStep == PageInv /\ SavedInv /\ [Next]_vars => SavedInv'
<1> SUFFICES ASSUME PageInv, SavedInv, [Next]_vars PROVE SavedInv'
  OBVIOUS
<1>1. CASE PutBytes
  BY <1>1 DEF PutBytes, SavedInv
<1>2. CASE PutChecksum
  <2>1. acknowledged' = ram /\ nvs'.checksum = ram /\ nvs'.bytes = nvs.bytes
    BY <1>2 DEF PutChecksum, PageInv
  <2>2. ram \in AllSettings /\ ram.pause = 1
    BY <1>2 DEF PutChecksum, PageInv, Good
  <2>3. ~torn' => ram = nvs.bytes
    BY <1>2 DEF PutChecksum
  <2> QED BY <2>1, <2>2, <2>3 DEF SavedInv
<1>3. CASE UNCHANGED <<nvs, acknowledged, torn>>
  BY <1>3 DEF SavedInv
<1> QED BY <1>1, <1>2, <1>3, OnlySavesStore

(* A controller that starts has the settings of the last save that           *)
(* succeeded, or the defaults when block and checksum are of two moments.    *)
THEOREM SettingsSurvive == Spec => RestartKeepsSettings
<1> DEFINE Kept == LoadConfiguration => ram' = acknowledged \/ (torn /\ ram' = Defaults)
<1>1. PageInv /\ SavedInv /\ [Next]_vars => [Kept]_vars
  <2> SUFFICES ASSUME SavedInv, LoadConfiguration
               PROVE  ram' = acknowledged \/ (torn /\ ram' = Defaults)
    OBVIOUS
  <2>1. CASE Intact(nvs)
    <3>1. nvs.bytes = acknowledged /\ acknowledged.pause = 1 /\ acknowledged \in AllSettings
      BY <2>1 DEF SavedInv, Intact
    <3>2. [acknowledged EXCEPT !.pause = 1] = acknowledged
      BY <3>1 DEF AllSettings
    <3> QED BY <2>1, <3>1, <3>2 DEF LoadConfiguration
  <2>2. CASE ~Intact(nvs)
    <3>1. ram' = Defaults
      BY <2>2 DEF LoadConfiguration
    <3>2. ~torn => acknowledged = Defaults
      BY <2>2, NoneAssumption DEF SavedInv, Intact
    <3> QED BY <3>1, <3>2
  <2> QED BY <2>1, <2>2
<1> QED BY <1>1, PageInit, PageStep, SavedStep, PTL DEF Spec, RestartKeepsSettings

-----------------------------------------------------------------------------
(* The EEPROM of a module: what was written completely is there.             *)
Stores == [Bytes -> Values \cup {0, Blank, Cutoff}]
EepromInv ==
  /\ {config, eeprom} \subseteq Stores /\ at \in 0 .. 5
  /\ at = 0 /\ written # Never => eeprom = written /\ checksum = written
  /\ \A b \in Bytes : b < at => eeprom[b] = config[b]

(* Reading and the limit give settings, whatever was stored.                 *)
LEMMA ReadType ==
  ASSUME NEW s \in Stores, NEW sum PROVE ValidateConfiguration(Read(s, sum)) \in Stores
<1>1. Read(s, sum) \in Stores
  BY DEF Read, Stores, Default, Bytes
<1>2. ASSUME NEW c \in Stores PROVE ValidateConfiguration(c) \in Stores
  BY DEF ValidateConfiguration, Stores, Bytes
<1> QED BY <1>1, <1>2

(* A module that was never used.                                             *)
LEMMA EepromInit == Init => EepromInv
<1> SUFFICES ASSUME Init PROVE EepromInv
  OBVIOUS
<1>1. eeprom \in Stores
  BY DEF Init, CellInit, Never, Stores
<1> QED BY <1>1, ReadType DEF Init, CellInit, EepromInv, Bytes

(* The controller does not change the module but by packets.                 *)
LEMMA OnlyPacketsReach == [Next]_vars => CellNext \/ UNCHANGED cell
  BY DEF Next, CellNext, Controller, Start, Page, Button, Module, LoadConfiguration,
     LoadWiFiConfig, WriteCard, PutWifi, CardWritten, WriteTerminal, WriteSoftAP,
     RestartWithWifi, Restart,
     SaveStorage, SaveInfluxDBSetting, SaveDisplaySetting, SaveNTP, SaveMQTTSetting,
     SaveVictron, SaveRuleConfiguration, Assign, SaveGlobalSetting, Check, PutBytes,
     PutChecksum, SaveWifiConfigToSDCard,
     Press, FourSeconds, Release, SwapGPIO0ToOutput, FactoryReset, StopLogging,
     TerminalBasedWifiSetup, HandleSave, StartRunning, RestartController, SaveSetting,
     ModuleLosesPower, ControllerVars, vars

(* The bytes that were written agree with the settings, and a write that is  *)
(* complete leaves both and their checksum.                                  *)
LEMMA EepromStep == EepromInv /\ [Next]_vars => EepromInv'
<1> SUFFICES ASSUME EepromInv, [Next]_vars PROVE EepromInv'
  OBVIOUS
<1>0. config \in Stores /\ eeprom \in Stores /\ at \in 0 .. 5
  BY DEF EepromInv
<1>1. ASSUME NEW bytes, Write(bytes) PROVE EepromInv'
  <2>1. config' \in Stores
    BY <1>0, <1>1 DEF Write, Stores
  <2>2. at' = 1 /\ eeprom' = eeprom
    BY <1>1 DEF Write
  <2> QED BY <1>0, <2>1, <2>2 DEF EepromInv, Bytes
<1>2. CASE WriteByte
  <2>1. eeprom' \in Stores /\ config' = config /\ at' = at + 1 /\ at \in 1 .. 4
    BY <1>0, <1>2 DEF WriteByte, Stores, Bytes
  <2>2. ASSUME NEW b \in Bytes, b < at + 1 PROVE eeprom'[b] = config[b]
    BY <1>0, <1>2, <2>2 DEF WriteByte, EepromInv, Stores, Bytes
  <2> QED BY <1>0, <2>1, <2>2 DEF EepromInv
<1>3. CASE WriteChecksum
  <2>1. eeprom = config
    BY <1>0, <1>3 DEF WriteChecksum, EepromInv, Stores, Bytes
  <2> QED BY <1>0, <1>3, <2>1 DEF WriteChecksum, EepromInv, Bytes
<1>4. CASE PowerCut
  <2>1. config' \in Stores /\ at' = 0 /\ UNCHANGED <<eeprom, checksum>>
    BY <1>0, <1>4, ReadType DEF PowerCut
  <2>2. written' # Never => at = 0 /\ written' = written
    BY <1>4 DEF PowerCut
  <2> QED BY <1>0, <2>1, <2>2 DEF EepromInv, Bytes
<1>5. CASE UNCHANGED cell
  BY <1>5 DEF cell, EepromInv
<1> QED BY <1>1, <1>2, <1>3, <1>4, <1>5, OnlyPacketsReach DEF CellNext, WriteSettings, WritePIDconfig

(* A module that loses its power between two writes has its settings back.   *)
THEOREM ModuleSettingsSurvive == Spec => ModuleKeepsSettings
<1> DEFINE Kept == PowerCut /\ at = 0 /\ written # Never
                     => config' = ValidateConfiguration(written)
<1>1. EepromInv => [Kept]_cell
  BY DEF EepromInv, PowerCut, Read
<1> QED BY <1>1, EepromInit, EepromStep, PTL DEF Spec, ModuleKeepsSettings

-----------------------------------------------------------------------------
(* The types.                                                                *)

(* Packets and power cuts that come no more often than the bounds allow.     *)
EepromTypes ==
  /\ checksum \in Stores /\ written \in Stores
  /\ writes \in 0 .. MaxWrites /\ cuts \in 0 .. MaxCuts

LEMMA EepromTyped == EepromInv /\ EepromTypes /\ [Next]_vars => EepromTypes'
<1> SUFFICES ASSUME EepromInv, EepromTypes, [Next]_vars PROVE EepromTypes'
  OBVIOUS
<1>1. config \in Stores /\ Never \in Stores /\ MaxWrites \in Nat /\ MaxCuts \in Nat
  BY CellAssumption DEF EepromInv, Never, Stores
<1>2. ASSUME NEW bytes, Write(bytes) PROVE EepromTypes'
  BY <1>1, <1>2 DEF Write, EepromTypes
<1>3. CASE WriteByte
  BY <1>3 DEF WriteByte, EepromTypes
<1>4. CASE WriteChecksum
  BY <1>1, <1>4 DEF WriteChecksum, EepromTypes
<1>5. CASE PowerCut
  BY <1>1, <1>5 DEF PowerCut, EepromTypes
<1>6. CASE UNCHANGED cell
  BY <1>6 DEF cell, EepromTypes
<1> QED BY <1>2, <1>3, <1>4, <1>5, <1>6, OnlyPacketsReach DEF CellNext, WriteSettings, WritePIDconfig

(* The start of the controller, its WiFi details and its button.             *)
Details == Networks \cup {None}
StartTypes ==
  /\ page \in {"idle", "assigned", "checked", "block"}
  /\ wifi \in Details /\ card \in Details /\ wifiNvs \in [bytes : Details, checksum : Details]
  /\ writing \in {"no", "block", "done"}
  /\ state \in {"start", "wifi", "terminal", "card", "softAP", "Stabilizing", "Running"}
  /\ button \in {"up", "down", "held"} /\ ResetWifi \in BOOLEAN /\ torn \in BOOLEAN
  /\ pin \in {"input", "output"} /\ clearTime \in {"zero", "set"}
  /\ saves \in 0 .. MaxSaves /\ restarts \in 0 .. MaxRestarts /\ presses \in 0 .. MaxPresses

LEMMA StartTyped == StartTypes /\ [Next]_vars => StartTypes'
<1> SUFFICES ASSUME StartTypes, [Next]_vars PROVE StartTypes'
  OBVIOUS
<1> USE SettingsAssumption DEF StartTypes
<1>1. ASSUME NEW field, NEW value, Assign(field, value) PROVE StartTypes'
  BY <1>1 DEF Assign, network, boot
<1>2. CASE SaveStorage \/ SaveInfluxDBSetting \/ SaveDisplaySetting \/ SaveNTP \/ SaveMQTTSetting
           \/ SaveVictron \/ SaveRuleConfiguration
  BY <1>1, <1>2 DEF SaveStorage, SaveInfluxDBSetting, SaveDisplaySetting, SaveNTP,
     SaveMQTTSetting, SaveVictron, SaveRuleConfiguration
<1>3. CASE SaveGlobalSetting \/ Check \/ PutBytes
  <2>1. CASE SaveGlobalSetting
    BY <2>1 DEF SaveGlobalSetting, network, boot
  <2>2. CASE Check
    BY <2>2 DEF Check, network, boot
  <2>3. CASE PutBytes
    BY <2>3 DEF PutBytes, network, boot
  <2> QED BY <1>3, <2>1, <2>2, <2>3
<1>4. CASE PutChecksum
  <2>1. torn' \in BOOLEAN
    <3>1. torn' = (ram # nvs.bytes)
      BY <1>4 DEF PutChecksum
    <3> QED BY <3>1, Zenon
  <2> QED BY <1>4, <2>1 DEF PutChecksum, network, boot
<1>5. CASE StopLogging \/ LoadConfiguration
  BY <1>5 DEF StopLogging, LoadConfiguration, network, boot
<1>6. CASE LoadWiFiConfig
  <2>1. wifi' \in Details
    BY <1>6 DEF LoadWiFiConfig, Loaded
  <2> QED BY <1>6, <2>1 DEF LoadWiFiConfig, storage, boot
<1>7. ASSUME NEW details \in Details, PutWifi(details, details), UNCHANGED wifi PROVE StartTypes'
  BY <1>7 DEF PutWifi, storage, boot
<1>8. CASE WriteCard \/ WriteTerminal \/ WriteSoftAP
  BY <1>7, <1>8 DEF WriteCard, WriteTerminal, WriteSoftAP
<1>9. CASE CardWritten \/ TerminalBasedWifiSetup
  BY <1>9 DEF CardWritten, TerminalBasedWifiSetup, Details, storage, boot
<1>10. CASE HandleSave
  BY <1>10 DEF HandleSave, Details, storage, boot
<1>11. CASE StartRunning \/ SaveWifiConfigToSDCard
  BY <1>11 DEF StartRunning, SaveWifiConfigToSDCard, storage, network, boot
<1>12. CASE RestartController \/ RestartWithWifi
  <2>1. /\ state' = "start" /\ page' = "idle" /\ writing' = "no" /\ wifi' = None
        /\ ResetWifi' = FALSE /\ pin' = "input" /\ clearTime' = "zero"
        /\ UNCHANGED <<torn, wifiNvs, card, button, presses, saves>>
    BY <1>12 DEF RestartController, RestartWithWifi, Restart
  <2>2. restarts' \in 0 .. MaxRestarts
    BY <1>12 DEF RestartController, RestartWithWifi
  <2>3. None \in Details
    BY DEF Details
  <2> QED BY <2>1, <2>2, <2>3
<1>13. CASE Press \/ FourSeconds \/ Release
  <2>1. CASE Press
    <3>1. presses' \in 0 .. MaxPresses
      BY <2>1 DEF Press
    <3>2. /\ button' = "down" /\ pin' = pin /\ state' = state
          /\ UNCHANGED <<storage, network, saves, restarts>>
      BY <2>1 DEF Press
    <3>3. CASE pin = "input"
      <4>1. clearTime' = "set" /\ ResetWifi' = FALSE
        BY <2>1, <3>3 DEF Press
      <4> QED BY <3>1, <3>2, <4>1 DEF storage, network
    <3>4. CASE pin # "input"
      <4>1. UNCHANGED <<clearTime, ResetWifi>>
        BY <2>1, <3>4 DEF Press
      <4> QED BY <3>1, <3>2, <4>1 DEF storage, network
    <3> QED BY <3>3, <3>4
  <2>2. CASE FourSeconds
    BY <2>2 DEF FourSeconds, storage, network
  <2>3. CASE Release
    BY <2>3 DEF Release, storage, network
  <2> QED BY <1>13, <2>1, <2>2, <2>3
<1>14. CASE SwapGPIO0ToOutput
  BY <1>14 DEF SwapGPIO0ToOutput, storage, network
<1>15. CASE FactoryReset
  <2>1. Stored(None) \in [bytes : Details, checksum : Details]
    BY DEF Stored, Details
  <2>2. wifiNvs' = Stored(None) /\ ResetWifi' = FALSE
    BY <1>15 DEF FactoryReset
  <2>3. UNCHANGED <<storage, wifi, writing, card, state, button, pin, clearTime, presses, saves, restarts>>
    BY <1>15 DEF FactoryReset
  <2> QED BY <2>1, <2>2, <2>3 DEF storage
<1>16. CASE SaveSetting \/ ModuleLosesPower
  BY <1>16 DEF SaveSetting, ModuleLosesPower, storage, network, boot
<1>17. CASE UNCHANGED ControllerVars
  BY <1>17 DEF ControllerVars, storage, network, boot
<1> QED BY <1>2, <1>3, <1>4, <1>5, <1>6, <1>8, <1>9, <1>10, <1>11, <1>12, <1>13, <1>14, <1>15,
     <1>16, <1>17 DEF Next, Controller, Start, Page, Button, Module, ControllerVars, vars

(* The settings stay settings, and a module's stay what packets brought, the *)
(* defaults or the limit of the temperature (validateConfiguration).         *)
THEOREM SettingsTyped == Spec => []TypeOK
<1> DEFINE Types == PageInv /\ EepromInv /\ EepromTypes /\ StartTypes
<1>1. Init => Types
  <2> SUFFICES ASSUME Init PROVE Types
    OBVIOUS
  <2>1. EepromTypes
    BY CellAssumption DEF Init, CellInit, EepromTypes, Never, Default, Stores
  <2>2. StartTypes
    <3>1. None \in Details /\ card \in Details /\ Stored(None) \in [bytes : Details, checksum : Details]
      BY DEF Init, Details, Stored
    <3>2. 0 \in 0 .. MaxSaves /\ 0 \in 0 .. MaxRestarts /\ 0 \in 0 .. MaxPresses
      BY SettingsAssumption
    <3>3. ResetWifi \in BOOLEAN /\ torn \in BOOLEAN
      BY DEF Init
    <3> QED BY <3>1, <3>2, <3>3 DEF Init, StartTypes
  <2> QED BY <2>1, <2>2, PageInit, EepromInit
<1>2. Types /\ [Next]_vars => Types'
  BY PageStep, EepromStep, EepromTyped, StartTyped
<1>3. Types => TypeOK
  <2> SUFFICES ASSUME Types PROVE TypeOK
    OBVIOUS
  <2>1. CellTypeOK
    BY DEF CellTypeOK, EepromInv, EepromTypes, Stores
  <2> QED BY <2>1 DEF TypeOK, PageInv, StartTypes, Details
<1> QED BY <1>1, <1>2, <1>3, PTL DEF Spec
=============================================================================
