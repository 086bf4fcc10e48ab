----------------------------- MODULE CellSettings -----------------------------
(***************************************************************************)
(* The settings of a cell module in its EEPROM.  They are written byte by  *)
(* byte, then their checksum; power may fail in between.  setup() reads    *)
(* them back and falls back to the defaults when the checksum is wrong.    *)
(* A checksum is the record it was computed from: it has no collisions.    *)
(***************************************************************************)
EXTENDS Integers

CONSTANTS
  Values,      \* values of a byte that a packet brings
  Cutoff,      \* DIYBMS_MODULE_SafetyTemperatureCutoff
  Blank,       \* an EEPROM byte that was never written (0xFF)
  MaxWrites, MaxCuts     \* bounds: packets that write, power cuts

ASSUME CellAssumption ==
  /\ Values \subseteq Nat /\ Cutoff \in Nat /\ Blank \in Nat \ Values
  /\ MaxWrites \in Nat /\ MaxCuts \in Nat

(* The bypass temperature, the two bytes of the threshold, the PID's gains. *)
Bytes == 1 .. 4
SettingBytes == 1 .. 3

VARIABLES
  config,      \* myConfig
  eeprom,      \* the bytes of the settings
  checksum,    \* what follows them
  at,          \* the byte that is written next; 0: none
  writes, cuts,
  written      \* the settings that were written last, if completely (history)

cell == <<config, eeprom, checksum, at, writes, cuts, written>>

Default == [b \in Bytes |-> 0]
Never == [b \in Bytes |-> Blank]

CellTypeOK ==
  /\ {config, eeprom, checksum, written} \subseteq [Bytes -> Values \cup {0, Blank, Cutoff}]
  /\ at \in 0 .. 5 /\ writes \in 0 .. MaxWrites /\ cuts \in 0 .. MaxCuts

ValidateConfiguration(c) == [c EXCEPT ![1] = IF @ > Cutoff THEN Cutoff ELSE @]

(* After a wrong checksum the older format, without the PID's gains, is    *)
(* tried over the defaults, and what is read stays whatever its checksum.  *)
Read(stored, sum) ==
  IF sum = stored THEN stored
  ELSE [b \in Bytes |-> IF b \in SettingBytes THEN stored[b] ELSE Default[b]]

CellInit ==
  /\ eeprom = Never /\ checksum = Default
  /\ config = ValidateConfiguration(Read(eeprom, checksum))
  /\ at = 0 /\ writes = 0 /\ cuts = 0 /\ written = Never

Write(bytes) ==
  /\ at = 0 /\ writes < MaxWrites
  /\ \E v \in Values : config' = [b \in Bytes |-> IF b \in bytes THEN v ELSE config[b]]
  /\ at' = 1 /\ writes' = writes + 1
  /\ UNCHANGED <<eeprom, checksum, cuts, written>>

WriteSettings == Write(SettingBytes)
WritePIDconfig == Write(Bytes \ SettingBytes)

\* seeded fault: the last byte is left out
WriteByte_Short ==
  /\ at \in Bytes
  /\ eeprom' = [eeprom EXCEPT ![at] = config[at]]
  /\ at' = IF at = 3 THEN 5 ELSE at + 1
  /\ UNCHANGED <<config, checksum, writes, cuts, written>>
WriteByte ==
  /\ at \in Bytes
  /\ eeprom' = [eeprom EXCEPT ![at] = config[at]]
  /\ at' = at + 1
  /\ UNCHANGED <<config, checksum, writes, cuts, written>>

(* The checksum completes the write; the settings are then read back.      *)
WriteChecksum ==
  /\ at = 5
  /\ checksum' = config /\ at' = 0
  /\ config' = eeprom /\ written' = config
  /\ UNCHANGED <<eeprom, writes, cuts>>

PowerCut ==
  /\ cuts < MaxCuts /\ cuts' = cuts + 1
  /\ config' = ValidateConfiguration(Read(eeprom, checksum))
  /\ at' = 0 /\ written' = IF at = 0 THEN written ELSE Never
  /\ UNCHANGED <<eeprom, checksum, writes>>

CellNext == WriteSettings \/ WritePIDconfig \/ WriteByte \/ WriteChecksum \/ PowerCut

-----------------------------------------------------------------------------
(* A module that lost its power while it was not writing has its settings  *)
(* back, the temperature within its limit (setup(), settings.cpp), unless  *)
(* an earlier cut came in the middle of a write.                           *)
ModuleKeepsSettings ==
  [][PowerCut /\ at = 0 /\ written # Never
       => config' = ValidateConfiguration(written)]_cell
=============================================================================
