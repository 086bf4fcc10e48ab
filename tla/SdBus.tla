-------------------------------- MODULE SdBus --------------------------------
(***************************************************************************)
(* The VSPI bus of the ESP32 controller: the SD card and the AVR           *)
(* programmer share it under xVSPIMutex.  Four tasks use it: the log of    *)
(* the cells, the log of the outputs, the web server (one task, so one     *)
(* request at a time) and the programmer.                                  *)
(*                                                                         *)
(* A task at "take" waits at most 50 ms for the mutex, one at "held" is in *)
(* the section behind it.  One step ends a section; it may last as long as *)
(* the accesses of the other tasks need.                                   *)
(***************************************************************************)
EXTENDS AvrProgrammer, FiniteSets

CONSTANTS Images,    \* the manifest: a sequence of [image, fuse]
          Faults     \* what may go wrong while a chip is programmed

ASSUME ManifestAssumption ==
  /\ Images \in Seq([image : Seq(0 .. Erased), fuse : Nat])
  /\ Faults \subseteq Fault
\* An image of one byte would be followed by a byte nobody has set, and the
\* page loop does not end with an image its counter cannot hold.
ASSUME ImageAssumption ==
  \A n \in DOMAIN Images : Len(Images[n].image) # 1 /\ CounterHolds(Images[n].image)

Loggers == {"log", "outputs"}
Task == Loggers \cup {"web", "avr"}
Blank == [flash |-> [a \in Address |-> Erased], fuse |-> 0]
Request == 0 .. Len(Images)          \* 0: an entry the manifest does not have
Fuse(n) == IF n \in DOMAIN Images THEN Images[n].fuse ELSE 0

VARIABLES
  bus,            \* the holder of xVSPIMutex, or "none"
  pc,             \* where each task is
  doing,          \* what the section of web and avr is for
  op,             \* the request the web server is handling
  card,           \* SD.begin() was called, SD.end() was not
  installed,      \* _sd_card_installed
  progMode,       \* _avrsettings.programmingModeEnabled
  inProgress,     \* _avrsettings.inProgress
  request,        \* the entry _avrsettings was filled from
  result,         \* _avrsettings.progresult; "unknown" is 0xFF
  old,            \* old_sd_card_installed of avrprog_task
  opened,         \* the entry whose file avrprog_task has open
  passed,         \* the entry whose fuses it has passed to the programmer
  logging,        \* mysettings.loggingEnabled
  chip,           \* the module in the programming socket: [flash, fuse]
  interrupted,    \* programming mode was left during an attempt (history)
  overlap         \* what avrprog_task was busy with at the last request (history)

avrsettings == <<progMode, inProgress, request, result>>
job == <<old, opened, passed>>          \* locals of avrprog_task
sd == <<card, installed>>
history == <<interrupted, overlap>>
vars == <<bus, pc, doing, op, sd, avrsettings, job, logging, chip, history>>

TypeOK ==
  /\ bus \in Task \cup {"none"} /\ op \in {"none", "enable", "list", "other"}
  /\ pc \in [Task -> {"idle", "notified", "open", "take", "held", "isp", "give", "flag", "done", "end"}]
  /\ doing \in [{"web", "avr"} -> {"mount", "unmount", "card", "program"}]
  /\ {card, installed, progMode, inProgress, old, logging} \subseteq BOOLEAN
  /\ interrupted \in BOOLEAN /\ overlap \in {"none", "attempt", "mount"}
  /\ {request, opened, passed} \subseteq Request /\ chip \in [flash : [Address -> 0 .. Erased], fuse : Nat]
  /\ result \in {"unknown", "SUCCESS", "FAILED_ENTER_PROG_MODE", "WRONG_DEVICE_ID",
                 "INCORRECT_PAGE_CONFIG", "COMMIT_FAIL", "FAIL_VERIFY", "FAIL_PROG_FUSE"}

(* setup(): the card is mounted if there is one.                           *)
Init ==
  /\ bus = "none" /\ pc = [t \in Task |-> "idle"]
  /\ doing = [web |-> "card", avr |-> "mount"] /\ op = "none" /\ old = FALSE
  /\ card \in BOOLEAN /\ installed = card
  /\ progMode = FALSE /\ inProgress = FALSE /\ request = 0 /\ result = "unknown"
  /\ opened = 0 /\ passed = 0 /\ interrupted = FALSE /\ overlap = "none"
  /\ logging \in BOOLEAN /\ chip = Blank

-----------------------------------------------------------------------------
(* The mutex.  A task that gives it without having taken it gives away     *)
(* that of another, or stops the controller when the assertions of the     *)
(* library are compiled in.                                                *)
ReleaseVSPIMutex == bus' = "none"

GetVSPIMutex(t) ==
  /\ pc[t] = "take" /\ bus = "none"
  /\ bus' = t /\ pc' = [pc EXCEPT ![t] = "held"]
  /\ UNCHANGED <<doing, op, sd, avrsettings, job, logging, chip, history>>

(* Where web and avr go on after their section, entered or not.            *)
Onward(t) == CASE t = "web" -> "done"
               [] t = "avr" /\ doing[t] = "unmount" -> "open"
               [] t = "avr" /\ doing[t] = "program" -> "end"
               [] OTHER -> "idle"

(* 50 ms without the mutex: the loggers nevertheless give it.              *)
MutexTimeout_ClearsFlag(t) ==
  /\ pc[t] = "take" /\ bus # "none"
  /\ pc' = [pc EXCEPT ![t] = IF t \in Loggers THEN "give"
                             ELSE IF doing[t] = "unmount" THEN "flag" ELSE Onward(t)]
  /\ UNCHANGED <<bus, doing, op, sd, avrsettings, job, logging, chip, history>>
MutexTimeout(t) ==
  /\ pc[t] = "take" /\ bus # "none"
  /\ pc' = [pc EXCEPT ![t] = IF t \in Loggers THEN "give" ELSE Onward(t)]
  /\ UNCHANGED <<bus, doing, op, sd, avrsettings, job, logging, chip, history>>

(* mountSDCard() and unmountSDCard() between the checks and the release.   *)
MountSDCard(t) ==
  /\ pc[t] = "held" /\ doing[t] = "mount"
  /\ \E begin \in BOOLEAN :
       /\ card' = (card \/ begin)          \* begin() of a mounted card succeeds
       /\ installed' = (installed \/ card')
  /\ ReleaseVSPIMutex
  /\ pc' = [pc EXCEPT ![t] = Onward(t)]
  /\ UNCHANGED <<doing, op, avrsettings, job, logging, chip, history>>

UnmountSDCard(t) ==
  /\ pc[t] = "held" /\ doing[t] = "unmount"
  /\ card' = FALSE /\ ReleaseVSPIMutex
  /\ pc' = [pc EXCEPT ![t] = "flag"]
  /\ UNCHANGED <<doing, op, installed, avrsettings, job, logging, chip, history>>

CardUnmounted(t) ==
  /\ pc[t] = "flag" /\ installed' = FALSE
  /\ pc' = [pc EXCEPT ![t] = Onward(t)]
  /\ UNCHANGED <<bus, doing, op, card, avrsettings, job, logging, chip, history>>

-----------------------------------------------------------------------------
(* sdcardlog_task and sdcardlog_outputs_task.  The log of the cells looks  *)
(* whether the mutex is free, too; neither looks again once it has it.     *)
StartLog(t) ==
  /\ t \in Loggers /\ pc[t] = "idle"
  /\ installed /\ ~progMode /\ logging
  /\ t = "log" => bus = "none"
  /\ pc' = [pc EXCEPT ![t] = "take"]
  /\ UNCHANGED <<bus, doing, op, sd, avrsettings, job, logging, chip, history>>

(* Append to the day's file, or create it when more than 25 MiB are free.  *)
(* An unmounted card has no files and no room.  Only the log of the cells  *)
(* switches logging off, in RAM.                                           *)
SdCardLog ==
  /\ pc["log"] = "held"
  /\ \E exists, room \in BOOLEAN :
       logging' = (logging /\ card /\ (exists \/ room))
  /\ pc' = [pc EXCEPT !["log"] = "give"]
  /\ UNCHANGED <<bus, doing, op, sd, avrsettings, job, chip, history>>

SdCardLogOutputs ==
  /\ pc["outputs"] = "held"
  /\ pc' = [pc EXCEPT !["outputs"] = "give"]
  /\ UNCHANGED <<bus, doing, op, sd, avrsettings, job, logging, chip, history>>

EndLog(t) ==
  /\ pc[t] = "give" /\ ReleaseVSPIMutex
  /\ pc' = [pc EXCEPT ![t] = "idle"]
  /\ UNCHANGED <<doing, op, sd, avrsettings, job, logging, chip, history>>

-----------------------------------------------------------------------------
(* The web server.                                                         *)
Enter(what, kind) ==      \* a handler goes for the mutex
  /\ op' = what /\ doing' = [doing EXCEPT !["web"] = kind]
  /\ pc' = [pc EXCEPT !["web"] = "take"]

EnableAVRprog ==
  /\ pc["web"] = "idle"
  /\ IF installed THEN Enter("enable", "unmount") /\ UNCHANGED progMode
     ELSE progMode' = TRUE /\ UNCHANGED <<op, doing, pc>>
  /\ UNCHANGED <<bus, sd, inProgress, request, result, job, logging, chip, history>>

DisableAVRprog ==
  /\ pc["web"] = "idle"
  /\ progMode' = FALSE
  /\ interrupted' = (interrupted \/ inProgress \/ pc["avr"] # "idle")
  /\ Enter("other", "mount")
  /\ UNCHANGED <<bus, sd, inProgress, request, result, job, logging, chip, overlap>>

SdMount ==
  /\ pc["web"] = "idle" /\ ~progMode
  /\ Enter("other", "mount")
  /\ UNCHANGED <<bus, sd, avrsettings, job, logging, chip, history>>

SdUnmount ==
  /\ pc["web"] = "idle" /\ ~progMode /\ installed
  /\ Enter("other", "unmount")
  /\ UNCHANGED <<bus, sd, avrsettings, job, logging, chip, history>>

(* Requests that need a mounted card: the two saves write a file.  A       *)
(* download opens one; the library sends it after the release.             *)
CardRequest ==
  /\ pc["web"] = "idle" /\ installed
  /\ Enter("other", "card")
  /\ UNCHANGED <<bus, sd, avrsettings, job, logging, chip, history>>
SaveConfigurationToSDCard == CardRequest
SaveWifiConfigToSDCard == CardRequest
DownloadFile == CardRequest

(* The page on storage locks the bus for the totals, then for the list.    *)
Storage ==
  /\ pc["web"] = "idle"
  /\ Enter(IF installed THEN "list" ELSE "other", "card")
  /\ UNCHANGED <<bus, sd, avrsettings, job, logging, chip, history>>

AccessCard ==
  /\ pc["web"] = "held" /\ doing["web"] = "card"
  /\ ReleaseVSPIMutex
  /\ pc' = [pc EXCEPT !["web"] = "done"]
  /\ UNCHANGED <<doing, op, sd, avrsettings, job, logging, chip, history>>

EndRequest ==
  /\ pc["web"] = "done"
  /\ progMode' = (progMode \/ op = "enable")
  /\ IF op = "list" THEN Enter("other", "card")
     ELSE /\ op' = "none" /\ pc' = [pc EXCEPT !["web"] = "idle"]
          /\ doing' = [doing EXCEPT !["web"] = "card"]
  /\ UNCHANGED <<bus, sd, inProgress, request, result, job, logging, chip, history>>

(* The user puts a module into the socket and asks for an image.           *)
(* A notification without a value wakes a task that is waiting and is lost *)
(* on one that is not.                                                     *)
AvrProgrammer_Mounted(n) ==
  /\ pc["web"] = "idle" /\ progMode
  /\ request' = n /\ result' = "unknown" /\ inProgress' = TRUE
  /\ IF pc["avr"] = "idle"
     THEN chip' = Blank /\ pc' = [pc EXCEPT !["avr"] = "notified"]
     ELSE UNCHANGED <<chip, pc>>
  /\ overlap' = IF pc["avr"] = "idle" THEN "none"
                ELSE IF pc["avr"] \in {"take", "held"} /\ doing["avr"] = "mount"
                THEN "mount" ELSE "attempt"
  /\ UNCHANGED <<bus, doing, op, sd, progMode, job, logging, interrupted>>
AvrProgrammer(n) ==
  /\ pc["web"] = "idle" /\ ~installed /\ progMode
  /\ request' = n /\ result' = "unknown" /\ inProgress' = TRUE
  /\ IF pc["avr"] = "idle"
     THEN chip' = Blank /\ pc' = [pc EXCEPT !["avr"] = "notified"]
     ELSE UNCHANGED <<chip, pc>>
  /\ overlap' = IF pc["avr"] = "idle" THEN "none"
                ELSE IF pc["avr"] \in {"take", "held"} /\ doing["avr"] = "mount"
                THEN "mount" ELSE "attempt"
  /\ UNCHANGED <<bus, doing, op, sd, progMode, job, logging, interrupted>>

SaveStorage(on) ==
  /\ pc["web"] = "idle" /\ logging' = on
  /\ UNCHANGED <<bus, pc, doing, op, sd, avrsettings, job, chip, history>>

-----------------------------------------------------------------------------
(* avrprog_task.                                                           *)
StartProgramming ==
  /\ pc["avr"] = "notified" /\ old' = installed
  /\ doing' = [doing EXCEPT !["avr"] = "unmount"]
  /\ pc' = [pc EXCEPT !["avr"] = IF installed THEN "take" ELSE "open"]
  /\ UNCHANGED <<bus, op, sd, avrsettings, opened, passed, logging, chip, history>>

OpenFile ==
  /\ pc["avr"] = "open"
  /\ IF request \in DOMAIN Images
     THEN /\ doing' = [doing EXCEPT !["avr"] = "program"]
          /\ opened' = request /\ pc' = [pc EXCEPT !["avr"] = "take"]
     ELSE pc' = [pc EXCEPT !["avr"] = "end"] /\ UNCHANGED <<doing, opened>>
  /\ UNCHANGED <<bus, op, sd, avrsettings, old, passed, logging, chip, history>>

(* The programmer gets the settings by value, and the file.  It takes      *)
(* seconds; the web server goes on meanwhile.  An entry the manifest does  *)
(* not have names no device.                                               *)
Program ==
  /\ pc["avr"] = "held" /\ doing["avr"] = "program"
  /\ passed' = request
  /\ pc' = [pc EXCEPT !["avr"] = "isp"]
  /\ UNCHANGED <<bus, doing, op, sd, avrsettings, old, opened, logging, chip, history>>

Answered(fault) ==
  IF passed = 0 /\ fault.kind # "enter" THEN [kind |-> "device", at |-> 0] ELSE fault

Programmed ==
  /\ pc["avr"] = "isp"
  /\ \E fault \in Faults :
       LET end == ProgramAVRDevice(chip, Images[opened].image, Fuse(passed), Answered(fault))
       IN result' = end.result /\ chip' = [flash |-> end.flash, fuse |-> end.fuse]
  /\ ReleaseVSPIMutex
  /\ pc' = [pc EXCEPT !["avr"] = "end"]
  /\ UNCHANGED <<doing, op, sd, progMode, inProgress, request, job, logging, history>>

(* The card is mounted again if it was, unless programming mode is on.     *)
EndProgramming ==
  /\ pc["avr"] = "end" /\ inProgress' = FALSE
  /\ doing' = [doing EXCEPT !["avr"] = "mount"]
  /\ pc' = [pc EXCEPT !["avr"] = IF old /\ ~progMode THEN "take" ELSE "idle"]
  /\ old' = FALSE /\ opened' = 0 /\ passed' = 0          \* their scopes end
  /\ UNCHANGED <<bus, op, sd, progMode, request, result, logging, chip, history>>

(* Power is lost, or a give of another task's mutex fails its assertion.   *)
(* A half-written module is replaced or programmed again from the start.   *)
Restart ==
  /\ bus' = "none" /\ pc' = [t \in Task |-> "idle"]
  /\ doing' = [web |-> "card", avr |-> "mount"] /\ op' = "none" /\ old' = FALSE
  /\ \E found \in BOOLEAN : card' = found /\ installed' = found
  /\ progMode' = FALSE /\ inProgress' = FALSE /\ request' = 0 /\ result' = "unknown"
  /\ opened' = 0 /\ passed' = 0 /\ interrupted' = FALSE /\ overlap' = "none"
  /\ logging' \in BOOLEAN /\ chip' = Blank

Section(t) ==
  \/ GetVSPIMutex(t) \/ MutexTimeout(t)
  \/ t \in {"web", "avr"} /\ (MountSDCard(t) \/ UnmountSDCard(t) \/ CardUnmounted(t))
  \/ t \in Loggers /\ EndLog(t)

WebRequest ==
  \/ EnableAVRprog \/ DisableAVRprog \/ SdMount \/ SdUnmount
  \/ SaveConfigurationToSDCard \/ SaveWifiConfigToSDCard \/ DownloadFile \/ Storage
  \/ \E n \in Request : AvrProgrammer(n)
  \/ \E on \in BOOLEAN : SaveStorage(on)

(* What a task does once it has begun.                                     *)
Continue(t) ==
  \/ Section(t)
  \/ t = "log" /\ SdCardLog
  \/ t = "outputs" /\ SdCardLogOutputs
  \/ t = "web" /\ (AccessCard \/ EndRequest)
  \/ t = "avr" /\ (StartProgramming \/ OpenFile \/ Program \/ Programmed \/ EndProgramming)

Next ==
  \/ \E t \in Task : Continue(t)
  \/ \E t \in Loggers : StartLog(t)
  \/ WebRequest
  \/ Restart

(* The tasks run: what they have begun they go on with.  Nothing makes a   *)
(* log due, a request arrive or the power fail.                            *)
Fairness == \A t \in Task : WF_vars(Continue(t))

Spec == Init /\ [][Next]_vars /\ Fairness

-----------------------------------------------------------------------------
(* The programmer never drives the bus with the SD card mounted, unless    *)
(* programming mode was once left during an attempt: the checks of the     *)
(* requests, of mountSDCard() and of the task itself exclude it, whichever *)
(* of them did not get the mutex.  (Left during an attempt, the card may   *)
(* be mounted by one task while the other clears its flag.)                *)
ProgramsWithoutCard ==
  pc["avr"] = "isp" /\ ~interrupted => ~card

(* A success the page reports means that the module holds an image of the  *)
(* manifest, byte for byte, and fuses of the manifest; those of the entry  *)
(* the page asked for, unless another one was asked for meanwhile.  (Then  *)
(* image and fuses may even be of different entries.)                      *)
SuccessIsReal ==
  result = "SUCCESS" =>
    \E file, fuses \in DOMAIN Images :
      /\ HoldsImage(chip.flash, Images[file].image) /\ chip.fuse = Images[fuses].fuse
      /\ overlap = "none" => file = request /\ fuses = request

(* _sd_card_installed tells whether the card is mounted, except to a task  *)
(* that looks while unmountSDCard() has ended the card and not yet cleared *)
(* the flag, and after programming mode was left during an attempt.        *)
FlagTellsCard ==
  (\A t \in Task : pc[t] # "flag") /\ ~interrupted => installed = card


(* The log of the cells is switched off for want of room on a card, as its *)
(* message says ("SD card has less than 25MiB remaining, logging stopped", *)
(* sdcardlog_task).                                                        *)
LogStopsWhenFull == [][SdCardLog /\ logging /\ ~logging' => card]_vars
=============================================================================
