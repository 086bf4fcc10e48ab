---------------------------- MODULE SdBusProofs ----------------------------
(* Proofs about SdBus for any device, manifest and fault.                  *)
EXTENDS SdBus, SequenceTheorems, WellFoundedInduction, TLAPS

Places == {"idle", "notified", "open", "take", "held", "isp", "give", "flag", "done", "end"}

(* The tasks by name; none of them is the free mutex.                      *)
LEMMA TaskNames == /\ {"web", "avr", "log", "outputs"} = Task
                   /\ "none" \notin Task /\ "web" # "avr" /\ "log" # "outputs"
  BY DEF Task, Loggers

-----------------------------------------------------------------------------
(* The card and its flag.                                                  *)
(* The web server mounts or unmounts the card.                             *)
Changing == doing["web"] \in {"mount", "unmount"} /\ pc["web"] \in {"take", "held", "flag"}

(* The flags that say whether there is a card and who uses the bus.        *)
CardFlags == {card, installed, progMode, interrupted} \subseteq BOOLEAN

(* Unless programming mode was left during an attempt, an attempt runs in  *)
(* programming mode and without a card, nobody mounts or unmounts one      *)
(* meanwhile, and only the web server is ever between the two halves of    *)
(* unmounting.                                                             *)
CardInv ==
  /\ pc \in [Task -> Places] /\ doing \in [{"web", "avr"} -> {"mount", "unmount", "card", "program"}]
  /\ CardFlags
  /\ \A t \in Loggers : pc[t] \in {"idle", "take", "held", "give"}
  /\ pc["web"] \in {"idle", "take", "held", "flag", "done"}
  /\ ~interrupted =>
       /\ pc["avr"] # "idle" => progMode /\ ~installed /\ ~card /\ ~Changing
       /\ pc["avr"] \in {"idle", "notified", "open", "take", "held", "isp", "end"}
       /\ pc["avr"] \in {"take", "held"} => doing["avr"] = "program"
       /\ pc["web"] = "flag" => ~card
       /\ pc["web"] # "flag" => installed = card

(* At the start the card is mounted and nobody is at work.                 *)
LEMMA CardInit == Init => CardInv
<1> SUFFICES ASSUME Init PROVE CardInv
  OBVIOUS
<1>1. CardFlags
  BY Zenon DEF Init, CardFlags
<1>2. installed = card
  BY DEF Init
<1>3. doing = [t \in {"web", "avr"} |-> IF t = "web" THEN "card" ELSE "mount"]
  BY DEF Init
<1> QED BY <1>1, <1>2, <1>3, TaskNames DEF Init, CardInv, CardFlags, Changing, Places, Loggers

(* The flags stay Boolean.                                                 *)
LEMMA FlagsStep == CardFlags /\ [Next]_vars => CardFlags'
<1> SUFFICES ASSUME CardFlags, [Next]_vars PROVE CardFlags'
  OBVIOUS
<1>1. ASSUME NEW t \in Task, MountSDCard(t) PROVE CardFlags'
  <2>1. PICK begin \in BOOLEAN : card' = (card \/ begin) /\ installed' = (installed \/ card')
    BY <1>1 DEF MountSDCard
  <2>2. card' \in BOOLEAN /\ installed' \in BOOLEAN
    BY <2>1, Zenon
  <2> QED BY <1>1, <2>2 DEF MountSDCard, avrsettings, history, CardFlags
<1>2. CASE DisableAVRprog
  <2>1. interrupted' \in BOOLEAN
    <3>1. interrupted' = (interrupted \/ inProgress \/ pc["avr"] # "idle")
      BY <1>2 DEF DisableAVRprog
    <3> QED BY <3>1, Zenon
  <2> QED BY <1>2, <2>1 DEF DisableAVRprog, sd, CardFlags
<1>3. CASE EndRequest
  <2>1. progMode' \in BOOLEAN
    <3>1. progMode' = (progMode \/ op = "enable")
      BY <1>3 DEF EndRequest
    <3> QED BY <3>1, Zenon
  <2> QED BY <1>3, <2>1 DEF EndRequest, sd, history, CardFlags
<1>4. CASE UNCHANGED vars
  BY <1>4 DEF vars, sd, avrsettings, history, CardFlags
<1>5. CASE ~(\E t \in Task : MountSDCard(t)) /\ ~DisableAVRprog /\ ~EndRequest /\ Next
  BY <1>5 DEF Next, Section, GetVSPIMutex, MutexTimeout, UnmountSDCard, CardUnmounted, EndLog,
     StartLog, SdCardLog, SdCardLogOutputs, WebRequest, EnableAVRprog, SdMount, SdUnmount,
     CardRequest, SaveConfigurationToSDCard, SaveWifiConfigToSDCard, DownloadFile, Storage,
     AvrProgrammer, SaveStorage, AccessCard, StartProgramming, OpenFile, Program, Programmed,
     EndProgramming, Restart, Continue, sd, avrsettings, history, CardFlags
<1> QED BY <1>1, <1>2, <1>3, <1>4, <1>5

(* Each task stays on its way through the sections.                        *)
LEMMA CardStep == CardInv /\ [Next]_vars => CardInv'
<1> SUFFICES ASSUME CardInv, [Next]_vars PROVE CardInv'
  OBVIOUS
<1>0. CardFlags'
  BY FlagsStep DEF CardInv
<1> USE <1>0, TaskNames DEF CardInv, CardFlags, Places, Changing, Loggers
<1>1. ASSUME NEW t \in Task, Section(t) PROVE CardInv'
  <2>0. /\ Onward("web") = "done" /\ Onward("avr") \in {"open", "end", "idle"}
        /\ doing["avr"] = "program" => Onward("avr") = "end"
    BY DEF Onward
  <2>a. t = "web" \/ t = "avr" \/ t \in Loggers
    BY DEF Task
  <2>1. CASE GetVSPIMutex(t)
    BY <2>1 DEF GetVSPIMutex, sd, avrsettings, history
  <2>2. CASE MutexTimeout(t)
    <3>1. CASE t = "web"
      <4>1. pc' = [pc EXCEPT !["web"] = "done"]
        BY <2>0, <2>2, <3>1 DEF MutexTimeout
      <4> QED BY <2>2, <3>1, <4>1 DEF MutexTimeout, sd, avrsettings, history
    <3>2. CASE t = "avr"
      <4>1. /\ pc' = [pc EXCEPT !["avr"] = Onward("avr")] /\ pc["avr"] = "take"
            /\ UNCHANGED <<doing, card, installed, progMode, interrupted>>
        BY <2>2, <3>2 DEF MutexTimeout, sd, avrsettings, history
      <4> QED BY <2>0, <4>1
    <3>3. CASE t \in Loggers
      BY <2>2, <3>3 DEF MutexTimeout, sd, avrsettings, history
    <3> QED BY <2>a, <3>1, <3>2, <3>3
  <2>3. CASE t \in {"web", "avr"} /\ MountSDCard(t)
    <3>1. PICK begin \in BOOLEAN : card' = (card \/ begin) /\ installed' = (installed \/ card')
      BY <2>3 DEF MountSDCard
    <3>2. installed = card => installed' = card'
      BY <3>1, Zenon
    <3>3. /\ pc[t] = "held" /\ doing[t] = "mount" /\ pc' = [pc EXCEPT ![t] = Onward(t)]
          /\ UNCHANGED <<doing, progMode, interrupted>>
      BY <2>3 DEF MountSDCard, avrsettings, history
    <3>4. CASE t = "web"
      BY <2>0, <3>2, <3>3, <3>4
    <3>5. CASE t = "avr"
      BY <2>0, <3>3, <3>5
    <3> QED BY <2>a, <2>3, <3>4, <3>5 DEF MountSDCard
  <2>4. CASE t \in {"web", "avr"} /\ UnmountSDCard(t)
    <3>1. /\ pc[t] = "held" /\ doing[t] = "unmount" /\ pc' = [pc EXCEPT ![t] = "flag"]
          /\ card' = FALSE /\ UNCHANGED <<doing, installed, progMode, interrupted>>
      BY <2>4 DEF UnmountSDCard, avrsettings, history
    <3>2. CASE t = "web"
      BY <3>1, <3>2
    <3>3. CASE t = "avr"
      BY <3>1, <3>3
    <3> QED BY <2>a, <2>4, <3>2, <3>3 DEF UnmountSDCard
  <2>5. CASE CardUnmounted(t)
    <3>1. /\ pc[t] = "flag" /\ pc' = [pc EXCEPT ![t] = Onward(t)]
          /\ installed' = FALSE /\ UNCHANGED <<doing, card, progMode, interrupted>>
      BY <2>5 DEF CardUnmounted, avrsettings, history
    <3>2. CASE t = "web"
      BY <2>0, <3>1, <3>2
    <3>3. CASE t = "avr"
      BY <2>0, <3>1, <3>3
    <3> QED BY <2>a, <3>1, <3>2, <3>3
  <2>6. CASE t \in Loggers /\ EndLog(t)
    BY <2>6 DEF EndLog, sd, avrsettings, history
  <2> QED BY <1>1, <2>1, <2>2, <2>3, <2>4, <2>5, <2>6 DEF Section
<1>2. ASSUME NEW t \in Loggers, StartLog(t) PROVE CardInv'
  BY <1>2 DEF StartLog, sd, avrsettings, history
<1>3. CASE SdCardLog \/ SdCardLogOutputs
  BY <1>3 DEF SdCardLog, SdCardLogOutputs, sd, avrsettings, history
<1>4. CASE WebRequest
  <2>1. CASE EnableAVRprog
    BY <2>1 DEF EnableAVRprog, Enter, sd, history
  <2>2. CASE DisableAVRprog
    BY <2>2 DEF DisableAVRprog, Enter, sd
  <2>3. CASE SdMount \/ SdUnmount
    BY <2>3 DEF SdMount, SdUnmount, Enter, sd, avrsettings, history
  <2>4. CASE CardRequest \/ Storage
    BY <2>4 DEF CardRequest, Storage, Enter, sd, avrsettings, history
  <2>5. ASSUME NEW n \in Request, AvrProgrammer(n) PROVE CardInv'
    BY <2>5 DEF AvrProgrammer, sd
  <2>6. ASSUME NEW on \in BOOLEAN, SaveStorage(on) PROVE CardInv'
    BY <2>6 DEF SaveStorage, sd, avrsettings, history
  <2> QED
    BY <1>4, <2>1, <2>2, <2>3, <2>4, <2>5, <2>6
    DEF WebRequest, SaveConfigurationToSDCard, SaveWifiConfigToSDCard, DownloadFile
<1>5. CASE AccessCard
  BY <1>5 DEF AccessCard, sd, avrsettings, history
<1>6. CASE EndRequest
  BY <1>6 DEF EndRequest, Enter, sd, history
<1>7. CASE StartProgramming \/ OpenFile
  BY <1>7 DEF StartProgramming, OpenFile, sd, avrsettings, history
<1>8. CASE Program \/ Programmed
  BY <1>8 DEF Program, Programmed, sd, avrsettings, history
<1>9. CASE EndProgramming
  BY <1>9 DEF EndProgramming, sd, history
<1>10. CASE Restart
  BY <1>10 DEF Restart
<1>11. CASE UNCHANGED vars
  BY <1>11 DEF vars, sd, avrsettings, history
<1> QED
  BY <1>1, <1>2, <1>3, <1>4, <1>5, <1>6, <1>7, <1>8, <1>9, <1>10, <1>11 DEF Next, Continue

(* The flag tells of the card but for the moment between the halves of     *)
(* unmounting.                                                             *)
THEOREM FlagIsTrue == Spec => []FlagTellsCard
<1>1. CardInv => FlagTellsCard
  BY TaskNames DEF CardInv, FlagTellsCard
<1> QED BY <1>1, CardInit, CardStep, PTL DEF Spec

(* The programmer has the bus without a card.                              *)
THEOREM NoCardWhileProgramming == Spec => []ProgramsWithoutCard
<1>1. CardInv => ProgramsWithoutCard
  BY DEF CardInv, CardFlags, ProgramsWithoutCard
<1> QED BY <1>1, CardInit, CardStep, PTL DEF Spec

-----------------------------------------------------------------------------
(* What is in the flash are bytes: the page that was last written to an    *)
(* address of the device exists when any was.                              *)
LEMMA LastOf ==
  ASSUME NEW n \in Int, NEW S \in SUBSET (0 .. n), S # {}
  PROVE  \E p \in S : \A q \in S : q <= p
<1> DEFINE Less == OpToRel(<, Nat)
           T == {n - p : p \in S}
<1>1. IsWellFoundedOn(Less, Nat)
  BY NatLessThanWellFounded
<1>2. \A x, y \in Nat : y < x => <<y, x>> \in Less
  BY DEF OpToRel
<1>3. T \in SUBSET Nat /\ T # {}
  <2>1. \A p \in S : n - p \in Nat
    OBVIOUS
  <2> QED BY <2>1
<1> HIDE DEF Less, T
<1>4. PICK x \in T : \A y \in T : ~ (<<y, x>> \in Less)
  BY <1>1, <1>3, WFMin
<1>5. \A y \in T : x <= y
  <2>1. x \in Nat /\ \A y \in T : y \in Nat /\ ~(y < x)
    BY <1>2, <1>3, <1>4
  <2> QED BY <2>1
<1>6. PICK p \in S : x = n - p
  BY <1>4 DEF T
<1>7. ASSUME NEW q \in S PROVE q <= p
  <2>1. n - q \in T
    BY DEF T
  <2> QED BY <1>5, <1>6, <2>1
<1> QED BY <1>7

(* What is sent is a byte, for an image of any length but one.             *)
LEMMA SentTyped ==
  ASSUME NEW image \in Seq(0 .. Erased), Len(image) # 1, NEW at \in Nat
  PROVE  SentByte(image, at) \in 0 .. Erased
<1>1. CASE at < Len(image)
  <2>1. at + 1 \in 1 .. Len(image)
    BY <1>1
  <2> QED BY <1>1, <2>1, ElementOfSeq DEF SentByte
<1>2. CASE at = Len(image) /\ at % 2 = 1
  <2>1. at # 0
    BY <1>2
  <2>2. at - 1 \in 1 .. Len(image)
    BY <1>2, <2>1
  <2>3. SentByte(image, at) = image[at - 1]
    <3>1. ~(at < Len(image))
      BY <1>2
    <3> QED BY <1>2, <3>1 DEF SentByte
  <2>4. image[at - 1] \in 0 .. Erased
    BY <2>2, ElementOfSeq
  <2> QED BY <2>3, <2>4
<1>3. CASE ~(at < Len(image)) /\ ~(at = Len(image) /\ at % 2 = 1)
  BY <1>3 DEF SentByte, Erased
<1> QED BY <1>1, <1>2, <1>3

LEMMA WrittenTyped ==
  ASSUME NEW image \in Seq(0 .. Erased), Len(image) # 1, NEW committed \in Int,
         NEW a \in Address
  PROVE  WrittenAt(image, committed, a) \in 0 .. Erased
<1> DEFINE last == committed - 1
           pages == {p \in 0 .. last : p % NUMBER_OF_PAGES = a \div PageBytes}
           page == CHOOSE p \in pages : \A q \in pages : q <= p
           from == (page * PageBytes) + (a % PageBytes)
<1>1. PageBytes \in Nat \ {0}
  BY GeometryAssumption DEF PageBytes
<1>2. last \in Int
  OBVIOUS
<1>3. WrittenAt(image, committed, a) = IF pages = {} THEN Erased ELSE SentByte(image, from)
  BY DEF WrittenAt
<1>4. CASE pages = {}
  BY <1>3, <1>4 DEF Erased
<1>5. CASE pages # {}
  <2> HIDE DEF last
  <2>1. \E p \in pages : \A q \in pages : q <= p
    BY <1>2, <1>5, LastOf
  <2>2. page \in pages
    BY <2>1
  <2>3. page \in Nat
    BY <1>2, <2>2
  <2>4. a \in Int
    BY DEF Address
  <2> HIDE DEF page, pages
  <2>5. a % PageBytes \in Nat
    BY <1>1, <2>4
  <2>6. from \in Nat
    <3>1. page * PageBytes \in Nat
      BY <1>1, <2>3
    <3> QED BY <2>5, <3>1
  <2> HIDE DEF from
  <2>7. WrittenAt(image, committed, a) = SentByte(image, from)
    BY <1>3, <1>5
  <2> QED BY <2>6, <2>7, SentTyped
<1> QED BY <1>4, <1>5

(* The pages of an image can be counted.                                   *)
LEMMA PagesTyped ==
  ASSUME NEW image \in Seq(0 .. Erased), NEW fault \in Fault
  PROVE  PagesWritten(image) \in Int /\ Committed(image, fault) \in Int
<1>1. PageBytes \in Nat \ {0} /\ Len(image) \in Nat
  BY GeometryAssumption DEF PageBytes
<1>2. PagesWritten(image) \in Int
  BY <1>1 DEF PagesWritten
<1>3. fault.kind = "commit" => fault.at \in Nat
  BY DEF Fault
<1> QED BY <1>2, <1>3 DEF Committed

LEMMA FlashedTyped ==
  ASSUME NEW image \in Seq(0 .. Erased), Len(image) # 1, NEW fault \in Fault
  PROVE  Flashed(image, fault) \in [Address -> 0 .. Erased]
<1> DEFINE sent(a) == WrittenAt(image, PagesWritten(image), a)
           stored(a) == WrittenAt(image, Committed(image, fault), a)
<1>1. \A a \in Address : sent(a) \in 0 .. Erased /\ stored(a) \in 0 .. Erased
  BY PagesTyped, WrittenTyped
<1>2. Flashed(image, fault) =
        [a \in Address |-> IF fault.kind = "flash" /\ fault.at = a THEN Erased - sent(a)
                           ELSE stored(a)]
  BY DEF Flashed
<1>3. \A b \in 0 .. Erased : Erased - b \in 0 .. Erased
  BY DEF Erased
<1> HIDE DEF sent, stored
<1> QED BY <1>1, <1>2, <1>3

(* An attempt leaves bytes in the flash, a number in the fuses and one of  *)
(* the results of ProgramAVRDevice().                                      *)
Chips == [flash : [Address -> 0 .. Erased], fuse : Nat]
Results == {"unknown", "SUCCESS", "FAILED_ENTER_PROG_MODE", "WRONG_DEVICE_ID",
            "INCORRECT_PAGE_CONFIG", "COMMIT_FAIL", "FAIL_VERIFY", "FAIL_PROG_FUSE"}

LEMMA ProgramTyped ==
  ASSUME NEW c \in Chips, NEW image \in Seq(0 .. Erased), Len(image) # 1, NEW fuse \in Nat,
         NEW fault \in Fault
  PROVE  LET end == ProgramAVRDevice(c, image, fuse, fault)
         IN end.result \in Results \ {"unknown"} /\ end.flash \in [Address -> 0 .. Erased]
            /\ end.fuse \in Nat
<1> DEFINE flash == Flashed(image, fault)
<1>1. flash \in [Address -> 0 .. Erased] /\ c.flash \in [Address -> 0 .. Erased] /\ c.fuse \in Nat
  BY FlashedTyped DEF Chips
<1> HIDE DEF flash
<1>2. \E r \in Results \ {"unknown"}, f \in {flash, c.flash}, n \in {fuse, c.fuse} :
        ProgramAVRDevice(c, image, fuse, fault) = [result |-> r, flash |-> f, fuse |-> n]
  <2> DEFINE end == ProgramAVRDevice(c, image, fuse, fault)
             Is(r, f, n) == end = [result |-> r, flash |-> f, fuse |-> n]
  <2>1. \/ Is("FAILED_ENTER_PROG_MODE", c.flash, c.fuse) \/ Is("WRONG_DEVICE_ID", c.flash, c.fuse)
        \/ Is("INCORRECT_PAGE_CONFIG", c.flash, c.fuse) \/ Is("COMMIT_FAIL", flash, c.fuse)
        \/ Is("FAIL_VERIFY", flash, c.fuse) \/ Is("FAIL_PROG_FUSE", flash, c.fuse)
        \/ Is("SUCCESS", flash, fuse)
    BY DEF ProgramAVRDevice, flash
  <2> HIDE DEF end
  <2>2. {"FAILED_ENTER_PROG_MODE", "WRONG_DEVICE_ID", "INCORRECT_PAGE_CONFIG", "COMMIT_FAIL",
         "FAIL_VERIFY", "FAIL_PROG_FUSE", "SUCCESS"} \subseteq Results \ {"unknown"}
    BY DEF Results
  <2>3. \E r \in Results \ {"unknown"}, f \in {flash, c.flash}, n \in {fuse, c.fuse} : Is(r, f, n)
    BY <2>1, <2>2
  <2> QED BY <2>3 DEF end
<1> QED BY <1>1, <1>2

(* The verify loop, word by word and broken off at the end of the image,   *)
(* compares every byte of the image that the flash has room for.           *)
LEMMA VerifyLoop ==
  ASSUME NEW image \in Seq(0 .. Erased), NEW flash
  PROVE  Verified(image, flash) <=> HoldsImage(flash, image)
<1> DEFINE K == PAGE_SIZE_WORDS * NUMBER_OF_PAGES
<1>1. Len(image) \in Nat /\ K \in Nat
  BY GeometryAssumption
<1>2. FlashBytes = 2 * K
  BY GeometryAssumption DEF FlashBytes, PageBytes
<1> HIDE DEF K
<1>3. Word = 0 .. K - 1 /\ Address = 0 .. (2 * K) - 1
  BY <1>2 DEF Word, Address, K
<1>4. ASSUME HoldsImage(flash, image) PROVE Verified(image, flash)
  <2> SUFFICES ASSUME NEW w \in Word
               PROVE  /\ 2 * w < Len(image) => flash[2 * w] = image[(2 * w) + 1]
                      /\ (2 * w) + 1 < Len(image) => flash[(2 * w) + 1] = image[(2 * w) + 2]
    BY DEF Verified
  <2>1. 2 * w \in Address /\ (2 * w) + 1 \in Address /\ (2 * w) + 1 + 1 = (2 * w) + 2
    BY <1>1, <1>3
  <2> QED BY <1>4, <2>1 DEF HoldsImage
<1>5. ASSUME Verified(image, flash) PROVE HoldsImage(flash, image)
  <2> SUFFICES ASSUME NEW a \in Address, a < Len(image) PROVE flash[a] = image[a + 1]
    BY DEF HoldsImage
  <2>1. PICK w \in Word : a = 2 * w \/ a = (2 * w) + 1
    <3>1. a \div 2 \in Word /\ (a = 2 * (a \div 2) \/ a = (2 * (a \div 2)) + 1)
      BY <1>1, <1>3
    <3> QED BY <3>1
  <2>2. Reached(image, w)
    BY <1>1, <1>3, <2>1 DEF Reached
  <2>3. /\ 2 * w < Len(image) => flash[2 * w] = image[(2 * w) + 1]
        /\ (2 * w) + 1 < Len(image) => flash[(2 * w) + 1] = image[(2 * w) + 2]
    BY <1>5, <2>2 DEF Verified
  <2>4. w \in Nat
    BY <1>1, <1>3
  <2> QED BY <1>1, <2>1, <2>3, <2>4
<1> QED BY <1>4, <1>5

(* The images of the manifest.                                             *)
LEMMA Manifest ==
  /\ DOMAIN Images = Request \ {0} /\ 0 \in Request
  /\ \A n \in DOMAIN Images :
       /\ Images[n].image \in Seq(0 .. Erased) /\ Len(Images[n].image) # 1
       /\ Images[n].fuse \in Nat
  /\ \A n \in Request : Fuse(n) \in Nat
  /\ \A n \in DOMAIN Images : Fuse(n) = Images[n].fuse
<1>1. DOMAIN Images = 1 .. Len(Images) /\ Len(Images) \in Nat
  BY ManifestAssumption
<1>2. \A n \in DOMAIN Images : Images[n] \in [image : Seq(0 .. Erased), fuse : Nat]
  BY <1>1, ManifestAssumption, ElementOfSeq
<1> QED BY <1>1, <1>2, ImageAssumption DEF Request, Fuse

(* The fault an attempt meets is a fault.                                  *)
LEMMA AnsweredTyped ==
  ASSUME NEW fault \in Faults
  PROVE  /\ Answered(fault) \in Fault
         /\ passed = 0 => Answered(fault).kind \in {"enter", "device"}
<1>1. fault \in Fault
  BY ManifestAssumption
<1>2. [kind |-> "device", at |-> 0] \in Fault
  BY DEF Fault
<1> QED BY <1>1, <1>2 DEF Answered

-----------------------------------------------------------------------------
(* An attempt, from the request to its result.                             *)
(* The task has a request and no result yet.                               *)
Attempting ==
  \/ pc["avr"] \in {"notified", "open", "isp"}
  \/ pc["avr"] \in {"take", "held", "flag"} /\ doing["avr"] \in {"unmount", "program"}

(* The task has the file open.                                             *)
HasFile ==
  \/ pc["avr"] = "isp"
  \/ pc["avr"] \in {"take", "held"} /\ doing["avr"] = "program"

(* The result is of the attempt that ended last.  Before, the file is one  *)
(* of the manifest and, as the settings passed, that of the request unless *)
(* another one came in between.                                            *)
AttemptInv ==
  /\ Attempting => result = "unknown"
  /\ HasFile => opened \in DOMAIN Images /\ (overlap = "none" => opened = request)
  /\ pc["avr"] = "isp" /\ overlap = "none" => passed = request
  /\ SuccessIsReal

(* The variables that no invariant above is about.                         *)
MoreFlags == /\ inProgress \in BOOLEAN /\ old \in BOOLEAN /\ logging \in BOOLEAN
BusTypes ==
  /\ MoreFlags
  /\ bus \in Task \cup {"none"} /\ op \in {"none", "enable", "list", "other"}
  /\ request \in Request /\ opened \in Request /\ passed \in Request
  /\ overlap \in {"none", "attempt", "mount"}
  /\ result \in Results /\ chip \in Chips

LEMMA AttemptInit == Init => BusTypes /\ AttemptInv
<1> SUFFICES ASSUME Init PROVE BusTypes /\ AttemptInv
  OBVIOUS
<1>1. Blank \in Chips
  BY DEF Blank, Chips, Erased
<1>2. MoreFlags
  BY DEF Init, MoreFlags
<1>3. pc["avr"] = "idle" /\ result = "unknown"
  BY TaskNames DEF Init
<1> QED
  BY <1>1, <1>2, <1>3, Manifest
  DEF Init, BusTypes, Results, AttemptInv, Attempting, HasFile, SuccessIsReal

(* A step that gives no result and opens nothing.                          *)
LEMMA AttemptKept ==
  ASSUME AttemptInv, UNCHANGED <<request, result, opened, passed, chip, overlap>>,
         Attempting' => Attempting, HasFile' => HasFile,
         pc'["avr"] = "isp" => pc["avr"] = "isp"
  PROVE  AttemptInv'
  BY DEF AttemptInv, SuccessIsReal

(* A step that leaves avrprog_task where it is.                            *)
LEMMA AvrWaits ==
  ASSUME AttemptInv, UNCHANGED <<request, result, opened, passed, chip, overlap>>,
         pc'["avr"] = pc["avr"], doing'["avr"] = doing["avr"]
  PROVE  AttemptInv'
  BY AttemptKept DEF Attempting, HasFile

(* What a programmed chip is told of: the result is of the file opened and *)
(* the settings passed.                                                    *)
LEMMA ProgrammedStep ==
  ASSUME CardInv, BusTypes, AttemptInv, Programmed
  PROVE  result' \in Results /\ chip' \in Chips /\ SuccessIsReal'
<1> DEFINE image == Images[opened].image
           fuse == Fuse(passed)
           end(fault) == ProgramAVRDevice(chip, image, fuse, Answered(fault))
<1>1. PICK fault \in Faults :
        result' = end(fault).result /\ chip' = [flash |-> end(fault).flash, fuse |-> end(fault).fuse]
  BY DEF Programmed
<1>2. opened \in DOMAIN Images /\ passed \in Request
  BY DEF Programmed, AttemptInv, HasFile, BusTypes
<1>3. image \in Seq(0 .. Erased) /\ Len(image) # 1 /\ fuse \in Nat
  BY <1>2, Manifest
<1>4. chip \in Chips /\ Answered(fault) \in Fault
  BY AnsweredTyped DEF BusTypes
<1> HIDE DEF image, fuse
<1>5. /\ end(fault).result \in Results \ {"unknown"} /\ end(fault).fuse \in Nat
      /\ end(fault).flash \in [Address -> 0 .. Erased]
  BY <1>3, <1>4, ProgramTyped
<1>6. ASSUME end(fault).result = "SUCCESS"
      PROVE  /\ HoldsImage(end(fault).flash, image) /\ end(fault).fuse = fuse /\ passed # 0
  <2>1. Verified(image, end(fault).flash) /\ end(fault).fuse = fuse
    BY <1>6 DEF ProgramAVRDevice
  <2>2. passed # 0
    BY <1>6, AnsweredTyped DEF ProgramAVRDevice
  <2> QED BY <1>3, <2>1, <2>2, VerifyLoop
<1> HIDE DEF end
<1>7. /\ result' = end(fault).result /\ chip'.flash = end(fault).flash
      /\ chip'.fuse = end(fault).fuse /\ chip' \in Chips
  BY <1>1, <1>5 DEF Chips
<1>8. UNCHANGED <<request, overlap>>
  BY DEF Programmed, job, history
<1>9. overlap = "none" => opened = request /\ passed = request
  BY DEF Programmed, AttemptInv, HasFile
<1>10. ASSUME result' = "SUCCESS"
       PROVE  /\ opened \in DOMAIN Images /\ passed \in DOMAIN Images
              /\ HoldsImage(chip'.flash, Images[opened].image)
              /\ chip'.fuse = Images[passed].fuse
              /\ overlap' = "none" => opened = request' /\ passed = request'
  BY <1>2, <1>6, <1>7, <1>8, <1>9, <1>10, Manifest DEF image, fuse
<1>11. SuccessIsReal'
  BY <1>10 DEF SuccessIsReal, HoldsImage
<1> QED BY <1>5, <1>7, <1>11

(* Every step keeps the types and the result true.                         *)
LEMMA AttemptStep ==
  CardInv /\ BusTypes /\ AttemptInv /\ [Next]_vars => BusTypes' /\ AttemptInv'
<1> SUFFICES ASSUME CardInv, BusTypes, AttemptInv, [Next]_vars PROVE BusTypes' /\ AttemptInv'
  OBVIOUS
<1> DEFINE Rest == UNCHANGED <<op, avrsettings, job, logging, chip, overlap>>
<1>0. /\ pc \in [Task -> Places] /\ doing \in [{"web", "avr"} -> {"mount", "unmount", "card", "program"}]
      /\ "avr" \in Task /\ "web" \in Task /\ "web" # "avr" /\ "avr" \notin Loggers /\ "log" # "avr"
      /\ "outputs" # "avr" /\ CardFlags
  BY TaskNames DEF CardInv, Loggers
<1>1. Rest /\ bus' \in Task \cup {"none"} => BusTypes'
  BY DEF BusTypes, MoreFlags, avrsettings, job
<1>1a. Rest /\ pc'["avr"] = pc["avr"] /\ doing'["avr"] = doing["avr"] => AttemptInv'
  BY AvrWaits DEF avrsettings, job
<1>2. ASSUME NEW t \in Task, Section(t) PROVE BusTypes' /\ AttemptInv'
  <2>1. Rest /\ doing' = doing
    BY <1>2 DEF Section, GetVSPIMutex, MutexTimeout, MountSDCard, UnmountSDCard, CardUnmounted,
       EndLog, history
  <2>2. bus' \in Task \cup {"none"}
    BY <1>2 DEF Section, GetVSPIMutex, MutexTimeout, MountSDCard, UnmountSDCard, CardUnmounted,
       EndLog, ReleaseVSPIMutex, BusTypes
  <2>3. CASE t # "avr"
    <3>1. pc'["avr"] = pc["avr"]
      BY <1>0, <1>2, <2>3 DEF Section, GetVSPIMutex, MutexTimeout, MountSDCard, UnmountSDCard,
         CardUnmounted, EndLog
    <3> QED BY <1>1, <1>1a, <2>1, <2>2, <3>1
  <2>4. CASE t = "avr"
    <3>1. /\ Onward("avr") \in {"open", "end", "idle"}
          /\ Onward("avr") = "open" => doing["avr"] = "unmount"
      BY DEF Onward
    <3>2. \/ pc["avr"] = "take" /\ pc'["avr"] = "held"
          \/ pc["avr"] \in {"take", "held", "flag"} /\ pc'["avr"] = Onward("avr")
          \/ pc["avr"] = "held" /\ doing["avr"] = "unmount" /\ pc'["avr"] = "flag"
      BY <1>0, <1>2, <2>4 DEF Section, GetVSPIMutex, MutexTimeout, MountSDCard, UnmountSDCard,
         CardUnmounted
    <3>3. /\ Attempting' => Attempting /\ (HasFile' => HasFile)
          /\ pc'["avr"] # "isp"
      BY <2>1, <3>1, <3>2 DEF Attempting, HasFile
    <3>4. HasFile' => HasFile
      BY <2>1, <3>1, <3>2 DEF HasFile
    <3>5. AttemptInv'
      BY <2>1, <3>3, <3>4, AttemptKept DEF avrsettings, job
    <3> QED BY <1>1, <2>1, <2>2, <3>5
  <2> QED BY <2>3, <2>4
<1>3. ASSUME NEW t \in Loggers, StartLog(t) PROVE BusTypes' /\ AttemptInv'
  <2>1. Rest /\ bus' = bus /\ doing' = doing /\ pc'["avr"] = pc["avr"]
    BY <1>0, <1>3 DEF StartLog, history
  <2> QED BY <1>1, <1>1a, <2>1 DEF BusTypes
<1>4. CASE SdCardLog
  <2>1. logging' \in BOOLEAN
    <3>1. PICK exists \in BOOLEAN, room \in BOOLEAN :
            logging' = (logging /\ card /\ (exists \/ room))
      BY <1>4 DEF SdCardLog
    <3> QED BY <3>1, Zenon
  <2>2. /\ UNCHANGED <<bus, op, doing, avrsettings, job, chip, overlap>>
        /\ pc'["avr"] = pc["avr"]
    BY <1>0, <1>4 DEF SdCardLog, history
  <2>3. BusTypes'
    BY <2>1, <2>2 DEF BusTypes, MoreFlags, avrsettings, job
  <2> QED BY <2>2, <2>3, AvrWaits DEF avrsettings, job
<1>5. CASE SdCardLogOutputs \/ AccessCard
  <2>1. Rest /\ doing' = doing /\ pc'["avr"] = pc["avr"] /\ bus' \in {bus, "none"}
    BY <1>0, <1>5 DEF SdCardLogOutputs, AccessCard, ReleaseVSPIMutex, history
  <2> QED BY <1>1, <1>1a, <2>1 DEF BusTypes
<1>6. CASE EnableAVRprog \/ DisableAVRprog \/ SdMount \/ SdUnmount \/ CardRequest \/ Storage
           \/ EndRequest
  <2>1. /\ op' \in {op, "none", "enable", "list", "other"}
        /\ UNCHANGED <<bus, inProgress, request, result, job, logging, chip, overlap>>
    BY <1>6 DEF EnableAVRprog, DisableAVRprog, SdMount, SdUnmount, CardRequest, Storage,
       EndRequest, Enter, avrsettings, history
  <2>2. pc'["avr"] = pc["avr"] /\ doing'["avr"] = doing["avr"]
    BY <1>0, <1>6 DEF EnableAVRprog, DisableAVRprog, SdMount, SdUnmount, CardRequest, Storage,
       EndRequest, Enter
  <2>3. BusTypes'
    BY <2>1 DEF BusTypes, MoreFlags, job
  <2> QED BY <2>1, <2>2, <2>3, AvrWaits DEF job
<1>7. ASSUME NEW n \in Request, AvrProgrammer(n) PROVE BusTypes' /\ AttemptInv'
  <2>1. chip' \in Chips
    <3>1. Blank \in Chips
      BY DEF Blank, Chips, Erased
    <3> QED BY <1>7, <3>1 DEF AvrProgrammer, BusTypes
  <2>2. /\ request' = n /\ result' = "unknown" /\ inProgress' = TRUE
        /\ UNCHANGED <<bus, op, job, logging, doing>>
    BY <1>7 DEF AvrProgrammer
  <2>3. /\ overlap' \in {"none", "attempt", "mount"}
        /\ overlap' = "none" => pc'["avr"] = "notified"
        /\ overlap' # "none" => pc'["avr"] = pc["avr"]
    BY <1>0, <1>7 DEF AvrProgrammer
  <2>4. BusTypes'
    BY <2>1, <2>2, <2>3 DEF BusTypes, MoreFlags, Results, job
  <2>5. AttemptInv'
    BY <2>2, <2>3 DEF AttemptInv, HasFile, SuccessIsReal, job
  <2> QED BY <2>4, <2>5
<1>8. ASSUME NEW on \in BOOLEAN, SaveStorage(on) PROVE BusTypes' /\ AttemptInv'
  <2>1. logging' = on /\ UNCHANGED <<bus, pc, doing, op, avrsettings, job, chip, overlap>>
    BY <1>8 DEF SaveStorage, history
  <2>2. BusTypes'
    BY <2>1 DEF BusTypes, MoreFlags, avrsettings, job
  <2> QED BY <2>1, <2>2, AvrWaits DEF avrsettings, job
<1>9. CASE StartProgramming
  <2>1. /\ old' = installed /\ pc["avr"] = "notified"
        /\ UNCHANGED <<bus, op, avrsettings, opened, passed, logging, chip, overlap>>
    BY <1>9 DEF StartProgramming, history
  <2>2. pc'["avr"] \in {"take", "open"} /\ doing'["avr"] = "unmount"
    BY <1>0, <1>9 DEF StartProgramming
  <2>3. BusTypes'
    BY <2>1 DEF CardInv, CardFlags, BusTypes, MoreFlags, avrsettings
  <2>4. AttemptInv'
    BY <2>1, <2>2, AttemptKept DEF Attempting, HasFile, avrsettings
  <2> QED BY <2>3, <2>4
<1>10. CASE OpenFile
  <2>1. /\ UNCHANGED <<bus, op, avrsettings, old, passed, logging, chip, overlap>>
        /\ pc["avr"] = "open"
    BY <1>10 DEF OpenFile, history
  <2>2. CASE request \in DOMAIN Images
    <3>1. opened' = request /\ pc'["avr"] = "take" /\ doing'["avr"] = "program"
      BY <1>0, <1>10, <2>2 DEF OpenFile
    <3> QED BY <2>1, <2>2, <3>1
            DEF BusTypes, MoreFlags, avrsettings, AttemptInv, Attempting, HasFile, SuccessIsReal
  <2>3. CASE request \notin DOMAIN Images
    <3>1. opened' = opened /\ pc'["avr"] = "end"
      BY <1>0, <1>10, <2>3 DEF OpenFile
    <3> QED BY <2>1, <3>1
            DEF BusTypes, MoreFlags, avrsettings, AttemptInv, Attempting, HasFile, SuccessIsReal
  <2> QED BY <2>2, <2>3
<1>11. CASE Program
  <2>1. /\ UNCHANGED <<bus, op, avrsettings, old, opened, logging, chip, overlap>>
        /\ pc["avr"] = "held" /\ doing["avr"] = "program" /\ passed' = request
    BY <1>11 DEF Program, history
  <2>2. pc'["avr"] = "isp"
    BY <1>0, <1>11 DEF Program
  <2>3. BusTypes'
    BY <2>1 DEF BusTypes, MoreFlags, avrsettings
  <2>4. AttemptInv'
    BY <2>1, <2>2 DEF AttemptInv, Attempting, HasFile, SuccessIsReal, avrsettings
  <2> QED BY <2>3, <2>4
<1>12. CASE Programmed
  <2>1. result' \in Results /\ chip' \in Chips /\ SuccessIsReal'
    BY <1>12, ProgrammedStep
  <2>2. UNCHANGED <<op, inProgress, request, job, logging, overlap>> /\ bus' = "none"
    BY <1>12 DEF Programmed, ReleaseVSPIMutex, history
  <2>3. pc'["avr"] = "end"
    BY <1>0, <1>12 DEF Programmed
  <2>4. BusTypes'
    BY <2>1, <2>2 DEF BusTypes, MoreFlags, job
  <2> QED BY <2>1, <2>3, <2>4 DEF AttemptInv, Attempting, HasFile
<1>13. CASE EndProgramming
  <2>1. /\ inProgress' = FALSE /\ old' = FALSE /\ opened' = 0 /\ passed' = 0
        /\ UNCHANGED <<bus, op, request, result, logging, chip, overlap>>
    BY <1>13 DEF EndProgramming, history
  <2>2. doing'["avr"] = "mount" /\ pc'["avr"] \in {"take", "idle"}
    BY <1>0, <1>13 DEF EndProgramming
  <2>3. BusTypes'
    BY <2>1, Manifest DEF BusTypes, MoreFlags
  <2>4. AttemptInv'
    BY <2>1, <2>2 DEF AttemptInv, Attempting, HasFile, SuccessIsReal
  <2> QED BY <2>3, <2>4
<1>14. CASE Restart
  <2>1. Blank \in Chips
    BY DEF Blank, Chips, Erased
  <2>2. MoreFlags'
    BY <1>14 DEF Restart, MoreFlags
  <2>3. /\ bus' = "none" /\ op' = "none" /\ request' = 0 /\ opened' = 0 /\ passed' = 0
        /\ result' = "unknown" /\ chip' = Blank /\ overlap' = "none" /\ pc'["avr"] = "idle"
    BY <1>0, <1>14 DEF Restart
  <2> QED BY <2>1, <2>2, <2>3, Manifest
          DEF BusTypes, Results, AttemptInv, Attempting, HasFile, SuccessIsReal
<1>15. CASE UNCHANGED vars
  <2>1. Rest /\ bus' = bus /\ doing' = doing /\ pc' = pc
    BY <1>15 DEF vars, history
  <2> QED BY <1>1, <1>1a, <2>1 DEF BusTypes
<1> HIDE DEF Rest
<1> QED
  BY <1>2, <1>3, <1>4, <1>5, <1>6, <1>7, <1>8, <1>9, <1>10, <1>11, <1>12, <1>13, <1>14, <1>15
  DEF Next, Continue, WebRequest, SaveConfigurationToSDCard, SaveWifiConfigToSDCard, DownloadFile

(* The flash of the module in the socket stays as long as its addresses,   *)
(* and its content bytes, for any image, fault and number of attempts.     *)
THEOREM BusTyped == Spec => []TypeOK
<1>1. CardInv /\ BusTypes => TypeOK
  <2> SUFFICES ASSUME CardInv, BusTypes PROVE TypeOK
    OBVIOUS
  <2>1. {card, installed, progMode, inProgress, old, logging} \subseteq BOOLEAN
    BY DEF CardInv, CardFlags, BusTypes, MoreFlags
  <2>2. interrupted \in BOOLEAN
    BY DEF CardInv, CardFlags
  <2>3. {request, opened, passed} \subseteq Request
    BY DEF BusTypes
  <2> QED BY <2>1, <2>2, <2>3 DEF CardInv, BusTypes, Results, Chips, Places, TypeOK
<1> QED BY <1>1, CardInit, CardStep, AttemptInit, AttemptStep, PTL DEF Spec

(* Whatever is asked for during an attempt, and whatever goes wrong on the *)
(* wires, a success means that the verify loop has seen the whole image.   *)
THEOREM SuccessMeansProgrammed == Spec => []SuccessIsReal
<1>1. AttemptInv => SuccessIsReal
  BY DEF AttemptInv
<1> QED BY <1>1, CardInit, CardStep, AttemptInit, AttemptStep, PTL DEF Spec

-----------------------------------------------------------------------------
(* The pages of an attempt.                                                *)
(* Division leaves a remainder; a number below the divisor is its own.     *)
LEMMA DivMod ==
  ASSUME NEW a \in Nat, NEW b \in Nat \ {0}
  PROVE  /\ a \div b \in Nat /\ a % b \in 0 .. b - 1 /\ a = (a \div b) * b + (a % b)
         /\ a < b => a % b = a
  OBVIOUS

(* Products order as their factors do.                                     *)
LEMMA ProductsOrder ==
  ASSUME NEW p \in Nat, NEW n \in Nat, NEW b \in Nat \ {0}
  PROVE  p < n => p * b + b <= n * b
<1> SUFFICES ASSUME p < n PROVE p * b + b <= n * b
  OBVIOUS
<1> DEFINE d == n - (p + 1)
<1>1. d \in Nat /\ n = p + 1 + d
  OBVIOUS
<1> HIDE DEF d
<1>2. n * b = p * b + b + d * b /\ d * b \in Nat
  BY <1>1
<1> QED BY <1>2

(* An image that fits is written byte by byte, then the byte the buffer    *)
(* still holds when the image is odd, and the rest stays erased.           *)
Intended(image, a) ==
  IF a < Len(image) THEN image[a + 1]
  ELSE IF a = Len(image) /\ a % 2 = 1 THEN image[a - 1]
  ELSE Erased

(* Pages hold whole words.                                                 *)
LEMMA EvenPages ==
  ASSUME NEW n \in Nat
  PROVE  (n * PageBytes) % 2 = 0
<1> DEFINE k == n * PAGE_SIZE_WORDS
<1>1. k \in Nat /\ n * PageBytes = 2 * k
  BY GeometryAssumption DEF PageBytes
<1> HIDE DEF k
<1> QED BY <1>1

LEMMA FitsIsWritten ==
  ASSUME NEW image \in Seq(0 .. Erased), Len(image) <= FlashBytes, NEW a \in Address
  PROVE  WrittenAt(image, PagesWritten(image), a) = Intended(image, a)
<1> DEFINE B == PageBytes
           N == NUMBER_OF_PAGES
           P == PagesWritten(image)
           pages == {p \in 0 .. P - 1 : p % N = a \div B}
           page == CHOOSE p \in pages : \A q \in pages : q <= p
           from == (page * B) + (a % B)
           top == a \div B
<1>1. B \in Nat \ {0} /\ N \in Nat \ {0} /\ Len(image) \in Nat /\ FlashBytes = N * B
  BY GeometryAssumption DEF PageBytes, FlashBytes
<1>2. a \in Nat /\ a < N * B
  BY <1>1 DEF Address
<1>3. WrittenAt(image, P, a) = IF pages = {} THEN Erased ELSE SentByte(image, from)
  BY DEF WrittenAt
<1>4. P = (Len(image) + B - 1) \div B
  BY DEF PagesWritten
<1> HIDE DEF B, P
<1>5. top \in Nat /\ a % B \in 0 .. B - 1 /\ a = top * B + (a % B)
  BY <1>1, <1>2, DivMod
<1> DEFINE room == Len(image) + B - 1
<1>6. P \in Nat /\ room % B \in 0 .. B - 1 /\ room = P * B + (room % B)
  <2>1. room \in Nat /\ P = room \div B
    BY <1>1, <1>4
  <2> HIDE DEF room
  <2> QED BY <1>1, <2>1, DivMod
<1>7. P * B < Len(image) + B /\ Len(image) <= P * B
  <2>1. P * B \in Nat
    BY <1>1, <1>6
  <2> QED BY <1>1, <1>6, <2>1
<1>8. P <= N
  <2> SUFFICES ASSUME N < P PROVE FALSE
    BY <1>1, <1>6
  <2>1. N * B + B <= P * B
    BY <1>1, <1>6, ProductsOrder
  <2>2. N * B \in Nat /\ P * B \in Nat
    BY <1>1, <1>6
  <2> QED BY <1>1, <1>7, <2>1, <2>2
<1>9. pages = {p \in 0 .. P - 1 : p = top}
  <2>1. ASSUME NEW p \in 0 .. P - 1 PROVE p % N = p
    <3>1. p \in Nat /\ N \in Nat \ {0} /\ p < N
      BY <1>1, <1>6, <1>8
    <3> HIDE DEF N
    <3> QED BY <3>1, DivMod
  <2> HIDE DEF top
  <2> QED BY <2>1 DEF top
<1> HIDE DEF top, room
<1>10. top * B \in Nat /\ P * B \in Nat
  BY <1>1, <1>5, <1>6
<1>11. CASE pages = {}
  <2>1. ~(top < P)
    BY <1>5, <1>6, <1>9, <1>11
  <2>2. P * B <= top * B
    <3>1. CASE P = top
      BY <1>10, <3>1
    <3>2. CASE P < top
      <4>1. P * B + B <= top * B
        BY <1>1, <1>5, <1>6, <3>2, ProductsOrder
      <4> QED BY <1>1, <1>10, <4>1
    <3> QED BY <1>5, <1>6, <2>1, <3>1, <3>2
  <2>3. ~(a < Len(image))
    BY <1>1, <1>2, <1>5, <1>7, <1>10, <2>2
  <2>4. ~(a = Len(image) /\ a % 2 = 1)
    <3> SUFFICES ASSUME a = Len(image), a % 2 = 1 PROVE FALSE
      OBVIOUS
    <3>1. a = P * B
      BY <1>1, <1>2, <1>5, <1>7, <1>10, <2>2
    <3> QED BY <1>6, <3>1, EvenPages DEF B
  <2>5. WrittenAt(image, P, a) = Erased
    BY <1>3, <1>11
  <2> QED BY <2>3, <2>4, <2>5 DEF Intended, P
<1>12. CASE pages # {}
  <2>1. pages = {top} /\ top < P
    BY <1>5, <1>6, <1>9, <1>12
  <2>2. page = top
    BY <1>5, <2>1
  <2>3. from = a
    BY <1>5, <2>2
  <2> HIDE DEF from, pages
  <2>4. WrittenAt(image, P, a) = SentByte(image, a)
    BY <1>3, <1>12, <2>3
  <2>5. SentByte(image, a) = Intended(image, a)
    BY DEF SentByte, Intended
  <2> QED BY <2>4, <2>5 DEF P
<1> QED BY <1>11, <1>12

(* An attempt on whose wires nothing goes wrong succeeds when the image    *)
(* fits, in a chip with any content: it never reports a fault that there   *)
(* is not, and what is past the image, and past the byte that fills an odd *)
(* one up, is erased (ProgramAVRDevice).                                   *)
THEOREM FaultlessAttempt ==
  ASSUME NEW c \in Chips, NEW image \in Seq(0 .. Erased), NEW fuse \in Nat,
         Len(image) # 1, CounterHolds(image), Len(image) <= FlashBytes,
         NEW fault \in Fault, fault.kind = "none"
  PROVE  ProgramAVRDevice(c, image, fuse, fault) =
           [result |-> "SUCCESS", fuse |-> fuse,
            flash |-> [a \in Address |-> Intended(image, a)]]
<1> DEFINE flash == [a \in Address |-> Intended(image, a)]
<1>1. Committed(image, fault) = PagesWritten(image)
  BY DEF Committed
<1>2. Flashed(image, fault) = flash
  BY <1>1, FitsIsWritten DEF Flashed
<1>3. HoldsImage(flash, image)
  BY DEF HoldsImage, Intended
<1> HIDE DEF flash
<1>4. Verified(image, flash)
  BY <1>3, VerifyLoop
<1>5. FuseAfter(c, fuse, fault) = fuse
  BY DEF FuseAfter
<1>6. ~(Committed(image, fault) < PagesWritten(image))
  BY <1>1, PagesTyped
<1>7. ProgramAVRDevice(c, image, fuse, fault)
        = [result |-> "SUCCESS", flash |-> flash, fuse |-> fuse]
  BY <1>2, <1>4, <1>5, <1>6 DEF ProgramAVRDevice
<1> QED BY <1>7 DEF flash

=============================================================================
