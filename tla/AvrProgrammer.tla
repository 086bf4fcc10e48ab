---------------------------- MODULE AvrProgrammer ----------------------------
(***************************************************************************)
(* ProgramAVRDevice() of the ESP32 controller: what an attempt to program  *)
(* the microcontroller of a cell module leaves in its flash and fuses, and *)
(* the result it reports.  Bytes are addressed from 0; an image is a       *)
(* sequence of bytes, so its byte a is image[a + 1].                       *)
(***************************************************************************)
EXTENDS Integers, Sequences

CONSTANTS
  PAGE_SIZE_WORDS, NUMBER_OF_PAGES   \* geometry of the device asked for

ASSUME GeometryAssumption ==
  PAGE_SIZE_WORDS \in Nat \ {0} /\ NUMBER_OF_PAGES \in Nat \ {0}

Erased == 255
PageBytes == 2 * PAGE_SIZE_WORDS
FlashBytes == PageBytes * NUMBER_OF_PAGES
Address == 0 .. FlashBytes - 1
Word == 0 .. (PAGE_SIZE_WORDS * NUMBER_OF_PAGES) - 1

(* What may go wrong on the wires: no answer, another device, a device of  *)
(* unknown geometry, a commit that is not echoed, a byte that is not       *)
(* written as sent, fuses that do not take.                                *)
Fault == [kind : {"none", "enter", "device", "geometry", "fuse"}, at : {0}]
           \cup [kind : {"commit"}, at : Nat]   \* a page
           \cup [kind : {"flash"}, at : Address]

(* Number of passes of the page loop: while (byteCounter < byteLength).    *)
PagesWritten(image) == (Len(image) + PageBytes - 1) \div PageBytes

(* The loop ends: its counter is an uint16_t.                              *)
CounterHolds(image) == PagesWritten(image) * PageBytes < 65536

Committed(image, fault) ==
  IF fault.kind = "commit" /\ fault.at < PagesWritten(image)
  THEN fault.at ELSE PagesWritten(image)

(* Byte at of the words sent: past an odd image the second byte of the     *)
(* buffer is that of the word before, past its words there is filler.      *)
SentByte(image, at) ==
  IF at < Len(image) THEN image[at + 1]
  ELSE IF at = Len(image) /\ at % 2 = 1 THEN image[at - 1]
  ELSE Erased

(* A page address beyond the flash wraps in the device.  The last page     *)
(* committed to an address counts.                                         *)
WrittenAt(image, committed, a) ==
  LET pages == {p \in 0 .. committed - 1 : p % NUMBER_OF_PAGES = a \div PageBytes}
      page == CHOOSE p \in pages : \A q \in pages : q <= p
  IN IF pages = {} THEN Erased
     ELSE SentByte(image, (page * PageBytes) + (a % PageBytes))

Flashed(image, fault) ==
  [a \in Address |->
     IF fault.kind = "flash" /\ fault.at = a
     THEN Erased - WrittenAt(image, PagesWritten(image), a)
     ELSE WrittenAt(image, Committed(image, fault), a)]

(* The verify loop reads word after word of the flash.  It breaks off      *)
(* after a word when its byteCounter has come to the length of the image,  *)
(* so a word is reached when that was not so after the word before it; of  *)
(* a word it compares the bytes the image has.                             *)
Reached_StopsEarly(image, w) == w = 0 \/ (2 * w) + 1 < Len(image)
Reached(image, w) == w = 0 \/ 2 * w < Len(image)
Verified(image, flash) ==
  \A w \in Word : Reached(image, w) =>
    /\ 2 * w < Len(image) => flash[2 * w] = image[(2 * w) + 1]
    /\ (2 * w) + 1 < Len(image) => flash[(2 * w) + 1] = image[(2 * w) + 2]

(* The fuses are written only when they differ, and read back.             *)
FuseAfter(chip, fuse, fault) == IF fault.kind = "fuse" THEN chip.fuse ELSE fuse

(* Result, flash and fuses after an attempt on a chip.                     *)
ProgramAVRDevice(chip, image, fuse, fault) ==
  LET flash == Flashed(image, fault)
      Ends(result, f, lfuse) == [result |-> result, flash |-> f, fuse |-> lfuse]
  IN CASE fault.kind = "enter" ->
            Ends("FAILED_ENTER_PROG_MODE", chip.flash, chip.fuse)
       [] fault.kind = "device" ->
            Ends("WRONG_DEVICE_ID", chip.flash, chip.fuse)
       [] fault.kind = "geometry" ->
            Ends("INCORRECT_PAGE_CONFIG", chip.flash, chip.fuse)
       [] Committed(image, fault) < PagesWritten(image) ->
            Ends("COMMIT_FAIL", flash, chip.fuse)
       [] OTHER ->
            IF ~Verified(image, flash) THEN Ends("FAIL_VERIFY", flash, chip.fuse)
            ELSE IF FuseAfter(chip, fuse, fault) # fuse
                 THEN Ends("FAIL_PROG_FUSE", flash, chip.fuse)
            ELSE Ends("SUCCESS", flash, fuse)

-----------------------------------------------------------------------------
(* What a programmed chip is: every byte of the image that the flash has   *)
(* room for is at its address.                                             *)
HoldsImage(flash, image) ==
  \A a \in Address : a < Len(image) => flash[a] = image[a + 1]
=============================================================================
