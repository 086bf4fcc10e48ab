----------------------------- MODULE PacketChain -----------------------------
(***************************************************************************)
(* The request/reply protocol between the controller and the string of     *)
(* cell modules.                                                           *)
(*                                                                         *)
(* The controller's tasks push requests on requestQueue; transmit_task     *)
(* numbers and sends them; each module handles a packet if it is addressed *)
(* and passes it on to the next one; what leaves the last module comes     *)
(* back to the controller, which queues it on replyQueue for               *)
(* replyqueue_task.  Wires may lose or damage packets.                     *)
(*                                                                         *)
(* Packets carry an id and the set of modules that executed them; the code *)
(* has neither, the properties are about them.                             *)
(***************************************************************************)
EXTENDS Integers, Sequences, FiniteSets

CONSTANTS
  N,             \* modules on the string
  Configured,    \* TotalNumberOfCells()
  PerPacket,     \* maximum_cell_modules_per_packet (16)
  AllCells,      \* maximum_controller_cell_modules (128)
  CellsSize,     \* values of PacketHeader.cells (2^5)
  SequenceSize,  \* values of PacketHeader.sequence (2^3)
  RequestQueue,  \* capacity of requestQueue (30)
  ReplyQueue,    \* capacity of replyQueue (4)
  UserCommands,  \* requests of the web server and the slow task
  MaxRequests,   \* bound on the requests made
  MaxFaults,     \* bound on the packets lost or damaged
  MaxResets      \* bound on the counter resets

ASSUME ChainAssumption ==
  /\ N \in Nat \ {0} /\ Configured \in Nat \ {0} /\ PerPacket \in Nat \ {0}
  /\ AllCells \in Nat /\ CellsSize \in Nat \ {0}
  /\ SequenceSize \in Nat \ {0, 1}
  /\ RequestQueue \in Nat \ {0} /\ ReplyQueue \in Nat \ {0}
  /\ MaxRequests \in Nat /\ MaxFaults \in Nat /\ MaxResets \in Nat

Modules == 0 .. N - 1
Cells == 0 .. Configured + PerPacket

Nothing == -1     \* no reply has been stored
Undefined == -2   \* read from beyond the data of the packet

\* bytes one module adds to a reply
ItemSize == [ReadVoltageAndStatus |-> 4, ReadTemperature |-> 3, ReadBalancePowerPWM |-> 1,
             ReadPacketCounters |-> 4, ReadBalanceCurrentCounter |-> 4, ReadSettings |-> 22]
ReadCommands == DOMAIN ItemSize
BankCommands == {"ReadBalanceCurrentCounter", "ReadPacketCounters"}
BroadcastCommands == {"ResetPacketCounters", "ResetBalanceCurrentCounter", "Timing",
                      "WriteSettings"}
HeaderSize == 4

VARIABLES
  requestQ, replyQ,
  wire,       \* wire[i] leads into module i, wire[N] back to the controller
  resetting,  \* the web server is between the two requests of a counter reset
  scan,       \* enqueue_task: the bank it is at and what it asks next
  sequence,   \* of the last packet transmitted
  lastReply,  \* the last reply processed
  stats,      \* the counters of transmitProc and receiveProc
  cmi,        \* whose reply each CellModuleInfo holds
  modSeq,     \* PacketProcessor.lastSequence of each module
  bad,        \* PacketProcessor.badpackets of each module
  ghost       \* what really happened: requests made, packets lost, replies in error

vars == <<requestQ, replyQ, wire, resetting, scan, sequence, lastReply, stats, cmi, modSeq, bad, ghost>>

producers == <<resetting, scan>>
module == <<modSeq, bad>>

-----------------------------------------------------------------------------
U16(n) == n % 65536

(* BuildAndSendRequest: cells is a 5-bit field. *)
Request(command, first, last) ==
  [id |-> ghost.issued + 1, command |-> command, start |-> first,
   cells |-> (last - first) % CellsSize]

\* seeded fault: the last cell of the range is left out
Addressed_Exclusive(p, m) == p.start <= m /\ m < p.start + p.cells

Addressed(p, m) == p.start <= m /\ m <= p.start + p.cells

\* a packet at the head of a wire; data lists the modules that added a value
Packet(r, seq) ==
  [id |-> r.id, command |-> r.command, start |-> r.start, cells |-> r.cells,
   sequence |-> seq, hops |-> 0, seen |-> FALSE, data |-> <<>>, intact |-> TRUE,
   done |-> {}]

NoReply == [Packet([id |-> 0, command |-> "none", start |-> 0, cells |-> 0], 0)
              EXCEPT !.hops = N]

Init ==
  /\ requestQ = <<>> /\ replyQ = <<>>
  /\ wire = [i \in 0 .. N |-> <<>>]
  /\ resetting = FALSE
  /\ scan = [i |-> 0, start |-> 0, ask |-> "ReadVoltageAndStatus"]
  /\ sequence = 0
  /\ lastReply = NoReply
  /\ stats = [generated |-> 0, received |-> 0, outOfSequence |-> 0, notProcessed |-> 0,
              pendingCRC |-> 0, totalCRC |-> 0, modulesFound |-> 0]
  /\ cmi = [c \in Cells |-> Nothing]
  /\ modSeq = [m \in Modules |-> 0]
  /\ bad = [m \in Modules |-> 65535]
  /\ ghost = [issued |-> 0, faults |-> 0, damaged |-> 0, overflows |-> 0, gaps |-> 0,
              ignored |-> 0, resets |-> 0]

-----------------------------------------------------------------------------
(* Producers.  A push on a full queue fails and leaves no trace; the tasks   *)
(* sleep and try again, the web server gives up.                             *)

Push(r) ==
  /\ Len(requestQ) < RequestQueue
  /\ ghost.issued < MaxRequests
  /\ requestQ' = Append(requestQ, r)
  /\ stats' = [stats EXCEPT !.generated = @ + 1]
  /\ ghost' = [ghost EXCEPT !.issued = @ + 1]

\* "Limit to number of modules we have configured"
BankEnd(start) ==
  LET end == start + PerPacket - 1
  IN  IF end > Configured THEN Configured - 1 ELSE end

ScanEnd == BankEnd(scan.start)

NextBank ==
  IF scan.i + PerPacket < Configured
  THEN [i |-> scan.i + PerPacket, start |-> ScanEnd + 1, ask |-> "ReadVoltageAndStatus"]
  ELSE [i |-> 0, start |-> 0, ask |-> "ReadVoltageAndStatus"]

(* enqueue_task: voltages, then temperatures, then the PWM values if any     *)
(* module of the bank was seen in bypass.                                    *)
EnqueueVoltage ==
  /\ scan.ask = "ReadVoltageAndStatus"
  /\ Push(Request("ReadVoltageAndStatus", scan.start, ScanEnd))
  /\ scan' = [scan EXCEPT !.ask = "ReadTemperature"]
  /\ UNCHANGED <<replyQ, wire, resetting, sequence, lastReply, cmi, module>>

EnqueueTemperature ==
  /\ scan.ask = "ReadTemperature"
  /\ Push(Request("ReadTemperature", scan.start, ScanEnd))
  /\ \/ scan' = [scan EXCEPT !.ask = "ReadBalancePowerPWM"]
     \/ scan' = NextBank
  /\ UNCHANGED <<replyQ, wire, resetting, sequence, lastReply, cmi, module>>

EnqueuePWM ==
  /\ scan.ask = "ReadBalancePowerPWM"
  /\ Push(Request("ReadBalancePowerPWM", scan.start, ScanEnd))
  /\ scan' = NextBank
  /\ UNCHANGED <<replyQ, wire, resetting, sequence, lastReply, cmi, module>>

(* lazy_tasks and the web server: one module, the modules of a bank, or a    *)
(* broadcast.  The web pages let the number after the last module pass.      *)
AskModule ==
  /\ \E c \in UserCommands \ (BankCommands \cup BroadcastCommands), m \in 0 .. Configured :
       Push(Request(c, m, m))
  /\ UNCHANGED <<replyQ, wire, producers, sequence, lastReply, cmi, module>>

AskBank ==
  /\ \E c \in UserCommands \cap BankCommands, k \in 0 .. Configured - 1 :
       /\ k * PerPacket < Configured
       /\ Push(Request(c, k * PerPacket, BankEnd(k * PerPacket)))
  /\ UNCHANGED <<replyQ, wire, producers, sequence, lastReply, cmi, module>>

Broadcast ==
  /\ \E c \in UserCommands \cap BroadcastCommands : Push(Request(c, 0, AllCells))
  /\ UNCHANGED <<replyQ, wire, producers, sequence, lastReply, cmi, module>>

(* DIYBMSServer::resetCounters: two broadcasts, then the controller's own    *)
(* counters; a full queue at the second one ends it half done.               *)
StartReset ==
  /\ ~resetting /\ ghost.resets < MaxResets
  /\ Push(Request("ResetPacketCounters", 0, AllCells))
  /\ resetting' = TRUE
  /\ UNCHANGED <<replyQ, wire, scan, sequence, lastReply, cmi, module>>

FinishReset ==
  /\ resetting
  /\ Len(requestQ) < RequestQueue
  /\ requestQ' = Append(requestQ, Request("ResetBalanceCurrentCounter", 0, AllCells))
  /\ stats' = [stats EXCEPT !.generated = 0, !.received = 0, !.outOfSequence = 0,
                            !.notProcessed = 0]
  /\ ghost' = [ghost EXCEPT !.issued = @ + 1, !.gaps = 0, !.ignored = 0, !.resets = @ + 1]
  /\ resetting' = FALSE
  /\ UNCHANGED <<replyQ, wire, scan, sequence, lastReply, cmi, module>>

AbandonReset ==
  /\ resetting
  /\ Len(requestQ) = RequestQueue
  /\ resetting' = FALSE
  /\ ghost' = [ghost EXCEPT !.resets = @ + 1]
  /\ UNCHANGED <<requestQ, replyQ, wire, scan, sequence, lastReply, stats, cmi, module>>

-----------------------------------------------------------------------------
(* transmit_task: transmitOnePacket. *)

Transmit ==
  /\ requestQ # <<>>
  /\ sequence' = (sequence + 1) % SequenceSize
  /\ wire' = [wire EXCEPT ![0] = Append(@, Packet(Head(requestQ), sequence'))]
  /\ requestQ' = Tail(requestQ)
  /\ UNCHANGED <<replyQ, producers, lastReply, stats, cmi, module, ghost>>

-----------------------------------------------------------------------------
(* A cell module. *)

\* onHeaderReceived marks every known request but ResetPacketCounters
MarksSeen(command) == command # "ResetPacketCounters"

BadPackets(m, p) ==
  IF p.command = "ResetPacketCounters" THEN 0
  ELSE IF bad[m] = 65535 THEN 0
  ELSE U16(bad[m] + ((p.sequence - modSeq[m]) % SequenceSize) - 1)

Forwarded(m, p) ==
  LET mine == Addressed(p, m) /\ p.intact
  IN  [p EXCEPT !.hops = @ + 1,
                !.seen = @ \/ (Addressed(p, m) /\ MarksSeen(p.command)),
                !.data = IF mine /\ p.command \in ReadCommands THEN Append(@, m) ELSE @,
                !.done = IF mine THEN @ \cup {m} ELSE @]

(* onHeaderReceived, then onPacketReceived if the CRC of the packet is good. *)
ModuleHandles(m) ==
  /\ wire[m] # <<>>
  /\ LET p == Head(wire[m]) IN
       /\ wire' = [wire EXCEPT ![m] = Tail(@), ![m + 1] = Append(@, Forwarded(m, p))]
       /\ \/ /\ Addressed(p, m) /\ p.intact
             /\ bad' = [bad EXCEPT ![m] = BadPackets(m, p)]
             /\ modSeq' = [modSeq EXCEPT ![m] = p.sequence]
          \/ /\ ~(Addressed(p, m) /\ p.intact)
             /\ UNCHANGED module
  /\ UNCHANGED <<requestQ, replyQ, producers, sequence, lastReply, stats, cmi, ghost>>

-----------------------------------------------------------------------------
(* The controller's receiver: onPacketHeader, then onPacketReceived. *)

ReceiveDamaged ==
  /\ wire[N] # <<>> /\ ~Head(wire[N]).intact
  /\ wire' = [wire EXCEPT ![N] = Tail(@)]
  /\ stats' = [stats EXCEPT !.pendingCRC = U16(@ + 1)]
  /\ ghost' = [ghost EXCEPT !.damaged = @ + 1]
  /\ UNCHANGED <<requestQ, replyQ, producers, sequence, lastReply, cmi, module>>

\* seeded faults: a queue that returns the youngest reply first; CRC errors
\* counted again with every good packet
Receive_Lifo ==
  /\ wire[N] # <<>> /\ Head(wire[N]).intact
  /\ Len(replyQ) < ReplyQueue
  /\ wire' = [wire EXCEPT ![N] = Tail(@)]
  /\ replyQ' = <<Head(wire[N])>> \o replyQ
  /\ stats' = [stats EXCEPT !.totalCRC = U16(@ + stats.pendingCRC), !.pendingCRC = 0]
  /\ UNCHANGED <<requestQ, producers, sequence, lastReply, cmi, module, ghost>>
Receive_KeepsPending ==
  /\ wire[N] # <<>> /\ Head(wire[N]).intact
  /\ Len(replyQ) < ReplyQueue
  /\ wire' = [wire EXCEPT ![N] = Tail(@)]
  /\ replyQ' = Append(replyQ, Head(wire[N]))
  /\ stats' = [stats EXCEPT !.totalCRC = U16(@ + stats.pendingCRC)]
  /\ UNCHANGED <<requestQ, producers, sequence, lastReply, cmi, module, ghost>>

Receive ==
  /\ wire[N] # <<>> /\ Head(wire[N]).intact
  /\ wire' = [wire EXCEPT ![N] = Tail(@)]
  /\ LET counted == [stats EXCEPT !.totalCRC = U16(@ + stats.pendingCRC), !.pendingCRC = 0] IN
       \/ /\ Len(replyQ) < ReplyQueue
          /\ replyQ' = Append(replyQ, Head(wire[N]))
          /\ stats' = counted
          /\ UNCHANGED ghost
       \/ /\ Len(replyQ) = ReplyQueue
          /\ stats' = [counted EXCEPT !.notProcessed = U16(@ + 1)]
          /\ ghost' = [ghost EXCEPT !.ignored = @ + 1, !.overflows = @ + 1]
          /\ UNCHANGED replyQ
  /\ UNCHANGED <<requestQ, producers, sequence, lastReply, cmi, module>>

\* isShortPacket compares the length that includes the header
IsShort(p) ==
  HeaderSize + Len(p.data) * ItemSize[p.command] < (p.cells + 1) * ItemSize[p.command]

\* seeded fault: the values are taken from the cell's own number on
Stored_Absolute(p) ==
  [c \in Cells |->
     IF c \notin p.start .. p.start + p.cells THEN cmi[c]
     ELSE IF c < Len(p.data) THEN p.data[c + 1] ELSE Undefined]

Stored(p) ==
  [c \in Cells |->
     IF c \notin p.start .. p.start + p.cells THEN cmi[c]
     ELSE IF c - p.start < Len(p.data) THEN p.data[c - p.start + 1] ELSE Undefined]

(* Nobody executed it; ResetPacketCounters never looks executed, for no      *)
(* module marks it.                                                          *)
Unanswered(p) == p.done = {} \/ p.command = "ResetPacketCounters"

(* replyqueue_task: receiveOnePacket, ProcessReply. *)
ProcessReply ==
  /\ replyQ # <<>>
  /\ replyQ' = Tail(replyQ)
  /\ LET p == Head(replyQ)
         gap == (p.sequence - lastReply.sequence) % SequenceSize # 1
     IN
       /\ lastReply' = p
       /\ stats' = [stats EXCEPT !.received = @ + 1, !.modulesFound = p.hops,
                                 !.outOfSequence = U16(@ + (IF gap THEN 1 ELSE 0)),
                                 !.notProcessed = U16(@ + (IF p.seen THEN 0 ELSE 1))]
       /\ cmi' = IF p.seen /\ p.command \in ReadCommands /\ ~IsShort(p)
                 THEN Stored(p) ELSE cmi
       /\ ghost' = [ghost EXCEPT !.gaps = @ + (IF p.id = lastReply.id + 1 THEN 0 ELSE 1),
                                 !.ignored = @ + (IF Unanswered(p) THEN 1 ELSE 0)]
  /\ UNCHANGED <<requestQ, wire, producers, sequence, module>>

-----------------------------------------------------------------------------
(* The wires. *)
Fault(i) == /\ wire[i] # <<>>
            /\ ghost.faults < MaxFaults
            /\ ghost' = [ghost EXCEPT !.faults = @ + 1]
            /\ UNCHANGED <<requestQ, replyQ, producers, sequence, lastReply, stats, cmi, module>>

Lose(i) == Fault(i) /\ wire' = [wire EXCEPT ![i] = Tail(@)]

Damage(i) ==
  /\ Fault(i)
  /\ Head(wire[i]).intact
  /\ wire' = [wire EXCEPT ![i] = <<[Head(@) EXCEPT !.intact = FALSE]>> \o Tail(@)]

Produce == EnqueueVoltage \/ EnqueueTemperature \/ EnqueuePWM \/ AskModule \/ AskBank
           \/ Broadcast \/ StartReset \/ FinishReset \/ AbandonReset

Next ==
  \/ Produce \/ Transmit \/ ReceiveDamaged \/ Receive \/ ProcessReply
  \/ \E m \in Modules : ModuleHandles(m)
  \/ \E i \in 0 .. N : Lose(i) \/ Damage(i)

Spec == Init /\ [][Next]_vars
-----------------------------------------------------------------------------
(* Properties. *)

Commands == ReadCommands \cup BroadcastCommands \cup UserCommands \cup {"none"}

RequestSet == [id : Nat \ {0}, command : Commands, start : Cells, cells : 0 .. CellsSize - 1]

PacketSet ==
  [id : Nat, command : Commands, start : Cells, cells : 0 .. CellsSize - 1,
   sequence : 0 .. SequenceSize - 1, hops : 0 .. N, seen : BOOLEAN, data : Seq(Modules),
   intact : BOOLEAN, done : SUBSET Modules]

Counter16 == {n \in Nat : U16(n) = n}

ScanSet == [i : 0 .. Configured - 1, start : Cells,
            ask : {"ReadVoltageAndStatus", "ReadTemperature", "ReadBalancePowerPWM"}]

StatsSet == [generated : Nat, received : Nat, outOfSequence : Counter16, notProcessed : Counter16,
             pendingCRC : Counter16, totalCRC : Counter16, modulesFound : 0 .. N]

GhostSet == [issued : Nat, faults : Nat, damaged : Nat, overflows : Nat, gaps : Nat,
             ignored : Nat, resets : Nat]

TypeOK ==
  /\ requestQ \in Seq(RequestSet) /\ Len(requestQ) <= RequestQueue
  /\ replyQ \in Seq(PacketSet) /\ Len(replyQ) <= ReplyQueue
  /\ wire \in [0 .. N -> Seq(PacketSet)]
  /\ resetting \in BOOLEAN
  /\ scan \in ScanSet
  /\ sequence \in 0 .. SequenceSize - 1
  /\ lastReply \in PacketSet
  /\ stats \in StatsSet /\ ghost \in GhostSet
  /\ cmi \in [Cells -> Modules \cup {Nothing, Undefined}]
  /\ modSeq \in [Modules -> 0 .. SequenceSize - 1]
  /\ bad \in [Modules -> Counter16]

(* What the controller stores for a cell was sent by that cell's module:     *)
(* packets overtake nothing and modules append in order.  A reply is read    *)
(* beyond its end only for cells that have no module.                        *)
RightCell ==
  \A c \in Cells : cmi[c] # Nothing => cmi[c] = IF c \in Modules THEN c ELSE Undefined

(* A reply that is processed was executed by every module it addresses and   *)
(* by no other, and, for a read, carries their values in the string's order. *)
Addressees(p) == {m \in Modules : m >= p.start /\ m - p.start <= p.cells}
RepliesComplete ==
  LET p == lastReply IN
    p.id > 0 =>
      /\ p.done = Addressees(p)
      /\ p.command \in ReadCommands =>
           /\ Len(p.data) = Cardinality(p.done)
           /\ \A k \in 1 .. Len(p.data) : p.data[k] = p.start + k - 1

(* The error counters of the controller tell what happened: each damaged     *)
(* packet is a CRC error, out-of-sequence errors are never reported without  *)
(* a loss, and a loss goes unnoticed only if a multiple of the sequence      *)
(* numbers is lost in a row (PacketReceiveProcessor.cpp:33).  A "request     *)
(* that was not processed by any module in the string" (:123) found none, or *)
(* a full reply queue (serializer.cpp:92), or is a user's counter reset.     *)
(* The counters have 16 bits and wrap.                                       *)
Lost == ghost.faults + ghost.overflows
ErrorsAccounted ==
  /\ U16(stats.totalCRC + stats.pendingCRC) = U16(ghost.damaged)
  /\ stats.outOfSequence <= ghost.gaps
  /\ Lost < SequenceSize => stats.outOfSequence = U16(ghost.gaps)
  /\ stats.notProcessed = U16(ghost.ignored)

(* The chain is a lossy first-in first-out link: requests are answered at    *)
(* most once, in the order they were made.                                   *)
Ids(s) == {s[k].id : k \in 1 .. Len(s)}
InFlight == Ids(requestQ) \cup Ids(replyQ) \cup UNION {Ids(wire[i]) : i \in 0 .. N}
Link == INSTANCE RequestLink WITH
          issued <- ghost.issued, answered <- lastReply.id, pending <- InFlight
LinkSpec == Link!Spec
=============================================================================
