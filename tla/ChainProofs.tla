----------------------------- MODULE ChainProofs -----------------------------
(* Proofs about PacketChain for any number of modules, queues and faults.  *)
EXTENDS PacketChain, FiniteSetTheorems, TLAPS

-----------------------------------------------------------------------------
(* Sequences and remainders.                                               *)

(* Append adds a last element and keeps the others.                        *)
LEMMA AppendFacts ==
  ASSUME NEW S, NEW s \in Seq(S), NEW e \in S
  PROVE  /\ Append(s, e) \in Seq(S) /\ Len(s) \in Nat /\ Len(Append(s, e)) = Len(s) + 1
         /\ Append(s, e)[Len(s) + 1] = e
         /\ \A k \in 1 .. Len(s) : Append(s, e)[k] = s[k]
  OBVIOUS

(* Tail drops the first element and moves the others down.                 *)
LEMMA TailFacts ==
  ASSUME NEW S, NEW s \in Seq(S), s # <<>>
  PROVE  /\ Tail(s) \in Seq(S) /\ Len(s) \in Nat \ {0} /\ Len(Tail(s)) = Len(s) - 1
         /\ Head(s) = s[1] /\ Head(s) \in S
         /\ \A k \in 1 .. Len(s) - 1 : Tail(s)[k] = s[k + 1]
  OBVIOUS

(* Replacing the first element.                                            *)
LEMMA ReplaceFacts ==
  ASSUME NEW S, NEW s \in Seq(S), s # <<>>, NEW e \in S
  PROVE  /\ <<e>> \o Tail(s) \in Seq(S) /\ Len(s) \in Nat \ {0}
         /\ Len(<<e>> \o Tail(s)) = Len(s) /\ (<<e>> \o Tail(s))[1] = e
         /\ \A k \in 2 .. Len(s) : (<<e>> \o Tail(s))[k] = s[k]
  OBVIOUS

(* The remainder of a division.                                            *)
LEMMA Remainder ==
  ASSUME NEW n \in Nat \ {0}, NEW a \in Int
  PROVE  a % n \in 0 .. n - 1 /\ a = n * (a \div n) + (a % n) /\ a \div n \in Int
  OBVIOUS

(* It is the only one.                                                     *)
LEMMA RemainderIs ==
  ASSUME NEW n \in Nat \ {0}, NEW q \in Int, NEW r \in 0 .. n - 1
  PROVE  (n * q + r) % n = r
  OBVIOUS

(* The remainder of a difference is found from the remainders.             *)
LEMMA RemainderMinus ==
  ASSUME NEW n \in Nat \ {0}, NEW a \in Int, NEW b \in Int
  PROVE  ((a % n) - (b % n)) % n = (a - b) % n
<1> DEFINE q == a \div n
           r == a % n
           u == b \div n
           t == b % n
<1>1. /\ r \in 0 .. n - 1 /\ a = n * q + r /\ q \in Int
      /\ t \in 0 .. n - 1 /\ b = n * u + t /\ u \in Int
  BY Remainder
<1> HIDE DEF q, r, u, t
<1>2. ASSUME r >= t PROVE (r - t) % n = (a - b) % n
  <2>1. r - t \in 0 .. n - 1 /\ q - u \in Int
    BY <1>1, <1>2
  <2>2. a - b = n * (q - u) + (r - t)
    BY <1>1
  <2>3. (n * (q - u) + (r - t)) % n = r - t
    BY <2>1, RemainderIs
  <2>4. (r - t) % n = r - t
    BY <2>1
  <2> QED BY <2>2, <2>3, <2>4
<1>3. ASSUME r < t PROVE (r - t) % n = (a - b) % n
  <2>1. r - t + n \in 0 .. n - 1 /\ q - u - 1 \in Int
    BY <1>1, <1>3
  <2>2. a - b = n * (q - u - 1) + (r - t + n) /\ r - t = n * (-1) + (r - t + n)
    BY <1>1
  <2>3. (n * (q - u - 1) + (r - t + n)) % n = r - t + n /\ (n * (-1) + (r - t + n)) % n = r - t + n
    BY <2>1, RemainderIs
  <2> QED BY <2>2, <2>3
<1>4. (r - t) % n = (a - b) % n
  BY <1>1, <1>2, <1>3
<1> QED BY <1>4 DEF r, t

(* The number that follows.                                                *)
LEMMA RemainderNext ==
  ASSUME NEW n \in Nat \ {0}, NEW a \in Int
  PROVE  ((a % n) + 1) % n = (a + 1) % n
<1> DEFINE q == a \div n
           r == a % n
<1>1. r \in 0 .. n - 1 /\ a = n * q + r /\ q \in Int
  BY Remainder
<1> HIDE DEF q, r
<1>2. ASSUME r + 1 < n PROVE (r + 1) % n = (a + 1) % n
  <2>1. r + 1 \in 0 .. n - 1
    BY <1>1, <1>2
  <2>2. a + 1 = n * q + (r + 1)
    BY <1>1
  <2>3. (n * q + (r + 1)) % n = r + 1
    BY <1>1, <2>1, RemainderIs
  <2>4. (r + 1) % n = r + 1
    BY <2>1
  <2> QED BY <2>2, <2>3, <2>4
<1>3. ASSUME r + 1 = n PROVE (r + 1) % n = (a + 1) % n
  <2>1. q + 1 \in Int /\ 0 \in 0 .. n - 1
    BY <1>1
  <2>2. a + 1 = n * (q + 1) + 0 /\ r + 1 = n * 1 + 0
    BY <1>1, <1>3
  <2>3. (n * (q + 1) + 0) % n = 0 /\ (n * 1 + 0) % n = 0
    BY <2>1, RemainderIs
  <2> QED BY <2>2, <2>3
<1>4. (r + 1) % n = (a + 1) % n
  BY <1>1, <1>2, <1>3
<1> QED BY <1>4 DEF r

-----------------------------------------------------------------------------
(* Types.  The bank that is scanned starts where its number says, and a    *)
(* packet has counted the modules that it has passed.                      *)
Wires(w) ==
  /\ w \in [0 .. N -> Seq(PacketSet)]
  /\ \A i \in 0 .. N : \A k \in 1 .. Len(w[i]) : w[i][k].hops = i

IType == TypeOK /\ scan.start = scan.i /\ Wires(wire)

(* What is requested is a request.                                         *)
LEMMA RequestTyped ==
  ASSUME ghost.issued \in Nat, NEW c \in Commands, NEW f \in Cells, NEW l \in Int
  PROVE  Request(c, f, l) \in RequestSet
<1>1. l - f \in Int
  BY ChainAssumption DEF Cells
<1>2. (l - f) % CellsSize \in 0 .. CellsSize - 1
  BY <1>1, Remainder, ChainAssumption
<1> QED BY <1>2 DEF Request, RequestSet

(* A push changes only the queue of the requests and two counters.         *)
LEMMA PushTyped ==
  ASSUME TypeOK, NEW r \in RequestSet, Push(r)
  PROVE  /\ requestQ' \in Seq(RequestSet) /\ Len(requestQ') <= RequestQueue
         /\ stats' \in StatsSet /\ ghost' \in GhostSet
<1>1. requestQ' \in Seq(RequestSet) /\ Len(requestQ') <= RequestQueue
  <2>1. /\ requestQ \in Seq(RequestSet) /\ Len(requestQ) < RequestQueue
        /\ requestQ' = Append(requestQ, r) /\ RequestQueue \in Nat
    BY ChainAssumption DEF TypeOK, Push
  <2> QED BY <2>1, AppendFacts
<1>2. stats' \in StatsSet
  <2>1. stats \in StatsSet /\ stats' = [stats EXCEPT !.generated = @ + 1]
    BY DEF TypeOK, Push
  <2> QED BY <2>1 DEF StatsSet
<1>3. ghost' \in GhostSet
  <2>1. ghost \in GhostSet /\ ghost' = [ghost EXCEPT !.issued = @ + 1]
    BY DEF TypeOK, Push
  <2> QED BY <2>1 DEF GhostSet
<1> QED BY <1>1, <1>2, <1>3

(* The end of a bank, and the next one.                                    *)
LEMMA ScanTyped ==
  ASSUME IType
  PROVE  /\ ScanEnd \in Int /\ scan.start \in Cells
         /\ NextBank \in ScanSet /\ NextBank.start = NextBank.i
<1>1. /\ scan.i \in 0 .. Configured - 1 /\ scan.start = scan.i
      /\ Configured \in Nat \ {0} /\ PerPacket \in Nat \ {0}
  BY ChainAssumption DEF IType, TypeOK, ScanSet
<1>2. ScanEnd \in Int /\ (scan.i + PerPacket < Configured => ScanEnd + 1 = scan.i + PerPacket)
  BY <1>1 DEF ScanEnd, BankEnd
<1> QED BY <1>1, <1>2 DEF NextBank, Cells, ScanSet

(* The transformation a module makes.                                      *)
LEMMA ForwardedTyped ==
  ASSUME NEW p \in PacketSet, NEW m \in Modules, p.hops = m
  PROVE  Forwarded(m, p) \in PacketSet
<1>1. p.hops + 1 \in 0 .. N
  BY ChainAssumption DEF Modules
<1>2. Append(p.data, m) \in Seq(Modules) /\ p.done \cup {m} \in SUBSET Modules
  BY AppendFacts DEF PacketSet
<1>3. (p.seen \/ (Addressed(p, m) /\ MarksSeen(p.command))) \in BOOLEAN
  BY DEF PacketSet
<1> QED BY <1>1, <1>2, <1>3 DEF Forwarded, PacketSet

(* So is a counter of bad packets that a module computes.                  *)
LEMMA BadTyped ==
  ASSUME TypeOK, NEW p \in PacketSet, NEW m \in Modules
  PROVE  BadPackets(m, p) \in Counter16
<1> DEFINE d == (p.sequence - modSeq[m]) % SequenceSize
<1>1. bad[m] \in Int /\ modSeq[m] \in Int /\ p.sequence \in Int
  BY ChainAssumption DEF TypeOK, PacketSet, Counter16
<1>2. d \in Int
  <2>1. p.sequence - modSeq[m] \in Int
    BY <1>1
  <2> QED BY <2>1, Remainder, ChainAssumption
<1>3. BadPackets(m, p) \in {0, U16(bad[m] + d - 1)}
  BY DEF BadPackets
<1> HIDE DEF d
<1>4. U16(bad[m] + d - 1) \in Counter16
  BY <1>1, <1>2 DEF U16, Counter16
<1>5. 0 \in Counter16
  BY DEF U16, Counter16
<1> QED BY <1>3, <1>4, <1>5

(* And what a reply gives the cells.                                       *)
LEMMA StoredTyped ==
  ASSUME TypeOK, NEW p \in PacketSet
  PROVE  Stored(p) \in [Cells -> Modules \cup {Nothing, Undefined}]
<1>1. p.data \in Seq(Modules) /\ p.start \in Int
  BY ChainAssumption DEF PacketSet, Cells
<1>2. ASSUME NEW c \in Cells, c \in p.start .. p.start + p.cells, c - p.start < Len(p.data)
      PROVE  p.data[c - p.start + 1] \in Modules
  <2>1. c - p.start + 1 \in 1 .. Len(p.data)
    BY <1>1, <1>2 DEF Cells
  <2> QED BY <1>1, <2>1
<1> QED BY <1>2 DEF Stored, TypeOK

(* A wire loses its first packet.                                          *)
LEMMA WirePop ==
  ASSUME NEW w, Wires(w), NEW i \in 0 .. N, w[i] # <<>>
  PROVE  /\ Wires([w EXCEPT ![i] = Tail(@)])
         /\ Head(w[i]) \in PacketSet /\ Head(w[i]).hops = i
<1>1. w[i] \in Seq(PacketSet)
  BY DEF Wires
<1>2. /\ Tail(w[i]) \in Seq(PacketSet) /\ Len(Tail(w[i])) = Len(w[i]) - 1
      /\ Len(w[i]) \in Nat \ {0} /\ Head(w[i]) = w[i][1] /\ Head(w[i]) \in PacketSet
      /\ \A k \in 1 .. Len(w[i]) - 1 : Tail(w[i])[k] = w[i][k + 1]
  BY <1>1, TailFacts
<1>3. \A k \in 1 .. Len(Tail(w[i])) : Tail(w[i])[k].hops = i
  <2> SUFFICES ASSUME NEW k \in 1 .. Len(Tail(w[i])) PROVE Tail(w[i])[k].hops = i
    OBVIOUS
  <2>1. k + 1 \in 1 .. Len(w[i]) /\ Tail(w[i])[k] = w[i][k + 1]
    BY <1>2
  <2> QED BY <2>1 DEF Wires
<1>4. Head(w[i]).hops = i
  BY <1>2 DEF Wires
<1> QED BY <1>2, <1>3, <1>4 DEF Wires

(* A wire gets a packet.                                                   *)
LEMMA WirePush ==
  ASSUME NEW w, Wires(w), NEW i \in 0 .. N, NEW p \in PacketSet, p.hops = i
  PROVE  Wires([w EXCEPT ![i] = Append(@, p)])
<1>1. w[i] \in Seq(PacketSet)
  BY DEF Wires
<1>2. /\ Append(w[i], p) \in Seq(PacketSet) /\ Len(w[i]) \in Nat
      /\ Len(Append(w[i], p)) = Len(w[i]) + 1 /\ Append(w[i], p)[Len(w[i]) + 1] = p
      /\ \A k \in 1 .. Len(w[i]) : Append(w[i], p)[k] = w[i][k]
  BY <1>1, AppendFacts
<1>3. \A k \in 1 .. Len(Append(w[i], p)) : Append(w[i], p)[k].hops = i
  <2> SUFFICES ASSUME NEW k \in 1 .. Len(Append(w[i], p)) PROVE Append(w[i], p)[k].hops = i
    OBVIOUS
  <2>1. CASE k = Len(w[i]) + 1
    BY <1>2, <2>1
  <2>2. CASE k \in 1 .. Len(w[i])
    BY <1>2, <2>2 DEF Wires
  <2> QED BY <1>2, <2>1, <2>2
<1> QED BY <1>2, <1>3 DEF Wires

(* A packet changes on a wire.                                             *)
LEMMA WireReplace ==
  ASSUME NEW w, Wires(w), NEW i \in 0 .. N, w[i] # <<>>, NEW p \in PacketSet, p.hops = i
  PROVE  Wires([w EXCEPT ![i] = <<p>> \o Tail(@)])
<1>1. w[i] \in Seq(PacketSet)
  BY DEF Wires
<1> DEFINE s == <<p>> \o Tail(w[i])
<1>2. /\ s \in Seq(PacketSet) /\ Len(s) = Len(w[i]) /\ Len(w[i]) \in Nat \ {0} /\ s[1] = p
      /\ \A k \in 2 .. Len(w[i]) : s[k] = w[i][k]
  BY <1>1, ReplaceFacts
<1> HIDE DEF s
<1>3. \A k \in 1 .. Len(s) : s[k].hops = i
  <2> SUFFICES ASSUME NEW k \in 1 .. Len(s) PROVE s[k].hops = i
    OBVIOUS
  <2>1. CASE k = 1
    BY <1>2, <2>1
  <2>2. CASE k \in 2 .. Len(s)
    BY <1>2, <2>2 DEF Wires
  <2> QED BY <1>2, <2>1, <2>2
<1>4. Wires([w EXCEPT ![i] = s])
  BY <1>2, <1>3 DEF Wires
<1> QED BY <1>4 DEF s

(* A request that is sent becomes a packet.                                *)
LEMMA PacketTyped ==
  ASSUME NEW r, r.id \in Nat, r.command \in Commands, r.start \in Cells,
         r.cells \in 0 .. CellsSize - 1, NEW q \in 0 .. SequenceSize - 1
  PROVE  Packet(r, q) \in PacketSet
<1> DEFINE e == <<>>
           o == {}
<1>1. e \in Seq(Modules) /\ o \in SUBSET Modules /\ 0 \in 0 .. N
  BY ChainAssumption
<1>2. Packet(r, q) = [id |-> r.id, command |-> r.command, start |-> r.start, cells |-> r.cells,
                      sequence |-> q, hops |-> 0, seen |-> FALSE, data |-> e, intact |-> TRUE,
                      done |-> o]
  BY DEF Packet
<1> HIDE DEF e, o
<1>3. [id |-> r.id, command |-> r.command, start |-> r.start, cells |-> r.cells,
       sequence |-> q, hops |-> 0, seen |-> FALSE, data |-> e, intact |-> TRUE,
       done |-> o] \in PacketSet
  BY <1>1 DEF PacketSet
<1> QED BY <1>2, <1>3

(* The initial state.                                                      *)
LEMMA TypeInit == Init => IType
<1> SUFFICES ASSUME Init PROVE IType
  OBVIOUS
<1>0. /\ N \in Nat \ {0} /\ Configured \in Nat \ {0} /\ PerPacket \in Nat \ {0}
      /\ SequenceSize \in Nat \ {0, 1} /\ CellsSize \in Nat \ {0}
      /\ RequestQueue \in Nat /\ ReplyQueue \in Nat
  BY ChainAssumption
<1>1. requestQ \in Seq(RequestSet) /\ Len(requestQ) <= RequestQueue
  BY <1>0 DEF Init
<1>2. replyQ \in Seq(PacketSet) /\ Len(replyQ) <= ReplyQueue
  BY <1>0 DEF Init
<1>3. Wires(wire)
  BY DEF Init, Wires
<1>4. scan \in ScanSet /\ scan.start = scan.i
  BY <1>0 DEF Init, ScanSet, Cells
<1>5. lastReply \in PacketSet
  <2> DEFINE r == [id |-> 0, command |-> "none", start |-> 0, cells |-> 0]
  <2>1. /\ r.id \in Nat /\ r.command \in Commands /\ r.start \in Cells
        /\ r.cells \in 0 .. CellsSize - 1 /\ 0 \in 0 .. SequenceSize - 1 /\ N \in 0 .. N
    BY <1>0 DEF Cells, Commands
  <2> HIDE DEF r
  <2>2. Packet(r, 0) \in PacketSet
    BY <2>1, PacketTyped
  <2>3. \A p \in PacketSet, h \in 0 .. N : [p EXCEPT !.hops = h] \in PacketSet
    BY DEF PacketSet
  <2>4. lastReply = [Packet(r, 0) EXCEPT !.hops = N]
    BY DEF Init, NoReply, r
  <2> QED BY <2>1, <2>2, <2>3, <2>4
<1>6. stats \in StatsSet /\ ghost \in GhostSet
  <2>1. 0 \in Counter16 /\ 0 \in 0 .. N
    BY <1>0 DEF Counter16, U16
  <2> QED BY <2>1 DEF Init, StatsSet, GhostSet
<1>7. resetting \in BOOLEAN /\ sequence \in 0 .. SequenceSize - 1
  <2>1. resetting = FALSE /\ sequence = 0
    BY DEF Init
  <2>2. 0 \in 0 .. SequenceSize - 1
    BY <1>0
  <2> QED BY <2>1, <2>2
<1>8. cmi \in [Cells -> Modules \cup {Nothing, Undefined}]
  BY DEF Init
<1>9. modSeq \in [Modules -> 0 .. SequenceSize - 1] /\ bad \in [Modules -> Counter16]
  <2>1. 65535 \in Counter16 /\ 0 \in 0 .. SequenceSize - 1
    BY <1>0 DEF Counter16, U16
  <2> QED BY <2>1 DEF Init
<1> QED BY <1>1, <1>2, <1>3, <1>4, <1>5, <1>6, <1>7, <1>8, <1>9 DEF IType, TypeOK, Wires

(* A request of lazy_tasks for the modules of a bank.                      *)
LEMMA AskBankTyped ==
  ASSUME IType, AskBank
  PROVE  \E r \in RequestSet : r.id = ghost.issued + 1 /\ Push(r)
<1>1. PICK c \in UserCommands, k \in 0 .. Configured - 1 :
        k * PerPacket < Configured /\ Push(Request(c, k * PerPacket, BankEnd(k * PerPacket)))
  BY DEF AskBank
<1> DEFINE b == k * PerPacket
<1>2. /\ Configured \in Nat \ {0} /\ PerPacket \in Nat \ {0} /\ k \in Nat /\ c \in Commands
      /\ ghost.issued \in Nat
  BY ChainAssumption DEF IType, TypeOK, GhostSet, Commands
<1>3. b \in Nat /\ b < Configured
  BY <1>1, <1>2
<1> DEFINE r == Request(c, b, BankEnd(b))
<1>4. Push(r)
  BY <1>1
<1> HIDE DEF b
<1>5. BankEnd(b) \in Int /\ b \in Cells /\ b \in Int
  BY <1>2, <1>3 DEF BankEnd, Cells
<1>6. r \in RequestSet /\ r.id = ghost.issued + 1
  <2>1. r \in RequestSet
    BY <1>2, <1>5, RequestTyped
  <2> QED BY <2>1 DEF Request
<1> HIDE DEF r
<1> QED BY <1>4, <1>6

(* The producers of requests.                                              *)
LEMMA ProduceTyped == ASSUME IType, Produce PROVE IType'
<1>0. /\ Configured \in Nat \ {0} /\ PerPacket \in Nat \ {0} /\ AllCells \in Nat
      /\ ghost.issued \in Nat /\ 0 \in Cells
      /\ {"ReadVoltageAndStatus", "ReadTemperature", "ReadBalancePowerPWM"} \subseteq Commands
      /\ {"ResetPacketCounters", "ResetBalanceCurrentCounter"} \subseteq Commands
      /\ UserCommands \subseteq Commands
  BY ChainAssumption
     DEF IType, TypeOK, GhostSet, Cells, Commands, ReadCommands, ItemSize, BroadcastCommands
<1>1. /\ scan \in ScanSet /\ ScanEnd \in Int /\ scan.start \in Cells
      /\ NextBank \in ScanSet /\ NextBank.start = NextBank.i
  BY ScanTyped DEF IType, TypeOK
<1>2. ASSUME NEW r \in RequestSet, Push(r), resetting' \in BOOLEAN, scan' \in ScanSet,
             scan'.start = scan'.i,
             UNCHANGED <<replyQ, wire, sequence, lastReply, cmi, module>>
      PROVE  IType'
  BY <1>2, PushTyped DEF IType, TypeOK, Wires, module
<1>3. \A c \in {"ReadVoltageAndStatus", "ReadTemperature", "ReadBalancePowerPWM"} :
        Request(c, scan.start, ScanEnd) \in RequestSet
  BY <1>0, <1>1, RequestTyped
<1>4. CASE EnqueueVoltage
  <2>1. scan' \in ScanSet /\ scan'.start = scan'.i
    BY <1>1, <1>4 DEF EnqueueVoltage, ScanSet, IType
  <2> QED BY <1>2, <1>3, <1>4, <2>1 DEF EnqueueVoltage, IType, TypeOK
<1>5. CASE EnqueueTemperature
  <2>1. scan' \in ScanSet /\ scan'.start = scan'.i
    BY <1>1, <1>5 DEF EnqueueTemperature, ScanSet, IType
  <2> QED BY <1>2, <1>3, <1>5, <2>1 DEF EnqueueTemperature, IType, TypeOK
<1>6. CASE EnqueuePWM
  <2>1. scan' \in ScanSet /\ scan'.start = scan'.i
    BY <1>1, <1>6 DEF EnqueuePWM
  <2> QED BY <1>2, <1>3, <1>6, <2>1 DEF EnqueuePWM, IType, TypeOK
<1>7. CASE AskModule
  <2>1. PICK c \in UserCommands, m \in 0 .. Configured : Push(Request(c, m, m))
    BY <1>7 DEF AskModule
  <2>2. c \in Commands /\ m \in Cells /\ m \in Int
    BY <1>0 DEF Cells
  <2>3. Request(c, m, m) \in RequestSet
    BY <1>0, <2>2, RequestTyped
  <2> QED BY <1>1, <1>2, <1>7, <2>1, <2>3 DEF AskModule, producers, IType, TypeOK
<1>12. CASE AskBank
  <2>1. PICK r \in RequestSet : Push(r)
    BY <1>12, AskBankTyped
  <2> QED BY <1>1, <1>2, <1>12, <2>1 DEF AskBank, producers, IType, TypeOK
<1>8. CASE Broadcast
  <2>1. PICK c \in UserCommands : Push(Request(c, 0, AllCells))
    BY <1>8 DEF Broadcast
  <2>2. Request(c, 0, AllCells) \in RequestSet
    BY <1>0, RequestTyped
  <2> QED BY <1>1, <1>2, <1>8, <2>1, <2>2 DEF Broadcast, producers, IType, TypeOK
<1>9. CASE StartReset
  <2>1. Request("ResetPacketCounters", 0, AllCells) \in RequestSet
    BY <1>0, RequestTyped
  <2> QED BY <1>1, <1>2, <1>9, <2>1 DEF StartReset, IType, TypeOK
<1>10. CASE FinishReset
  <2>1. Request("ResetBalanceCurrentCounter", 0, AllCells) \in RequestSet
    BY <1>0, RequestTyped
  <2>2. requestQ' \in Seq(RequestSet) /\ Len(requestQ') <= RequestQueue
    <3>1. /\ requestQ \in Seq(RequestSet) /\ Len(requestQ) < RequestQueue /\ RequestQueue \in Nat
          /\ requestQ' = Append(requestQ, Request("ResetBalanceCurrentCounter", 0, AllCells))
      BY <1>10, ChainAssumption DEF FinishReset, IType, TypeOK
    <3> QED BY <2>1, <3>1, AppendFacts
  <2>3. stats' \in StatsSet
    <3>1. /\ stats \in StatsSet
          /\ stats' = [stats EXCEPT !.generated = 0, !.received = 0, !.outOfSequence = 0,
                                    !.notProcessed = 0]
      BY <1>10 DEF FinishReset, IType, TypeOK
    <3>2. 0 \in Counter16
      BY DEF Counter16, U16
    <3> QED BY <3>1, <3>2 DEF StatsSet
  <2>4. ghost' \in GhostSet
    <3>1. /\ ghost \in GhostSet
          /\ ghost' = [ghost EXCEPT !.issued = @ + 1, !.gaps = 0, !.ignored = 0, !.resets = @ + 1]
      BY <1>10 DEF FinishReset, IType, TypeOK
    <3>2. \A i, r \in Nat :
            [ghost EXCEPT !.issued = i, !.gaps = 0, !.ignored = 0, !.resets = r] \in GhostSet
      BY <3>1 DEF GhostSet
    <3>3. ghost.issued + 1 \in Nat /\ ghost.resets + 1 \in Nat
      BY <3>1 DEF GhostSet
    <3> QED BY <3>1, <3>2, <3>3
  <2> QED BY <1>10, <2>2, <2>3, <2>4 DEF FinishReset, IType, TypeOK, Wires, module
<1>11. CASE AbandonReset
  <2>1. ghost' \in GhostSet
    <3>1. ghost \in GhostSet /\ ghost' = [ghost EXCEPT !.resets = @ + 1]
      BY <1>11 DEF AbandonReset, IType, TypeOK
    <3> QED BY <3>1 DEF GhostSet
  <2> QED BY <1>11, <2>1 DEF AbandonReset, IType, TypeOK, Wires, module
<1> QED BY <1>4, <1>5, <1>6, <1>7, <1>8, <1>9, <1>10, <1>11, <1>12 DEF Produce

(* The transmitter.                                                        *)
LEMMA TransmitTyped == ASSUME IType, Transmit PROVE IType'
<1>0. /\ SequenceSize \in Nat \ {0} /\ sequence + 1 \in Int /\ 0 \in 0 .. N
      /\ requestQ \in Seq(RequestSet) /\ requestQ # <<>> /\ Len(requestQ) <= RequestQueue
      /\ requestQ' = Tail(requestQ) /\ Wires(wire) /\ RequestQueue \in Nat
      /\ sequence' = (sequence + 1) % SequenceSize
      /\ wire' = [wire EXCEPT ![0] = Append(@, Packet(Head(requestQ), sequence'))]
  BY ChainAssumption DEF IType, TypeOK, Transmit
<1>1. /\ requestQ' \in Seq(RequestSet) /\ Len(requestQ') <= RequestQueue
      /\ Head(requestQ) \in RequestSet
  BY <1>0, TailFacts
<1>2. sequence' \in 0 .. SequenceSize - 1
  BY <1>0, Remainder
<1>3. Packet(Head(requestQ), sequence') \in PacketSet
  <2>1. /\ Head(requestQ).id \in Nat /\ Head(requestQ).command \in Commands
        /\ Head(requestQ).start \in Cells /\ Head(requestQ).cells \in 0 .. CellsSize - 1
    BY <1>1 DEF RequestSet
  <2> QED BY <1>2, <2>1, PacketTyped
<1>4. Packet(Head(requestQ), sequence').hops = 0
  BY DEF Packet
<1>5. Wires(wire')
  BY <1>0, <1>3, <1>4, WirePush
<1> QED BY <1>1, <1>2, <1>5 DEF Transmit, IType, TypeOK, Wires, producers, module

(* A module.                                                               *)
LEMMA HandlesTyped == ASSUME IType, NEW m \in Modules, ModuleHandles(m) PROVE IType'
<1> DEFINE p == Head(wire[m])
<1>0. /\ N \in Nat \ {0} /\ m \in 0 .. N /\ m + 1 \in 0 .. N /\ m # m + 1
      /\ Wires(wire) /\ wire[m] # <<>>
      /\ wire' = [wire EXCEPT ![m] = Tail(@), ![m + 1] = Append(@, Forwarded(m, p))]
      /\ bad' \in {bad, [bad EXCEPT ![m] = BadPackets(m, p)]}
      /\ modSeq' \in {modSeq, [modSeq EXCEPT ![m] = p.sequence]}
  BY ChainAssumption DEF IType, ModuleHandles, Modules, module
<1>1. Wires([wire EXCEPT ![m] = Tail(@)]) /\ p \in PacketSet /\ p.hops = m
  BY <1>0, WirePop
<1> HIDE DEF p
<1>2. Forwarded(m, p) \in PacketSet
  BY <1>1, ForwardedTyped
<1>3. Forwarded(m, p).hops = m + 1
  BY <1>1 DEF Forwarded, PacketSet
<1>4. Wires([[wire EXCEPT ![m] = Tail(@)] EXCEPT ![m + 1] = Append(@, Forwarded(m, p))])
  BY <1>0, <1>1, <1>2, <1>3, WirePush
<1>5. Wires(wire')
  <2>1. wire' = [[wire EXCEPT ![m] = Tail(@)] EXCEPT ![m + 1] = Append(@, Forwarded(m, p))]
    BY <1>0
  <2> QED BY <1>4, <2>1
<1>6. BadPackets(m, p) \in Counter16 /\ p.sequence \in 0 .. SequenceSize - 1
  BY <1>1, BadTyped DEF IType, PacketSet
<1>7. /\ bad' \in [Modules -> Counter16]
      /\ modSeq' \in [Modules -> 0 .. SequenceSize - 1]
  BY <1>0, <1>6 DEF IType, TypeOK
<1> QED BY <1>5, <1>7 DEF ModuleHandles, IType, TypeOK, Wires, producers

(* The receiver.                                                           *)
LEMMA ReceiveTyped == ASSUME IType, Receive \/ ReceiveDamaged PROVE IType'
<1>0. /\ N \in 0 .. N /\ Wires(wire) /\ wire[N] # <<>> /\ wire' = [wire EXCEPT ![N] = Tail(@)]
      /\ stats \in StatsSet /\ ghost \in GhostSet
  <2>1. wire[N] # <<>> /\ wire' = [wire EXCEPT ![N] = Tail(@)]
    BY DEF Receive, ReceiveDamaged
  <2>2. N \in 0 .. N
    BY ChainAssumption
  <2> QED BY <2>1, <2>2 DEF IType, TypeOK
<1>1. Wires(wire') /\ Head(wire[N]) \in PacketSet
  BY <1>0, WirePop
<1>2. \A a \in Int : U16(a) \in Counter16
  BY DEF U16, Counter16
<1>3. /\ 0 \in Counter16 /\ stats.pendingCRC \in Int /\ stats.totalCRC \in Int
      /\ stats.notProcessed \in Int
  BY <1>0 DEF StatsSet, Counter16, U16
<1>4. CASE ReceiveDamaged
  <2>1. stats' \in StatsSet
    <3>1. stats' = [stats EXCEPT !.pendingCRC = U16(stats.pendingCRC + 1)]
      BY <1>4 DEF ReceiveDamaged
    <3>2. U16(stats.pendingCRC + 1) \in Counter16
      BY <1>2, <1>3
    <3> QED BY <1>0, <3>1, <3>2 DEF StatsSet
  <2>2. ghost' \in GhostSet
    BY <1>0, <1>4 DEF ReceiveDamaged, GhostSet
  <2> QED BY <1>1, <1>4, <2>1, <2>2 DEF ReceiveDamaged, IType, TypeOK, Wires, producers, module
<1>5. CASE Receive
  <2> DEFINE crc == U16(stats.totalCRC + stats.pendingCRC)
             ignored == U16(stats.notProcessed + 1)
  <2>1. crc \in Counter16 /\ ignored \in Counter16
    BY <1>2, <1>3
  <2>2. \/ /\ Len(replyQ) < ReplyQueue /\ replyQ' = Append(replyQ, Head(wire[N]))
           /\ stats' = [stats EXCEPT !.totalCRC = crc, !.pendingCRC = 0] /\ ghost' = ghost
        \/ /\ stats' = [[stats EXCEPT !.totalCRC = crc, !.pendingCRC = 0]
                          EXCEPT !.notProcessed = ignored]
           /\ ghost' = [ghost EXCEPT !.ignored = @ + 1, !.overflows = @ + 1] /\ replyQ' = replyQ
    BY <1>0, <1>5 DEF Receive, StatsSet
  <2> HIDE DEF crc, ignored
  <2>3. stats' \in StatsSet
    <3>1. [stats EXCEPT !.totalCRC = crc, !.pendingCRC = 0] \in StatsSet
      BY <1>0, <1>3, <2>1 DEF StatsSet
    <3>2. \A u \in StatsSet : [u EXCEPT !.notProcessed = ignored] \in StatsSet
      BY <2>1 DEF StatsSet
    <3> QED BY <2>2, <3>1, <3>2
  <2>4. ghost' \in GhostSet
    <3>1. \A i, o \in Nat : [ghost EXCEPT !.ignored = i, !.overflows = o] \in GhostSet
      BY <1>0 DEF GhostSet
    <3>2. ghost.ignored + 1 \in Nat /\ ghost.overflows + 1 \in Nat
      BY <1>0 DEF GhostSet
    <3> QED BY <1>0, <2>2, <3>1, <3>2
  <2>5. replyQ' \in Seq(PacketSet) /\ Len(replyQ') <= ReplyQueue
    <3>1. replyQ \in Seq(PacketSet) /\ Len(replyQ) <= ReplyQueue /\ ReplyQueue \in Nat
      BY ChainAssumption DEF IType, TypeOK
    <3> QED BY <1>1, <2>2, <3>1, AppendFacts
  <2> QED BY <1>1, <1>5, <2>3, <2>4, <2>5 DEF Receive, IType, TypeOK, Wires, producers, module
<1> QED BY <1>4, <1>5

(* The reply task.                                                         *)
LEMMA ReplyTyped == ASSUME IType, ProcessReply PROVE IType'
<1> DEFINE p == Head(replyQ)
<1>0. /\ replyQ \in Seq(PacketSet) /\ replyQ # <<>> /\ Len(replyQ) <= ReplyQueue
      /\ replyQ' = Tail(replyQ) /\ ReplyQueue \in Nat /\ lastReply' = p
      /\ stats \in StatsSet /\ ghost \in GhostSet
  BY ChainAssumption DEF IType, TypeOK, ProcessReply
<1>1. replyQ' \in Seq(PacketSet) /\ Len(replyQ') <= ReplyQueue /\ p \in PacketSet
  BY <1>0, TailFacts
<1>2. \A a \in Int : U16(a) \in Counter16
  BY DEF U16, Counter16
<1>3. stats' \in StatsSet
  <2>1. PICK a \in {0, 1}, b \in {0, 1} :
          stats' = [stats EXCEPT !.received = stats.received + 1, !.modulesFound = p.hops,
                                 !.outOfSequence = U16(stats.outOfSequence + a),
                                 !.notProcessed = U16(stats.notProcessed + b)]
    BY DEF ProcessReply
  <2>2. /\ U16(stats.outOfSequence + a) \in Counter16 /\ U16(stats.notProcessed + b) \in Counter16
        /\ stats.received + 1 \in Nat /\ p.hops \in 0 .. N
    <3>1. stats.outOfSequence \in Int /\ stats.notProcessed \in Int /\ stats.received + 1 \in Nat
      BY <1>0 DEF StatsSet, Counter16
    <3>2. p.hops \in 0 .. N
      BY <1>1 DEF PacketSet
    <3> QED BY <1>2, <3>1, <3>2
  <2>3. \A r \in Nat, h \in 0 .. N, o, n \in Counter16 :
          [stats EXCEPT !.received = r, !.modulesFound = h, !.outOfSequence = o,
                        !.notProcessed = n] \in StatsSet
    BY <1>0 DEF StatsSet
  <2> QED BY <2>1, <2>2, <2>3
<1>4. ghost' \in GhostSet
  <2>1. PICK a \in {0, 1}, b \in {0, 1} :
          ghost' = [ghost EXCEPT !.gaps = ghost.gaps + a, !.ignored = ghost.ignored + b]
    BY DEF ProcessReply
  <2>2. ghost.gaps + a \in Nat /\ ghost.ignored + b \in Nat
    BY <1>0 DEF GhostSet
  <2>3. \A g, i \in Nat : [ghost EXCEPT !.gaps = g, !.ignored = i] \in GhostSet
    BY <1>0 DEF GhostSet
  <2> QED BY <2>1, <2>2, <2>3
<1>5. cmi' \in [Cells -> Modules \cup {Nothing, Undefined}]
  <2>1. cmi' \in {cmi, Stored(p)}
    BY DEF ProcessReply
  <2> QED BY <1>1, <2>1, StoredTyped DEF IType, TypeOK
<1> QED BY <1>0, <1>1, <1>3, <1>4, <1>5 DEF ProcessReply, IType, TypeOK, Wires, producers, module

(* The wires.                                                              *)
LEMMA FaultTyped == ASSUME IType, NEW i \in 0 .. N, Lose(i) \/ Damage(i) PROVE IType'
<1>0. Wires(wire) /\ wire[i] # <<>> /\ ghost \in GhostSet /\ ghost' = [ghost EXCEPT !.faults = @ + 1]
  BY DEF IType, TypeOK, Lose, Damage, Fault
<1>1. ghost' \in GhostSet
  BY <1>0 DEF GhostSet
<1>2. Head(wire[i]) \in PacketSet /\ Head(wire[i]).hops = i
  BY <1>0, WirePop
<1>3. Wires(wire')
  <2>1. CASE Lose(i)
    BY <1>0, <2>1, WirePop DEF Lose
  <2>2. CASE Damage(i)
    <3> DEFINE p == [Head(wire[i]) EXCEPT !.intact = FALSE]
    <3>1. p \in PacketSet /\ p.hops = i
      BY <1>2 DEF PacketSet
    <3>2. wire' = [wire EXCEPT ![i] = <<p>> \o Tail(@)]
      BY <2>2 DEF Damage
    <3> HIDE DEF p
    <3> QED BY <1>0, <3>1, <3>2, WireReplace
  <2> QED BY <2>1, <2>2
<1> QED BY <1>1, <1>3 DEF Lose, Damage, Fault, IType, TypeOK, Wires, producers, module

(* Every step.                                                             *)
LEMMA TypeStep == ASSUME IType, [Next]_vars PROVE IType'
<1>1. CASE UNCHANGED vars
  BY <1>1 DEF vars, IType, TypeOK, Wires
<1> QED
  BY <1>1, ProduceTyped, TransmitTyped, HandlesTyped, ReceiveTyped, ReplyTyped, FaultTyped DEF Next

(* Every variable has its type: no queue outgrows its capacity and the     *)
(* counters have 16 bits.                                                  *)
THEOREM ChainTyped == Spec => []TypeOK
<1>1. IType => TypeOK
  BY DEF IType
<1> QED BY <1>1, TypeInit, TypeStep, PTL DEF Spec

-----------------------------------------------------------------------------
(* The way of a request: its queue, the wires and the queue of the replies *)
(* are one row of places that it goes through one after the other.  Row    *)
(* has the ids that are at each.                                           *)
Places == -1 .. N + 1

Row == [i \in Places |-> IF i = -1 THEN Ids(requestQ)
                         ELSE IF i = N + 1 THEN Ids(replyQ) ELSE Ids(wire[i])]

(* Ids are between those of the last answer and of the last request, and   *)
(* they fall along the way.                                                *)
Ordered(row, low, high) ==
  /\ \A i \in Places : \A a \in row[i] : low < a /\ a <= high
  /\ \A i, j \in Places : i > j => \A a \in row[i], b \in row[j] : a < b

Rising(s) == \A k, l \in 1 .. Len(s) : k < l => s[k].id < s[l].id

Rise == /\ Rising(requestQ) /\ Rising(replyQ)
        /\ \A i \in 0 .. N : Rising(wire[i])

Order == /\ Rise /\ lastReply.id <= ghost.issued
         /\ Ordered(Row, lastReply.id, ghost.issued)

(* The queue of requests is numbered without a gap, and the numbers on the *)
(* packets follow the requests'.                                           *)
Numbered ==
  /\ \A k \in 1 .. Len(requestQ) : requestQ[k].id = ghost.issued - Len(requestQ) + k
  /\ sequence = (ghost.issued - Len(requestQ)) % SequenceSize
  /\ Len(requestQ) <= ghost.issued

(* What a packet looks like that has passed h modules: each that it        *)
(* addresses has executed it and, for a read, added its value.             *)
Before(p, h) == {m \in Modules : m < h /\ Addressed(p, m)}
Count(p, h) == IF h <= p.start THEN 0
               ELSE IF h - p.start <= p.cells + 1 THEN h - p.start ELSE p.cells + 1
Executed(p, h) ==
  /\ p.done = Before(p, h)
  /\ p.seen = (Before(p, h) # {} /\ MarksSeen(p.command))
  /\ p.command \in ReadCommands =>
       /\ Len(p.data) = Count(p, h)
       /\ \A k \in 1 .. Len(p.data) : p.data[k] = p.start + k - 1
Passed(p, h) ==
  /\ p.sequence = p.id % SequenceSize
  /\ p.intact => Executed(p, h)

PassedSet(h) == {p \in PacketSet : Passed(p, h)}

Carried ==
  /\ \A i \in 0 .. N : wire[i] \in Seq(PassedSet(i))
  /\ replyQ \in Seq({p \in PassedSet(N) : p.intact})
  /\ lastReply.sequence = lastReply.id % SequenceSize
  /\ lastReply.id > 0 => Executed(lastReply, N)

(* The requests that can still be answered; the others are as many as the  *)
(* faults that lost them, at most.                                         *)
Good(s) == {s[k].id : k \in {l \in 1 .. Len(s) : s[l].intact}}
Live == Ids(requestQ) \cup Ids(replyQ) \cup UNION {Good(wire[i]) : i \in 0 .. N}
Away == (lastReply.id + 1 .. ghost.issued) \ Live
Counted == Cardinality(Away) <= Lost

(* The inductive invariant.                                                *)
ChainInv == /\ IType /\ Numbered /\ Order /\ Carried /\ Counted
            /\ ErrorsAccounted /\ RightCell

-----------------------------------------------------------------------------
(* What the operations on a queue or a wire do to the ids that are in it.  *)

(* The ids are numbers.                                                    *)
LEMMA IdsNat ==
  ASSUME NEW S, \A e \in S : e.id \in Nat, NEW s \in Seq(S)
  PROVE  Ids(s) \in SUBSET Nat
<1>1. \A k \in 1 .. Len(s) : s[k].id \in Nat
  OBVIOUS
<1> QED BY <1>1 DEF Ids

(* The first one goes: it is the smallest of a rising sequence.            *)
LEMMA IdsTail ==
  ASSUME NEW S, \A e \in S : e.id \in Nat, NEW s \in Seq(S), s # <<>>, Rising(s)
  PROVE  /\ Rising(Tail(s)) /\ Ids(Tail(s)) = Ids(s) \ {Head(s).id}
         /\ Head(s).id \in Ids(s) /\ \A a \in Ids(s) : Head(s).id <= a
<1> DEFINE t == Tail(s)
<1>1. /\ t \in Seq(S) /\ Len(s) \in Nat \ {0} /\ Len(t) = Len(s) - 1 /\ Head(s) = s[1]
      /\ \A k \in 1 .. Len(s) - 1 : t[k] = s[k + 1]
  BY TailFacts
<1>2. \A k \in 1 .. Len(s) : s[k].id \in Nat
  OBVIOUS
<1> HIDE DEF t
<1>3. Rising(t)
  <2> SUFFICES ASSUME NEW k \in 1 .. Len(t), NEW l \in 1 .. Len(t), k < l PROVE t[k].id < t[l].id
    BY DEF Rising
  <2>1. k + 1 \in 1 .. Len(s) /\ l + 1 \in 1 .. Len(s) /\ k + 1 < l + 1
    BY <1>1
  <2> QED BY <1>1, <2>1 DEF Rising
<1>4. \A k \in 2 .. Len(s) : s[1].id < s[k].id
  BY <1>1 DEF Rising
<1>5. Ids(t) = Ids(s) \ {Head(s).id}
  <2>1. ASSUME NEW k \in 1 .. Len(t) PROVE t[k].id \in Ids(s) \ {Head(s).id}
    <3>1. k + 1 \in 2 .. Len(s) /\ k + 1 \in 1 .. Len(s) /\ 1 \in 1 .. Len(s) /\ t[k] = s[k + 1]
      BY <1>1
    <3>2. s[1].id # s[k + 1].id
      BY <1>2, <1>4, <3>1
    <3> QED BY <1>1, <3>1, <3>2 DEF Ids
  <2>2. ASSUME NEW k \in 1 .. Len(s), s[k].id # Head(s).id PROVE s[k].id \in Ids(t)
    <3>1. k - 1 \in 1 .. Len(t) /\ t[k - 1] = s[k]
      BY <1>1, <2>2
    <3> QED BY <3>1 DEF Ids
  <2> QED BY <2>1, <2>2 DEF Ids
<1>6. Head(s).id \in Ids(s)
  BY <1>1 DEF Ids
<1>7. \A a \in Ids(s) : Head(s).id <= a
  <2>1. \A k \in 1 .. Len(s) : Head(s).id <= s[k].id
    BY <1>1, <1>2, <1>4
  <2> QED BY <2>1 DEF Ids
<1> QED BY <1>3, <1>5, <1>6, <1>7 DEF t

(* A greater one joins at the end.                                         *)
LEMMA IdsAppend ==
  ASSUME NEW S, \A e \in S : e.id \in Nat, NEW s \in Seq(S), NEW e \in S, Rising(s),
         \A a \in Ids(s) : a < e.id
  PROVE  Rising(Append(s, e)) /\ Ids(Append(s, e)) = Ids(s) \cup {e.id}
<1> DEFINE t == Append(s, e)
<1>1. /\ t \in Seq(S) /\ Len(s) \in Nat /\ Len(t) = Len(s) + 1 /\ t[Len(s) + 1] = e
      /\ \A k \in 1 .. Len(s) : t[k] = s[k]
  BY AppendFacts
<1>2. \A k \in 1 .. Len(s) : s[k].id \in Nat /\ s[k].id < e.id
  BY DEF Ids
<1> HIDE DEF t
<1>3. Rising(t)
  <2> SUFFICES ASSUME NEW k \in 1 .. Len(t), NEW l \in 1 .. Len(t), k < l PROVE t[k].id < t[l].id
    BY DEF Rising
  <2>1. CASE l = Len(s) + 1
    <3>1. k \in 1 .. Len(s)
      BY <1>1, <2>1
    <3> QED BY <1>1, <1>2, <2>1, <3>1
  <2>2. CASE l \in 1 .. Len(s)
    <3>1. k \in 1 .. Len(s)
      BY <1>1, <2>2
    <3> QED BY <1>1, <2>2, <3>1 DEF Rising
  <2> QED BY <1>1, <2>1, <2>2
<1>4. Ids(t) = Ids(s) \cup {e.id}
  <2>1. 1 .. Len(t) = (1 .. Len(s)) \cup {Len(s) + 1}
    BY <1>1
  <2>2. Ids(t) = {t[k].id : k \in (1 .. Len(s)) \cup {Len(s) + 1}}
    BY <2>1 DEF Ids
  <2> QED BY <1>1, <2>2 DEF Ids
<1> QED BY <1>3, <1>4 DEF t

(* One with the same id takes the place of the first.                      *)
LEMMA IdsReplace ==
  ASSUME NEW S, \A e \in S : e.id \in Nat, NEW s \in Seq(S), s # <<>>, NEW e \in S, Rising(s),
         e.id = Head(s).id
  PROVE  Rising(<<e>> \o Tail(s)) /\ Ids(<<e>> \o Tail(s)) = Ids(s)
<1> DEFINE t == <<e>> \o Tail(s)
<1>1. /\ t \in Seq(S) /\ Len(s) \in Nat \ {0} /\ Len(t) = Len(s) /\ t[1] = e
      /\ \A k \in 2 .. Len(s) : t[k] = s[k]
  BY ReplaceFacts
<1>2. Head(s) = s[1]
  BY TailFacts
<1> HIDE DEF t
<1>3. \A k \in 1 .. Len(s) : t[k].id = s[k].id
  BY <1>1, <1>2
<1> QED BY <1>1, <1>3 DEF Rising, Ids, t

(* The intact ones among them.                                             *)
LEMMA GoodIds ==
  ASSUME NEW s PROVE Good(s) \subseteq Ids(s)
  BY DEF Good, Ids

(* They stay when the first one goes,                                      *)
LEMMA GoodTail ==
  ASSUME NEW S, NEW s \in Seq(S), s # <<>>
  PROVE  /\ Good(s) \ {Head(s).id} \subseteq Good(Tail(s))
         /\ ~Head(s).intact => Good(s) \subseteq Good(Tail(s))
<1> DEFINE t == Tail(s)
<1>1. /\ t \in Seq(S) /\ Len(s) \in Nat \ {0} /\ Len(t) = Len(s) - 1 /\ Head(s) = s[1]
      /\ \A k \in 1 .. Len(s) - 1 : t[k] = s[k + 1]
  BY TailFacts
<1> HIDE DEF t
<1>2. ASSUME NEW k \in 2 .. Len(s), s[k].intact PROVE s[k].id \in Good(t)
  <2>1. k - 1 \in 1 .. Len(t) /\ t[k - 1] = s[k]
    BY <1>1
  <2> QED BY <1>2, <2>1 DEF Good
<1>3. ASSUME NEW k \in 1 .. Len(s), s[k].intact PROVE k = 1 \/ s[k].id \in Good(t)
  BY <1>2, <1>3
<1>4. ASSUME NEW x \in Good(s)
      PROVE  x \in Good(t) \/ (x = Head(s).id /\ Head(s).intact)
  <2>1. PICK k \in 1 .. Len(s) : x = s[k].id /\ s[k].intact
    BY DEF Good
  <2>2. k = 1 \/ s[k].id \in Good(t)
    BY <1>3, <2>1
  <2> QED BY <1>1, <2>1, <2>2
<1> QED BY <1>4 DEF t

(* when one joins,                                                         *)
LEMMA GoodAppend ==
  ASSUME NEW S, NEW s \in Seq(S), NEW e \in S
  PROVE  Good(s) \cup (IF e.intact THEN {e.id} ELSE {}) \subseteq Good(Append(s, e))
<1> DEFINE t == Append(s, e)
<1>1. /\ t \in Seq(S) /\ Len(s) \in Nat /\ Len(t) = Len(s) + 1 /\ t[Len(s) + 1] = e
      /\ \A k \in 1 .. Len(s) : t[k] = s[k]
  BY AppendFacts
<1> HIDE DEF t
<1>2. \A k \in 1 .. Len(s) : s[k].intact => s[k].id \in Good(t)
  BY <1>1 DEF Good
<1>3. e.intact => e.id \in Good(t)
  BY <1>1 DEF Good
<1> QED BY <1>2, <1>3 DEF Good, t

(* and when the first is replaced.                                         *)
LEMMA GoodReplace ==
  ASSUME NEW S, NEW s \in Seq(S), s # <<>>, NEW e \in S
  PROVE  Good(s) \ {Head(s).id} \subseteq Good(<<e>> \o Tail(s))
<1> DEFINE t == <<e>> \o Tail(s)
<1>1. /\ t \in Seq(S) /\ Len(s) \in Nat \ {0} /\ Len(t) = Len(s)
      /\ \A k \in 2 .. Len(s) : t[k] = s[k]
  BY ReplaceFacts
<1>2. Head(s) = s[1]
  BY TailFacts
<1> HIDE DEF t
<1>3. \A k \in 2 .. Len(s) : s[k].intact => s[k].id \in Good(t)
  BY <1>1 DEF Good
<1>4. \A k \in 1 .. Len(s) : s[k].intact => k = 1 \/ s[k].id \in Good(t)
  BY <1>3
<1> QED BY <1>2, <1>4 DEF Good, t

-----------------------------------------------------------------------------
(* What a step may do to a row of sets of ids.                             *)

(* Some disappear, and the answers may have come so far that none is left  *)
(* that is not later.                                                      *)
LEMMA OrderDrop ==
  ASSUME NEW f, NEW g, NEW low, NEW high, NEW from, Ordered(f, low, high),
         \A i \in Places : g[i] \subseteq f[i],
         \A i \in Places : \A a \in g[i] : from < a
  PROVE  Ordered(g, from, high)
  BY DEF Ordered

(* A new one, greater than all, comes to the first place.                  *)
LEMMA OrderPush ==
  ASSUME NEW f \in [Places -> SUBSET Nat], NEW g, NEW low \in Nat, NEW high \in Nat,
         Ordered(f, low, high), low <= high,
         g[-1] = f[-1] \cup {high + 1}, \A i \in Places \ {-1} : g[i] = f[i]
  PROVE  Ordered(g, low, high + 1)
<1>1. -1 \in Places /\ \A i \in Places : i >= -1 /\ i \in Int
  BY ChainAssumption DEF Places
<1>2. \A i \in Places : \A a \in f[i] : a \in Nat
  OBVIOUS
<1>3. ASSUME NEW i \in Places, NEW a \in g[i] PROVE low < a /\ a <= high + 1
  BY <1>1, <1>2, <1>3 DEF Ordered
<1>4. ASSUME NEW i \in Places, NEW j \in Places, i > j, NEW a \in g[i], NEW b \in g[j] PROVE a < b
  <2>1. a \in f[i] /\ a <= high
    BY <1>1, <1>4 DEF Ordered
  <2>2. CASE b \in f[j]
    BY <1>4, <2>1, <2>2 DEF Ordered
  <2>3. CASE b = high + 1
    BY <1>2, <2>1, <2>3
  <2> QED BY <1>4, <2>2, <2>3
<1> QED BY <1>3, <1>4 DEF Ordered

(* The least of a place moves to the next.                                 *)
LEMMA OrderMove ==
  ASSUME NEW f \in [Places -> SUBSET Nat], NEW g, NEW low, NEW high, Ordered(f, low, high),
         NEW i \in Places, i + 1 \in Places, NEW x \in f[i], \A a \in f[i] : x <= a,
         g[i] = f[i] \ {x}, g[i + 1] = f[i + 1] \cup {x},
         \A j \in Places \ {i, i + 1} : g[j] = f[j]
  PROVE  Ordered(g, low, high)
<1>1. \A j \in Places : j \in Int
  BY ChainAssumption DEF Places
<1>2. \A j \in Places : \A a \in f[j] : a \in Nat
  OBVIOUS
<1>3. ASSUME NEW j \in Places, NEW a \in g[j] PROVE low < a /\ a <= high
  <2>1. a = x \/ a \in f[j]
    BY <1>3
  <2> QED BY <2>1 DEF Ordered
<1>4. ASSUME NEW j \in Places, NEW k \in Places, j > k, NEW a \in g[j], NEW b \in g[k]
      PROVE  a < b
  <2>1. /\ (j = i + 1 /\ a = x) \/ a \in f[j]
        /\ (k = i + 1 /\ b = x) \/ b \in f[k]
    BY <1>4
  <2>2. CASE j = i + 1 /\ a = x
    <3>1. b \in f[k] /\ (k = i => b # x)
      BY <1>1, <1>4, <2>1, <2>2
    <3>2. CASE k = i
      BY <1>2, <2>2, <3>1, <3>2
    <3>3. CASE k # i
      <4>1. i > k
        BY <1>1, <1>4, <2>2, <3>3
      <4> QED BY <2>2, <3>1, <4>1 DEF Ordered
    <3> QED BY <3>2, <3>3
  <2>3. CASE a \in f[j] /\ b \in f[k]
    BY <1>4, <2>3 DEF Ordered
  <2>4. CASE a \in f[j] /\ k = i + 1 /\ b = x
    <3>1. j > i
      BY <1>1, <1>4, <2>4
    <3> QED BY <2>4, <3>1 DEF Ordered
  <2> QED BY <2>1, <2>2, <2>3, <2>4
<1> QED BY <1>3, <1>4 DEF Ordered

-----------------------------------------------------------------------------
(* What the steps change.                                                  *)

(* A producer queues one request with the next number, or none; it may     *)
(* reset the counts of both kinds of errors, and what they ought to be.    *)
Moved(i) ==
  \E x \in Row[i] : /\ Row'[i] = Row[i] \ {x} /\ Row'[i + 1] = Row[i + 1] \cup {x}
                    /\ \A j \in Places \ {i, i + 1} : Row'[j] = Row[j]
Popped(i, x) == /\ x \in Row[i] /\ Row'[i] = Row[i] \ {x}
                /\ \A j \in Places \ {i} : Row'[j] = Row[j]
Queues(r) == /\ requestQ' = Append(requestQ, r) /\ r.id = ghost.issued + 1
             /\ ghost'.issued = ghost.issued + 1

(* What a producer does to the chain: it queues at most one request, and a *)
(* reset clears the controller's counters and their ghosts together.       *)
LEMMA ProduceIs ==
  ASSUME IType, Produce
  PROVE  /\ \/ \E r \in RequestSet : Queues(r)
            \/ requestQ' = requestQ /\ ghost'.issued = ghost.issued
         /\ UNCHANGED <<replyQ, wire, sequence, lastReply, cmi, module>>
         /\ ghost'.faults = ghost.faults /\ ghost'.overflows = ghost.overflows
         /\ ghost'.damaged = ghost.damaged
         /\ stats'.pendingCRC = stats.pendingCRC /\ stats'.totalCRC = stats.totalCRC
         /\ \/ /\ stats'.outOfSequence = stats.outOfSequence /\ ghost'.gaps = ghost.gaps
               /\ stats'.notProcessed = stats.notProcessed /\ ghost'.ignored = ghost.ignored
            \/ /\ stats'.outOfSequence = 0 /\ ghost'.gaps = 0
               /\ stats'.notProcessed = 0 /\ ghost'.ignored = 0
<1> DEFINE Goal ==
         /\ \/ \E r \in RequestSet : Queues(r)
            \/ requestQ' = requestQ /\ ghost'.issued = ghost.issued
         /\ UNCHANGED <<replyQ, wire, sequence, lastReply, cmi, module>>
         /\ ghost'.faults = ghost.faults /\ ghost'.overflows = ghost.overflows
         /\ ghost'.damaged = ghost.damaged
         /\ stats'.pendingCRC = stats.pendingCRC /\ stats'.totalCRC = stats.totalCRC
         /\ \/ /\ stats'.outOfSequence = stats.outOfSequence /\ ghost'.gaps = ghost.gaps
               /\ stats'.notProcessed = stats.notProcessed /\ ghost'.ignored = ghost.ignored
            \/ /\ stats'.outOfSequence = 0 /\ ghost'.gaps = 0
               /\ stats'.notProcessed = 0 /\ ghost'.ignored = 0
<1> HIDE DEF Goal
<1>0. /\ Configured \in Nat \ {0} /\ PerPacket \in Nat \ {0} /\ AllCells \in Nat
      /\ ghost.issued \in Nat /\ 0 \in Cells /\ stats \in StatsSet /\ ghost \in GhostSet
      /\ {"ReadVoltageAndStatus", "ReadTemperature", "ReadBalancePowerPWM"} \subseteq Commands
      /\ {"ResetPacketCounters", "ResetBalanceCurrentCounter"} \subseteq Commands
      /\ UserCommands \subseteq Commands
  <2>1. stats \in StatsSet /\ ghost \in GhostSet
    BY DEF IType, TypeOK
  <2>2. ghost.issued \in Nat
    BY <2>1 DEF GhostSet
  <2> QED
    BY <2>1, <2>2, ChainAssumption DEF Cells, Commands, ReadCommands, ItemSize, BroadcastCommands
<1>1. \A c, f, l : Request(c, f, l).id = ghost.issued + 1
  BY DEF Request
<1>2. ASSUME NEW r \in RequestSet, r.id = ghost.issued + 1, Push(r),
             UNCHANGED <<replyQ, wire, sequence, lastReply, cmi, module>>
      PROVE  Goal
  <2>1. /\ requestQ' = Append(requestQ, r)
        /\ stats' = [stats EXCEPT !.generated = @ + 1]
        /\ ghost' = [ghost EXCEPT !.issued = @ + 1]
    BY <1>2 DEF Push
  <2>2. /\ stats'.pendingCRC = stats.pendingCRC /\ stats'.totalCRC = stats.totalCRC
        /\ stats'.outOfSequence = stats.outOfSequence /\ stats'.notProcessed = stats.notProcessed
    BY <1>0, <2>1 DEF StatsSet
  <2>3. /\ ghost'.issued = ghost.issued + 1 /\ ghost'.faults = ghost.faults
        /\ ghost'.overflows = ghost.overflows /\ ghost'.damaged = ghost.damaged
        /\ ghost'.gaps = ghost.gaps /\ ghost'.ignored = ghost.ignored
    BY <1>0, <2>1 DEF GhostSet
  <2> QED BY <1>2, <2>1, <2>2, <2>3 DEF Goal, Queues
<1>3. /\ scan \in ScanSet /\ ScanEnd \in Int /\ scan.start \in Cells
  BY ScanTyped DEF IType, TypeOK
<1>4. \A c \in {"ReadVoltageAndStatus", "ReadTemperature", "ReadBalancePowerPWM"} :
        Request(c, scan.start, ScanEnd) \in RequestSet
  BY <1>0, <1>3, RequestTyped
<1>5. ASSUME EnqueueVoltage PROVE Goal
  BY <1>1, <1>2, <1>4, <1>5 DEF EnqueueVoltage
<1>6. ASSUME EnqueueTemperature PROVE Goal
  BY <1>1, <1>2, <1>4, <1>6 DEF EnqueueTemperature
<1>7. ASSUME EnqueuePWM PROVE Goal
  BY <1>1, <1>2, <1>4, <1>7 DEF EnqueuePWM
<1>8. ASSUME AskModule PROVE Goal
  <2>1. PICK c \in UserCommands, m \in 0 .. Configured : Push(Request(c, m, m))
    BY <1>8 DEF AskModule
  <2>2. c \in Commands /\ m \in Cells /\ m \in Int
    BY <1>0 DEF Cells
  <2>3. Request(c, m, m) \in RequestSet
    BY <1>0, <2>2, RequestTyped
  <2> QED BY <1>1, <1>2, <1>8, <2>1, <2>3 DEF AskModule
<1>13. ASSUME AskBank PROVE Goal
  <2>1. PICK r \in RequestSet : r.id = ghost.issued + 1 /\ Push(r)
    BY <1>13, AskBankTyped
  <2> QED BY <1>2, <1>13, <2>1 DEF AskBank
<1>9. ASSUME Broadcast PROVE Goal
  <2>1. PICK c \in UserCommands : Push(Request(c, 0, AllCells))
    BY <1>9 DEF Broadcast
  <2>2. Request(c, 0, AllCells) \in RequestSet
    BY <1>0, RequestTyped
  <2> QED BY <1>1, <1>2, <1>9, <2>1, <2>2 DEF Broadcast
<1>10. ASSUME StartReset PROVE Goal
  <2>1. Request("ResetPacketCounters", 0, AllCells) \in RequestSet
    BY <1>0, RequestTyped
  <2> QED BY <1>1, <1>2, <1>10, <2>1 DEF StartReset
<1>11. ASSUME FinishReset PROVE Goal
  <2> DEFINE r == Request("ResetBalanceCurrentCounter", 0, AllCells)
  <2>1. r \in RequestSet /\ r.id = ghost.issued + 1
    BY <1>0, <1>1, RequestTyped
  <2>2. /\ requestQ' = Append(requestQ, r)
        /\ stats' = [stats EXCEPT !.generated = 0, !.received = 0, !.outOfSequence = 0,
                                  !.notProcessed = 0]
        /\ ghost' = [ghost EXCEPT !.issued = @ + 1, !.gaps = 0, !.ignored = 0, !.resets = @ + 1]
        /\ UNCHANGED <<replyQ, wire, sequence, lastReply, cmi, module>>
    BY <1>11 DEF FinishReset
  <2> HIDE DEF r
  <2>3. /\ stats'.pendingCRC = stats.pendingCRC /\ stats'.totalCRC = stats.totalCRC
        /\ stats'.outOfSequence = 0 /\ stats'.notProcessed = 0
    BY <1>0, <2>2 DEF StatsSet
  <2>4. /\ ghost'.issued = ghost.issued + 1 /\ ghost'.faults = ghost.faults
        /\ ghost'.overflows = ghost.overflows /\ ghost'.damaged = ghost.damaged
        /\ ghost'.gaps = 0 /\ ghost'.ignored = 0
    BY <1>0, <2>2 DEF GhostSet
  <2> QED BY <2>1, <2>2, <2>3, <2>4 DEF Goal, Queues
<1>12. ASSUME AbandonReset PROVE Goal
  <2>1. /\ ghost' = [ghost EXCEPT !.resets = @ + 1] /\ stats' = stats /\ requestQ' = requestQ
        /\ UNCHANGED <<replyQ, wire, sequence, lastReply, cmi, module>>
    BY <1>12 DEF AbandonReset
  <2>2. /\ ghost'.issued = ghost.issued /\ ghost'.faults = ghost.faults
        /\ ghost'.overflows = ghost.overflows /\ ghost'.damaged = ghost.damaged
        /\ ghost'.gaps = ghost.gaps /\ ghost'.ignored = ghost.ignored
    BY <1>0, <2>1 DEF GhostSet
  <2> QED BY <2>1, <2>2 DEF Goal
<1> QED
  BY <1>5, <1>6, <1>7, <1>8, <1>9, <1>10, <1>11, <1>12, <1>13 DEF Produce, Goal

-----------------------------------------------------------------------------
(* The order of the ids.                                                   *)

(* What is at the places.                                                  *)
LEMMA RowIs ==
  /\ -1 \in Places /\ N + 1 \in Places /\ \A i \in 0 .. N : i \in Places
  /\ \A i \in Places : i = -1 \/ i = N + 1 \/ i \in 0 .. N
  /\ Row[-1] = Ids(requestQ) /\ Row[N + 1] = Ids(replyQ)
  /\ \A i \in 0 .. N : Row[i] = Ids(wire[i])
  /\ Row'[-1] = Ids(requestQ') /\ Row'[N + 1] = Ids(replyQ')
  /\ \A i \in 0 .. N : Row'[i] = Ids(wire'[i])
<1>1. /\ -1 \in Places /\ N + 1 \in Places /\ \A i \in 0 .. N : i \in Places
      /\ \A i \in Places : i = -1 \/ i = N + 1 \/ i \in 0 .. N
      /\ -1 # N + 1 /\ \A i \in 0 .. N : i # -1 /\ i # N + 1
  BY ChainAssumption DEF Places
<1> QED BY <1>1 DEF Row

(* Their types.                                                            *)
LEMMA RowTyped ==
  ASSUME IType
  PROVE  /\ Row \in [Places -> SUBSET Nat]
         /\ requestQ \in Seq(RequestSet) /\ replyQ \in Seq(PacketSet)
         /\ \A i \in 0 .. N : wire[i] \in Seq(PacketSet)
         /\ \A e \in RequestSet \cup PacketSet : e.id \in Nat
         /\ lastReply.id \in Nat /\ ghost.issued \in Nat
<1>1. /\ requestQ \in Seq(RequestSet) /\ replyQ \in Seq(PacketSet)
      /\ \A i \in 0 .. N : wire[i] \in Seq(PacketSet)
      /\ lastReply \in PacketSet /\ ghost \in GhostSet
  BY DEF IType, TypeOK
<1>2. (\A e \in RequestSet : e.id \in Nat) /\ (\A e \in PacketSet : e.id \in Nat)
  BY DEF RequestSet, PacketSet
<1>3. Ids(requestQ) \in SUBSET Nat
  BY <1>1, <1>2, IdsNat
<1>4. Ids(replyQ) \in SUBSET Nat
  BY <1>1, <1>2, IdsNat
<1>5. \A i \in 0 .. N : Ids(wire[i]) \in SUBSET Nat
  BY <1>1, <1>2, IdsNat
<1>6. Row \in [Places -> SUBSET Nat]
  <2>1. \A i \in Places : Row[i] \in SUBSET Nat
    BY <1>3, <1>4, <1>5, RowIs
  <2> QED BY <2>1 DEF Row
<1> QED BY <1>1, <1>2, <1>6 DEF GhostSet

(* Nothing is at the places at first.                                      *)
LEMMA OrderInit == ASSUME Init PROVE Order
<1>1. requestQ = <<>> /\ replyQ = <<>> /\ wire = [i \in 0 .. N |-> <<>>]
  BY DEF Init
<1>2. lastReply.id = 0 /\ ghost.issued = 0
  BY DEF Init, NoReply, Packet
<1>3. Ids(<<>>) = {} /\ Rising(<<>>)
  BY DEF Ids, Rising
<1>4. \A i \in Places : Row[i] = {}
  BY <1>1, <1>3, RowIs
<1>5. Rise
  BY <1>1, <1>3 DEF Rise
<1> QED BY <1>2, <1>4, <1>5 DEF Order, Ordered

(* A request is queued.                                                    *)
LEMMA QueuesOrder ==
  ASSUME IType, Order, NEW r \in RequestSet, Queues(r), UNCHANGED <<replyQ, wire, lastReply>>
  PROVE  Order' /\ Ids(requestQ') = Ids(requestQ) \cup {ghost.issued + 1}
<1>1. \A a \in Ids(requestQ) : a < r.id
  <2>1. \A a \in Ids(requestQ) : a <= ghost.issued /\ a \in Nat
    BY RowIs, RowTyped DEF Order, Ordered
  <2> QED BY <2>1, RowTyped DEF Queues
<1>2. Rising(requestQ') /\ Ids(requestQ') = Ids(requestQ) \cup {r.id}
  BY <1>1, RowTyped, IdsAppend DEF Queues, Order, Rise
<1>3. Ordered(Row', lastReply.id, ghost.issued + 1)
  <2>1. Row'[-1] = Row[-1] \cup {ghost.issued + 1}
    BY <1>2, RowIs DEF Queues
  <2>2. \A i \in Places \ {-1} : Row'[i] = Row[i]
    BY RowIs
  <2> QED BY <2>1, <2>2, RowTyped, OrderPush DEF Order
<1>4. lastReply'.id <= ghost'.issued /\ Rise'
  BY <1>2, RowTyped DEF Queues, Order, Rise
<1> QED BY <1>2, <1>3, <1>4 DEF Order, Queues

(* A request is sent.                                                      *)
LEMMA TransmitOrder == ASSUME IType, Order, Transmit PROVE Order' /\ Moved(-1)
<1> DEFINE x == Head(requestQ).id
           p == Packet(Head(requestQ), sequence')
<1>1. /\ requestQ # <<>> /\ requestQ' = Tail(requestQ) /\ p \in PacketSet /\ p.id = x
      /\ wire' = [wire EXCEPT ![0] = Append(@, p)] /\ 0 \in 0 .. N /\ 0 = -1 + 1
      /\ wire \in [0 .. N -> Seq(PacketSet)]
      /\ UNCHANGED <<replyQ, lastReply, ghost>>
  <2>1. /\ requestQ # <<>> /\ requestQ' = Tail(requestQ) /\ UNCHANGED <<replyQ, lastReply, ghost>>
        /\ wire' = [wire EXCEPT ![0] = Append(@, p)] /\ sequence' = (sequence + 1) % SequenceSize
    BY DEF Transmit
  <2>2. Head(requestQ) \in RequestSet
    BY <2>1, RowTyped, TailFacts
  <2>3. sequence' \in 0 .. SequenceSize - 1
    <3>1. sequence + 1 \in Int
      BY ChainAssumption DEF IType, TypeOK
    <3> QED BY <2>1, <3>1, ChainAssumption, Remainder
  <2>4. p \in PacketSet
    BY <2>2, <2>3, PacketTyped DEF RequestSet
  <2>5. p.id = x
    BY DEF Packet
  <2> QED BY <2>1, <2>4, <2>5, ChainAssumption DEF IType, TypeOK
<1> HIDE DEF p
<1>2. /\ Rising(requestQ') /\ Ids(requestQ') = Ids(requestQ) \ {x}
      /\ x \in Ids(requestQ) /\ \A a \in Ids(requestQ) : x <= a
  BY <1>1, RowTyped, IdsTail DEF Order, Rise
<1> HIDE DEF x
<1>3. \A a \in Ids(wire[0]) : a < p.id
  BY <1>1, <1>2, RowIs DEF Order, Ordered
<1>4. Rising(wire'[0]) /\ Ids(wire'[0]) = Ids(wire[0]) \cup {x}
  BY <1>1, <1>3, RowTyped, IdsAppend DEF Order, Rise
<1>5. \A i \in 0 .. N : i # 0 => wire'[i] = wire[i]
  BY <1>1
<1>6. Ordered(Row', lastReply.id, ghost.issued) /\ Moved(-1)
  <2>1. Row'[-1] = Row[-1] \ {x} /\ Row'[-1 + 1] = Row[-1 + 1] \cup {x} /\ x \in Row[-1]
    BY <1>1, <1>2, <1>4, RowIs
  <2>2. \A i \in Places \ {-1, -1 + 1} : Row'[i] = Row[i]
    BY <1>1, <1>5, RowIs
  <2>3. -1 \in Places /\ -1 + 1 \in Places /\ \A a \in Row[-1] : x <= a
    BY <1>1, <1>2, RowIs
  <2>4. Moved(-1)
    BY <2>1, <2>2 DEF Moved
  <2> QED BY <2>1, <2>2, <2>3, <2>4, RowTyped, OrderMove DEF Order
<1>7. Rise'
  BY <1>1, <1>2, <1>4, <1>5 DEF Order, Rise
<1> QED BY <1>1, <1>6, <1>7 DEF Order

(* A packet passes a module.                                               *)
LEMMA HandlesOrder == ASSUME IType, Order, NEW m \in Modules, ModuleHandles(m)
                      PROVE Order' /\ Moved(m)
<1> DEFINE x == Head(wire[m]).id
           p == Forwarded(m, Head(wire[m]))
<1>1. /\ wire[m] # <<>> /\ m \in 0 .. N /\ m + 1 \in 0 .. N /\ m # m + 1
      /\ wire' = [wire EXCEPT ![m] = Tail(@), ![m + 1] = Append(@, p)]
      /\ wire \in [0 .. N -> Seq(PacketSet)]
      /\ UNCHANGED <<requestQ, replyQ, lastReply, ghost>>
  <2>1. wire \in [0 .. N -> Seq(PacketSet)]
    BY DEF IType, TypeOK
  <2>2. m \in 0 .. N /\ m + 1 \in 0 .. N /\ m # m + 1
    BY ChainAssumption DEF Modules
  <2> QED BY <2>1, <2>2 DEF ModuleHandles
<1>2. p \in PacketSet /\ p.id = x
  <2>1. Head(wire[m]) \in PacketSet /\ Head(wire[m]).hops = m
    BY <1>1, WirePop DEF IType
  <2>2. p \in PacketSet
    BY <2>1, ForwardedTyped
  <2> QED BY <2>1, <2>2 DEF Forwarded, PacketSet
<1> HIDE DEF p
<1>3. /\ wire'[m] = Tail(wire[m]) /\ wire'[m + 1] = Append(wire[m + 1], p)
      /\ \A i \in 0 .. N : i # m /\ i # m + 1 => wire'[i] = wire[i]
  BY <1>1
<1>4. /\ Rising(wire'[m]) /\ Ids(wire'[m]) = Ids(wire[m]) \ {x}
      /\ x \in Ids(wire[m]) /\ \A a \in Ids(wire[m]) : x <= a
  BY <1>1, <1>3, RowTyped, IdsTail DEF Order, Rise
<1> HIDE DEF x
<1>5. \A a \in Ids(wire[m + 1]) : a < p.id
  <2>1. m + 1 > m
    BY <1>1
  <2>2. /\ m \in Places /\ m + 1 \in Places
        /\ Row[m] = Ids(wire[m]) /\ Row[m + 1] = Ids(wire[m + 1])
    BY <1>1, RowIs
  <2>3. \A a \in Row[m + 1], b \in Row[m] : a < b
    BY <2>1, <2>2 DEF Order, Ordered
  <2> QED BY <1>2, <1>4, <2>2, <2>3
<1>6. Rising(wire'[m + 1]) /\ Ids(wire'[m + 1]) = Ids(wire[m + 1]) \cup {x}
  <2>1. wire[m + 1] \in Seq(PacketSet) /\ Rising(wire[m + 1])
    BY <1>1 DEF Order, Rise
  <2>2. \A e \in PacketSet : e.id \in Nat
    BY DEF PacketSet
  <2>3. /\ Rising(Append(wire[m + 1], p))
        /\ Ids(Append(wire[m + 1], p)) = Ids(wire[m + 1]) \cup {p.id}
    BY <1>2, <1>5, <2>1, <2>2, IdsAppend
  <2> QED BY <1>2, <1>3, <2>3
<1>7. Ordered(Row', lastReply.id, ghost.issued) /\ Moved(m)
  <2>1. Row'[m] = Row[m] \ {x} /\ Row'[m + 1] = Row[m + 1] \cup {x} /\ x \in Row[m]
    BY <1>1, <1>4, <1>6, RowIs
  <2>2. \A i \in Places \ {m, m + 1} : Row'[i] = Row[i]
    BY <1>1, <1>3, RowIs
  <2>3. m \in Places /\ m + 1 \in Places /\ \A a \in Row[m] : x <= a
    BY <1>1, <1>4, RowIs
  <2>4. Moved(m)
    BY <2>1, <2>2 DEF Moved
  <2> QED BY <2>1, <2>2, <2>3, <2>4, RowTyped, OrderMove DEF Order
<1>8. Rise'
  <2>1. \A i \in 0 .. N : Rising(wire'[i])
    BY <1>3, <1>4, <1>6 DEF Order, Rise
  <2> QED BY <1>1, <2>1 DEF Order, Rise
<1> QED BY <1>1, <1>7, <1>8 DEF Order

(* The head of a wire disappears.                                          *)
LEMMA PopOrder ==
  ASSUME IType, Order, NEW i \in 0 .. N, wire[i] # <<>>, wire' = [wire EXCEPT ![i] = Tail(@)],
         UNCHANGED <<requestQ, replyQ, lastReply>>, ghost'.issued = ghost.issued
  PROVE  Order' /\ Popped(i, Head(wire[i]).id)
<1>1. wire \in [0 .. N -> Seq(PacketSet)]
  BY DEF IType, TypeOK
<1>2. wire'[i] = Tail(wire[i]) /\ \A j \in 0 .. N : j # i => wire'[j] = wire[j]
  BY <1>1
<1>3. /\ Rising(wire'[i]) /\ Ids(wire'[i]) = Ids(wire[i]) \ {Head(wire[i]).id}
      /\ Head(wire[i]).id \in Ids(wire[i])
  BY <1>2, RowTyped, IdsTail DEF Order, Rise
<1>4. Ordered(Row', lastReply.id, ghost.issued)
  <2>1. \A j \in Places : Row'[j] \subseteq Row[j]
    BY <1>2, <1>3, RowIs
  <2>2. \A j \in Places : \A a \in Row'[j] : lastReply.id < a
    BY <2>1 DEF Order, Ordered
  <2> QED BY <2>1, <2>2, OrderDrop DEF Order
<1>5. Rise'
  BY <1>2, <1>3 DEF Order, Rise
<1>6. Popped(i, Head(wire[i]).id)
  BY <1>2, <1>3, RowIs DEF Popped
<1> QED BY <1>4, <1>5, <1>6 DEF Order

(* A packet comes back; it is queued if it is whole and there is room.     *)
LEMMA ReceiveOrder ==
  ASSUME IType, Order, Receive \/ ReceiveDamaged
  PROVE  Order' /\ IF replyQ' = replyQ THEN Popped(N, Head(wire[N]).id) ELSE Moved(N)
<1> DEFINE p == Head(wire[N])
<1>1. /\ wire[N] # <<>> /\ N \in 0 .. N /\ wire' = [wire EXCEPT ![N] = Tail(@)]
      /\ UNCHANGED <<requestQ, lastReply>>
  <2>1. N \in 0 .. N
    BY ChainAssumption
  <2> QED BY <2>1 DEF Receive, ReceiveDamaged
<1>2. ghost'.issued = ghost.issued
  <2>1. ghost \in GhostSet
    BY DEF IType, TypeOK
  <2> QED BY <2>1 DEF Receive, ReceiveDamaged, GhostSet
<1>3. replyQ' = replyQ \/ replyQ' = Append(replyQ, p)
  BY DEF Receive, ReceiveDamaged
<1>4. CASE replyQ' = replyQ
  BY <1>1, <1>2, <1>4, PopOrder
<1>5. ASSUME replyQ' = Append(replyQ, p) PROVE Order' /\ Moved(N)
  <2> DEFINE x == p.id
  <2>1. p \in PacketSet
    BY <1>1, WirePop DEF IType
  <2>2. wire'[N] = Tail(wire[N]) /\ \A i \in 0 .. N : i # N => wire'[i] = wire[i]
    BY <1>1 DEF IType, TypeOK
  <2>3. /\ Rising(wire'[N]) /\ Ids(wire'[N]) = Ids(wire[N]) \ {x}
        /\ x \in Ids(wire[N]) /\ \A a \in Ids(wire[N]) : x <= a
    BY <1>1, <2>2, RowTyped, IdsTail DEF Order, Rise
  <2> HIDE DEF p
  <2>4. \A a \in Ids(replyQ) : a < x
    <3>1. N + 1 > N
      BY ChainAssumption
    <3> QED BY <1>1, <2>3, <3>1, RowIs DEF Order, Ordered
  <2>5. Rising(replyQ') /\ Ids(replyQ') = Ids(replyQ) \cup {x}
    BY <1>5, <2>1, <2>4, RowTyped, IdsAppend DEF Order, Rise
  <2> HIDE DEF x
  <2>6. Ordered(Row', lastReply.id, ghost.issued) /\ Moved(N)
    <3>1. Row'[N] = Row[N] \ {x} /\ Row'[N + 1] = Row[N + 1] \cup {x} /\ x \in Row[N]
      BY <1>1, <2>3, <2>5, RowIs
    <3>2. \A i \in Places \ {N, N + 1} : Row'[i] = Row[i]
      BY <1>1, <2>2, RowIs
    <3>3. N \in Places /\ N + 1 \in Places /\ \A a \in Row[N] : x <= a
      BY <1>1, <2>3, RowIs
    <3>4. Moved(N)
      BY <3>1, <3>2 DEF Moved
    <3> QED BY <3>1, <3>2, <3>3, <3>4, RowTyped, OrderMove DEF Order
  <2>7. Rise'
    BY <1>1, <2>2, <2>3, <2>5 DEF Order, Rise
  <2> QED BY <1>1, <1>2, <2>6, <2>7 DEF Order
<1>6. replyQ' = replyQ \/ (replyQ' # replyQ /\ replyQ' = Append(replyQ, p))
  BY <1>3
<1> QED BY <1>4, <1>5, <1>6

(* The answer is the oldest that was on its way.                           *)
LEMMA ReplyOrder ==
  ASSUME IType, Order, ProcessReply
  PROVE  /\ Order' /\ lastReply' = Head(replyQ) /\ Popped(N + 1, lastReply'.id)
         /\ ghost'.issued = ghost.issued /\ lastReply.id < lastReply'.id /\ lastReply'.id <= ghost.issued
         /\ \A i \in Places : \A a \in Row[i] : lastReply'.id <= a
<1> DEFINE x == lastReply'.id
<1>1. /\ replyQ # <<>> /\ replyQ' = Tail(replyQ) /\ lastReply' = Head(replyQ)
      /\ UNCHANGED <<requestQ, wire>>
  BY DEF ProcessReply
<1>2. ghost'.issued = ghost.issued
  <2>1. ghost \in GhostSet
    BY DEF IType, TypeOK
  <2> QED BY <2>1 DEF ProcessReply, GhostSet
<1>3. /\ Rising(replyQ') /\ Ids(replyQ') = Ids(replyQ) \ {x} /\ x \in Ids(replyQ)
      /\ \A a \in Ids(replyQ) : x <= a
  BY <1>1, RowTyped, IdsTail DEF Order, Rise
<1> HIDE DEF x
<1>4. lastReply.id < x /\ x <= ghost.issued
  BY <1>3, RowIs DEF Order, Ordered
<1>5. \A i \in Places : \A a \in Row[i] : x <= a /\ (a = x => i = N + 1)
  <2>1. \A a \in Row[N + 1] : x <= a
    BY <1>3, RowIs
  <2>2. ASSUME NEW i \in Places, i # N + 1, NEW a \in Row[i] PROVE x < a
    <3>1. N + 1 > i /\ N + 1 \in Places /\ x \in Row[N + 1]
      BY <1>3, <2>2, RowIs, ChainAssumption DEF Places
    <3> QED BY <2>2, <3>1 DEF Order, Ordered
  <2>3. \A i \in Places : \A a \in Row[i] : a \in Nat /\ x \in Nat
    BY <1>3, RowTyped, RowIs
  <2> QED BY <2>1, <2>2, <2>3
<1>6. Ordered(Row', x, ghost.issued)
  <2>1. \A i \in Places : Row'[i] \subseteq Row[i]
    BY <1>1, <1>3, RowIs
  <2>2. \A i \in Places : \A a \in Row'[i] : a # x
    BY <1>1, <1>3, <1>5, <2>1, RowIs
  <2>3. \A i \in Places : \A a \in Row[i] : a \in Nat /\ x \in Nat
    BY <1>3, RowTyped, RowIs
  <2>4. \A i \in Places : \A a \in Row'[i] : x < a
    BY <1>5, <2>1, <2>2, <2>3
  <2> QED BY <2>1, <2>4, OrderDrop DEF Order
<1>7. Rise'
  BY <1>1, <1>3 DEF Order, Rise
<1>8. Popped(N + 1, x)
  BY <1>1, <1>3, RowIs DEF Popped
<1> QED BY <1>1, <1>2, <1>4, <1>5, <1>6, <1>7, <1>8 DEF Order, x

(* A packet is damaged.                                                    *)
LEMMA DamageOrder ==
  ASSUME IType, Order, NEW i \in 0 .. N, Damage(i)
  PROVE  Order' /\ \A j \in Places : Row'[j] = Row[j]
<1> DEFINE p == [Head(wire[i]) EXCEPT !.intact = FALSE]
<1>1. /\ wire[i] # <<>> /\ wire' = [wire EXCEPT ![i] = <<p>> \o Tail(@)]
      /\ UNCHANGED <<requestQ, replyQ, lastReply>>
      /\ ghost' = [ghost EXCEPT !.faults = @ + 1]
  BY DEF Damage, Fault
<1>2. ghost'.issued = ghost.issued
  BY <1>1 DEF IType, TypeOK, GhostSet
<1>3. Head(wire[i]) \in PacketSet
  BY <1>1, WirePop DEF IType
<1>4. p \in PacketSet /\ p.id = Head(wire[i]).id
  BY <1>3 DEF PacketSet
<1> HIDE DEF p
<1>5. wire'[i] = <<p>> \o Tail(wire[i]) /\ \A j \in 0 .. N : j # i => wire'[j] = wire[j]
  BY <1>1 DEF IType, TypeOK
<1>6. Rising(wire'[i]) /\ Ids(wire'[i]) = Ids(wire[i])
  BY <1>1, <1>4, <1>5, RowTyped, IdsReplace DEF Order, Rise
<1>7. \A j \in Places : Row'[j] = Row[j]
  BY <1>1, <1>5, <1>6, RowIs
<1>8. Rise'
  BY <1>1, <1>5, <1>6 DEF Order, Rise
<1> QED BY <1>1, <1>2, <1>5, <1>6, <1>7, <1>8 DEF Order, Ordered

(* A packet is lost.                                                       *)
LEMMA LoseOrder ==
  ASSUME IType, Order, NEW i \in 0 .. N, Lose(i)
  PROVE  Order' /\ Popped(i, Head(wire[i]).id)
<1>1. ghost'.issued = ghost.issued
  BY DEF Lose, Fault, IType, TypeOK, GhostSet
<1> QED BY <1>1, PopOrder DEF Lose, Fault

(* Every step keeps the order.                                             *)
LEMMA OrderStep == ASSUME IType, Order, [Next]_vars PROVE Order'
<1>1. CASE Produce
  <2>1. CASE \E r \in RequestSet : Queues(r)
    BY <1>1, <2>1, ProduceIs, QueuesOrder
  <2>2. CASE requestQ' = requestQ /\ ghost'.issued = ghost.issued
    <3>1. UNCHANGED <<requestQ, replyQ, wire, lastReply>>
      BY <1>1, <2>2, ProduceIs
    <3>2. Row' = Row /\ Rise' = Rise
      BY <3>1 DEF Row, Rise
    <3> QED BY <2>2, <3>1, <3>2 DEF Order
  <2> QED BY <1>1, <2>1, <2>2, ProduceIs
<1>2. CASE UNCHANGED vars
  BY <1>2 DEF vars, Order, Rise, Row
<1> QED
  BY <1>1, <1>2, TransmitOrder, HandlesOrder, ReceiveOrder, ReplyOrder, DamageOrder, LoseOrder
     DEF Next

-----------------------------------------------------------------------------
(* The chain is a lossy link.                                              *)
(* The requests on their way are those in the row.                         *)
LEMMA FlightIs ==
  ASSUME IType, IType'
  PROVE  /\ InFlight = UNION {Row[i] : i \in Places}
         /\ InFlight' = UNION {Row'[i] : i \in Places}
  BY RowIs DEF InFlight

(* One that moves stays among them,                                        *)
LEMMA MovedFlight ==
  ASSUME IType, IType', NEW i \in Places, i + 1 \in Places, Moved(i)
  PROVE  InFlight' = InFlight
<1>1. i # i + 1
  BY ChainAssumption DEF Places
<1>2. PICK x \in Row[i] : /\ Row'[i] = Row[i] \ {x} /\ Row'[i + 1] = Row[i + 1] \cup {x}
                          /\ \A j \in Places \ {i, i + 1} : Row'[j] = Row[j]
  BY DEF Moved
<1>3. ASSUME NEW a, NEW j \in Places, a \in Row[j] PROVE \E k \in Places : a \in Row'[k]
  BY <1>1, <1>2, <1>3
<1>4. ASSUME NEW a, NEW j \in Places, a \in Row'[j] PROVE \E k \in Places : a \in Row[k]
  BY <1>1, <1>2, <1>4
<1> QED BY <1>3, <1>4, FlightIs

(* one that disappears does not.                                           *)
LEMMA PoppedFlight ==
  ASSUME IType, IType', Order, NEW i \in Places, NEW x, Popped(i, x)
  PROVE  x \in InFlight /\ InFlight' = InFlight \ {x}
<1>1. ASSUME NEW j \in Places, j # i PROVE x \notin Row[j]
  <2>1. i > j \/ j > i
    BY <1>1, ChainAssumption DEF Places
  <2>2. x \in Row[i] /\ x \in Nat
    BY RowTyped DEF Popped
  <2> QED BY <2>1, <2>2 DEF Order, Ordered
<1>2. \A j \in Places : Row'[j] = Row[j] \ {x}
  BY <1>1 DEF Popped
<1> QED BY <1>2, FlightIs DEF Popped

(* PacketChain implements RequestLink: requests are answered at most once  *)
(* and in the order they were made, whatever is lost, damaged or finds a   *)
(* full queue.                                                             *)
THEOREM ChainIsLink == Spec => LinkSpec
<1>1. Init => Link!Init
  <2> SUFFICES ASSUME Init PROVE Link!Init
    OBVIOUS
  <2>1. ghost.issued = 0 /\ lastReply.id = 0
    BY DEF Init, NoReply, Packet
  <2>2. Ids(<<>>) = {} /\ requestQ = <<>> /\ replyQ = <<>> /\ wire = [i \in 0 .. N |-> <<>>]
    BY DEF Init, Ids
  <2>3. InFlight = {}
    BY <2>2 DEF InFlight
  <2> QED BY <2>1, <2>3 DEF Link!Init
<1>2. IType /\ Order /\ IType' /\ Order' /\ [Next]_vars => [Link!Next]_(Link!link)
  <2> SUFFICES ASSUME IType, Order, IType', Order', [Next]_vars PROVE [Link!Next]_(Link!link)
    OBVIOUS
  <2>1. ASSUME ghost'.issued = ghost.issued, lastReply' = lastReply, InFlight' = InFlight
        PROVE  [Link!Next]_(Link!link)
    BY <2>1 DEF Link!link
  <2>2. ASSUME ghost'.issued = ghost.issued, lastReply' = lastReply,
               NEW i \in Places, NEW x, Popped(i, x)
        PROVE  [Link!Next]_(Link!link)
    BY <2>2, PoppedFlight DEF Link!Next, Link!Drop
  <2>3. CASE Produce
    <3>1. CASE \E r \in RequestSet : Queues(r)
      <4>1. PICK r \in RequestSet : Queues(r)
        BY <3>1
      <4>2. UNCHANGED <<replyQ, wire, lastReply>>
        BY <2>3, ProduceIs
      <4>3. Ids(requestQ') = Ids(requestQ) \cup {ghost.issued + 1}
        BY <4>1, <4>2, QueuesOrder
      <4>4. InFlight' = InFlight \cup {ghost.issued + 1}
        BY <4>2, <4>3 DEF InFlight
      <4> QED BY <4>1, <4>2, <4>4 DEF Queues, Link!Next, Link!Issue
    <3>2. CASE requestQ' = requestQ /\ ghost'.issued = ghost.issued
      <4>1. UNCHANGED <<replyQ, wire, lastReply>>
        BY <2>3, ProduceIs
      <4>2. InFlight' = InFlight
        BY <3>2, <4>1 DEF InFlight
      <4> QED BY <2>1, <3>2, <4>1, <4>2
    <3> QED BY <2>3, <3>1, <3>2, ProduceIs
  <2>4. CASE Transmit
    <3>1. -1 \in Places /\ -1 + 1 \in Places
      BY ChainAssumption DEF Places
    <3>2. InFlight' = InFlight
      BY <2>4, <3>1, TransmitOrder, MovedFlight
    <3> QED BY <2>1, <2>4, <3>2 DEF Transmit
  <2>5. ASSUME NEW m \in Modules, ModuleHandles(m) PROVE [Link!Next]_(Link!link)
    <3>1. m \in Places /\ m + 1 \in Places
      BY ChainAssumption DEF Places, Modules
    <3>2. InFlight' = InFlight
      BY <2>5, <3>1, HandlesOrder, MovedFlight
    <3> QED BY <2>1, <2>5, <3>2 DEF ModuleHandles
  <2>6. CASE Receive \/ ReceiveDamaged
    <3>1. ghost'.issued = ghost.issued /\ lastReply' = lastReply
      <4>1. ghost \in GhostSet
        BY DEF IType, TypeOK
      <4> QED BY <2>6, <4>1 DEF Receive, ReceiveDamaged, GhostSet
    <3>2. N \in Places /\ N + 1 \in Places
      BY ChainAssumption DEF Places
    <3>3. CASE Moved(N)
      BY <2>1, <3>1, <3>2, <3>3, MovedFlight
    <3>4. CASE Popped(N, Head(wire[N]).id)
      BY <2>2, <3>1, <3>2, <3>4
    <3> QED BY <2>6, <3>3, <3>4, ReceiveOrder
  <2>7. CASE ProcessReply
    <3> DEFINE x == lastReply'.id
    <3>1. /\ N + 1 \in Places /\ Popped(N + 1, x) /\ ghost'.issued = ghost.issued
          /\ \A i \in Places : \A a \in Row[i] : x <= a
      BY <2>7, ReplyOrder, RowIs
    <3>2. x \in InFlight /\ InFlight' = InFlight \ {x}
      BY <3>1, PoppedFlight
    <3>3. \A a \in InFlight : x <= a
      BY <3>1, FlightIs
    <3> QED BY <3>1, <3>2, <3>3 DEF Link!Next, Link!Answer
  <2>8. ASSUME NEW i \in 0 .. N, Lose(i) PROVE [Link!Next]_(Link!link)
    <3>1. ghost'.issued = ghost.issued /\ lastReply' = lastReply
      BY <2>8 DEF Lose, Fault, IType, TypeOK, GhostSet
    <3>2. i \in Places
      BY ChainAssumption DEF Places
    <3> QED BY <2>2, <2>8, <3>1, <3>2, LoseOrder
  <2>9. ASSUME NEW i \in 0 .. N, Damage(i) PROVE [Link!Next]_(Link!link)
    <3>1. ghost'.issued = ghost.issued /\ lastReply' = lastReply
      BY <2>9 DEF Damage, Fault, IType, TypeOK, GhostSet
    <3>2. InFlight' = InFlight
      BY <2>9, DamageOrder, FlightIs
    <3> QED BY <2>1, <3>1, <3>2
  <2>10. CASE UNCHANGED vars
    BY <2>10 DEF vars, Link!link, InFlight
  <2> QED BY <2>3, <2>4, <2>5, <2>6, <2>7, <2>8, <2>9, <2>10 DEF Next
<1> QED
  BY <1>1, <1>2, TypeInit, TypeStep, OrderInit, OrderStep, PTL DEF Spec, LinkSpec, Link!Spec

-----------------------------------------------------------------------------
(* The numbers of the packets.                                             *)
LEMMA NumberedInit == ASSUME Init PROVE Numbered
<1>1. /\ requestQ = <<>> /\ ghost.issued = 0 /\ sequence = 0 /\ Len(<<>>) = 0
      /\ SequenceSize \in Nat \ {0}
  BY ChainAssumption DEF Init
<1> QED BY <1>1 DEF Numbered

(* A request gets the next number, a packet that of its request.           *)
LEMMA QueuesNumbered ==
  ASSUME IType, Numbered, NEW r \in RequestSet, Queues(r), sequence' = sequence
  PROVE  Numbered'
<1>1. /\ requestQ' \in Seq(RequestSet) /\ Len(requestQ) \in Nat
      /\ Len(requestQ') = Len(requestQ) + 1 /\ requestQ'[Len(requestQ) + 1] = r
      /\ \A k \in 1 .. Len(requestQ) : requestQ'[k] = requestQ[k]
  BY RowTyped, AppendFacts DEF Queues
<1>2. /\ ghost.issued \in Nat /\ ghost'.issued = ghost.issued + 1 /\ r.id = ghost.issued + 1
  BY RowTyped DEF Queues
<1>3. ASSUME NEW k \in 1 .. Len(requestQ')
      PROVE  requestQ'[k].id = ghost'.issued - Len(requestQ') + k
  <2>1. CASE k = Len(requestQ) + 1
    BY <1>1, <1>2, <2>1
  <2>2. CASE k \in 1 .. Len(requestQ)
    <3>1. requestQ'[k].id = ghost.issued - Len(requestQ) + k
      BY <1>1, <2>2 DEF Numbered
    <3> QED BY <1>1, <1>2, <3>1
  <2> QED BY <1>1, <2>1, <2>2
<1>4. ghost'.issued - Len(requestQ') = ghost.issued - Len(requestQ)
  BY <1>1, <1>2
<1>5. Len(requestQ') <= ghost'.issued
  BY <1>1, <1>2 DEF Numbered
<1> QED BY <1>3, <1>4, <1>5 DEF Numbered

(* The sequence number is that of the request which is sent.               *)
LEMMA TransmitNumbered ==
  ASSUME IType, Numbered, Transmit
  PROVE  Numbered' /\ sequence' = Head(requestQ).id % SequenceSize
<1>1. /\ requestQ' \in Seq(RequestSet) /\ Len(requestQ) \in Nat \ {0}
      /\ Len(requestQ') = Len(requestQ) - 1 /\ Head(requestQ) = requestQ[1]
      /\ \A k \in 1 .. Len(requestQ) - 1 : requestQ'[k] = requestQ[k + 1]
  BY RowTyped, TailFacts DEF Transmit
<1>2. ghost' = ghost /\ ghost.issued \in Nat /\ sequence' = (sequence + 1) % SequenceSize
  BY RowTyped DEF Transmit
<1>3. sequence' = (ghost.issued - Len(requestQ) + 1) % SequenceSize
  <2>1. sequence = (ghost.issued - Len(requestQ)) % SequenceSize
    BY DEF Numbered
  <2>2. ghost.issued - Len(requestQ) \in Int
    BY <1>1, <1>2
  <2> QED BY <1>2, <2>1, <2>2, RemainderNext, ChainAssumption
<1>4. Head(requestQ).id = ghost.issued - Len(requestQ) + 1
  BY <1>1 DEF Numbered
<1>5. ASSUME NEW k \in 1 .. Len(requestQ')
      PROVE  requestQ'[k].id = ghost'.issued - Len(requestQ') + k
  <2>1. k + 1 \in 1 .. Len(requestQ) /\ requestQ'[k] = requestQ[k + 1]
    BY <1>1
  <2>2. requestQ[k + 1].id = ghost.issued - Len(requestQ) + (k + 1)
    BY <2>1 DEF Numbered
  <2>3. ghost.issued - Len(requestQ) + (k + 1) = ghost'.issued - Len(requestQ') + k
    <3>1. ghost'.issued = ghost.issued /\ k \in Nat /\ Len(requestQ) \in Nat
      BY <1>1, <1>2
    <3>2. \A a, b, c \in Int : a - b + (c + 1) = a - (b - 1) + c
      OBVIOUS
    <3>3. Len(requestQ') = Len(requestQ) - 1
      BY <1>1
    <3> QED BY <1>2, <3>1, <3>2, <3>3
  <2> QED BY <2>1, <2>2, <2>3
<1>6. ghost'.issued - Len(requestQ') = ghost.issued - Len(requestQ) + 1
  BY <1>1, <1>2
<1>7. Len(requestQ') <= ghost'.issued
  BY <1>1, <1>2 DEF Numbered
<1> QED BY <1>3, <1>4, <1>5, <1>6, <1>7 DEF Numbered

(* Every step keeps the numbers of the requests.                           *)
LEMMA NumberedStep == ASSUME IType, Numbered, [Next]_vars PROVE Numbered'
<1>0. ghost \in GhostSet
  BY DEF IType, TypeOK
<1>1. ASSUME UNCHANGED <<requestQ, sequence>>, ghost'.issued = ghost.issued PROVE Numbered'
  BY <1>1 DEF Numbered
<1>2. CASE Produce
  BY <1>1, <1>2, ProduceIs, QueuesNumbered
<1>3. CASE Receive \/ ReceiveDamaged
  BY <1>0, <1>1, <1>3 DEF Receive, ReceiveDamaged, GhostSet
<1>4. CASE ProcessReply
  BY <1>0, <1>1, <1>4 DEF ProcessReply, GhostSet
<1>5. ASSUME NEW m \in Modules, ModuleHandles(m) PROVE Numbered'
  BY <1>1, <1>5 DEF ModuleHandles
<1>6. ASSUME NEW i \in 0 .. N, Lose(i) \/ Damage(i) PROVE Numbered'
  BY <1>0, <1>1, <1>6 DEF Lose, Damage, Fault, GhostSet
<1>7. CASE UNCHANGED vars
  BY <1>1, <1>7 DEF vars
<1> QED BY <1>2, <1>3, <1>4, <1>5, <1>6, <1>7, TransmitNumbered DEF Next

-----------------------------------------------------------------------------
(* What the packets carry.                                                 *)

(* A request that is sent has passed no module.                            *)
LEMMA SentPassed ==
  ASSUME IType, Numbered, Transmit
  PROVE  Packet(Head(requestQ), sequence') \in PassedSet(0)
<1> DEFINE r == Head(requestQ)
           p == Packet(r, sequence')
<1>1. r \in RequestSet /\ requestQ # <<>>
  BY RowTyped, TailFacts DEF Transmit
<1>2. sequence' \in 0 .. SequenceSize - 1 /\ sequence' = r.id % SequenceSize
  <2>1. sequence' = r.id % SequenceSize
    BY TransmitNumbered
  <2>2. r.id \in Int
    BY <1>1 DEF RequestSet
  <2>3. SequenceSize \in Nat \ {0}
    BY ChainAssumption
  <2> HIDE DEF r
  <2>4. r.id % SequenceSize \in 0 .. SequenceSize - 1
    BY <2>2, <2>3, Remainder
  <2> QED BY <2>1, <2>4
<1>3. p \in PacketSet
  BY <1>1, <1>2, PacketTyped DEF RequestSet
<1>4. /\ p.id = r.id /\ p.sequence = sequence' /\ p.done = {} /\ p.seen = FALSE
      /\ p.data = <<>> /\ p.start = r.start
  BY DEF Packet
<1>5. r.start \in Nat
  BY <1>1 DEF RequestSet, Cells
<1> HIDE DEF p, r
<1>6. Before(p, 0) = {} /\ Count(p, 0) = 0 /\ Len(p.data) = 0
  BY <1>4, <1>5 DEF Before, Modules, Count
<1>7. Executed(p, 0)
  <2>1. p.done = Before(p, 0) /\ p.seen = (Before(p, 0) # {} /\ MarksSeen(p.command))
    BY <1>4, <1>6 DEF MarksSeen
  <2>2. Len(p.data) = Count(p, 0) /\ \A k \in 1 .. Len(p.data) : p.data[k] = p.start + k - 1
    BY <1>6
  <2> QED BY <2>1, <2>2 DEF Executed
<1>8. p \in PassedSet(0)
  BY <1>2, <1>3, <1>4, <1>7 DEF PassedSet, Passed
<1> QED BY <1>8 DEF p, r

(* Passing a module.                                                       *)
LEMMA ForwardedPassed ==
  ASSUME NEW m \in Modules, NEW p \in PassedSet(m), p.hops = m
  PROVE  Forwarded(m, p) \in PassedSet(m + 1)
<1> DEFINE q == Forwarded(m, p)
<1>0. /\ p \in PacketSet /\ p.start \in Nat /\ p.cells \in Nat /\ m \in Nat
      /\ p.data \in Seq(Modules) /\ Len(p.data) \in Nat /\ p.seen \in BOOLEAN
  BY ChainAssumption DEF PassedSet, PacketSet, Cells, Modules
<1>1. q \in PacketSet
  BY <1>0, ForwardedTyped
<1>2. /\ q.id = p.id /\ q.sequence = p.sequence /\ q.intact = p.intact
      /\ q.start = p.start /\ q.cells = p.cells /\ q.command = p.command
      /\ q.seen = (p.seen \/ (Addressed(p, m) /\ MarksSeen(p.command)))
      /\ q.data = (IF (Addressed(p, m) /\ p.intact) /\ p.command \in ReadCommands
                   THEN Append(p.data, m) ELSE p.data)
      /\ q.done = (IF Addressed(p, m) /\ p.intact THEN p.done \cup {m} ELSE p.done)
  <2> DEFINE h == p.hops + 1
             e == p.seen \/ (Addressed(p, m) /\ MarksSeen(p.command))
             d == IF (Addressed(p, m) /\ p.intact) /\ p.command \in ReadCommands
                  THEN Append(p.data, m) ELSE p.data
             o == IF Addressed(p, m) /\ p.intact THEN p.done \cup {m} ELSE p.done
  <2>1. q = [p EXCEPT !.hops = h, !.seen = e, !.data = d, !.done = o]
    BY DEF Forwarded
  <2> HIDE DEF h, e, d, o
  <2>2. /\ q.id = p.id /\ q.sequence = p.sequence /\ q.intact = p.intact
        /\ q.start = p.start /\ q.cells = p.cells /\ q.command = p.command
        /\ q.seen = e /\ q.data = d /\ q.done = o
    <3> HIDE DEF q
    <3> QED BY <1>0, <2>1 DEF PacketSet
  <2> QED BY <2>2 DEF e, d, o
<1> HIDE DEF q
<1>3. ASSUME p.intact PROVE Executed(q, m + 1)
  <2>1. Executed(p, m)
    BY <1>3 DEF PassedSet, Passed
  <2>2. \A k : Addressed(q, k) <=> Addressed(p, k)
    BY <1>2 DEF Addressed
  <2>3. Before(q, m + 1) = Before(p, m) \cup (IF Addressed(p, m) THEN {m} ELSE {})
    <3>1. \A k \in Modules : k < m + 1 <=> k < m \/ k = m
      BY <1>0 DEF Modules
    <3> QED BY <2>2, <3>1 DEF Before
  <2>4. q.done = Before(q, m + 1)
    BY <1>2, <1>3, <2>1, <2>3 DEF Executed
  <2>5. q.seen = (Before(q, m + 1) # {} /\ MarksSeen(q.command))
    BY <1>2, <2>1, <2>3 DEF Executed, MarksSeen
  <2>6. ASSUME q.command \in ReadCommands
        PROVE  /\ Len(q.data) = Count(q, m + 1)
               /\ \A k \in 1 .. Len(q.data) : q.data[k] = q.start + k - 1
    <3>1. /\ Len(p.data) = Count(p, m)
          /\ \A k \in 1 .. Len(p.data) : p.data[k] = p.start + k - 1
      BY <1>2, <2>1, <2>6 DEF Executed
    <3>2. CASE Addressed(p, m)
      <4>1. p.start <= m /\ m <= p.start + p.cells
        BY <3>2 DEF Addressed
      <4>2. Count(p, m) = m - p.start /\ Count(q, m + 1) = m - p.start + 1
        BY <1>0, <1>2, <4>1 DEF Count
      <4>3. /\ Len(q.data) = Len(p.data) + 1 /\ q.data[Len(p.data) + 1] = m
            /\ \A k \in 1 .. Len(p.data) : q.data[k] = p.data[k]
        BY <1>0, <1>2, <1>3, <2>6, <3>2, AppendFacts
      <4>4. ASSUME NEW k \in 1 .. Len(q.data) PROVE q.data[k] = q.start + k - 1
        <5>1. CASE k = Len(p.data) + 1
          BY <1>0, <1>2, <3>1, <4>2, <4>3, <5>1
        <5>2. CASE k \in 1 .. Len(p.data)
          BY <1>2, <3>1, <4>3, <5>2
        <5> QED BY <1>0, <4>3, <5>1, <5>2
      <4> QED BY <3>1, <4>2, <4>3, <4>4
    <3>3. CASE ~Addressed(p, m)
      <4>1. ~(p.start <= m /\ m <= p.start + p.cells)
        BY <3>3 DEF Addressed
      <4>2. Count(q, m + 1) = Count(p, m)
        BY <1>0, <1>2, <4>1 DEF Count
      <4> QED BY <1>2, <3>1, <3>3, <4>2
    <3> QED BY <3>2, <3>3
  <2> QED BY <2>4, <2>5, <2>6 DEF Executed
<1>4. q.sequence = q.id % SequenceSize
  BY <1>2 DEF PassedSet, Passed
<1>5. q \in PassedSet(m + 1)
  BY <1>1, <1>2, <1>3, <1>4 DEF PassedSet, Passed
<1> QED BY <1>5 DEF q

(* Nothing is carried at first.                                            *)
LEMMA CarriedInit == ASSUME Init PROVE Carried
<1>1. /\ replyQ = <<>> /\ wire = [i \in 0 .. N |-> <<>>]
      /\ lastReply.id = 0 /\ lastReply.sequence = 0
  BY DEF Init, NoReply, Packet
<1>2. 0 % SequenceSize = 0
  BY ChainAssumption
<1>3. \A i \in 0 .. N : wire[i] \in Seq(PassedSet(i))
  BY <1>1
<1>4. replyQ \in Seq({p \in PassedSet(N) : p.intact})
  BY <1>1
<1> QED BY <1>1, <1>2, <1>3, <1>4 DEF Carried

(* The first packet of a wire goes.                                        *)
LEMMA CarriedPop ==
  ASSUME IType, Carried, NEW i \in 0 .. N, wire[i] # <<>>, wire' = [wire EXCEPT ![i] = Tail(@)]
  PROVE  /\ \A j \in 0 .. N : wire'[j] \in Seq(PassedSet(j))
         /\ Head(wire[i]) \in PassedSet(i)
<1>1. wire[i] \in Seq(PassedSet(i))
  BY DEF Carried
<1>2. Tail(wire[i]) \in Seq(PassedSet(i)) /\ Head(wire[i]) \in PassedSet(i)
  BY <1>1, TailFacts
<1>3. wire'[i] = Tail(wire[i]) /\ \A j \in 0 .. N : j # i => wire'[j] = wire[j]
  BY DEF IType, TypeOK
<1> QED BY <1>2, <1>3 DEF Carried

(* Every step keeps what the packets carry.                                *)
LEMMA CarriedStep == ASSUME IType, Numbered, Carried, [Next]_vars PROVE Carried'
<1>1. ASSUME UNCHANGED <<wire, replyQ, lastReply>> PROVE Carried'
  BY <1>1 DEF Carried
<1>2. CASE Produce
  BY <1>1, <1>2, ProduceIs
<1>3. CASE UNCHANGED vars
  BY <1>1, <1>3 DEF vars
<1>4. CASE Transmit
  <2> DEFINE p == Packet(Head(requestQ), sequence')
  <2>1. /\ wire' = [wire EXCEPT ![0] = Append(@, p)] /\ wire \in [0 .. N -> Seq(PacketSet)]
        /\ UNCHANGED <<replyQ, lastReply>> /\ 0 \in 0 .. N
    BY <1>4, ChainAssumption DEF Transmit, IType, TypeOK
  <2>2. p \in PassedSet(0)
    BY <1>4, SentPassed
  <2> HIDE DEF p
  <2>3. wire'[0] = Append(wire[0], p) /\ \A j \in 0 .. N : j # 0 => wire'[j] = wire[j]
    BY <2>1
  <2>4. wire'[0] \in Seq(PassedSet(0))
    BY <2>1, <2>2, <2>3, AppendFacts DEF Carried
  <2> QED BY <2>1, <2>3, <2>4 DEF Carried
<1>5. ASSUME NEW m \in Modules, ModuleHandles(m) PROVE Carried'
  <2> DEFINE p == Head(wire[m])
             q == Forwarded(m, p)
             w == [wire EXCEPT ![m] = Tail(@)]
  <2>1. /\ wire[m] # <<>> /\ m \in 0 .. N /\ m + 1 \in 0 .. N /\ m # m + 1
        /\ wire' = [wire EXCEPT ![m] = Tail(@), ![m + 1] = Append(@, q)]
        /\ wire \in [0 .. N -> Seq(PacketSet)]
        /\ UNCHANGED <<replyQ, lastReply>>
    <3>1. wire \in [0 .. N -> Seq(PacketSet)]
      BY DEF IType, TypeOK
    <3>2. m \in 0 .. N /\ m + 1 \in 0 .. N /\ m # m + 1
      BY ChainAssumption DEF Modules
    <3> QED BY <1>5, <3>1, <3>2 DEF ModuleHandles
  <2>2. wire[m] \in Seq(PassedSet(m)) /\ wire[m + 1] \in Seq(PassedSet(m + 1))
    BY <2>1 DEF Carried
  <2>3. p \in PassedSet(m) /\ Tail(wire[m]) \in Seq(PassedSet(m))
    BY <2>1, <2>2, TailFacts
  <2>4. p.hops = m
    BY <2>1, WirePop DEF IType
  <2>5. q \in PassedSet(m + 1)
    BY <2>3, <2>4, ForwardedPassed
  <2> HIDE DEF p, q
  <2>6. /\ wire'[m] = Tail(wire[m]) /\ wire'[m + 1] = Append(wire[m + 1], q)
        /\ \A j \in 0 .. N : j # m /\ j # m + 1 => wire'[j] = wire[j]
    BY <2>1
  <2>7. wire'[m + 1] \in Seq(PassedSet(m + 1))
    BY <2>2, <2>5, <2>6, AppendFacts
  <2> QED BY <2>1, <2>3, <2>6, <2>7 DEF Carried
<1>6. CASE Receive \/ ReceiveDamaged
  <2> DEFINE p == Head(wire[N])
             S == {e \in PassedSet(N) : e.intact}
  <2>1. /\ wire[N] # <<>> /\ wire' = [wire EXCEPT ![N] = Tail(@)] /\ lastReply' = lastReply
        /\ N \in 0 .. N
    BY <1>6, ChainAssumption DEF Receive, ReceiveDamaged
  <2>2. (\A j \in 0 .. N : wire'[j] \in Seq(PassedSet(j))) /\ p \in PassedSet(N)
    BY <2>1, CarriedPop
  <2>3. replyQ' = replyQ \/ (p.intact /\ replyQ' = Append(replyQ, p))
    BY <1>6 DEF Receive, ReceiveDamaged
  <2>4. replyQ \in Seq(S)
    BY DEF Carried
  <2> HIDE DEF p
  <2>5. replyQ' \in Seq(S)
    <3>1. p.intact => p \in S
      BY <2>2
    <3> HIDE DEF S
    <3> QED BY <2>3, <2>4, <3>1, AppendFacts
  <2> QED BY <2>1, <2>2, <2>5 DEF Carried
<1>7. CASE ProcessReply
  <2> DEFINE S == {e \in PassedSet(N) : e.intact}
  <2>1. /\ replyQ # <<>> /\ replyQ' = Tail(replyQ) /\ lastReply' = Head(replyQ) /\ wire' = wire
    BY <1>7 DEF ProcessReply
  <2>2. replyQ \in Seq(S)
    BY DEF Carried
  <2>3. replyQ' \in Seq(S) /\ lastReply' \in S
    <3> HIDE DEF S
    <3> QED BY <2>1, <2>2, TailFacts
  <2>4. lastReply'.sequence = lastReply'.id % SequenceSize /\ Executed(lastReply', N)
    BY <2>3 DEF PassedSet, Passed
  <2> QED BY <2>1, <2>3, <2>4 DEF Carried
<1>8. ASSUME NEW i \in 0 .. N, Lose(i) PROVE Carried'
  <2>1. /\ wire[i] # <<>> /\ wire' = [wire EXCEPT ![i] = Tail(@)]
        /\ UNCHANGED <<replyQ, lastReply>>
    BY <1>8 DEF Lose, Fault
  <2> QED BY <2>1, CarriedPop DEF Carried
<1>9. ASSUME NEW i \in 0 .. N, Damage(i) PROVE Carried'
  <2> DEFINE p == Head(wire[i])
             q == [p EXCEPT !.intact = FALSE]
  <2>1. /\ wire[i] # <<>> /\ wire' = [wire EXCEPT ![i] = <<q>> \o Tail(@)]
        /\ wire \in [0 .. N -> Seq(PacketSet)]
        /\ UNCHANGED <<replyQ, lastReply>>
    BY <1>9 DEF Damage, Fault, IType, TypeOK
  <2>2. wire[i] \in Seq(PassedSet(i))
    BY DEF Carried
  <2>3. p \in PassedSet(i)
    BY <2>1, <2>2, TailFacts
  <2> HIDE DEF p
  <2>4. q \in PassedSet(i)
    <3>1. q \in PacketSet /\ q.id = p.id /\ q.sequence = p.sequence /\ q.intact = FALSE
      BY <2>3 DEF PassedSet, PacketSet
    <3>2. p.sequence = p.id % SequenceSize
      BY <2>3 DEF PassedSet, Passed
    <3> HIDE DEF q
    <3> QED BY <3>1, <3>2 DEF PassedSet, Passed
  <2> HIDE DEF q
  <2>5. wire'[i] = <<q>> \o Tail(wire[i]) /\ \A j \in 0 .. N : j # i => wire'[j] = wire[j]
    BY <2>1
  <2>6. wire'[i] \in Seq(PassedSet(i))
    BY <2>1, <2>2, <2>4, <2>5, ReplaceFacts
  <2> QED BY <2>1, <2>5, <2>6 DEF Carried
<1> QED BY <1>2, <1>3, <1>4, <1>5, <1>6, <1>7, <1>8, <1>9 DEF Next

-----------------------------------------------------------------------------
(* What is processed.                                                      *)

(* A reply that is taken from its queue has passed the whole string.       *)
LEMMA RepliedIs ==
  ASSUME IType, Carried, ProcessReply
  PROVE  /\ lastReply' = Head(replyQ) /\ lastReply' \in PacketSet
         /\ lastReply'.sequence = lastReply'.id % SequenceSize
         /\ Executed(lastReply', N)
<1> DEFINE S == {e \in PassedSet(N) : e.intact}
<1>1. replyQ # <<>> /\ lastReply' = Head(replyQ) /\ replyQ \in Seq(S)
  BY DEF ProcessReply, Carried
<1>2. lastReply' \in S
  <2> HIDE DEF S
  <2> QED BY <1>1, TailFacts
<1> QED BY <1>1, <1>2 DEF PassedSet, Passed

(* The size of an interval.                                                *)
LEMMA IntervalSize ==
  ASSUME NEW a \in Nat, NEW k \in Nat PROVE Cardinality(a .. a + k) = k + 1
<1> DEFINE b == a + k
<1>1. b \in Int /\ a \in Int /\ ~(a > b) /\ b - a + 1 = k + 1
  OBVIOUS
<1> HIDE DEF b
<1>2. Cardinality(a .. b) = k + 1
  BY <1>1, FS_Interval
<1> QED BY <1>2 DEF b

(* How many modules a packet addresses.                                    *)
LEMMA BeforeIs ==
  ASSUME NEW p \in PacketSet
  PROVE  Before(p, N) = Addressees(p) /\ Cardinality(Addressees(p)) = Count(p, N)
<1>1. N \in Nat /\ p.start \in Nat /\ p.cells \in Nat
  BY ChainAssumption DEF PacketSet, Cells
<1>2. Before(p, N) = Addressees(p)
  BY <1>1 DEF Before, Addressees, Addressed, Modules
<1>3. CASE N <= p.start
  <2>1. Addressees(p) = {} /\ Count(p, N) = 0
    BY <1>1, <1>3 DEF Addressees, Modules, Count
  <2> QED BY <1>2, <2>1, FS_EmptySet
<1>4. CASE N > p.start /\ N - p.start <= p.cells + 1
  <2>1. Addressees(p) = p.start .. N - 1
    BY <1>1, <1>4 DEF Addressees, Modules
  <2>2. Count(p, N) = N - p.start
    BY <1>1, <1>4 DEF Count
  <2>3. Cardinality(p.start .. N - 1) = N - p.start
    <3>1. N - 1 \in Int /\ p.start \in Int /\ ~(p.start > N - 1) /\ N - 1 - p.start + 1 = N - p.start
      BY <1>1, <1>4
    <3> QED BY <3>1, FS_Interval
  <2> QED BY <1>2, <2>1, <2>2, <2>3
<1>5. CASE N > p.start /\ N - p.start > p.cells + 1
  <2>1. Addressees(p) = p.start .. p.start + p.cells
    BY <1>1, <1>5 DEF Addressees, Modules
  <2>2. Count(p, N) = p.cells + 1
    BY <1>1, <1>5 DEF Count
  <2>3. Cardinality(p.start .. p.start + p.cells) = p.cells + 1
    BY <1>1, IntervalSize
  <2> QED BY <1>2, <2>1, <2>2, <2>3
<1> QED BY <1>1, <1>3, <1>4, <1>5

(* A reply is complete.                                                    *)
LEMMA CarriedComplete == ASSUME IType, Carried PROVE RepliesComplete
<1>1. lastReply \in PacketSet
  BY DEF IType, TypeOK
<1>2. ASSUME lastReply.id > 0
      PROVE  /\ lastReply.done = Addressees(lastReply)
             /\ lastReply.command \in ReadCommands =>
                  /\ Len(lastReply.data) = Cardinality(lastReply.done)
                  /\ \A k \in 1 .. Len(lastReply.data) : lastReply.data[k] = lastReply.start + k - 1
  <2>1. Executed(lastReply, N)
    BY <1>2 DEF Carried
  <2>2. /\ Before(lastReply, N) = Addressees(lastReply)
        /\ Cardinality(Addressees(lastReply)) = Count(lastReply, N)
    BY <1>1, BeforeIs
  <2>3. lastReply.done = Addressees(lastReply)
    BY <2>1, <2>2 DEF Executed
  <2>4. lastReply.command \in ReadCommands =>
          /\ Len(lastReply.data) = Count(lastReply, N)
          /\ \A k \in 1 .. Len(lastReply.data) : lastReply.data[k] = lastReply.start + k - 1
    BY <2>1 DEF Executed
  <2> QED BY <2>2, <2>3, <2>4
<1> QED BY <1>2 DEF RepliesComplete

(* What a complete reply stores for a cell is its module's value.          *)
LEMMA StoredRight ==
  ASSUME IType, RightCell, NEW p \in PacketSet, Executed(p, N), p.command \in ReadCommands,
         NEW c \in Cells, Stored(p)[c] # Nothing
  PROVE  Stored(p)[c] = IF c \in Modules THEN c ELSE Undefined
<1>1. /\ N \in Nat /\ p.start \in Nat /\ p.cells \in Nat /\ c \in Nat
      /\ p.data \in Seq(Modules) /\ Len(p.data) \in Nat
  BY ChainAssumption DEF PacketSet, Cells
<1>2. /\ Len(p.data) = Count(p, N)
      /\ \A k \in 1 .. Len(p.data) : p.data[k] = p.start + k - 1
  BY DEF Executed
<1>3. CASE c \notin p.start .. p.start + p.cells
  BY <1>3 DEF Stored, RightCell
<1>4. CASE c \in p.start .. p.start + p.cells /\ c - p.start < Len(p.data)
  <2> DEFINE k == c - p.start + 1
  <2>1. k \in 1 .. Len(p.data) /\ p.start + k - 1 = c
    BY <1>1, <1>4
  <2>2. p.data[k] = c /\ p.data[k] \in Modules
    <3> HIDE DEF k
    <3>1. p.data[k] = p.start + k - 1
      BY <1>2, <2>1
    <3> QED BY <1>1, <2>1, <3>1
  <2>3. Stored(p)[c] = p.data[c - p.start + 1]
    BY <1>4 DEF Stored
  <2> QED BY <2>2, <2>3
<1>5. CASE c \in p.start .. p.start + p.cells /\ ~(c - p.start < Len(p.data))
  <2>1. c \notin Modules
    BY <1>1, <1>2, <1>5 DEF Count, Modules
  <2>2. Stored(p)[c] = Undefined
    BY <1>5 DEF Stored
  <2> QED BY <2>1, <2>2
<1> QED BY <1>3, <1>4, <1>5

(* Every step keeps the values in the cells of their modules.              *)
LEMMA RightCellStep == ASSUME IType, Carried, RightCell, [Next]_vars PROVE RightCell'
<1>1. ASSUME cmi' = cmi PROVE RightCell'
  BY <1>1 DEF RightCell
<1>2. CASE ProcessReply
  <2>1. /\ lastReply' \in PacketSet /\ Executed(lastReply', N)
        /\ \/ cmi' = cmi
           \/ cmi' = Stored(lastReply') /\ lastReply'.command \in ReadCommands
    <3>1. \/ cmi' = cmi
          \/ cmi' = Stored(Head(replyQ)) /\ Head(replyQ).command \in ReadCommands
      BY <1>2 DEF ProcessReply
    <3> QED BY <1>2, <3>1, RepliedIs
  <2> QED BY <1>1, <2>1, StoredRight DEF RightCell
<1>3. CASE Produce
  BY <1>1, <1>3, ProduceIs
<1>4. CASE UNCHANGED vars
  BY <1>1, <1>4 DEF vars
<1> QED
  BY <1>1, <1>2, <1>3, <1>4
     DEF Next, Transmit, Receive, ReceiveDamaged, ModuleHandles, Lose, Damage, Fault

-----------------------------------------------------------------------------
(* What is lost on the way.                                                *)

(* The counts are numbers, and Away is a finite set.                       *)
LEMMA AwayFinite ==
  ASSUME IType PROVE IsFiniteSet(Away) /\ Cardinality(Away) \in Nat /\ Lost \in Nat
<1>1. lastReply.id + 1 \in Int /\ ghost.issued \in Int
  BY RowTyped
<1>2. IsFiniteSet(lastReply.id + 1 .. ghost.issued)
  BY <1>1, FS_Interval
<1>3. IsFiniteSet(Away)
  BY <1>2, FS_Subset DEF Away
<1>4. Lost \in Nat
  <2>1. ghost \in GhostSet
    BY DEF IType, TypeOK
  <2> QED BY <2>1 DEF GhostSet, Lost
<1> QED BY <1>3, <1>4, FS_CardinalityType

(* Fewer ids away, or one more for a loss that is counted.                 *)
LEMMA AwayFewer ==
  ASSUME IType, IType', Counted, Away' \subseteq Away, Lost' = Lost
  PROVE  Counted'
<1>1. Cardinality(Away') <= Cardinality(Away) /\ Cardinality(Away') \in Nat
  <2>1. IsFiniteSet(Away)
    BY AwayFinite
  <2>2. IsFiniteSet(Away') /\ Cardinality(Away') <= Cardinality(Away)
    BY <2>1, FS_Subset
  <2> QED BY <2>2, FS_CardinalityType
<1> QED BY <1>1, AwayFinite DEF Counted

(* One more request that is away has been counted as lost.                 *)
LEMMA AwayMore ==
  ASSUME IType, IType', Counted, NEW x, Away' \subseteq Away \cup {x}, Lost' = Lost + 1
  PROVE  Counted'
<1>1. IsFiniteSet(Away) /\ Cardinality(Away) \in Nat /\ Lost \in Nat
  BY AwayFinite
<1>2. /\ IsFiniteSet(Away \cup {x})
      /\ Cardinality(Away \cup {x}) = IF x \in Away THEN Cardinality(Away) ELSE Cardinality(Away) + 1
  BY <1>1, FS_AddElement
<1>3. IsFiniteSet(Away') /\ Cardinality(Away') <= Cardinality(Away \cup {x})
  BY <1>2, FS_Subset
<1>4. Cardinality(Away') \in Nat
  BY <1>3, FS_CardinalityType
<1> QED BY <1>1, <1>2, <1>3, <1>4 DEF Counted

(* What stays live is not away.                                            *)
LEMMA LiveKept ==
  ASSUME NEW x, lastReply' = lastReply, ghost'.issued = ghost.issued, Live \ {x} \subseteq Live'
  PROVE  /\ Away' \subseteq Away \cup {x}
         /\ x \notin Live \/ x \in Live' => Away' \subseteq Away
  BY DEF Away

(* The wires that change, seen from the set of the live ids.               *)
LEMMA LiveIs ==
  ASSUME NEW x,
         Ids(requestQ) \ {x} \subseteq Ids(requestQ'), Ids(replyQ) \ {x} \subseteq Ids(replyQ'),
         \A i \in 0 .. N : Good(wire[i]) \ {x} \subseteq Good(wire'[i])
  PROVE  Live \ {x} \subseteq Live'
  BY DEF Live

(* A step that leaves the queues alone and loses nothing on the wire.      *)
LEMMA LiveAll ==
  ASSUME requestQ' = requestQ, replyQ' = replyQ,
         \A i \in 0 .. N : Good(wire[i]) \subseteq Good(wire'[i])
  PROVE  Live \subseteq Live'
  BY DEF Live

(* Nothing is away at first.                                               *)
LEMMA CountedInit == ASSUME Init PROVE Counted
<1>1. IType
  BY TypeInit
<1>2. ghost.issued = 0 /\ lastReply.id = 0
  BY DEF Init, NoReply, Packet
<1>3. Away = {}
  BY <1>2 DEF Away
<1> QED BY <1>1, <1>3, FS_EmptySet, AwayFinite DEF Counted

(* A request is live from when it is queued,                               *)
LEMMA ProduceCounted == ASSUME IType, IType', Order, Counted, Produce PROVE Counted'
<1>1. UNCHANGED <<replyQ, wire, lastReply>> /\ Lost' = Lost
  BY ProduceIs DEF Lost
<1>2. CASE \E r \in RequestSet : Queues(r)
  <2>1. PICK r \in RequestSet : Queues(r)
    BY <1>2
  <2>2. Ids(requestQ') = Ids(requestQ) \cup {ghost.issued + 1} /\ ghost'.issued = ghost.issued + 1
    BY <1>1, <2>1, QueuesOrder DEF Queues
  <2>3. Live' = Live \cup {ghost.issued + 1}
    BY <1>1, <2>2 DEF Live
  <2>4. Away' \subseteq Away
    <3>1. lastReply.id \in Nat /\ ghost.issued \in Nat
      BY RowTyped
    <3> QED BY <1>1, <2>2, <2>3, <3>1 DEF Away
  <2> QED BY <1>1, <2>4, AwayFewer
<1>3. CASE requestQ' = requestQ /\ ghost'.issued = ghost.issued
  <2>1. Away' = Away
    BY <1>1, <1>3 DEF Away, Live
  <2> QED BY <1>1, <2>1, AwayFewer
<1> QED BY <1>2, <1>3, ProduceIs

(* and when it is sent.                                                    *)
LEMMA TransmitCounted == ASSUME IType, IType', Order, Counted, Transmit PROVE Counted'
<1> DEFINE x == Head(requestQ).id
           p == Packet(Head(requestQ), sequence')
<1>1. /\ requestQ # <<>> /\ requestQ' = Tail(requestQ) /\ 0 \in 0 .. N
      /\ wire' = [wire EXCEPT ![0] = Append(@, p)] /\ p.id = x /\ p.intact = TRUE
      /\ wire \in [0 .. N -> Seq(PacketSet)] /\ UNCHANGED <<replyQ, lastReply, ghost>>
  BY ChainAssumption DEF Transmit, Packet, IType, TypeOK
<1>2. Ids(requestQ') = Ids(requestQ) \ {x}
  BY <1>1, RowTyped, IdsTail DEF Order, Rise
<1> HIDE DEF p
<1>3. wire'[0] = Append(wire[0], p) /\ \A i \in 0 .. N : i # 0 => wire'[i] = wire[i]
  BY <1>1
<1>4. wire[0] \in Seq(PacketSet \cup {p})
  BY <1>1
<1>5. Good(wire[0]) \cup {x} \subseteq Good(wire'[0])
  BY <1>1, <1>3, <1>4, GoodAppend
<1> HIDE DEF x
<1>6. Live \ {x} \subseteq Live' /\ x \in Live'
  <2>1. \A i \in 0 .. N : Good(wire[i]) \ {x} \subseteq Good(wire'[i])
    BY <1>3, <1>5
  <2>2. x \in Live'
    BY <1>1, <1>5 DEF Live
  <2> QED BY <1>1, <1>2, <2>1, <2>2, LiveIs
<1> QED BY <1>1, <1>6, LiveKept, AwayFewer DEF Lost

(* A module passes on the packets as they are.                             *)
LEMMA HandlesCounted ==
  ASSUME IType, IType', Order, Counted, NEW m \in Modules, ModuleHandles(m)
  PROVE  Counted'
<1> DEFINE x == Head(wire[m]).id
           p == Forwarded(m, Head(wire[m]))
<1>1. /\ wire[m] # <<>> /\ m \in 0 .. N /\ m + 1 \in 0 .. N /\ m # m + 1
      /\ wire' = [wire EXCEPT ![m] = Tail(@), ![m + 1] = Append(@, p)]
      /\ wire \in [0 .. N -> Seq(PacketSet)]
      /\ UNCHANGED <<requestQ, replyQ, lastReply, ghost>>
  <2>1. wire \in [0 .. N -> Seq(PacketSet)]
    BY DEF IType, TypeOK
  <2>2. m \in 0 .. N /\ m + 1 \in 0 .. N /\ m # m + 1
    BY ChainAssumption DEF Modules
  <2> QED BY <2>1, <2>2 DEF ModuleHandles
<1>2. p \in PacketSet /\ p.id = x /\ p.intact = Head(wire[m]).intact
  <2>1. Head(wire[m]) \in PacketSet /\ Head(wire[m]).hops = m
    BY <1>1, WirePop DEF IType
  <2>2. p \in PacketSet
    BY <2>1, ForwardedTyped
  <2> QED BY <2>1, <2>2 DEF Forwarded, PacketSet
<1> HIDE DEF p
<1>3. /\ wire'[m] = Tail(wire[m]) /\ wire'[m + 1] = Append(wire[m + 1], p)
      /\ \A i \in 0 .. N : i # m /\ i # m + 1 => wire'[i] = wire[i]
  BY <1>1
<1>4. /\ Good(wire[m]) \ {x} \subseteq Good(wire'[m])
      /\ ~p.intact => Good(wire[m]) \subseteq Good(wire'[m])
  BY <1>1, <1>2, <1>3, GoodTail
<1>5. /\ Good(wire[m + 1]) \subseteq Good(wire'[m + 1])
      /\ p.intact => x \in Good(wire'[m + 1])
  BY <1>1, <1>2, <1>3, GoodAppend
<1> HIDE DEF x
<1>6. \A i \in 0 .. N : Good(wire[i]) \ {x} \subseteq Good(wire'[i])
  BY <1>3, <1>4, <1>5
<1>7. CASE p.intact
  <2>1. x \in Live'
    BY <1>1, <1>5, <1>7 DEF Live
  <2>2. Live \ {x} \subseteq Live'
    BY <1>1, <1>6, LiveIs
  <2> QED BY <1>1, <2>1, <2>2, LiveKept, AwayFewer DEF Lost
<1>8. CASE ~p.intact
  <2>1. \A i \in 0 .. N : Good(wire[i]) \subseteq Good(wire'[i])
    BY <1>3, <1>4, <1>5, <1>8
  <2>2. Live \subseteq Live'
    BY <1>1, <2>1, LiveAll
  <2> QED BY <1>1, <2>2, LiveKept, AwayFewer DEF Lost
<1> QED BY <1>7, <1>8

(* What the head of a wire leaves behind when it goes.                     *)
LEMMA PopLive ==
  ASSUME IType, NEW i \in 0 .. N, wire[i] # <<>>, wire' = [wire EXCEPT ![i] = Tail(@)]
  PROVE  /\ \A j \in 0 .. N : Good(wire[j]) \ {Head(wire[i]).id} \subseteq Good(wire'[j])
         /\ ~Head(wire[i]).intact => \A j \in 0 .. N : Good(wire[j]) \subseteq Good(wire'[j])
<1>1. wire[i] \in Seq(PacketSet)
  BY DEF IType, TypeOK
<1>2. wire'[i] = Tail(wire[i]) /\ \A j \in 0 .. N : j # i => wire'[j] = wire[j]
  BY DEF IType, TypeOK
<1> QED BY <1>1, <1>2, GoodTail

(* A damaged packet is not live, a whole one is queued or counted as       *)
(* overflowing.                                                            *)
LEMMA ReceiveCounted ==
  ASSUME IType, IType', Order, Counted, Receive \/ ReceiveDamaged
  PROVE  Counted'
<1> DEFINE x == Head(wire[N]).id
<1>1. /\ wire[N] # <<>> /\ wire' = [wire EXCEPT ![N] = Tail(@)] /\ N \in 0 .. N
      /\ UNCHANGED <<requestQ, lastReply>> /\ ghost \in GhostSet
  <2>1. N \in 0 .. N
    BY ChainAssumption
  <2>2. ghost \in GhostSet
    BY DEF IType, TypeOK
  <2> QED BY <2>1, <2>2 DEF Receive, ReceiveDamaged
<1>2. /\ \A j \in 0 .. N : Good(wire[j]) \ {x} \subseteq Good(wire'[j])
      /\ ~Head(wire[N]).intact => \A j \in 0 .. N : Good(wire[j]) \subseteq Good(wire'[j])
  BY <1>1, PopLive
<1>3. CASE ReceiveDamaged
  <2>1. /\ ~Head(wire[N]).intact /\ replyQ' = replyQ
        /\ ghost'.issued = ghost.issued /\ Lost' = Lost
    BY <1>1, <1>3 DEF ReceiveDamaged, GhostSet, Lost
  <2>2. Live \subseteq Live'
    BY <1>1, <1>2, <2>1, LiveAll
  <2> QED BY <1>1, <2>1, <2>2, LiveKept, AwayFewer
<1>4. CASE Receive /\ Len(replyQ) < ReplyQueue /\ replyQ' = Append(replyQ, Head(wire[N])) /\ ghost' = ghost
  <2>1. Head(wire[N]) \in PacketSet
    BY <1>1, WirePop DEF IType
  <2>2. Ids(replyQ') = Ids(replyQ) \cup {x}
    <3>1. Rising(replyQ) /\ x \in Ids(wire[N])
      BY <1>1, RowTyped, IdsTail DEF Order, Rise
    <3>2. \A a \in Ids(replyQ) : a < x
      <4>1. N + 1 > N
        BY ChainAssumption
      <4> QED BY <1>1, <3>1, <4>1, RowIs DEF Order, Ordered
    <3>3. \A e \in PacketSet : e.id \in Nat
      BY RowTyped
    <3>4. replyQ \in Seq(PacketSet)
      BY RowTyped
    <3> QED BY <1>4, <2>1, <3>1, <3>2, <3>3, <3>4, IdsAppend
  <2> HIDE DEF x
  <2>3. Live \ {x} \subseteq Live' /\ x \in Live'
    <3>1. x \in Live'
      BY <2>2 DEF Live
    <3> QED BY <1>1, <1>2, <2>2, <3>1, LiveIs
  <2> QED BY <1>1, <1>4, <2>3, LiveKept, AwayFewer DEF Lost
<1>5. CASE Receive /\ replyQ' = replyQ /\ ghost' = [ghost EXCEPT !.ignored = @ + 1, !.overflows = @ + 1]
  <2>1. ghost'.issued = ghost.issued /\ Lost' = Lost + 1
    <3>1. /\ ghost'.issued = ghost.issued /\ ghost'.faults = ghost.faults
          /\ ghost'.overflows = ghost.overflows + 1
      BY <1>1, <1>5 DEF GhostSet
    <3>2. ghost.faults \in Nat /\ ghost.overflows \in Nat
      BY <1>1 DEF GhostSet
    <3> QED BY <3>1, <3>2 DEF Lost
  <2> HIDE DEF x
  <2>2. Live \ {x} \subseteq Live'
    BY <1>1, <1>2, <1>5, LiveIs
  <2> QED BY <1>1, <2>1, <2>2, LiveKept, AwayMore
<1> QED BY <1>3, <1>4, <1>5 DEF Receive

(* What is answered is no longer counted.                                  *)
LEMMA ReplyCounted ==
  ASSUME IType, IType', Order, Counted, ProcessReply
  PROVE  Counted' /\ Lost' = Lost
<1> DEFINE x == lastReply'.id
<1>1. /\ replyQ # <<>> /\ replyQ' = Tail(replyQ) /\ lastReply' = Head(replyQ)
      /\ UNCHANGED <<requestQ, wire>>
  BY DEF ProcessReply
<1>2. ghost'.issued = ghost.issued /\ Lost' = Lost
  <2>1. ghost \in GhostSet
    BY DEF IType, TypeOK
  <2> QED BY <2>1 DEF ProcessReply, GhostSet, Lost
<1>3. Ids(replyQ') = Ids(replyQ) \ {x}
  BY <1>1, RowTyped, IdsTail DEF Order, Rise
<1>4. lastReply.id < x /\ lastReply.id \in Nat /\ x \in Nat
  <2>1. lastReply' \in PacketSet
    BY DEF IType, TypeOK
  <2> QED BY <2>1, ReplyOrder, RowTyped DEF PacketSet
<1> HIDE DEF x
<1>5. Live \ {x} \subseteq Live'
  BY <1>1, <1>3, LiveIs
<1>6. Away' \subseteq Away
  <2>1. \A a \in x + 1 .. ghost.issued : a \in lastReply.id + 1 .. ghost.issued /\ a # x
    BY <1>4, RowTyped
  <2>2. Away' = (x + 1 .. ghost.issued) \ Live'
    BY <1>2 DEF Away, x
  <2> QED BY <1>5, <2>1, <2>2 DEF Away
<1> QED BY <1>2, <1>6, AwayFewer

(* A fault costs one packet.                                               *)
LEMMA FaultCounted ==
  ASSUME IType, IType', Counted, NEW i \in 0 .. N, Lose(i) \/ Damage(i)
  PROVE  Counted' /\ Lost' = Lost + 1
<1> DEFINE x == Head(wire[i]).id
           p == [Head(wire[i]) EXCEPT !.intact = FALSE]
<1>1. /\ wire[i] # <<>> /\ UNCHANGED <<requestQ, replyQ, lastReply>> /\ ghost \in GhostSet
      /\ ghost' = [ghost EXCEPT !.faults = @ + 1] /\ wire \in [0 .. N -> Seq(PacketSet)]
  BY DEF Lose, Damage, Fault, IType, TypeOK
<1>2. ghost'.issued = ghost.issued /\ Lost' = Lost + 1
  <2>1. /\ ghost'.issued = ghost.issued /\ ghost'.overflows = ghost.overflows
        /\ ghost'.faults = ghost.faults + 1
    BY <1>1 DEF GhostSet
  <2>2. ghost.faults \in Nat /\ ghost.overflows \in Nat
    BY <1>1 DEF GhostSet
  <2> QED BY <2>1, <2>2 DEF Lost
<1>3. \A j \in 0 .. N : Good(wire[j]) \ {x} \subseteq Good(wire'[j])
  <2>1. CASE Lose(i)
    BY <1>1, <2>1, PopLive DEF Lose
  <2>2. CASE Damage(i)
    <3>1. wire' = [wire EXCEPT ![i] = <<p>> \o Tail(@)]
      BY <2>2 DEF Damage
    <3>2. p \in PacketSet
      <4>1. Head(wire[i]) \in PacketSet
        BY <1>1, WirePop DEF IType
      <4> QED BY <4>1 DEF PacketSet
    <3> HIDE DEF p
    <3>3. wire'[i] = <<p>> \o Tail(wire[i]) /\ \A j \in 0 .. N : j # i => wire'[j] = wire[j]
      BY <1>1, <3>1
    <3> QED BY <1>1, <3>2, <3>3, GoodReplace
  <2> QED BY <2>1, <2>2
<1> HIDE DEF x
<1>4. Live \ {x} \subseteq Live'
  BY <1>1, <1>3, LiveIs
<1> QED BY <1>1, <1>2, <1>4, LiveKept, AwayMore

(* Every step keeps the count.                                             *)
LEMMA CountedStep == ASSUME IType, IType', Order, Counted, [Next]_vars PROVE Counted'
<1>1. CASE UNCHANGED vars
  BY <1>1 DEF vars, Counted, Away, Live, Lost
<1> QED
  BY <1>1, ProduceCounted, TransmitCounted, HandlesCounted, ReceiveCounted, ReplyCounted,
     FaultCounted DEF Next

-----------------------------------------------------------------------------
(* The error counters.                                                     *)

(* Counting modulo 2^16.                                                   *)
LEMMA U16Facts ==
  ASSUME NEW a \in Nat, NEW b \in Nat
  PROVE  /\ U16(a) \in Nat /\ U16(a) <= a /\ U16(U16(a)) = U16(a) /\ U16(0) = 0
         /\ U16(a) = U16(b) => U16(a + 1) = U16(b + 1)
         /\ U16(U16(a) + 1) = U16(a + 1)
<1> DEFINE S == 65536
<1>1. S \in Nat \ {0}
  OBVIOUS
<1>2. \A n : U16(n) = n % S
  BY DEF U16
<1> HIDE DEF S
<1>3. \A n \in Nat : n % S \in 0 .. S - 1 /\ n = S * (n \div S) + (n % S) /\ n \div S \in Int
  BY <1>1, Remainder
<1>4. \A n \in 0 .. S - 1 : n % S = n
  BY <1>1
<1>5. ASSUME NEW n \in Nat PROVE ((n % S) + 1) % S = (n + 1) % S
  <2>1. n \in Int
    OBVIOUS
  <2> QED BY <1>1, <2>1, RemainderNext
<1>6. a % S <= a
  <2>1. CASE a < S
    BY <1>4, <2>1, <1>1
  <2>2. CASE a >= S
    BY <1>1, <1>3, <2>2
  <2> QED BY <1>1, <2>1, <2>2
<1>7. 0 % S = 0
  BY <1>1, <1>4
<1>8. a % S \in Nat /\ (a % S) % S = a % S
  BY <1>1, <1>3, <1>4
<1> QED BY <1>2, <1>5, <1>6, <1>7, <1>8

(* Wrapping a summand first makes no difference to the wrapped sum.        *)
LEMMA U16Plus ==
  ASSUME NEW a \in Nat, NEW b \in Nat
  PROVE  U16(a + U16(b)) = U16(a + b)
<1> DEFINE S == 65536
           q == b \div S
           r == b % S
           u == (a + r) \div S
           t == (a + r) % S
<1>1. S \in Nat \ {0} /\ \A n : U16(n) = n % S
  BY DEF U16
<1> HIDE DEF S
<1>2. r \in 0 .. S - 1 /\ b = S * q + r /\ q \in Int
  BY <1>1, Remainder
<1> HIDE DEF q, r
<1>3. t \in 0 .. S - 1 /\ a + r = S * u + t /\ u \in Int
  <2>1. a + r \in Int
    BY <1>1, <1>2
  <2> QED BY <1>1, <2>1, Remainder
<1> HIDE DEF u, t
<1>4. a + b = S * (u + q) + t /\ u + q \in Int
  BY <1>1, <1>2, <1>3
<1>5. (a + b) % S = t
  BY <1>1, <1>3, <1>4, RemainderIs
<1> QED BY <1>1, <1>5 DEF t, r

(* All counters are numbers.                                               *)
LEMMA CountersTyped ==
  ASSUME IType
  PROVE  /\ stats \in StatsSet /\ ghost \in GhostSet
         /\ stats.totalCRC \in Nat /\ stats.pendingCRC \in Nat /\ stats.notProcessed \in Nat
         /\ stats.outOfSequence \in Nat
         /\ ghost.damaged \in Nat /\ ghost.ignored \in Nat /\ ghost.gaps \in Nat
<1>1. stats \in StatsSet /\ ghost \in GhostSet
  BY DEF IType, TypeOK
<1> QED BY <1>1 DEF StatsSet, GhostSet, Counter16

(* What the receiver counts.                                               *)
LEMMA ReceiveCounts ==
  ASSUME IType, Receive \/ ReceiveDamaged
  PROVE  /\ \/ /\ stats'.totalCRC = U16(stats.totalCRC + stats.pendingCRC)
               /\ stats'.pendingCRC = 0 /\ ghost'.damaged = ghost.damaged
            \/ /\ stats'.totalCRC = stats.totalCRC
               /\ stats'.pendingCRC = U16(stats.pendingCRC + 1)
               /\ ghost'.damaged = ghost.damaged + 1
         /\ \/ /\ stats'.notProcessed = stats.notProcessed /\ ghost'.ignored = ghost.ignored
            \/ /\ stats'.notProcessed = U16(stats.notProcessed + 1)
               /\ ghost'.ignored = ghost.ignored + 1
         /\ stats'.outOfSequence = stats.outOfSequence /\ ghost'.gaps = ghost.gaps
<1> USE CountersTyped
<1>1. ASSUME ReceiveDamaged
      PROVE  /\ stats' = [stats EXCEPT !.pendingCRC = U16(stats.pendingCRC + 1)]
             /\ ghost' = [ghost EXCEPT !.damaged = @ + 1]
  BY <1>1 DEF ReceiveDamaged
<1>2. ASSUME ReceiveDamaged
      PROVE  /\ stats'.totalCRC = stats.totalCRC /\ stats'.notProcessed = stats.notProcessed
             /\ stats'.pendingCRC = U16(stats.pendingCRC + 1)
             /\ stats'.outOfSequence = stats.outOfSequence
             /\ ghost'.damaged = ghost.damaged + 1 /\ ghost'.ignored = ghost.ignored
             /\ ghost'.gaps = ghost.gaps
  BY <1>1, <1>2 DEF StatsSet, GhostSet
<1>3. ASSUME Receive
      PROVE  \E n \in {stats.notProcessed, U16(stats.notProcessed + 1)} :
               /\ stats' = [stats EXCEPT !.totalCRC = U16(stats.totalCRC + stats.pendingCRC),
                                         !.pendingCRC = 0, !.notProcessed = n]
               /\ IF n = stats.notProcessed /\ ghost' = ghost THEN TRUE
                  ELSE /\ n = U16(stats.notProcessed + 1)
                       /\ ghost' = [ghost EXCEPT !.ignored = @ + 1, !.overflows = @ + 1]
  <2> DEFINE c == U16(stats.totalCRC + stats.pendingCRC)
             n == U16(stats.notProcessed + 1)
             d == [stats EXCEPT !.totalCRC = c, !.pendingCRC = 0]
  <2>1. d.notProcessed = stats.notProcessed
    BY DEF StatsSet
  <2>2. \/ stats' = d /\ ghost' = ghost
        \/ /\ stats' = [d EXCEPT !.notProcessed = U16(d.notProcessed + 1)]
           /\ ghost' = [ghost EXCEPT !.ignored = @ + 1, !.overflows = @ + 1]
    BY <1>3 DEF Receive
  <2>3. CASE stats' = d /\ ghost' = ghost
    <3>1. d = [stats EXCEPT !.totalCRC = c, !.pendingCRC = 0, !.notProcessed = stats.notProcessed]
      BY DEF StatsSet
    <3> HIDE DEF c, n, d
    <3>2. stats' = [stats EXCEPT !.totalCRC = c, !.pendingCRC = 0, !.notProcessed = stats.notProcessed]
      BY <2>3, <3>1
    <3> QED BY <2>3, <3>2 DEF c
  <2>4. CASE /\ stats' = [d EXCEPT !.notProcessed = U16(d.notProcessed + 1)]
             /\ ghost' = [ghost EXCEPT !.ignored = @ + 1, !.overflows = @ + 1]
    <3>1. [d EXCEPT !.notProcessed = n]
            = [stats EXCEPT !.totalCRC = c, !.pendingCRC = 0, !.notProcessed = n]
      <4> HIDE DEF c, n
      <4> QED BY DEF StatsSet
    <3>2. stats' = [d EXCEPT !.notProcessed = n]
      BY <2>1, <2>4
    <3> HIDE DEF d
    <3> QED BY <2>4, <3>1, <3>2
  <2> QED BY <2>2, <2>3, <2>4
<1>4. ASSUME Receive
      PROVE  /\ stats'.totalCRC = U16(stats.totalCRC + stats.pendingCRC)
             /\ stats'.pendingCRC = 0 /\ ghost'.damaged = ghost.damaged
             /\ \/ /\ stats'.notProcessed = stats.notProcessed /\ ghost'.ignored = ghost.ignored
                \/ /\ stats'.notProcessed = U16(stats.notProcessed + 1)
                   /\ ghost'.ignored = ghost.ignored + 1
             /\ stats'.outOfSequence = stats.outOfSequence /\ ghost'.gaps = ghost.gaps
  <2> DEFINE c == U16(stats.totalCRC + stats.pendingCRC)
  <2>1. PICK n \in {stats.notProcessed, U16(stats.notProcessed + 1)} :
               /\ stats' = [stats EXCEPT !.totalCRC = c, !.pendingCRC = 0, !.notProcessed = n]
               /\ IF n = stats.notProcessed /\ ghost' = ghost THEN TRUE
                  ELSE /\ n = U16(stats.notProcessed + 1)
                       /\ ghost' = [ghost EXCEPT !.ignored = @ + 1, !.overflows = @ + 1]
    BY <1>3, <1>4
  <2> HIDE DEF c
  <2>2. /\ stats'.totalCRC = c /\ stats'.pendingCRC = 0 /\ stats'.notProcessed = n
        /\ stats'.outOfSequence = stats.outOfSequence
    BY <2>1 DEF StatsSet
  <2>3. \/ n = stats.notProcessed /\ ghost' = ghost
        \/ /\ n = U16(stats.notProcessed + 1)
           /\ ghost'.ignored = ghost.ignored + 1
           /\ ghost'.damaged = ghost.damaged /\ ghost'.gaps = ghost.gaps
    BY <2>1 DEF GhostSet
  <2> QED BY <2>2, <2>3 DEF c
<1> QED BY <1>2, <1>4

(* What the reply task counts.                                             *)
LEMMA ReplyCounts ==
  ASSUME IType, ProcessReply
  PROVE  /\ stats'.totalCRC = stats.totalCRC /\ stats'.pendingCRC = stats.pendingCRC
         /\ ghost'.damaged = ghost.damaged
         /\ stats'.notProcessed = U16(stats.notProcessed + (IF lastReply'.seen THEN 0 ELSE 1))
         /\ ghost'.ignored = ghost.ignored + (IF Unanswered(lastReply') THEN 1 ELSE 0)
         /\ stats'.outOfSequence
              = U16(stats.outOfSequence
                    + (IF (lastReply'.sequence - lastReply.sequence) % SequenceSize # 1
                       THEN 1 ELSE 0))
         /\ ghost'.gaps = ghost.gaps + (IF lastReply'.id = lastReply.id + 1 THEN 0 ELSE 1)
<1> DEFINE p == Head(replyQ)
           o == U16(stats.outOfSequence
                    + (IF (p.sequence - lastReply.sequence) % SequenceSize # 1 THEN 1 ELSE 0))
           n == U16(stats.notProcessed + (IF p.seen THEN 0 ELSE 1))
           g == ghost.gaps + (IF p.id = lastReply.id + 1 THEN 0 ELSE 1)
           i == ghost.ignored + (IF Unanswered(p) THEN 1 ELSE 0)
           r == stats.received + 1
           f == p.hops
<1>1. /\ lastReply' = p
      /\ stats' = [stats EXCEPT !.received = r, !.modulesFound = f, !.outOfSequence = o,
                                !.notProcessed = n]
      /\ ghost' = [ghost EXCEPT !.gaps = g, !.ignored = i]
  BY DEF ProcessReply
<1> HIDE DEF o, n, g, i, r, f
<1>2. /\ stats'.totalCRC = stats.totalCRC /\ stats'.pendingCRC = stats.pendingCRC
      /\ stats'.notProcessed = n /\ stats'.outOfSequence = o
  BY <1>1, CountersTyped DEF StatsSet
<1>3. ghost'.damaged = ghost.damaged /\ ghost'.ignored = i /\ ghost'.gaps = g
  BY <1>1, CountersTyped DEF GhostSet
<1> QED BY <1>1, <1>2, <1>3 DEF o, n, g, i

(* A gap in the numbers of the replies shows as a gap in their sequence,   *)
(* unless as many packets are away as there are sequence numbers.          *)
LEMMA GapShows ==
  ASSUME IType, IType', Order, Carried, Counted, ProcessReply
  PROVE  /\ lastReply'.id = lastReply.id + 1 =>
              (lastReply'.sequence - lastReply.sequence) % SequenceSize = 1
         /\ Lost < SequenceSize /\ lastReply'.id # lastReply.id + 1 =>
              (lastReply'.sequence - lastReply.sequence) % SequenceSize # 1
<1> DEFINE a == lastReply'.id
           b == lastReply.id
           S == SequenceSize
<1>1. a \in Nat /\ b \in Nat /\ S \in Nat \ {0, 1} /\ b < a /\ a <= ghost.issued /\ ghost.issued \in Nat
  <2>1. lastReply' \in PacketSet
    BY DEF IType, TypeOK
  <2> QED BY <2>1, ReplyOrder, RowTyped, ChainAssumption DEF PacketSet
<1>2. lastReply'.sequence = a % S /\ lastReply.sequence = b % S
  BY RepliedIs DEF Carried
<1>3. \A i \in Places : \A x \in Row[i] : a <= x
  BY ReplyOrder
<1> HIDE DEF a, b, S
<1>4. ((a % S) - (b % S)) % S = (a - b) % S
  <2>1. S \in Nat \ {0} /\ a \in Int /\ b \in Int
    BY <1>1
  <2> QED BY <2>1, RemainderMinus
<1>5. CASE a = b + 1
  <2>1. a - b = 1 /\ 1 % S = 1
    BY <1>1, <1>5
  <2> QED BY <1>2, <1>4, <1>5, <2>1 DEF a, b, S
<1>6. ASSUME Lost < S, a # b + 1 PROVE (a - b) % S # 1
  <2>1. b + 1 .. a - 1 \subseteq Away
    <3>1. ASSUME NEW x \in b + 1 .. a - 1 PROVE x \notin Live
      <4>1. ~(a <= x)
        BY <1>1
      <4>2. \A i \in Places : x \notin Row[i]
        BY <1>3, <4>1
      <4>3. x \notin InFlight
        BY <4>2, FlightIs
      <4> QED BY <4>3, GoodIds DEF Live, InFlight
    <3>2. \A x \in b + 1 .. a - 1 : x \in b + 1 .. ghost.issued
      BY <1>1
    <3> QED BY <3>1, <3>2 DEF Away, b
  <2>2. Cardinality(b + 1 .. a - 1) = a - 1 - b
    <3>1. b + 1 \in Int /\ a - 1 \in Int /\ ~(b + 1 > a - 1) /\ (a - 1) - (b + 1) + 1 = a - 1 - b
      BY <1>1, <1>6
    <3> QED BY <3>1, FS_Interval
  <2>3. a - 1 - b <= Lost
    <3>1. Cardinality(b + 1 .. a - 1) <= Cardinality(Away)
      BY <2>1, AwayFinite, FS_Subset
    <3>2. Cardinality(Away) \in Nat /\ Lost \in Nat
      BY AwayFinite
    <3> QED BY <1>1, <2>2, <3>1, <3>2 DEF Counted
  <2>4. a - b \in 2 .. S
    <3>1. Lost \in Nat
      BY AwayFinite
    <3> QED BY <1>1, <1>6, <2>3, <3>1
  <2> DEFINE e == a - b
  <2> HIDE DEF e
  <2>5. \A n \in 2 .. S : n % S # 1
    <3>1. ASSUME NEW n \in 2 .. S - 1 PROVE n % S # 1
      BY <1>1
    <3>2. S % S = 0
      <4>1. (S * 1 + 0) % S = 0
        BY <1>1, RemainderIs
      <4> QED BY <1>1, <4>1
    <3> QED BY <1>1, <3>1, <3>2
  <2> QED BY <2>4, <2>5
<1> QED BY <1>2, <1>4, <1>5, <1>6 DEF a, b, S

(* What the reply task counts is right.                                    *)
LEMMA ReplyAccounted ==
  ASSUME IType, IType', Order, Carried, Counted, ErrorsAccounted, ProcessReply
  PROVE  ErrorsAccounted'
<1>1. Lost' = Lost /\ Lost \in Nat
  BY ReplyCounted, AwayFinite
<1>2. U16(stats'.totalCRC + stats'.pendingCRC) = U16(ghost'.damaged)
  BY ReplyCounts DEF ErrorsAccounted
<1>3. stats'.notProcessed = U16(ghost'.ignored)
  <2>1. lastReply'.seen = ~Unanswered(lastReply')
    BY RepliedIs DEF Executed, Unanswered, MarksSeen
  <2>2. stats.notProcessed = U16(ghost.ignored)
    BY DEF ErrorsAccounted
  <2>3. CASE lastReply'.seen
    <3>1. stats'.notProcessed = U16(stats.notProcessed + 0) /\ ghost'.ignored = ghost.ignored + 0
      BY <2>1, <2>3, ReplyCounts
    <3> QED BY <2>2, <3>1, CountersTyped, U16Facts
  <2>4. CASE ~lastReply'.seen
    <3>1. stats'.notProcessed = U16(stats.notProcessed + 1) /\ ghost'.ignored = ghost.ignored + 1
      BY <2>1, <2>4, ReplyCounts
    <3> QED BY <2>2, <3>1, CountersTyped, U16Facts
  <2> QED BY <2>3, <2>4
<1>4. /\ stats'.outOfSequence <= ghost'.gaps
      /\ Lost < SequenceSize => stats'.outOfSequence = U16(ghost'.gaps)
  <2> DEFINE o == stats.outOfSequence
             g == ghost.gaps
             gap == (lastReply'.sequence - lastReply.sequence) % SequenceSize # 1
  <2>1. o \in Nat /\ g \in Nat /\ o <= g /\ (Lost < SequenceSize => o = U16(g)) /\ SequenceSize \in Nat
    BY CountersTyped, ChainAssumption DEF ErrorsAccounted
  <2>2. CASE lastReply'.id = lastReply.id + 1
    <3>1. stats'.outOfSequence = U16(o + 0) /\ ghost'.gaps = g + 0
      BY <2>2, ReplyCounts, GapShows
    <3> HIDE DEF o, g
    <3> QED BY <2>1, <3>1, U16Facts
  <2>3. CASE lastReply'.id # lastReply.id + 1 /\ gap
    <3>1. stats'.outOfSequence = U16(o + 1) /\ ghost'.gaps = g + 1
      BY <2>3, ReplyCounts
    <3> HIDE DEF o, g
    <3>2. U16(o + 1) <= o + 1 /\ U16(o + 1) \in Nat
      BY <2>1, U16Facts
    <3>3. Lost < SequenceSize => U16(o + 1) = U16(g + 1)
      BY <2>1, U16Facts
    <3> QED BY <2>1, <3>1, <3>2, <3>3
  <2>4. CASE lastReply'.id # lastReply.id + 1 /\ ~gap
    <3>1. stats'.outOfSequence = U16(o + 0) /\ ghost'.gaps = g + 1
      BY <2>4, ReplyCounts
    <3>2. ~(Lost < SequenceSize)
      BY <2>4, GapShows
    <3> HIDE DEF o, g
    <3>3. U16(o + 0) <= o
      BY <2>1, U16Facts
    <3>4. U16(o + 0) \in Nat
      BY <2>1, U16Facts
    <3> QED BY <2>1, <3>1, <3>2, <3>3, <3>4
  <2> QED BY <2>2, <2>3, <2>4
<1> QED BY <1>1, <1>2, <1>3, <1>4 DEF ErrorsAccounted

(* What the receiver counts is right.                                      *)
LEMMA ReceiveAccounted ==
  ASSUME IType, ErrorsAccounted, Receive \/ ReceiveDamaged, Lost' \in Nat, Lost <= Lost'
  PROVE  ErrorsAccounted'
<1> DEFINE t == stats.totalCRC
           c == stats.pendingCRC
           d == ghost.damaged
<1>1. t \in Nat /\ c \in Nat /\ d \in Nat /\ U16(t + c) = U16(d) /\ t + c \in Nat
  BY CountersTyped DEF ErrorsAccounted
<1>2. U16(stats'.totalCRC + stats'.pendingCRC) = U16(ghost'.damaged)
  <2>1. CASE stats'.totalCRC = U16(t + c) /\ stats'.pendingCRC = 0 /\ ghost'.damaged = d
    <3> HIDE DEF t, c, d
    <3>1. U16(t + c) + 0 = U16(t + c) /\ U16(U16(t + c)) = U16(t + c)
      BY <1>1, U16Facts
    <3> QED BY <1>1, <2>1, <3>1
  <2>2. CASE stats'.totalCRC = t /\ stats'.pendingCRC = U16(c + 1) /\ ghost'.damaged = d + 1
    <3> HIDE DEF t, c, d
    <3>1. U16(t + U16(c + 1)) = U16(t + c + 1)
      <4>1. c + 1 \in Nat /\ t \in Nat /\ t + (c + 1) = t + c + 1
        BY <1>1
      <4> QED BY <4>1, U16Plus
    <3>2. U16(t + c + 1) = U16(d + 1)
      BY <1>1, U16Facts
    <3> QED BY <2>2, <3>1, <3>2
  <2> QED BY <2>1, <2>2, ReceiveCounts
<1>3. stats'.notProcessed = U16(ghost'.ignored)
  <2>1. stats.notProcessed = U16(ghost.ignored)
    BY DEF ErrorsAccounted
  <2>2. ghost.ignored \in Nat
    BY CountersTyped
  <2>3. U16(U16(ghost.ignored) + 1) = U16(ghost.ignored + 1)
    BY <2>2, U16Facts
  <2> QED BY <2>1, <2>3, ReceiveCounts
<1>4. /\ stats'.outOfSequence <= ghost'.gaps
      /\ Lost' < SequenceSize => stats'.outOfSequence = U16(ghost'.gaps)
  <2>1. Lost \in Nat /\ SequenceSize \in Nat
    BY AwayFinite, ChainAssumption
  <2>2. Lost' < SequenceSize => Lost < SequenceSize
    BY <2>1
  <2> QED BY <2>2, ReceiveCounts DEF ErrorsAccounted
<1> QED BY <1>2, <1>3, <1>4 DEF ErrorsAccounted

(* Nothing that happened before is forgotten.                              *)
LEMMA LostGrows == ASSUME IType, IType', [Next]_vars PROVE Lost \in Nat /\ Lost' \in Nat /\ Lost <= Lost'
<1>1. ghost \in GhostSet /\ ghost' \in GhostSet
  BY DEF IType, TypeOK
<1>2. /\ ghost.faults \in Nat /\ ghost.overflows \in Nat
      /\ ghost'.faults \in Nat /\ ghost'.overflows \in Nat
  BY <1>1 DEF GhostSet
<1>3. ghost.faults <= ghost'.faults /\ ghost.overflows <= ghost'.overflows
  <2>1. CASE Produce
    BY <1>2, <2>1, ProduceIs
  <2>2. CASE Receive \/ ReceiveDamaged
    <3>1. \/ ghost' = ghost
          \/ ghost' = [ghost EXCEPT !.damaged = @ + 1]
          \/ ghost' = [ghost EXCEPT !.ignored = @ + 1, !.overflows = @ + 1]
      BY <2>2 DEF Receive, ReceiveDamaged
    <3>2. ghost'.faults = ghost.faults /\ ghost'.overflows \in {ghost.overflows, ghost.overflows + 1}
      BY <1>1, <3>1 DEF GhostSet
    <3> QED BY <1>2, <3>2
  <2>3. CASE ProcessReply
    <3>1. ghost'.faults = ghost.faults /\ ghost'.overflows = ghost.overflows
      BY <1>1, <2>3 DEF ProcessReply, GhostSet
    <3> QED BY <1>2, <3>1
  <2>4. ASSUME NEW i \in 0 .. N, Lose(i) \/ Damage(i)
        PROVE  ghost.faults <= ghost'.faults /\ ghost.overflows <= ghost'.overflows
    <3>1. ghost'.faults = ghost.faults + 1 /\ ghost'.overflows = ghost.overflows
      BY <1>1, <2>4 DEF Lose, Damage, Fault, GhostSet
    <3> QED BY <1>2, <3>1
  <2>5. CASE ghost' = ghost
    BY <1>2, <2>5
  <2> QED
    BY <2>1, <2>2, <2>3, <2>4, <2>5 DEF Next, Transmit, ModuleHandles, vars
<1> QED BY <1>2, <1>3 DEF Lost

(* So do all others.                                                       *)
LEMMA AccountedStep ==
  ASSUME IType, IType', Order, Carried, Counted, ErrorsAccounted, [Next]_vars
  PROVE  ErrorsAccounted'
<1>1. Lost \in Nat /\ Lost' \in Nat /\ Lost <= Lost' /\ SequenceSize \in Nat
  BY LostGrows, ChainAssumption
<1>2. ASSUME stats' = stats, ghost'.damaged = ghost.damaged, ghost'.gaps = ghost.gaps,
             ghost'.ignored = ghost.ignored
      PROVE  ErrorsAccounted'
  BY <1>1, <1>2 DEF ErrorsAccounted
<1>3. CASE Produce
  <2>1. /\ ghost'.damaged = ghost.damaged
        /\ stats'.pendingCRC = stats.pendingCRC /\ stats'.totalCRC = stats.totalCRC
    BY <1>3, ProduceIs
  <2>2. CASE /\ stats'.outOfSequence = stats.outOfSequence /\ ghost'.gaps = ghost.gaps
             /\ stats'.notProcessed = stats.notProcessed /\ ghost'.ignored = ghost.ignored
    BY <1>1, <2>1, <2>2 DEF ErrorsAccounted
  <2>3. CASE /\ stats'.outOfSequence = 0 /\ ghost'.gaps = 0
             /\ stats'.notProcessed = 0 /\ ghost'.ignored = 0
    <3>1. U16(0) = 0
      BY DEF U16
    <3> QED BY <2>1, <2>3, <3>1 DEF ErrorsAccounted
  <2> QED BY <1>3, <2>2, <2>3, ProduceIs
<1>4. CASE Receive \/ ReceiveDamaged
  BY <1>1, <1>4, ReceiveAccounted
<1>5. CASE ProcessReply
  BY <1>5, ReplyAccounted
<1>6. ASSUME NEW i \in 0 .. N, Lose(i) \/ Damage(i) PROVE ErrorsAccounted'
  <2>1. /\ stats' = stats /\ ghost'.damaged = ghost.damaged /\ ghost'.gaps = ghost.gaps
        /\ ghost'.ignored = ghost.ignored
    BY <1>6, CountersTyped DEF Lose, Damage, Fault, GhostSet
  <2> QED BY <1>2, <2>1
<1>7. CASE UNCHANGED <<stats, ghost>>
  BY <1>2, <1>7
<1> QED
  BY <1>3, <1>4, <1>5, <1>6, <1>7 DEF Next, Transmit, ModuleHandles, vars

(* All of this holds in every reachable state.                             *)
THEOREM ChainInvariant == Spec => []ChainInv
<1>1. Init => ChainInv
  <2>1. Init => ErrorsAccounted
    <3> SUFFICES ASSUME Init PROVE ErrorsAccounted
      OBVIOUS
    <3>1. U16(0) = 0 /\ 0 + 0 = 0 /\ 0 <= 0
      BY DEF U16
    <3>2. /\ stats.totalCRC = 0 /\ stats.pendingCRC = 0 /\ stats.outOfSequence = 0
          /\ stats.notProcessed = 0 /\ ghost.damaged = 0 /\ ghost.gaps = 0 /\ ghost.ignored = 0
      BY DEF Init
    <3> QED BY <3>1, <3>2 DEF ErrorsAccounted
  <2>2. Init => RightCell
    BY DEF Init, RightCell
  <2> QED
    BY <2>1, <2>2, TypeInit, NumberedInit, OrderInit, CarriedInit, CountedInit DEF ChainInv
<1>2. ChainInv /\ [Next]_vars => ChainInv'
  BY TypeStep, NumberedStep, OrderStep, CarriedStep, CountedStep, AccountedStep, RightCellStep
     DEF ChainInv
<1> QED BY <1>1, <1>2, PTL DEF Spec

(* Every reply the controller processes has been executed by the modules   *)
(* it addresses, all of them and no other, and brings their values in the  *)
(* order of the string.                                                    *)
THEOREM ChainRepliesComplete == Spec => []RepliesComplete
<1>1. ChainInv => RepliesComplete
  BY CarriedComplete DEF ChainInv
<1> QED BY <1>1, ChainInvariant, PTL

(* No cell ever shows the value of another cell's module.                  *)
THEOREM ChainRightCell == Spec => []RightCell
<1>1. ChainInv => RightCell
  BY DEF ChainInv
<1> QED BY <1>1, ChainInvariant, PTL

(* The controller's error counters are right, up to the width of their     *)
(* numbers, however many packets are lost, damaged or find a full queue.   *)
THEOREM ChainErrorsAccounted == Spec => []ErrorsAccounted
<1>1. ChainInv => ErrorsAccounted
  BY DEF ChainInv
<1> QED BY <1>1, ChainInvariant, PTL
=============================================================================
