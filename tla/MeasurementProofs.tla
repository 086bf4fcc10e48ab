--------------------------- MODULE MeasurementProofs ---------------------------
(* Proofs about what is measured and what is decided from it:              *)
(* CurrentMonitor for any queue, address, saves and faults, and RuleEngine *)
(* for any number of banks and cells, any voltages, temperatures, values   *)
(* and hystereses.  Their names are disjoint, so one module proves both.   *)
EXTENDS CurrentMonitor, RuleEngine, WellFoundedInduction, TLAPS

-----------------------------------------------------------------------------
(* One request at a time.                                                  *)
HandshakeInv ==
  /\ rx \in {"ready", "reading", "done"} => service = "waiting"
  /\ rx \in {"wait", "ready", "reading", "done", "loops"}

(* Every step keeps the two tasks in turn.                                 *)
LEMMA HandshakeStep == HandshakeInv /\ [Next]_vars => HandshakeInv'
  BY DEF Next, Poll, SaveCurrentMonBasic, SetDeviceAddress, SetShuntType, SaveCurrentMonRelay,
     SaveCurrentMonAdvanced, SaveCurrentMonSettings, SaveRS485Settings, ConfigureRS485, Configured,
     Restarted, Send, Transmit, NotifyReceiver, WaitTimesOut, Answer, Unplug, BeginRead, EndRead,
     NotifyService, Loop, HandshakeInv, vars

(* At the start both wait.                                                 *)
LEMMA HandshakeInit == Init => HandshakeInv
  BY DEF Init, HandshakeInv

(* The sender and the receiver are never on the bus together.              *)
THEOREM OneAtATime == Spec => []OneRequestAtATime
<1>1. HandshakeInv => OneRequestAtATime
  BY DEF HandshakeInv, OneRequestAtATime
<1> QED BY <1>1, HandshakeInit, HandshakeStep, PTL DEF Spec

(* So the mutex is free when a request is sent.                            *)
LEMMA SendTransmits ==
  ASSUME HandshakeInv, Send
  PROVE  /\ service = "idle" /\ service' = "sent" /\ queue # <<>> /\ queue' = Tail(queue)
         /\ line' = Append(Stale(line), [request |-> Head(queue), fresh |-> TRUE])
         /\ buffer' = Stale(buffer)
         /\ UNCHANGED <<settings, web, rx, monitor, registers, plugged, wired, saves, faults, history>>
  BY DEF Send, Transmit, HandshakeInv

-----------------------------------------------------------------------------
(* The saves reach the device.  The requests on their way form one         *)
(* sequence, those on the line before those in the queue; of the writes to *)
(* a field the last one has the value that is wanted.                      *)
IsSeq(s) == Len(s) \in Nat /\ s = [k \in 1 .. Len(s) |-> s[k]]

Touches(r, f) == IsWrite(r) /\ f \in DOMAIN r.data

Carries(way, n, has, wants) ==
  \A f \in UserFields :
    /\ (\A k \in 1 .. n : ~Touches(way[k], f)) => has[f] = wants[f]
    /\ \A k \in 1 .. n :
         Touches(way[k], f) /\ (\A j \in k + 1 .. n : ~Touches(way[j], f))
           => way[k].data[f] = wants[f]

(* A sequence in the library's sense is one in ours.                       *)
LEMMA SeqIsSeq == ASSUME NEW S, NEW s \in Seq(S) PROVE IsSeq(s)
  BY DEF IsSeq

(* So is a function whose domain is the numbers from 1 to m.               *)
LEMMA FunctionIsSeq ==
  ASSUME NEW m \in Nat, NEW s, s = [k \in 1 .. m |-> s[k]]
  PROVE  IsSeq(s) /\ Len(s) = m
<1> DEFINE S == {s[k] : k \in 1 .. m}
<1>1. \A k \in 1 .. m : s[k] \in S
  OBVIOUS
<1> HIDE DEF S
<1>2. s \in [1 .. m -> S]
  BY <1>1
<1>3. s \in Seq(S) /\ Len(s) = m
  BY <1>2
<1> QED BY <1>3, SeqIsSeq

(* Append adds a last element and keeps the others.                        *)
LEMMA AppendSeq ==
  ASSUME NEW s, IsSeq(s), NEW e
  PROVE  /\ IsSeq(Append(s, e)) /\ Len(Append(s, e)) = Len(s) + 1
         /\ Append(s, e)[Len(s) + 1] = e
         /\ \A k \in 1 .. Len(s) : Append(s, e)[k] = s[k]
<1> DEFINE S == {s[k] : k \in 1 .. Len(s)} \cup {e}
<1>1. s \in Seq(S) /\ e \in S
  BY DEF IsSeq
<1> HIDE DEF S
<1>2. Append(s, e) \in Seq(S) /\ Len(Append(s, e)) = Len(s) + 1
  BY <1>1
<1>3. IsSeq(Append(s, e))
  BY <1>2, SeqIsSeq
<1> QED BY <1>1, <1>2, <1>3

(* Tail drops the first element and moves the others down.                 *)
LEMMA TailSeq ==
  ASSUME NEW s, IsSeq(s), s # <<>>
  PROVE  /\ IsSeq(Tail(s)) /\ Len(Tail(s)) = Len(s) - 1 /\ Len(s) > 0 /\ Head(s) = s[1]
         /\ \A k \in 1 .. Len(s) - 1 : Tail(s)[k] = s[k + 1]
<1> DEFINE S == {s[k] : k \in 1 .. Len(s)}
<1>1. s \in Seq(S)
  BY DEF IsSeq
<1> HIDE DEF S
<1>2. Tail(s) \in Seq(S) /\ Len(Tail(s)) = Len(s) - 1 /\ Len(s) > 0
  BY <1>1
<1>3. IsSeq(Tail(s))
  BY <1>2, SeqIsSeq
<1> QED BY <1>1, <1>2, <1>3

(* A request that joins the others.                                        *)
LEMMA CarryMore ==
  ASSUME NEW n \in Nat, NEW way, NEW longer, NEW has, NEW wants, NEW wanting,
         Carries(way, n, has, wants), \A k \in 1 .. n : longer[k] = way[k],
         \A f \in UserFields :
           wanting[f] = IF Touches(longer[n + 1], f) THEN longer[n + 1].data[f] ELSE wants[f]
  PROVE  Carries(longer, n + 1, has, wanting)
<1> SUFFICES ASSUME NEW f \in UserFields
             PROVE  /\ (\A k \in 1 .. n + 1 : ~Touches(longer[k], f)) => has[f] = wanting[f]
                    /\ \A k \in 1 .. n + 1 :
                         Touches(longer[k], f) /\ (\A j \in k + 1 .. n + 1 : ~Touches(longer[j], f))
                           => longer[k].data[f] = wanting[f]
  BY DEF Carries
<1>0. n + 1 \in 1 .. n + 1 /\ \A k \in 1 .. n : k \in 1 .. n + 1
  OBVIOUS
<1>1. CASE Touches(longer[n + 1], f)
  <2>1. \A k \in 1 .. n + 1 : (\A j \in k + 1 .. n + 1 : ~Touches(longer[j], f)) => k = n + 1
    BY <1>1
  <2> QED BY <1>0, <1>1, <2>1
<1>2. CASE ~Touches(longer[n + 1], f)
  <2>1. wanting[f] = wants[f]
    BY <1>2
  <2>2. (\A k \in 1 .. n + 1 : ~Touches(longer[k], f)) => has[f] = wanting[f]
    BY <1>0, <2>1 DEF Carries
  <2>3. ASSUME NEW k \in 1 .. n + 1, Touches(longer[k], f),
               \A j \in k + 1 .. n + 1 : ~Touches(longer[j], f)
        PROVE  longer[k].data[f] = wanting[f]
    <3>1. k \in 1 .. n
      BY <1>2, <2>3
    <3>2. \A j \in k + 1 .. n : ~Touches(way[j], f)
      BY <2>3, <3>1
    <3> QED BY <2>1, <2>3, <3>1, <3>2 DEF Carries
  <2> QED BY <2>2, <2>3
<1> QED BY <1>1, <1>2

(* The first request is done.                                              *)
LEMMA CarryRest ==
  ASSUME NEW n \in Nat \ {0}, NEW way, NEW rest, NEW has, NEW having, NEW wants,
         Carries(way, n, has, wants), \A k \in 1 .. n - 1 : rest[k] = way[k + 1],
         \A f \in UserFields :
           having[f] = IF Touches(way[1], f) THEN way[1].data[f] ELSE has[f]
  PROVE  Carries(rest, n - 1, having, wants)
<1> SUFFICES ASSUME NEW f \in UserFields
             PROVE  /\ (\A k \in 1 .. n - 1 : ~Touches(rest[k], f)) => having[f] = wants[f]
                    /\ \A k \in 1 .. n - 1 :
                         Touches(rest[k], f) /\ (\A j \in k + 1 .. n - 1 : ~Touches(rest[j], f))
                           => rest[k].data[f] = wants[f]
  BY DEF Carries
<1>1. ASSUME \A k \in 1 .. n - 1 : ~Touches(rest[k], f) PROVE having[f] = wants[f]
  <2>1. \A k \in 2 .. n : k - 1 \in 1 .. n - 1 /\ way[k] = rest[k - 1]
    OBVIOUS
  <2>2. \A k \in 2 .. n : ~Touches(way[k], f)
    BY <1>1, <2>1
  <2>3. CASE Touches(way[1], f)
    BY <2>2, <2>3 DEF Carries
  <2>4. CASE ~Touches(way[1], f)
    <3>1. \A k \in 1 .. n : k = 1 \/ k \in 2 .. n
      OBVIOUS
    <3> QED BY <2>2, <2>4, <3>1 DEF Carries
  <2> QED BY <2>3, <2>4
<1>2. ASSUME NEW k \in 1 .. n - 1, Touches(rest[k], f),
             \A j \in k + 1 .. n - 1 : ~Touches(rest[j], f)
      PROVE  rest[k].data[f] = wants[f]
  <2>1. k + 1 \in 1 .. n /\ rest[k] = way[k + 1]
    OBVIOUS
  <2>2. ASSUME NEW j \in k + 2 .. n PROVE ~Touches(way[j], f)
    <3>1. j - 1 \in k + 1 .. n - 1 /\ j - 1 \in 1 .. n - 1 /\ (j - 1) + 1 = j
      OBVIOUS
    <3>2. rest[j - 1] = way[j]
      BY <3>1
    <3> QED BY <1>2, <3>1, <3>2
  <2>3. (k + 1) + 1 = k + 2
    OBVIOUS
  <2> QED BY <1>2, <2>1, <2>2, <2>3 DEF Carries
<1> QED BY <1>1, <1>2

(* The last requests are forgotten, none of them a write.                  *)
LEMMA CarryLess ==
  ASSUME NEW n \in Nat, NEW m \in 0 .. n, NEW way, NEW front, NEW has, NEW wants,
         Carries(way, n, has, wants), \A k \in 1 .. m : front[k] = way[k],
         \A k \in m + 1 .. n : ~IsWrite(way[k])
  PROVE  Carries(front, m, has, wants)
<1>1. \A k \in 1 .. n : k \in 1 .. m \/ k \in m + 1 .. n
  OBVIOUS
<1>2. \A k \in 1 .. m : k \in 1 .. n
  OBVIOUS
<1>3. ASSUME NEW f \in UserFields, NEW k \in 1 .. m, \A j \in k + 1 .. m : ~Touches(front[j], f)
      PROVE  \A j \in k + 1 .. n : ~Touches(way[j], f)
  BY <1>3 DEF Touches
<1> QED BY <1>1, <1>2, <1>3 DEF Carries, Touches

(* The requests on the line l and in the queue q.                          *)
WayOf(l, q) ==
  [k \in 1 .. Len(l) + Len(q) |-> IF k <= Len(l) THEN l[k].request ELSE q[k - Len(l)]]
Arrives(l, q, has, wants) == Carries(WayOf(l, q), Len(l) + Len(q), has, wants)

(* A request that joins the queue is the last of the way.                  *)
LEMMA Join ==
  ASSUME NEW l, NEW q, IsSeq(l), IsSeq(q), NEW r, NEW has, NEW wants, NEW wanting,
         Arrives(l, q, has, wants),
         \A f \in UserFields : wanting[f] = IF Touches(r, f) THEN r.data[f] ELSE wants[f]
  PROVE  Arrives(l, Append(q, r), has, wanting)
<1> DEFINE n == Len(l) + Len(q)
           longer == WayOf(l, Append(q, r))
<1>1. n \in Nat /\ Len(l) + Len(Append(q, r)) = n + 1 /\ Len(l) \in Nat /\ Len(q) \in Nat
  BY AppendSeq DEF IsSeq
<1>2. \A k \in 1 .. n : longer[k] = WayOf(l, q)[k]
  <2>1. \A k \in 1 .. n : k \in 1 .. n + 1 /\ (~(k <= Len(l)) => k - Len(l) \in 1 .. Len(q))
    BY <1>1
  <2> QED BY <1>1, <2>1, AppendSeq DEF WayOf
<1>3. longer[n + 1] = r
  <2>1. n + 1 \in 1 .. n + 1 /\ ~(n + 1 <= Len(l)) /\ (n + 1) - Len(l) = Len(q) + 1
    BY <1>1
  <2> QED BY <1>1, <2>1, AppendSeq DEF WayOf
<1> HIDE DEF n, longer
<1>4. Carries(longer, n + 1, has, wanting)
  BY <1>1, <1>2, <1>3, CarryMore DEF Arrives, n
<1> QED BY <1>1, <1>4 DEF Arrives, longer

(* A request that the device has answered leaves the way.                  *)
LEMMA Done ==
  ASSUME NEW l, NEW q, IsSeq(l), IsSeq(q), l # <<>>, NEW has, NEW having, NEW wants,
         Arrives(l, q, has, wants),
         \A f \in UserFields :
           having[f] = IF Touches(l[1].request, f) THEN l[1].request.data[f] ELSE has[f]
  PROVE  Arrives(Tail(l), q, having, wants)
<1> DEFINE n == Len(l) + Len(q)
           rest == WayOf(Tail(l), q)
<1>1. /\ n \in Nat \ {0} /\ Len(Tail(l)) + Len(q) = n - 1 /\ Len(Tail(l)) = Len(l) - 1
      /\ Len(l) \in Nat \ {0} /\ Len(q) \in Nat
  BY TailSeq DEF IsSeq
<1>2. \A k \in 1 .. n - 1 : rest[k] = WayOf(l, q)[k + 1]
  <2> TAKE k \in 1 .. n - 1
  <2>1. k + 1 \in 1 .. n /\ k \in 1 .. n - 1
    BY <1>1
  <2>2. CASE k <= Len(l) - 1
    <3>1. k \in 1 .. Len(l) - 1 /\ k + 1 <= Len(l)
      BY <1>1, <2>2
    <3> QED BY <1>1, <2>1, <2>2, <3>1, TailSeq DEF WayOf
  <2>3. CASE ~(k <= Len(l) - 1)
    <3>1. ~(k + 1 <= Len(l)) /\ (k + 1) - Len(l) = k - (Len(l) - 1)
      BY <1>1, <2>3
    <3> QED BY <1>1, <2>1, <2>3, <3>1 DEF WayOf
  <2> QED BY <2>2, <2>3
<1>3. WayOf(l, q)[1] = l[1].request
  BY <1>1 DEF WayOf
<1> HIDE DEF n, rest
<1>4. Carries(WayOf(l, q), n, has, wants)
  BY DEF Arrives, n
<1>5. Carries(rest, n - 1, having, wants)
  <2> DEFINE way == WayOf(l, q)
  <2>1. \A f \in UserFields :
          having[f] = IF Touches(way[1], f) THEN way[1].data[f] ELSE has[f]
    BY <1>3
  <2>2. n \in Nat \ {0} /\ Carries(way, n, has, wants) /\ \A k \in 1 .. n - 1 : rest[k] = way[k + 1]
    BY <1>1, <1>2, <1>4
  <2> HIDE DEF way
  <2> QED BY <2>1, <2>2, CarryRest
<1> QED BY <1>1, <1>5 DEF Arrives, rest

(* What has the form of a line, and what the saves rely on.                *)
IsLine(l) ==
  /\ IsSeq(l)
  /\ \A k \in 1 .. Len(l) : l[k] = [request |-> l[k].request, fresh |-> l[k].fresh]

ArriveInv ==
  /\ IsLine(line) /\ IsSeq(queue)
  /\ registers = [f \in Fields |-> registers[f]] /\ wanted = [f \in UserFields |-> wanted[f]]
  /\ ~unwritten => Arrives(line, queue, registers, wanted)

(* At the start nothing is under way and the device has what is wanted.    *)
LEMMA ArriveInit == Init => ArriveInv
<1> SUFFICES ASSUME Init PROVE ArriveInv
  OBVIOUS
<1>1. IsSeq(<<>>) /\ Len(<<>>) = 0
  BY DEF IsSeq
<1>2. Arrives(line, queue, registers, wanted)
  BY <1>1 DEF Init, Arrives, Carries, UserFields, Fields
<1> QED BY <1>1, <1>2 DEF Init, ArriveInv, IsLine

(* Sending moves the border between line and queue.                        *)
LEMMA SendStep ==
  ASSUME ArriveInv, HandshakeInv, Send
  PROVE  ArriveInv'
<1> DEFINE s == Stale(line)
           e == [request |-> Head(queue), fresh |-> TRUE]
<1>1. /\ queue # <<>> /\ IsSeq(queue) /\ IsSeq(line) /\ queue' = Tail(queue)
      /\ line' = Append(s, e) /\ UNCHANGED <<registers, wanted, unwritten>>
      /\ \A k \in 1 .. Len(line) : line[k] = [request |-> line[k].request, fresh |-> line[k].fresh]
  BY SendTransmits DEF ArriveInv, IsLine, history
<1>2. Len(line) \in Nat /\ DOMAIN line = 1 .. Len(line)
  BY <1>1 DEF IsSeq
<1>3. /\ s = [k \in 1 .. Len(line) |-> [line[k] EXCEPT !.fresh = FALSE]]
      /\ Len(s) = Len(line) /\ IsSeq(s)
  <2>1. s = [k \in 1 .. Len(line) |-> [line[k] EXCEPT !.fresh = FALSE]]
    BY <1>2 DEF Stale
  <2>2. s = [k \in 1 .. Len(line) |-> s[k]]
    BY <2>1
  <2> HIDE DEF s
  <2> QED BY <1>2, <2>1, <2>2, FunctionIsSeq
<1>4. \A k \in 1 .. Len(line) : s[k] = [request |-> line[k].request, fresh |-> FALSE]
  BY <1>1, <1>3
<1> HIDE DEF s
<1>5. /\ IsSeq(line') /\ Len(line') = Len(line) + 1
      /\ line'[Len(line) + 1] = e /\ \A k \in 1 .. Len(line) : line'[k] = s[k]
  BY <1>1, <1>3, AppendSeq
<1>6. IsLine(line')
  <2>1. \A k \in 1 .. Len(line) + 1 : k \in 1 .. Len(line) \/ k = Len(line) + 1
    BY <1>2
  <2>2. \A k \in 1 .. Len(line) + 1 : line'[k] = [request |-> line'[k].request, fresh |-> line'[k].fresh]
    BY <1>4, <1>5, <2>1
  <2> QED BY <1>5, <2>2 DEF IsLine
<1>7. /\ IsSeq(queue') /\ Len(queue') = Len(queue) - 1 /\ Len(queue) \in Nat \ {0}
      /\ Head(queue) = queue[1] /\ \A k \in 1 .. Len(queue) - 1 : queue'[k] = queue[k + 1]
  BY <1>1, TailSeq DEF IsSeq
<1> DEFINE n == Len(line) + Len(queue)
           way == WayOf(line, queue)
           front == WayOf(line', queue')
<1>8. n \in Nat /\ n \in 0 .. n /\ Len(line') + Len(queue') = n
  BY <1>2, <1>5, <1>7
<1>9. \A k \in 1 .. n : front[k] = way[k]
  <2> TAKE k \in 1 .. n
  <2>1. CASE k <= Len(line)
    <3>1. k \in 1 .. Len(line) /\ k <= Len(line) + 1
      BY <1>2, <1>7, <2>1
    <3>2. way[k] = line[k].request
      BY <2>1 DEF WayOf
    <3>3. front[k] = line'[k].request
      BY <1>5, <1>8, <3>1 DEF WayOf
    <3>4. line'[k] = [request |-> line[k].request, fresh |-> FALSE]
      BY <1>4, <1>5, <3>1
    <3> QED BY <3>2, <3>3, <3>4
  <2>2. CASE k = Len(line) + 1
    <3>1. way[k] = queue[1]
      <4>1. ~(k <= Len(line)) /\ k - Len(line) = 1
        BY <1>2, <2>2
      <4> QED BY <4>1 DEF WayOf
    <3>2. front[k] = line'[k].request
      <4>1. k <= Len(line')
        BY <1>2, <1>5, <2>2
      <4> QED BY <1>8, <4>1 DEF WayOf
    <3> QED BY <1>5, <1>7, <2>2, <3>1, <3>2
  <2>3. CASE k > Len(line) + 1
    <3>1. ~(k <= Len(line)) /\ ~(k <= Len(line) + 1) /\ k - (Len(line) + 1) \in 1 .. Len(queue) - 1
          /\ (k - (Len(line) + 1)) + 1 = k - Len(line)
      BY <1>2, <1>7, <2>3
    <3>2. way[k] = queue[k - Len(line)]
      BY <3>1 DEF WayOf
    <3>3. front[k] = queue'[k - (Len(line) + 1)]
      BY <1>5, <1>8, <3>1 DEF WayOf
    <3> QED BY <1>7, <3>1, <3>2, <3>3
  <2> QED BY <1>2, <1>7, <2>1, <2>2, <2>3
<1> HIDE DEF n, way, front
<1>10. ~unwritten => Carries(front, n, registers, wanted)
  <2>1. \A k \in n + 1 .. n : FALSE
    BY <1>8
  <2> QED BY <1>8, <1>9, <2>1, CarryLess DEF ArriveInv, Arrives, n, way
<1> QED BY <1>1, <1>6, <1>7, <1>8, <1>10 DEF ArriveInv, Arrives, front

(* An answer takes the first request off the line; a write that is not     *)
(* answered is unwritten.                                                  *)
LEMMA AnswerStep ==
  ASSUME ArriveInv, Answer
  PROVE  ArriveInv'
<1> DEFINE r == line[1].request
<1>1. /\ line # <<>> /\ IsSeq(line) /\ IsSeq(queue) /\ line' = Tail(line) /\ queue' = queue
      /\ wanted' = wanted /\ Head(line) = line[1]
      /\ \A k \in 1 .. Len(line) : line[k] = [request |-> line[k].request, fresh |-> line[k].fresh]
  BY TailSeq DEF Answer, ArriveInv, IsLine
<1>2. IsLine(line')
  <2>1. \A k \in 1 .. Len(line) - 1 : k + 1 \in 1 .. Len(line)
    BY <1>1, TailSeq DEF IsSeq
  <2> QED BY <1>1, <2>1, TailSeq DEF IsLine
<1>3. \/ /\ registers' = IF IsWrite(r) THEN [f \in Fields |-> IF f \in DOMAIN r.data THEN r.data[f]
                                                           ELSE registers[f]]
                          ELSE registers
         /\ unwritten' = unwritten
      \/ /\ unwritten' = (unwritten \/ IsWrite(r))
         /\ registers' = registers
  BY <1>1 DEF Answer
<1>4. registers' = [f \in Fields |-> registers'[f]]
  BY <1>3 DEF ArriveInv
<1>5. ASSUME ~unwritten'
      PROVE  /\ ~unwritten
             /\ \A f \in UserFields :
                  registers'[f] = IF Touches(r, f) THEN r.data[f] ELSE registers[f]
  <2>1. CASE /\ registers' = IF IsWrite(r) THEN [f \in Fields |-> IF f \in DOMAIN r.data
                                                                 THEN r.data[f] ELSE registers[f]]
                             ELSE registers
             /\ unwritten' = unwritten
    BY <1>5, <2>1 DEF Touches, UserFields
  <2>2. CASE unwritten' = (unwritten \/ IsWrite(r)) /\ registers' = registers
    <3>1. ~unwritten /\ ~IsWrite(r)
      BY <1>5, <2>2
    <3> QED BY <2>2, <3>1 DEF Touches
  <2> QED BY <1>3, <2>1, <2>2
<1> HIDE DEF r
<1>6. ~unwritten' => Arrives(line', queue', registers', wanted')
  <2> SUFFICES ASSUME ~unwritten' PROVE Arrives(Tail(line), queue, registers', wanted)
    BY <1>1
  <2>1. Arrives(line, queue, registers, wanted)
    BY <1>5 DEF ArriveInv
  <2> QED BY <1>1, <1>5, <2>1, Done DEF r
<1> QED BY <1>1, <1>2, <1>4, <1>6 DEF ArriveInv

(* A restart empties the queue, and a write in it is unwritten.            *)
LEMMA RestartStep ==
  ASSUME ArriveInv, Restarted
  PROVE  ArriveInv'
<1>1. /\ IsLine(line) /\ IsSeq(line) /\ IsSeq(queue) /\ queue' = <<>>
      /\ UNCHANGED <<line, registers, wanted>>
      /\ unwritten' = (unwritten \/ \E k \in DOMAIN queue : IsWrite(queue[k]))
  BY DEF Restarted, ArriveInv, IsLine
<1>2. IsSeq(<<>>) /\ Len(<<>>) = 0
  BY DEF IsSeq
<1> DEFINE m == Len(line)
           n == Len(line) + Len(queue)
           way == WayOf(line, queue)
           front == WayOf(line, <<>>)
<1>3. m \in Nat /\ n \in Nat /\ m \in 0 .. n /\ Len(line) + Len(<<>>) = m
  BY <1>1, <1>2 DEF IsSeq
<1>4. \A k \in 1 .. m : front[k] = way[k]
  BY <1>3 DEF WayOf
<1>5. ASSUME ~unwritten' PROVE ~unwritten /\ \A k \in m + 1 .. n : ~IsWrite(way[k])
  <2>1. ~unwritten /\ \A k \in DOMAIN queue : ~IsWrite(queue[k])
    BY <1>1, <1>5
  <2>2. DOMAIN queue = 1 .. Len(queue) /\ Len(queue) \in Nat
    BY <1>1 DEF IsSeq
  <2>3. ASSUME NEW k \in m + 1 .. n PROVE ~IsWrite(way[k])
    <3>1. k - m \in 1 .. Len(queue) /\ ~(k <= m) /\ k \in 1 .. n
      BY <1>3, <2>2, <2>3
    <3>2. way[k] = queue[k - m]
      BY <3>1 DEF WayOf
    <3> QED BY <2>1, <2>2, <3>1, <3>2
  <2> QED BY <2>1, <2>3
<1> HIDE DEF m, n, way, front
<1>6. ASSUME ~unwritten' PROVE Carries(front, m, registers, wanted)
  <2>1. Carries(way, n, registers, wanted)
    BY <1>5, <1>6 DEF ArriveInv, Arrives, n, way
  <2> QED BY <1>3, <1>4, <1>5, <1>6, <2>1, CarryLess
<1>7. ~unwritten' => Arrives(line', queue', registers', wanted')
  BY <1>1, <1>3, <1>6 DEF Arrives, front
<1> QED BY <1>1, <1>2, <1>7 DEF ArriveInv

(* A request of the pages or the poll.                                     *)
LEMMA PushStep ==
  ASSUME ArriveInv, NEW r, queue' = Append(queue, r),
         UNCHANGED <<line, registers, unwritten>>,
         wanted' = [f \in UserFields |-> wanted'[f]],
         \A f \in UserFields : wanted'[f] = IF Touches(r, f) THEN r.data[f] ELSE wanted[f]
  PROVE  ArriveInv'
<1>1. IsSeq(queue')
  BY AppendSeq DEF ArriveInv
<1>2. ~unwritten => Arrives(line, Append(queue, r), registers, wanted')
  BY Join DEF ArriveInv, IsLine
<1> QED BY <1>1, <1>2 DEF ArriveInv

(* A page that writes one request for the fields it saves.                 *)
LEMMA WrittenStep ==
  ASSUME ArriveInv, NEW fields, Written(fields), UNCHANGED <<line, registers, unwritten>>
  PROVE  ArriveInv'
<1>1. \A f \in UserFields : Touches(Writing(fields), f) <=> f \in DOMAIN fields
  BY DEF Touches, IsWrite, Writing
<1>2. Writing(fields).data = fields
  BY DEF Writing
<1>3. /\ queue' = Append(queue, Writing(fields))
      /\ wanted' = [f \in UserFields |-> IF f \in DOMAIN fields THEN fields[f] ELSE wanted[f]]
  BY DEF Written
<1> QED BY <1>1, <1>2, <1>3, PushStep

(* Every step keeps the saves on their way.                                *)
LEMMA ArriveStep == ArriveInv /\ HandshakeInv /\ [Next]_vars => ArriveInv'
<1> SUFFICES ASSUME ArriveInv, HandshakeInv, [Next]_vars PROVE ArriveInv'
  OBVIOUS
<1> DEFINE Kept == UNCHANGED <<line, queue, registers, wanted, unwritten>>
<1>1. Kept => ArriveInv'
  BY DEF ArriveInv
<1>2. CASE Poll
  <2>1. PICK op : queue' = Append(queue, Reading(op)) /\ op \in {"read", "values", "params"}
    BY <1>2 DEF Poll
  <2>2. UNCHANGED <<line, registers, wanted, unwritten>>
    BY <1>2 DEF Poll, bus, history
  <2>3. \A f \in UserFields : ~Touches(Reading(op), f)
    BY <2>1 DEF Touches, IsWrite, Reading
  <2>4. wanted' = [f \in UserFields |-> wanted'[f]]
    BY <2>2 DEF ArriveInv
  <2> QED BY <2>1, <2>2, <2>3, <2>4, PushStep
<1>3. CASE SaveCurrentMonBasic
  <2>1. UNCHANGED <<line, registers, unwritten>>
    BY <1>3 DEF SaveCurrentMonBasic, bus
  <2>2. PICK v \in 0 .. 1 : Written([f \in {"basic"} |-> v]) \/ UNCHANGED <<queue, wanted>>
    BY <1>3 DEF SaveCurrentMonBasic
  <2>3. CASE Written([f \in {"basic"} |-> v])
    BY <2>1, <2>3, WrittenStep
  <2>4. CASE UNCHANGED <<queue, wanted>>
    BY <1>1, <2>1, <2>4
  <2> QED BY <2>2, <2>3, <2>4
<1>4. CASE SetShuntType \/ SaveCurrentMonRelay \/ SaveCurrentMonAdvanced
  <2>1. UNCHANGED <<line, registers, unwritten>>
    BY <1>4 DEF SetShuntType, SaveCurrentMonRelay, SaveCurrentMonAdvanced, bus
  <2>2. PICK fields : Written(fields)
    BY <1>4 DEF SetShuntType, SaveCurrentMonRelay, SaveCurrentMonAdvanced
  <2> QED BY <2>1, <2>2, WrittenStep
<1>12. CASE SetDeviceAddress
  <2>1. queue' = Append(queue, ToAll) /\ UNCHANGED <<line, registers, wanted, unwritten>>
    BY <1>12 DEF SetDeviceAddress, bus, history
  <2>2. \A f \in UserFields : ~Touches(ToAll, f)
    BY DEF Touches, IsWrite, ToAll
  <2>3. wanted' = [f \in UserFields |-> wanted'[f]]
    BY <2>1 DEF ArriveInv
  <2> QED BY <2>1, <2>2, <2>3, PushStep
<1>5. CASE SaveCurrentMonSettings
  BY <1>1, <1>5 DEF SaveCurrentMonSettings, bus, history
<1>6. CASE SaveRS485Settings
  BY <1>1, <1>6 DEF SaveRS485Settings, bus, history
<1>7. CASE ConfigureRS485
  BY <1>1, <1>7, RestartStep DEF ConfigureRS485, Configured, bus, history
<1>8. CASE NotifyReceiver \/ WaitTimesOut
  BY <1>1, <1>8 DEF NotifyReceiver, WaitTimesOut, bus, history
<1>9. CASE Unplug \/ BeginRead
  BY <1>1, <1>9 DEF Unplug, BeginRead, bus, history
<1>10. CASE EndRead \/ NotifyService \/ Loop
  BY <1>1, <1>10 DEF EndRead, NotifyService, Loop, bus, history
<1>11. CASE UNCHANGED vars
  BY <1>1, <1>11 DEF vars, bus, history
<1> HIDE DEF Kept
<1> QED BY <1>2, <1>3, <1>4, <1>5, <1>6, <1>7, <1>8, <1>9, <1>10, <1>11, <1>12, SendStep, AnswerStep
        DEF Next

(* Once nothing is under way the device has what the user saved last,      *)
(* unless a write was lost.                                                *)
THEOREM SavesArrive == Spec => []SavesReachDevice
<1>1. ArriveInv => SavesReachDevice
  <2> SUFFICES ASSUME ArriveInv, queue = <<>>, line = <<>>, ~unwritten
               PROVE  \A f \in UserFields : registers[f] = wanted[f]
    BY DEF SavesReachDevice
  <2>1. Carries(WayOf(line, queue), 0, registers, wanted)
    <3>1. Len(line) + Len(queue) = 0
      OBVIOUS
    <3> QED BY <3>1 DEF ArriveInv, Arrives
  <2> QED BY <2>1 DEF Carries
<1> QED BY <1>1, ArriveInit, ArriveStep, HandshakeInit, HandshakeStep, PTL DEF Spec

-----------------------------------------------------------------------------
(* Answers to the request.  Unless one came too late, nothing is on its    *)
(* way between two requests, so that all there is belongs to the last.     *)
FreshInv ==
  /\ HandshakeInv /\ IsSeq(buffer)
  /\ service \in {"idle", "sent", "waiting"}
  /\ ~late =>
       /\ service = "idle" \/ rx = "done" => line = <<>> /\ buffer = <<>>
       /\ service = "waiting" => rx \in {"ready", "reading", "done"}
       /\ \A k \in 1 .. Len(line) : line[k].fresh
       /\ \A k \in 1 .. Len(buffer) : buffer[k].fresh

(* Nothing is a sequence too.                                              *)
LEMMA EmptySeq == IsSeq(<<>>) /\ Len(<<>>) = 0
  BY DEF IsSeq

(* At the start there is nothing on the bus.                               *)
LEMMA FreshInit == Init => FreshInv
  BY EmptySeq DEF Init, FreshInv, HandshakeInv

(* What gets stale keeps its length.                                       *)
LEMMA StaleSeq ==
  ASSUME NEW s, IsSeq(s)
  PROVE  IsSeq(Stale(s)) /\ Len(Stale(s)) = Len(s)
<1> DEFINE t == Stale(s)
<1>1. Len(s) \in Nat /\ DOMAIN s = 1 .. Len(s)
  BY DEF IsSeq
<1>2. t = [k \in 1 .. Len(s) |-> [s[k] EXCEPT !.fresh = FALSE]]
  BY <1>1 DEF Stale
<1>3. t = [k \in 1 .. Len(s) |-> t[k]]
  BY <1>2
<1> HIDE DEF t
<1>4. IsSeq(t) /\ Len(t) = Len(s)
  BY <1>1, <1>3, FunctionIsSeq
<1> QED BY <1>4 DEF t

(* The request that is sent is alone on the bus.                           *)
LEMMA FreshSend ==
  ASSUME ArriveInv, FreshInv, Send
  PROVE  FreshInv'
<1> DEFINE e == [request |-> Head(queue), fresh |-> TRUE]
<1>1. /\ service = "idle" /\ service' = "sent" /\ line' = Append(Stale(line), e)
      /\ buffer' = Stale(buffer) /\ UNCHANGED <<rx, late>>
  BY SendTransmits DEF FreshInv, history
<1>2. /\ IsSeq(line) /\ IsSeq(Stale(line)) /\ Len(Stale(line)) = Len(line)
      /\ IsSeq(buffer') /\ Len(buffer') = Len(buffer)
  BY <1>1, StaleSeq DEF ArriveInv, IsLine, FreshInv
<1>3. ASSUME ~late
      PROVE  /\ Len(line') = 1 /\ line'[1] = e /\ Len(buffer') = 0
  <2>1. line = <<>> /\ buffer = <<>>
    BY <1>1, <1>3 DEF FreshInv
  <2>2. Len(Stale(line)) = 0 /\ Len(buffer') = 0
    BY <1>2, <2>1, EmptySeq
  <2> HIDE DEF e
  <2>3. Len(line') = 0 + 1 /\ line'[0 + 1] = e
    BY <1>1, <1>2, <2>2, AppendSeq
  <2> QED BY <2>2, <2>3
<1>4. HandshakeInv' /\ rx' # "done"
  BY <1>1 DEF FreshInv, HandshakeInv
<1>5. ASSUME ~late PROVE \A k \in 1 .. Len(line') : line'[k].fresh
  <2>1. Len(line') = 1
    BY <1>3, <1>5
  <2>2. \A k \in 1 .. Len(line') : k = 1
    BY <2>1
  <2>3. line'[1].fresh
    BY <1>3, <1>5
  <2> QED BY <2>2, <2>3
<1>6. ASSUME ~late PROVE \A k \in 1 .. Len(buffer') : buffer'[k].fresh
  BY <1>3, <1>6
<1> QED BY <1>1, <1>2, <1>4, <1>5, <1>6 DEF FreshInv

(* Its answer is as fresh as the request.                                  *)
LEMMA FreshAnswer ==
  ASSUME ArriveInv, FreshInv, Answer
  PROVE  FreshInv'
<1>1. /\ line # <<>> /\ line' = Tail(line) /\ IsSeq(line) /\ Head(line) = line[1]
      /\ UNCHANGED <<service, rx, late>>
  BY TailSeq DEF Answer, ArriveInv, IsLine
<1>2. /\ Len(line') = Len(line) - 1 /\ Len(line) \in Nat /\ Len(line) > 0
      /\ \A k \in 1 .. Len(line) - 1 : line'[k] = line[k + 1]
  BY <1>1, TailSeq DEF IsSeq
<1>3. \/ buffer' = buffer
      \/ buffer' = Append(buffer, Reply(Head(line).request, Head(line).fresh, TRUE))
      \/ buffer' = Append(buffer, Reply(Head(line).request, Head(line).fresh, FALSE))
  BY DEF Answer
<1>4. HandshakeInv'
  BY <1>1 DEF FreshInv, HandshakeInv
<1>5. ASSUME ~late
      PROVE  /\ service # "idle" /\ rx # "done" /\ line[1].fresh
             /\ \A k \in 1 .. Len(line') : line'[k].fresh
  <2>1. \A k \in 1 .. Len(line) - 1 : k + 1 \in 1 .. Len(line)
    BY <1>2
  <2>2. 1 \in 1 .. Len(line)
    BY <1>2
  <2> QED BY <1>1, <1>2, <1>5, <2>1, <2>2 DEF FreshInv
<1>6. CASE buffer' = buffer
  BY <1>1, <1>4, <1>5, <1>6 DEF FreshInv
<1>7. ASSUME NEW intact \in BOOLEAN,
             buffer' = Append(buffer, Reply(Head(line).request, Head(line).fresh, intact))
      PROVE  FreshInv'
  <2> DEFINE reply == Reply(line[1].request, line[1].fresh, intact)
  <2>1. reply.fresh = line[1].fresh
    BY DEF Reply
  <2>2. IsSeq(buffer) /\ Len(buffer) \in Nat /\ buffer' = Append(buffer, reply)
    BY <1>1, <1>7 DEF FreshInv, IsSeq
  <2> HIDE DEF reply
  <2>3. /\ IsSeq(buffer') /\ Len(buffer') = Len(buffer) + 1
        /\ buffer'[Len(buffer) + 1] = reply
        /\ \A k \in 1 .. Len(buffer) : buffer'[k] = buffer[k]
    BY <2>2, AppendSeq
  <2>4. ASSUME ~late PROVE \A k \in 1 .. Len(buffer') : buffer'[k].fresh
    <3>1. \A k \in 1 .. Len(buffer') : k \in 1 .. Len(buffer) \/ k = Len(buffer) + 1
      BY <2>2, <2>3
    <3>2. \A k \in 1 .. Len(buffer) : buffer[k].fresh
      BY <2>4 DEF FreshInv
    <3> QED BY <1>5, <2>1, <2>3, <2>4, <3>1, <3>2
  <2> QED BY <1>1, <1>4, <1>5, <2>3, <2>4 DEF FreshInv
<1> QED BY <1>3, <1>6, <1>7

(* Every step leaves to the bus what belongs to the last request only.     *)
LEMMA FreshStep == ArriveInv /\ FreshInv /\ [Next]_vars => FreshInv'
<1> SUFFICES ASSUME ArriveInv, FreshInv, [Next]_vars PROVE FreshInv'
  OBVIOUS
<1>1. CASE Poll \/ SaveCurrentMonBasic \/ SaveCurrentMonRelay \/ SaveCurrentMonAdvanced
  BY <1>1 DEF Poll, SaveCurrentMonBasic, SaveCurrentMonRelay, SaveCurrentMonAdvanced, Written, bus,
     history, FreshInv, HandshakeInv
<1>7. CASE SetDeviceAddress \/ SetShuntType
  BY <1>7 DEF SetDeviceAddress, SetShuntType, Written, bus, history, FreshInv, HandshakeInv
<1>2. CASE SaveCurrentMonSettings \/ SaveRS485Settings \/ Unplug \/ UNCHANGED vars
  BY <1>2 DEF SaveCurrentMonSettings, SaveRS485Settings, Unplug, bus, history, vars, FreshInv,
     HandshakeInv
<1>3. CASE ConfigureRS485
  <2>1. CASE Configured
    BY <2>1 DEF Configured, bus, history, FreshInv, HandshakeInv
  <2>2. CASE Restarted
    <3>1. /\ service' = "idle" /\ rx' = "wait" /\ buffer' = <<>> /\ line' = line
          /\ late' = (late \/ line # <<>>)
      BY <2>2 DEF Restarted
    <3> QED BY <3>1, EmptySeq DEF FreshInv, HandshakeInv
  <2> QED BY <1>3, <2>1, <2>2 DEF ConfigureRS485
<1>4. CASE NotifyReceiver \/ WaitTimesOut
  BY <1>4 DEF NotifyReceiver, WaitTimesOut, bus, history, FreshInv, HandshakeInv
<1>5. CASE BeginRead \/ NotifyService \/ Loop
  BY <1>5 DEF BeginRead, NotifyService, Loop, bus, history, FreshInv, HandshakeInv
<1>6. CASE EndRead
  <2>1. /\ rx = "reading" /\ rx' = "done" /\ buffer' = <<>> /\ UNCHANGED <<service, line>>
        /\ (line = <<>> /\ late' = late) \/ late' = TRUE
    BY <1>6 DEF EndRead, InTime
  <2> QED BY <2>1, EmptySeq DEF FreshInv, HandshakeInv
<1> QED BY <1>1, <1>2, <1>3, <1>4, <1>5, <1>6, <1>7, FreshSend, FreshAnswer DEF Next

(* A reading that becomes valid answers the request that was sent last,    *)
(* for any number of late, lost and damaged answers.                       *)
THEOREM AnswersItsRequest == Spec => AnswerToTheRequest
<1>1. ArriveInv /\ FreshInv
        => [EndRead /\ Len(buffer) = 1 /\ buffer[1].intact /\ ~late => buffer[1].fresh]_vars
  BY DEF FreshInv
<1> QED
  BY <1>1, FreshInit, FreshStep, ArriveInit, ArriveStep, HandshakeInit, HandshakeStep, PTL
     DEF Spec, AnswerToTheRequest

-----------------------------------------------------------------------------
(* The types.  What a request writes, what an answer tells and what the    *)
(* monitor knows are values of the device's registers.                     *)
RequestTyped(r) == IsRequest(r) /\ (r.op = "write" => \A f \in DOMAIN r.data : r.data[f] \in 0 .. 1)

FlagTypes ==
  /\ enabled \in BOOLEAN /\ plugged \in BOOLEAN
  /\ late \in BOOLEAN /\ unwritten \in BOOLEAN

PlaceTypes ==
  /\ device \in {"DIYBMS", "PZEM"} /\ wired \in {"DIYBMS", "PZEM"} /\ address \in 1 .. 247
  /\ page \in {"none", "address", "shunt", "port"} /\ current \in 0 .. 1
  /\ service \in {"idle", "sent", "waiting"} /\ rx \in {"wait", "ready", "reading", "done", "loops"}
  /\ saves \in 0 .. MaxSaves /\ faults \in 0 .. MaxFaults

ValueTypes ==
  /\ monitor \in [valid : BOOLEAN, shunt : BOOLEAN, range : 0 .. 1]
  /\ registers \in [Fields -> 0 .. 1] /\ wanted \in [UserFields -> 0 .. 1]

QueueTypes == /\ IsSeq(queue) /\ Len(queue) <= QueueSize
              /\ \A k \in 1 .. Len(queue) : RequestTyped(queue[k])
LineTypes == IsLine(line) /\ \A k \in 1 .. Len(line) : RequestTyped(line[k].request)

IsAnswer(a) ==
  /\ a = [op |-> a.op, address |-> a.address, fresh |-> a.fresh, intact |-> a.intact,
          range |-> a.range]
  /\ a.range \in 0 .. 1
BufferTypes == IsSeq(buffer) /\ \A k \in 1 .. Len(buffer) : IsAnswer(buffer[k])

MonitorTypes == FlagTypes /\ PlaceTypes /\ ValueTypes /\ QueueTypes /\ LineTypes /\ BufferTypes

(* At the start the queue, the line and the buffer are empty.              *)
LEMMA TypesInit == Init => MonitorTypes
<1> SUFFICES ASSUME Init PROVE MonitorTypes
  OBVIOUS
<1> USE ConstantAssumption
<1>0. FlagTypes
  BY DEF Init, FlagTypes
<1>1. PlaceTypes
  <2>1. 0 \in 0 .. MaxSaves /\ 0 \in 0 .. MaxFaults
    OBVIOUS
  <2>2. /\ device = wired /\ wired \in {"DIYBMS", "PZEM"} /\ address = OwnAddress
        /\ saves = 0 /\ faults = 0 /\ page = "none" /\ current = 0 /\ service = "idle" /\ rx = "wait"
    BY DEF Init
  <2> QED BY <2>1, <2>2 DEF PlaceTypes
<1>2. ValueTypes
  BY DEF Init, ValueTypes, Unknown
<1>3. QueueTypes /\ LineTypes /\ BufferTypes
  BY EmptySeq DEF Init, QueueTypes, LineTypes, IsLine, BufferTypes
<1> QED BY <1>0, <1>1, <1>2, <1>3 DEF MonitorTypes

(* The flags stay Boolean.                                                 *)
LEMMA FlagStep == FlagTypes /\ [Next]_vars => FlagTypes'
<1> SUFFICES ASSUME FlagTypes, [Next]_vars PROVE FlagTypes'
  OBVIOUS
<1> USE DEF FlagTypes
<1>1. CASE Poll \/ Unplug \/ BeginRead \/ Loop
  BY <1>1 DEF Poll, Unplug, BeginRead, Loop, settings, web, bus, history
<1>2. CASE Send \/ WaitTimesOut \/ NotifyService
  BY <1>2 DEF Send, WaitTimesOut, NotifyService, settings, web, bus, history
<1>3. CASE SaveCurrentMonBasic \/ SaveCurrentMonRelay \/ SaveCurrentMonAdvanced
  <2>1. UNCHANGED <<settings, plugged, late, unwritten>>
    BY <1>3 DEF SaveCurrentMonBasic, SaveCurrentMonRelay, SaveCurrentMonAdvanced, bus
  <2> QED BY <2>1 DEF settings
<1>11. CASE SetDeviceAddress \/ SetShuntType
  <2>1. UNCHANGED <<settings, plugged, late, unwritten>>
    BY <1>11 DEF SetDeviceAddress, SetShuntType, bus, history
  <2> QED BY <2>1 DEF settings
<1>4. CASE SaveCurrentMonSettings
  <2>1. enabled' \in BOOLEAN /\ UNCHANGED <<bus, history>>
    BY <1>4 DEF SaveCurrentMonSettings
  <2> QED BY <2>1 DEF bus, history
<1>5. CASE SaveRS485Settings \/ Configured
  BY <1>5 DEF SaveRS485Settings, Configured, settings, bus, history
<1>6. CASE Restarted
  <2>1. late' \in BOOLEAN
    <3>1. late' = (late \/ line # <<>>)
      BY <1>6 DEF Restarted
    <3> QED BY <3>1, Zenon
  <2>2. unwritten' \in BOOLEAN
    <3>1. unwritten' = (unwritten \/ \E k \in DOMAIN queue : IsWrite(queue[k]))
      BY <1>6 DEF Restarted
    <3> QED BY <3>1, Zenon
  <2> QED BY <1>6, <2>1, <2>2 DEF Restarted, settings
<1>7. CASE NotifyReceiver
  BY <1>7 DEF NotifyReceiver, settings, web, bus
<1>8. CASE Answer
  <2>1. unwritten' \in BOOLEAN
    <3>1. unwritten' = unwritten \/ unwritten' = (unwritten \/ IsWrite(Head(line).request))
      BY <1>8 DEF Answer
    <3> QED BY <3>1, Zenon
  <2> QED BY <1>8, <2>1 DEF Answer, settings, web
<1>9. CASE EndRead
  BY <1>9 DEF EndRead, InTime, settings, web
<1>10. CASE UNCHANGED vars
  BY <1>10 DEF vars, settings, web, bus, history
<1> QED BY <1>1, <1>2, <1>3, <1>4, <1>5, <1>6, <1>7, <1>8, <1>9, <1>10, <1>11
        DEF Next, ConfigureRS485

(* Tasks, settings and counters stay in their ranges.                      *)
LEMMA PlaceStep == PlaceTypes /\ [Next]_vars => PlaceTypes'
<1> SUFFICES ASSUME PlaceTypes, [Next]_vars PROVE PlaceTypes'
  OBVIOUS
<1> USE DEF PlaceTypes
<1>1. ASSUME Save PROVE saves' \in 0 .. MaxSaves
  BY <1>1, ConstantAssumption DEF Save
<1>2. ASSUME Fault PROVE faults' \in 0 .. MaxFaults
  BY <1>2, ConstantAssumption DEF Fault
<1>3. CASE Poll \/ BeginRead \/ Loop
  <2>1. /\ UNCHANGED <<settings, web, service, wired, saves, faults>>
        /\ rx' \in {rx, "reading", "wait"}
    BY <1>3 DEF Poll, BeginRead, Loop, bus
  <2> QED BY <2>1 DEF settings, web
<1>4. CASE Unplug
  BY <1>2, <1>4 DEF Unplug, settings, web
<1>5. CASE Send \/ WaitTimesOut \/ NotifyService
  <2>1. /\ UNCHANGED <<settings, web, wired, saves, faults>>
        /\ service' \in {service, "sent", "idle"} /\ rx' \in {rx, "loops"}
    BY <1>5 DEF Send, Transmit, WaitTimesOut, NotifyService, bus
  <2> QED BY <2>1 DEF settings, web
<1>6. CASE SaveCurrentMonBasic \/ SaveCurrentMonRelay \/ SaveCurrentMonAdvanced
  <2>1. UNCHANGED <<settings, service, rx, wired, faults>> /\ Save
    BY <1>6 DEF SaveCurrentMonBasic, SaveCurrentMonRelay, SaveCurrentMonAdvanced, bus
  <2>2. page' \in {page, "address"} /\ current' \in 0 .. 1
    BY <1>6 DEF SaveCurrentMonBasic, SaveCurrentMonRelay, SaveCurrentMonAdvanced, web
  <2> QED BY <1>1, <2>1, <2>2 DEF settings
<1>14. CASE SetDeviceAddress \/ SetShuntType
  <2>1. /\ UNCHANGED <<settings, current, service, rx, wired, saves, faults>>
        /\ page' \in {"shunt", "none"}
    BY <1>14 DEF SetDeviceAddress, SetShuntType, bus
  <2> QED BY <2>1 DEF settings
<1>7. CASE SaveCurrentMonSettings
  <2>1. /\ device' \in {"DIYBMS", wired} /\ address' \in {DefaultAddress, OwnAddress}
        /\ UNCHANGED <<web, service, rx, wired, faults>> /\ Save
    BY <1>7 DEF SaveCurrentMonSettings, bus
  <2> QED BY <1>1, <2>1, ConstantAssumption DEF web, DefaultAddress
<1>8. CASE SaveRS485Settings
  <2>1. page' = "port" /\ Save /\ UNCHANGED <<settings, current, service, rx, wired, faults>>
    BY <1>8 DEF SaveRS485Settings, bus
  <2> QED BY <1>1, <2>1 DEF settings
<1>9. CASE Configured \/ Restarted
  <2>1. /\ UNCHANGED <<settings, current, wired, saves, faults>> /\ page' = "none"
        /\ service' \in {service, "idle"} /\ rx' \in {rx, "wait"}
    BY <1>9 DEF Configured, Restarted, bus
  <2> QED BY <2>1 DEF settings
<1>10. CASE NotifyReceiver
  BY <1>2, <1>10 DEF NotifyReceiver, settings, web, bus
<1>11. CASE Answer
  <2>1. faults' \in 0 .. MaxFaults
    BY <1>2, <1>11 DEF Answer
  <2> QED BY <1>11, <2>1 DEF Answer, settings, web
<1>12. CASE EndRead
  BY <1>2, <1>12 DEF EndRead, InTime, settings, web
<1>13. CASE UNCHANGED vars
  BY <1>13 DEF vars, settings, web, bus
<1> QED BY <1>3, <1>4, <1>5, <1>6, <1>7, <1>8, <1>9, <1>10, <1>11, <1>12, <1>13, <1>14
        DEF Next, ConfigureRS485

(* What the pages write is a value of the fields.                          *)
LEMMA WritingTyped ==
  ASSUME PlaceTypes, NEW F \in SUBSET Fields, NEW fields \in [F -> 0 .. 1]
  PROVE  RequestTyped(Writing(fields))
  BY DEF PlaceTypes, RequestTyped, IsRequest, Writing

(* A request that finds room.                                              *)
LEMMA QueueMore ==
  ASSUME QueueTypes, NEW r, RequestTyped(r), Room
  PROVE  /\ IsSeq(Append(queue, r)) /\ Len(Append(queue, r)) = Len(queue) + 1
         /\ Len(Append(queue, r)) <= QueueSize
         /\ \A k \in 1 .. Len(queue) + 1 : RequestTyped(Append(queue, r)[k])
<1> USE ConstantAssumption
<1>1. /\ IsSeq(Append(queue, r)) /\ Len(Append(queue, r)) = Len(queue) + 1
      /\ Append(queue, r)[Len(queue) + 1] = r /\ Len(queue) \in Nat
      /\ \A k \in 1 .. Len(queue) : Append(queue, r)[k] = queue[k]
  BY AppendSeq DEF QueueTypes, IsSeq
<1>2. \A k \in 1 .. Len(queue) + 1 : k \in 1 .. Len(queue) \/ k = Len(queue) + 1
  BY <1>1
<1>3. ASSUME NEW k \in 1 .. Len(queue) + 1 PROVE RequestTyped(Append(queue, r)[k])
  <2>1. CASE k \in 1 .. Len(queue)
    <3>1. Append(queue, r)[k] = queue[k] /\ RequestTyped(queue[k])
      BY <1>1, <2>1 DEF QueueTypes
    <3> QED BY <3>1
  <2>2. CASE k = Len(queue) + 1
    <3>1. Append(queue, r)[k] = r
      BY <1>1, <2>2
    <3> QED BY <3>1
  <2> QED BY <1>2, <2>1, <2>2
<1>4. Len(queue) + 1 <= QueueSize
  BY DEF Room
<1> QED BY <1>1, <1>3, <1>4

(* The queue holds requests, as many as there is room for.                 *)
LEMMA QueueStep == MonitorTypes /\ [Next]_vars => QueueTypes'
<1> SUFFICES ASSUME MonitorTypes, [Next]_vars PROVE QueueTypes'
  OBVIOUS
<1> USE ConstantAssumption
<1>1. queue' = queue => QueueTypes'
  BY DEF MonitorTypes, QueueTypes
<1>2. ASSUME NEW r, RequestTyped(r), Room, queue' = Append(queue, r) PROVE QueueTypes'
  BY <1>2, QueueMore DEF MonitorTypes, QueueTypes
<1>3. CASE Poll
  <2>1. PICK op \in {"read", "values", "params"} : queue' = Append(queue, Reading(op))
    BY <1>3 DEF Poll
  <2>2. RequestTyped(Reading(op))
    BY DEF MonitorTypes, PlaceTypes, RequestTyped, IsRequest, Reading
  <2>3. Room
    BY <1>3 DEF Poll
  <2> QED BY <1>2, <2>1, <2>2, <2>3
<1>4. CASE SaveCurrentMonBasic
  <2>1. PICK v \in 0 .. 1 : (Room /\ Written([f \in {"basic"} |-> v])) \/ queue' = queue
    BY <1>4 DEF SaveCurrentMonBasic
  <2>2. RequestTyped(Writing([f \in {"basic"} |-> v]))
    <3>1. {"basic"} \in SUBSET Fields
      BY DEF Fields
    <3> QED BY <3>1, WritingTyped DEF MonitorTypes
  <2> QED BY <1>1, <1>2, <2>1, <2>2 DEF Written
<1>12. CASE SetDeviceAddress
  <2>1. RequestTyped(ToAll)
    BY DEF MonitorTypes, PlaceTypes, RequestTyped, IsRequest, ToAll
  <2>2. Room /\ queue' = Append(queue, ToAll)
    BY <1>12 DEF SetDeviceAddress
  <2> QED BY <1>2, <2>1, <2>2
<1>13. CASE SetShuntType
  <2>1. RequestTyped(Writing([f \in {"basic"} |-> current]))
    <3>1. {"basic"} \in SUBSET Fields /\ current \in 0 .. 1
      BY DEF Fields, MonitorTypes, PlaceTypes
    <3> QED BY <3>1, WritingTyped DEF MonitorTypes
  <2>2. Room /\ Written([f \in {"basic"} |-> current])
    BY <1>13 DEF SetShuntType
  <2> QED BY <1>2, <2>1, <2>2 DEF Written
<1>5. CASE SaveCurrentMonRelay
  <2> DEFINE fields(v) == [f \in {"triggers", "range"} |-> IF f = "range" THEN monitor.range ELSE v]
  <2>1. PICK v \in 0 .. 1 : Written(fields(v))
    BY <1>5 DEF SaveCurrentMonRelay
  <2>2. RequestTyped(Writing(fields(v)))
    <3>1. {"triggers", "range"} \in SUBSET Fields /\ monitor.range \in 0 .. 1
      BY DEF Fields, MonitorTypes, ValueTypes
    <3>2. fields(v) \in [{"triggers", "range"} -> 0 .. 1]
      BY <3>1
    <3> HIDE DEF fields
    <3> QED BY <3>1, <3>2, WritingTyped DEF MonitorTypes
  <2>3. Room
    BY <1>5 DEF SaveCurrentMonRelay
  <2> HIDE DEF fields
  <2> QED BY <1>2, <2>1, <2>2, <2>3 DEF Written
<1>6. CASE SaveCurrentMonAdvanced
  <2>1. PICK v \in 0 .. 1 : Written([f \in {"advanced"} |-> v])
    BY <1>6 DEF SaveCurrentMonAdvanced
  <2>2. RequestTyped(Writing([f \in {"advanced"} |-> v]))
    <3>1. {"advanced"} \in SUBSET Fields
      BY DEF Fields
    <3> QED BY <3>1, WritingTyped DEF MonitorTypes
  <2>3. Room
    BY <1>6 DEF SaveCurrentMonAdvanced
  <2> QED BY <1>2, <2>1, <2>2, <2>3 DEF Written
<1>7. CASE Send
  <2>1. IsSeq(queue) /\ queue # <<>> /\ queue' = Tail(queue)
    BY <1>7 DEF Send, MonitorTypes, QueueTypes
  <2>2. /\ IsSeq(queue') /\ Len(queue') = Len(queue) - 1 /\ Len(queue) \in Nat
        /\ \A k \in 1 .. Len(queue) - 1 : queue'[k] = queue[k + 1]
    BY <2>1, TailSeq DEF IsSeq
  <2>3. \A k \in 1 .. Len(queue) - 1 : RequestTyped(queue'[k])
    <3> TAKE k \in 1 .. Len(queue) - 1
    <3>1. k + 1 \in 1 .. Len(queue)
      BY <2>2
    <3>2. RequestTyped(queue[k + 1])
      BY <3>1 DEF MonitorTypes, QueueTypes
    <3> QED BY <2>2, <3>2
  <2> QED BY <2>2, <2>3 DEF MonitorTypes, QueueTypes
<1>8. CASE Restarted
  <2>1. queue' = <<>>
    BY <1>8 DEF Restarted
  <2> QED BY <2>1, EmptySeq DEF QueueTypes
<1>9. CASE Configured \/ SaveCurrentMonSettings \/ SaveRS485Settings
  BY <1>1, <1>9 DEF Configured, SaveCurrentMonSettings, SaveRS485Settings
<1>10. CASE NotifyReceiver \/ WaitTimesOut \/ Answer \/ Unplug
  BY <1>1, <1>10 DEF NotifyReceiver, WaitTimesOut, Answer, Unplug
<1>11. CASE BeginRead \/ EndRead \/ NotifyService \/ Loop \/ UNCHANGED vars
  BY <1>1, <1>11 DEF BeginRead, EndRead, NotifyService, Loop, vars
<1> QED BY <1>3, <1>4, <1>5, <1>6, <1>7, <1>8, <1>9, <1>10, <1>11, <1>12, <1>13
        DEF Next, ConfigureRS485

(* What is sent joins the line, what is answered leaves it.                *)
LEMMA LineStep == MonitorTypes /\ [Next]_vars => LineTypes'
<1> SUFFICES ASSUME MonitorTypes, [Next]_vars PROVE LineTypes'
  OBVIOUS
<1>1. line' = line => LineTypes'
  BY DEF MonitorTypes, LineTypes, IsLine
<1>2. CASE Send
  <2> DEFINE s == Stale(line)
             e == [request |-> Head(queue), fresh |-> TRUE]
  <2>0. CASE line' = line
    BY <1>1, <2>0
  <2> SUFFICES ASSUME line' # line PROVE LineTypes'
    BY <2>0
  <2>1. IsSeq(queue) /\ queue # <<>> /\ IsSeq(line) /\ line' = Append(s, e)
    BY <1>2 DEF Send, Transmit, MonitorTypes, QueueTypes, LineTypes, IsLine
  <2>2. RequestTyped(e.request)
    <3>1. IsSeq(queue) /\ queue # <<>>
      BY <2>1
    <3>2. Head(queue) = queue[1] /\ Len(queue) > 0 /\ Len(queue) \in Nat
      BY <3>1, TailSeq DEF IsSeq
    <3>3. 1 \in 1 .. Len(queue)
      BY <3>2
    <3> QED BY <3>2, <3>3 DEF MonitorTypes, QueueTypes
  <2>3. IsSeq(s) /\ Len(s) = Len(line) /\ Len(line) \in Nat /\ DOMAIN line = 1 .. Len(line)
    BY <2>1, StaleSeq DEF IsSeq
  <2>4. ASSUME NEW k \in 1 .. Len(line)
        PROVE  s[k] = [request |-> s[k].request, fresh |-> s[k].fresh] /\ RequestTyped(s[k].request)
    <3>1. s[k] = [line[k] EXCEPT !.fresh = FALSE]
      BY <2>3 DEF Stale
    <3>2. line[k] = [request |-> line[k].request, fresh |-> line[k].fresh]
      BY DEF MonitorTypes, LineTypes, IsLine
    <3>3. s[k] = [request |-> line[k].request, fresh |-> FALSE]
      BY <3>1, <3>2
    <3>4. RequestTyped(line[k].request)
      BY DEF MonitorTypes, LineTypes
    <3> HIDE DEF s
    <3> QED BY <3>3, <3>4
  <2>5. e = [request |-> e.request, fresh |-> e.fresh]
    OBVIOUS
  <2> HIDE DEF s, e
  <2>6. /\ IsSeq(Append(s, e)) /\ Len(Append(s, e)) = Len(line) + 1
        /\ Append(s, e)[Len(line) + 1] = e
        /\ \A k \in 1 .. Len(line) : Append(s, e)[k] = s[k]
    BY <2>3, AppendSeq
  <2>7. ASSUME NEW k \in 1 .. Len(line) + 1
        PROVE  /\ line'[k] = [request |-> line'[k].request, fresh |-> line'[k].fresh]
               /\ RequestTyped(line'[k].request)
    <3>1. CASE k \in 1 .. Len(line)
      <4>1. line'[k] = s[k]
        BY <2>1, <2>6, <3>1
      <4> QED BY <2>4, <3>1, <4>1
    <3>2. CASE k = Len(line) + 1
      <4>1. line'[k] = e
        BY <2>1, <2>6, <3>2
      <4> QED BY <2>2, <2>5, <4>1
    <3> QED BY <2>3, <3>1, <3>2
  <2> QED BY <2>1, <2>6, <2>7 DEF LineTypes, IsLine
<1>3. CASE Answer
  <2>1. IsSeq(line) /\ line # <<>> /\ line' = Tail(line)
    BY <1>3 DEF Answer, MonitorTypes, LineTypes, IsLine
  <2>2. /\ IsSeq(line') /\ Len(line') = Len(line) - 1 /\ Len(line) \in Nat
        /\ \A k \in 1 .. Len(line) - 1 : line'[k] = line[k + 1]
    BY <2>1, TailSeq DEF IsSeq
  <2>3. ASSUME NEW k \in 1 .. Len(line) - 1
        PROVE  /\ line'[k] = [request |-> line'[k].request, fresh |-> line'[k].fresh]
               /\ RequestTyped(line'[k].request)
    <3>1. k + 1 \in 1 .. Len(line) /\ line'[k] = line[k + 1]
      BY <2>2
    <3> QED BY <3>1 DEF MonitorTypes, LineTypes, IsLine
  <2> QED BY <2>2, <2>3 DEF LineTypes, IsLine
<1>4. CASE Poll \/ SaveCurrentMonSettings \/ SaveRS485Settings
  BY <1>1, <1>4 DEF Poll, SaveCurrentMonSettings, SaveRS485Settings, bus
<1>5. CASE SaveCurrentMonBasic \/ SetDeviceAddress \/ SetShuntType \/ SaveCurrentMonRelay
           \/ SaveCurrentMonAdvanced
  BY <1>1, <1>5 DEF SaveCurrentMonBasic, SetDeviceAddress, SetShuntType, SaveCurrentMonRelay,
     SaveCurrentMonAdvanced, bus
<1>6. CASE Configured \/ Restarted
  BY <1>1, <1>6 DEF Configured, Restarted, bus
<1>7. CASE NotifyReceiver \/ WaitTimesOut \/ Unplug
  BY <1>1, <1>7 DEF NotifyReceiver, WaitTimesOut, Unplug, bus
<1>8. CASE BeginRead \/ EndRead \/ NotifyService \/ Loop \/ UNCHANGED vars
  BY <1>1, <1>8 DEF BeginRead, EndRead, NotifyService, Loop, vars, bus
<1> QED BY <1>2, <1>3, <1>4, <1>5, <1>6, <1>7, <1>8 DEF Next, ConfigureRS485

(* What is in the UART's buffer are answers.                               *)
LEMMA BufferStep == MonitorTypes /\ [Next]_vars => BufferTypes'
<1> SUFFICES ASSUME MonitorTypes, [Next]_vars PROVE BufferTypes'
  OBVIOUS
<1>1. buffer' = buffer => BufferTypes'
  BY DEF MonitorTypes, BufferTypes
<1>2. buffer' = <<>> => BufferTypes'
  BY EmptySeq DEF BufferTypes
<1>3. CASE Send
  <2> DEFINE s == Stale(buffer)
  <2>0. CASE buffer' = buffer
    BY <1>1, <2>0
  <2> SUFFICES ASSUME buffer' # buffer PROVE BufferTypes'
    BY <2>0
  <2>1. IsSeq(buffer) /\ buffer' = s
    BY <1>3 DEF Send, Transmit, MonitorTypes, BufferTypes
  <2>2. IsSeq(s) /\ Len(s) = Len(buffer) /\ Len(buffer) \in Nat /\ DOMAIN buffer = 1 .. Len(buffer)
    BY <2>1, StaleSeq DEF IsSeq
  <2>3. ASSUME NEW k \in 1 .. Len(buffer) PROVE IsAnswer(s[k])
    <3> DEFINE a == buffer[k]
    <3>1. s[k] = [a EXCEPT !.fresh = FALSE]
      BY <2>2 DEF Stale
    <3>2. /\ a = [op |-> a.op, address |-> a.address, fresh |-> a.fresh, intact |-> a.intact,
                  range |-> a.range]
          /\ a.range \in 0 .. 1
      BY DEF MonitorTypes, BufferTypes, IsAnswer
    <3> HIDE DEF a, s
    <3>3. s[k] = [op |-> a.op, address |-> a.address, fresh |-> FALSE, intact |-> a.intact,
                  range |-> a.range]
      BY <3>1, <3>2
    <3> QED BY <3>2, <3>3 DEF IsAnswer
  <2> HIDE DEF s
  <2> QED BY <2>1, <2>2, <2>3 DEF BufferTypes
<1>4. CASE Answer
  <2> DEFINE r == Head(line).request
             a(intact) == Reply(r, Head(line).fresh, intact)
  <2>1. CASE buffer' = buffer
    BY <1>1, <2>1
  <2>2. ASSUME NEW intact \in BOOLEAN, buffer' = Append(buffer, a(intact)) PROVE BufferTypes'
    <3>1. IsAnswer(a(intact))
      <4>1. registers["range"] \in 0 .. 1
        BY DEF MonitorTypes, ValueTypes, Fields
      <4> QED BY <4>1 DEF Reply, IsAnswer
    <3> DEFINE e == a(intact)
    <3> HIDE DEF e
    <3>2. IsSeq(buffer) /\ Len(buffer) \in Nat /\ buffer' = Append(buffer, e) /\ IsAnswer(e)
      BY <2>2, <3>1 DEF MonitorTypes, BufferTypes, IsSeq, e
    <3>3. /\ IsSeq(buffer') /\ Len(buffer') = Len(buffer) + 1 /\ buffer'[Len(buffer) + 1] = e
          /\ \A k \in 1 .. Len(buffer) : buffer'[k] = buffer[k]
      BY <3>2, AppendSeq
    <3>4. ASSUME NEW k \in 1 .. Len(buffer) + 1 PROVE IsAnswer(buffer'[k])
      <4>1. CASE k \in 1 .. Len(buffer)
        <5>1. buffer'[k] = buffer[k] /\ IsAnswer(buffer[k])
          BY <3>3, <4>1 DEF MonitorTypes, BufferTypes
        <5> QED BY <5>1
      <4>2. CASE k = Len(buffer) + 1
        BY <3>2, <3>3, <4>2
      <4> QED BY <3>2, <4>1, <4>2
    <3> QED BY <3>3, <3>4 DEF BufferTypes
  <2>3. buffer' = buffer \/ \E intact \in BOOLEAN : buffer' = Append(buffer, a(intact))
    BY <1>4 DEF Answer
  <2> QED BY <2>1, <2>2, <2>3
<1>5. CASE EndRead \/ Restarted
  BY <1>2, <1>5 DEF EndRead, Restarted
<1>6. CASE Poll \/ SaveCurrentMonSettings \/ SaveRS485Settings
  BY <1>1, <1>6 DEF Poll, SaveCurrentMonSettings, SaveRS485Settings, bus
<1>7. CASE SaveCurrentMonBasic \/ SetDeviceAddress \/ SetShuntType \/ SaveCurrentMonRelay
           \/ SaveCurrentMonAdvanced
  BY <1>1, <1>7 DEF SaveCurrentMonBasic, SetDeviceAddress, SetShuntType, SaveCurrentMonRelay,
     SaveCurrentMonAdvanced, bus
<1>8. CASE Configured \/ NotifyReceiver \/ WaitTimesOut \/ Unplug
  BY <1>1, <1>8 DEF Configured, NotifyReceiver, WaitTimesOut, Unplug, bus
<1>9. CASE BeginRead \/ NotifyService \/ Loop \/ UNCHANGED vars
  BY <1>1, <1>9 DEF BeginRead, NotifyService, Loop, vars, bus
<1> QED BY <1>3, <1>4, <1>5, <1>6, <1>7, <1>8, <1>9 DEF Next, ConfigureRS485

(* The readings and the registers have the values of their fields.         *)
LEMMA ValueStep == MonitorTypes /\ [Next]_vars => ValueTypes'
<1> SUFFICES ASSUME MonitorTypes, [Next]_vars PROVE ValueTypes'
  OBVIOUS
<1> DEFINE Known == [valid : BOOLEAN, shunt : BOOLEAN, range : 0 .. 1]
<1>0. monitor \in Known /\ registers \in [Fields -> 0 .. 1] /\ wanted \in [UserFields -> 0 .. 1]
  BY DEF MonitorTypes, ValueTypes
<1>1. Unknown \in Known
  BY DEF Unknown
<1>2. ASSUME NEW F, NEW fields \in [F -> 0 .. 1], Written(fields) PROVE wanted' \in [UserFields -> 0 .. 1]
  BY <1>0, <1>2 DEF Written
<1>3. CASE SaveCurrentMonBasic
  <2>1. PICK v \in 0 .. 1 : Written([f \in {"basic"} |-> v]) \/ wanted' = wanted
    BY <1>3 DEF SaveCurrentMonBasic
  <2>2. wanted' \in [UserFields -> 0 .. 1]
    <3>1. [f \in {"basic"} |-> v] \in [{"basic"} -> 0 .. 1]
      OBVIOUS
    <3> QED BY <1>0, <1>2, <2>1, <3>1
  <2> QED BY <1>0, <1>1, <1>3, <2>2 DEF SaveCurrentMonBasic, ValueTypes, bus
<1>13. CASE SetDeviceAddress
  BY <1>0, <1>13 DEF SetDeviceAddress, ValueTypes, bus, history
<1>14. CASE SetShuntType
  <2>1. current \in 0 .. 1 /\ Written([f \in {"basic"} |-> current])
    BY <1>14 DEF SetShuntType, MonitorTypes, PlaceTypes
  <2>2. wanted' \in [UserFields -> 0 .. 1]
    <3>1. [f \in {"basic"} |-> current] \in [{"basic"} -> 0 .. 1]
      BY <2>1
    <3> QED BY <1>2, <2>1, <3>1
  <2> QED BY <1>0, <1>1, <1>14, <2>2 DEF SetShuntType, ValueTypes, bus
<1>4. CASE SaveCurrentMonRelay
  <2> DEFINE fields(v) == [f \in {"triggers", "range"} |-> IF f = "range" THEN monitor.range ELSE v]
  <2>1. PICK v \in 0 .. 1 : Written(fields(v))
    BY <1>4 DEF SaveCurrentMonRelay
  <2>2. fields(v) \in [{"triggers", "range"} -> 0 .. 1]
    BY <1>0
  <2> HIDE DEF fields
  <2>3. wanted' \in [UserFields -> 0 .. 1]
    BY <1>2, <2>1, <2>2
  <2> QED BY <1>0, <1>1, <1>4, <2>3 DEF SaveCurrentMonRelay, ValueTypes, bus
<1>5. CASE SaveCurrentMonAdvanced
  <2>1. PICK v \in 0 .. 1 : Written([f \in {"advanced"} |-> v])
    BY <1>5 DEF SaveCurrentMonAdvanced
  <2>2. wanted' \in [UserFields -> 0 .. 1]
    <3>1. [f \in {"advanced"} |-> v] \in [{"advanced"} -> 0 .. 1]
      OBVIOUS
    <3> QED BY <1>2, <2>1, <3>1
  <2> QED BY <1>0, <1>1, <1>5, <2>2 DEF SaveCurrentMonAdvanced, ValueTypes, bus
<1>6. CASE SaveCurrentMonSettings \/ SaveRS485Settings
  BY <1>0, <1>1, <1>6 DEF SaveCurrentMonSettings, SaveRS485Settings, ValueTypes, bus, history
<1>7. CASE Configured \/ Restarted
  BY <1>0, <1>1, <1>7 DEF Configured, Restarted, ValueTypes, bus, history
<1>8. CASE Answer
  <2> DEFINE r == Head(line).request
  <2>1. RequestTyped(r)
    <3>1. Head(line) = line[1] /\ 1 \in 1 .. Len(line)
      BY <1>8, TailSeq DEF Answer, MonitorTypes, LineTypes, IsLine, IsSeq
    <3> QED BY <3>1 DEF MonitorTypes, LineTypes
  <2>2. \/ registers' = registers
        \/ /\ r.op = "write"
           /\ registers' = [f \in Fields |-> IF f \in DOMAIN r.data THEN r.data[f] ELSE registers[f]]
    BY <1>8 DEF Answer, IsWrite
  <2> HIDE DEF r
  <2>3. registers' \in [Fields -> 0 .. 1]
    BY <1>0, <2>1, <2>2 DEF RequestTyped
  <2> QED BY <1>0, <1>8, <2>3 DEF Answer, ValueTypes
<1>9. CASE EndRead
  <2>1. monitor' \in Known
    <3>1. [monitor EXCEPT !.valid = FALSE] \in Known
      BY <1>0
    <3>2. ASSUME Len(buffer) = 1 PROVE Decoded(buffer[1]) \in Known
      <4>1. buffer[1].range \in 0 .. 1
        BY <3>2 DEF MonitorTypes, BufferTypes, IsAnswer
      <4> DEFINE a == buffer[1]
      <4>2. /\ [monitor EXCEPT !.valid = TRUE, !.range = a.range] \in Known
            /\ [monitor EXCEPT !.valid = FALSE, !.shunt = FALSE] \in Known
            /\ [monitor EXCEPT !.shunt = TRUE] \in Known
            /\ [monitor EXCEPT !.valid = TRUE] \in Known
        BY <1>0, <4>1
      <4> HIDE DEF a
      <4>3. Decoded(a) \in Known
        BY <1>0, <4>2 DEF Decoded
      <4> QED BY <4>3 DEF a
    <3>3. monitor' \in {[monitor EXCEPT !.valid = FALSE], monitor}
            \/ (Len(buffer) = 1 /\ monitor' = Decoded(buffer[1]))
      BY <1>9 DEF EndRead
    <3> QED BY <1>0, <3>1, <3>2, <3>3
  <2> QED BY <1>0, <1>9, <2>1 DEF EndRead, InTime, ValueTypes
<1>10. CASE Poll \/ NotifyReceiver \/ Send
  BY <1>0, <1>10 DEF Poll, NotifyReceiver, Send, Transmit, ValueTypes, bus, history
<1>11. CASE WaitTimesOut \/ Unplug \/ BeginRead
  BY <1>0, <1>11 DEF WaitTimesOut, Unplug, BeginRead, ValueTypes, bus, history
<1>12. CASE NotifyService \/ Loop \/ UNCHANGED vars
  BY <1>0, <1>12 DEF NotifyService, Loop, vars, ValueTypes, bus, history
<1> QED BY <1>3, <1>4, <1>5, <1>6, <1>7, <1>8, <1>9, <1>10, <1>11, <1>12, <1>13, <1>14
        DEF Next, ConfigureRS485

(* The queue holds at most QueueSize requests for an address of the bus,   *)
(* and what is known of the monitor are values of its registers.           *)
THEOREM MonitorTyped == Spec => []TypeOK
<1>1. MonitorTypes /\ [Next]_vars => MonitorTypes'
  BY FlagStep, PlaceStep, ValueStep, QueueStep, LineStep, BufferStep DEF MonitorTypes
<1>2. MonitorTypes => TypeOK
  <2> SUFFICES ASSUME MonitorTypes PROVE TypeOK
    OBVIOUS
  <2>1. {enabled, plugged, late, unwritten} \subseteq BOOLEAN
    BY DEF MonitorTypes, FlagTypes
  <2>2. Len(queue) <= QueueSize /\ \A k \in DOMAIN queue : IsRequest(queue[k])
    BY DEF MonitorTypes, QueueTypes, IsSeq, RequestTyped
  <2> QED BY <2>1, <2>2 DEF MonitorTypes, PlaceTypes, ValueTypes, TypeOK
<1> QED BY <1>1, <1>2, TypesInit, PTL DEF Spec

-----------------------------------------------------------------------------
(* The rules: a pass has the extremes and the sums of what it has seen.    *)

(* What a reply may store, with temperatures that fit an int8_t.           *)
Sane == [valid : BOOLEAN, voltage : Voltages \cup {0},
         internal : -127 .. 126, external : -127 .. 126]
RulesTyped ==
  /\ RulesTypeOK /\ cmi \in [Cell -> Sane] /\ seen \in [Cell -> Sane]
  /\ next >= 0 => scan.zero + scan.invalid <= next

(* The highest and the lowest value of S, or where the totals start.       *)
Top(h, S, floor) == (S = {} /\ h = floor) \/ (h \in S /\ \A x \in S : x <= h)
Bottom(l, S, ceiling) == (S = {} /\ l = ceiling) \/ (l \in S /\ \A x \in S : l <= x)

(* The cells ahead of the pass have not been seen.                         *)
AheadInv == \A c \in Cell : seen[c].valid => c < next

(* The counts of the pass.                                                 *)
CountsInv ==
  next >= 0 =>
    /\ scan.zero > 0 <=> ZeroSeen
    /\ scan.sensor <=> SensorSeen # {}

(* The extremes of the cells.                                              *)
VoltagesSeen == {seen[c].voltage : c \in ValidSeen}
InternalsSeen == {seen[c].internal : c \in ValidSeen}
ExternalsSeen == {seen[c].external : c \in SensorSeen}
CellsInv ==
  next >= 0 =>
    /\ Top(scan.highCell, VoltagesSeen, 0) /\ Bottom(scan.lowCell, VoltagesSeen, MaxVoltage)
    /\ Top(scan.highInternal, InternalsSeen, -127)
    /\ Top(scan.highExternal, ExternalsSeen, -127)
    /\ Bottom(scan.lowExternal, ExternalsSeen, 127)

(* The sums of the banks, and the extremes of those that are complete.     *)
Complete == {b \in Bank : b * Series + Series <= next}
PacksSeen == {PackVoltage(b) : b \in Complete}
BanksInv ==
  next >= 0 =>
    /\ \A b \in Bank : scan.pack[b] = PackVoltage(b)
    /\ Top(scan.highPack, PacksSeen, 0) /\ Bottom(scan.lowPack, PacksSeen, MaxPack)

RulesInv == RulesTyped /\ AheadInv /\ CountsInv /\ CellsInv /\ BanksInv

(* What follows of the constants from the assumption.                      *)
LEMMA RuleConstants ==
  /\ Banks \in Nat \ {0} /\ Series \in Nat \ {0} /\ MaxVoltage \in Nat /\ MaxPack \in Nat
  /\ Voltages \cup {0} \subseteq Nat
  /\ \A v \in Voltages \cup {0} : v <= MaxVoltage /\ v * Series <= MaxPack
<1>1. /\ Banks \in Nat \ {0} /\ Series \in Nat \ {0} /\ MaxVoltage \in Nat /\ MaxPack \in Nat
      /\ Voltages \subseteq Nat /\ \A v \in Voltages : v < MaxVoltage /\ v * Series < MaxPack
  BY RuleAssumption
<1>2. \A v \in Voltages : v * Series \in Nat
  BY <1>1
<1> QED BY <1>1, <1>2

(* Every set of natural numbers that is not empty has a least element.       *)
LEMMA LeastNumber ==
  ASSUME NEW T \in SUBSET Nat, T # {} PROVE \E x \in T : \A y \in T : x <= y
<1> DEFINE Less == OpToRel(<, Nat)
<1>1. IsWellFoundedOn(Less, Nat)
  BY NatLessThanWellFounded
<1>2. \A x, y \in Nat : y < x => <<y, x>> \in Less
  BY DEF OpToRel
<1> HIDE DEF Less
<1>3. PICK x \in T : \A y \in T : ~ (<<y, x>> \in Less)
  BY <1>1, WFMin
<1>4. x \in Nat /\ \A y \in T : y \in Nat /\ ~(y < x)
  BY <1>2, <1>3
<1>5. \A y \in T : x <= y
  BY <1>4
<1> QED BY <1>5

(* The sum of a bank, cell by cell: f[i] is that of its first i cells.     *)
Volts(c) == IF c.valid THEN c.voltage ELSE 0
Adds(f, s, b, n) ==
  f = [i \in 0 .. n |-> IF i = 0 THEN 0 ELSE f[i - 1] + Volts(s[b * Series + i - 1])]
SumOf(s, b) == (CHOOSE f : Adds(f, s, b, Series))[Series]

(* The recursion of the sum.                                               *)
LEMMA AddsIs ==
  ASSUME NEW f, NEW s, NEW b, NEW n \in Nat, Adds(f, s, b, n)
  PROVE  /\ f[0] = 0
         /\ \A i \in 1 .. n : f[i] = f[i - 1] + Volts(s[b * Series + i - 1])
<1>1. \A i \in 0 .. n : f[i] = IF i = 0 THEN 0 ELSE f[i - 1] + Volts(s[b * Series + i - 1])
  BY Zenon DEF Adds
<1>2. 0 \in 0 .. n /\ \A i \in 1 .. n : i \in 0 .. n /\ i # 0
  OBVIOUS
<1> QED BY <1>1, <1>2

(* There is such a function.                                               *)
LEMMA AddsExists ==
  ASSUME NEW s, NEW b, NEW n \in Nat PROVE \E f : Adds(f, s, b, n)
<1> DEFINE Bad == {m \in Nat : ~\E f : Adds(f, s, b, m)}
<1>1. ASSUME Bad # {} PROVE FALSE
  <2>1. PICK x \in Bad : \A y \in Bad : x <= y
    BY <1>1, LeastNumber
  <2>2. x \in Nat /\ ~\E f : Adds(f, s, b, x)
    BY <2>1
  <2>3. CASE x = 0
    <3>1. Adds([i \in 0 .. 0 |-> 0], s, b, 0)
      BY DEF Adds
    <3> QED BY <2>2, <2>3, <3>1
  <2>4. CASE x # 0
    <3>1. x - 1 \in Nat /\ ~(x <= x - 1)
      BY <2>2, <2>4
    <3>2. PICK f : Adds(f, s, b, x - 1)
      BY <2>1, <3>1
    <3>3. /\ f[0] = 0
          /\ \A i \in 1 .. x - 1 : f[i] = f[i - 1] + Volts(s[b * Series + i - 1])
      BY <3>1, <3>2, AddsIs
    <3> DEFINE g == [i \in 0 .. x |-> IF i = x THEN f[x - 1] + Volts(s[b * Series + x - 1])
                                      ELSE f[i]]
    <3>4. \A i \in 0 .. x :
             g[i] = IF i = 0 THEN 0 ELSE g[i - 1] + Volts(s[b * Series + i - 1])
      <4> TAKE i \in 0 .. x
      <4>1. CASE i = 0
        BY <2>2, <2>4, <3>3, <4>1
      <4>2. CASE i = x
        <5>1. x - 1 \in 0 .. x /\ x - 1 # x
          BY <3>1, <2>2
        <5> QED BY <2>4, <4>2, <5>1
      <4>3. CASE i # 0 /\ i # x
        <5>1. i - 1 \in 0 .. x /\ i - 1 # x /\ i \in 1 .. x - 1
          BY <2>2, <4>3
        <5> QED BY <3>3, <4>3, <5>1
      <4> QED BY <4>1, <4>2, <4>3
    <3>5. g = [i \in 0 .. x |-> g[i]]
      OBVIOUS
    <3> HIDE DEF g
    <3>6. Adds(g, s, b, x)
      BY <3>4, <3>5 DEF Adds
    <3> QED BY <2>2, <3>6
  <2> QED BY <2>3, <2>4
<1> QED BY <1>1

(* The voltage of a bank is such a sum, before a step and after it.        *)
LEMMA PackIs ==
  ASSUME NEW b
  PROVE  PackVoltage(b) = SumOf(seen, b) /\ PackVoltage(b)' = SumOf(seen', b)
  BY DEF PackVoltage, SumOf, Adds, Volts

(* Such a sum is found by the recursion.                                   *)
LEMMA SumIs ==
  ASSUME NEW s, NEW b
  PROVE  \E f : Adds(f, s, b, Series) /\ SumOf(s, b) = f[Series]
<1>1. \E f : Adds(f, s, b, Series)
  BY RuleConstants, AddsExists
<1>2. Adds(CHOOSE f : Adds(f, s, b, Series), s, b, Series)
  BY <1>1
<1> QED BY <1>2 DEF SumOf

(* The cells of a bank are cells.                                          *)
LEMMA BankCells ==
  ASSUME NEW b \in Bank, NEW i \in 0 .. Series - 1
  PROVE  b * Series + i \in Cell
<1>1. /\ Banks \in Nat /\ Series \in Nat \ {0} /\ b \in Nat /\ b + 1 <= Banks /\ i \in Nat
      /\ i <= Series - 1
  BY RuleConstants DEF Bank
<1>2. (b + 1) * Series <= Banks * Series /\ (b + 1) * Series = b * Series + Series
      /\ b * Series \in Nat /\ Banks * Series \in Nat
  BY <1>1
<1> QED BY <1>1, <1>2 DEF Cell

(* The partial sums are numbers, and a bank is below MaxPack.              *)
LEMMA SumBound ==
  ASSUME NEW s \in [Cell -> Sane], NEW b \in Bank, NEW f, Adds(f, s, b, Series)
  PROVE  (\A i \in 0 .. Series : f[i] \in Nat) /\ f[Series] <= MaxPack
<1> DEFINE M == MaxPack \div Series
           Bad == {i \in 0 .. Series : ~(f[i] \in Nat /\ f[i] <= i * M)}
<1>1. Series \in Nat \ {0} /\ MaxPack \in Nat
  BY RuleConstants
<1>2. M \in Nat /\ Series * M <= MaxPack
  BY <1>1
<1>3. ASSUME NEW v \in Voltages \cup {0} PROVE v \in Nat /\ v <= M
  <2>1. v \in Nat /\ v * Series <= MaxPack
    BY RuleConstants
  <2> QED BY <1>1, <2>1
<1>4. \A i \in 1 .. Series :
         Volts(s[b * Series + i - 1]) \in Nat /\ Volts(s[b * Series + i - 1]) <= M
  <2> TAKE i \in 1 .. Series
  <2>1. i - 1 \in 0 .. Series - 1 /\ b \in Nat
    BY <1>1 DEF Bank
  <2>2. b * Series + (i - 1) \in Cell
    BY <2>1, BankCells
  <2>3. b * Series + (i - 1) = b * Series + i - 1
    BY <1>1, <2>1
  <2>4. Volts(s[b * Series + i - 1]) \in Voltages \cup {0}
    BY <2>2, <2>3 DEF Volts, Sane
  <2> QED BY <1>3, <2>4
<1> HIDE DEF M
<1>5. ASSUME Bad # {} PROVE FALSE
  <2>1. Bad \in SUBSET Nat
    BY <1>1
  <2>2. PICK x \in Bad : \A y \in Bad : x <= y
    BY <1>5, <2>1, LeastNumber
  <2>3. x \in 0 .. Series /\ ~(f[x] \in Nat /\ f[x] <= x * M)
    BY <2>2
  <2>4. f[0] = 0 /\ \A i \in 1 .. Series : f[i] = f[i - 1] + Volts(s[b * Series + i - 1])
    BY <1>1, AddsIs
  <2>5. x # 0
    BY <1>2, <2>3, <2>4
  <2>6. x \in 1 .. Series /\ x - 1 \in 0 .. Series /\ ~(x <= x - 1)
    BY <1>1, <2>3, <2>5
  <2>7. x - 1 \notin Bad
    BY <2>2, <2>6
  <2>8. f[x - 1] \in Nat /\ f[x - 1] <= (x - 1) * M
    BY <2>6, <2>7
  <2>9. f[x] = f[x - 1] + Volts(s[b * Series + x - 1])
    BY <2>4, <2>6
  <2>10. (x - 1) * M + M = x * M
    BY <1>2, <2>6
  <2>11. (x - 1) * M \in Int
    BY <1>2, <2>6
  <2>12. Volts(s[b * Series + x - 1]) \in Nat /\ Volts(s[b * Series + x - 1]) <= M
    BY <1>4, <2>6
  <2>13. f[x] \in Nat /\ f[x] <= (x - 1) * M + M
    BY <1>2, <2>8, <2>9, <2>11, <2>12
  <2> QED BY <2>3, <2>10, <2>13
<1>6. \A i \in 0 .. Series : f[i] \in Nat /\ f[i] <= i * M
  BY <1>5
<1>7. Series \in 0 .. Series
  BY <1>1
<1>8. Series * M \in Nat
  BY <1>1, <1>2
<1> QED BY <1>1, <1>2, <1>6, <1>7, <1>8

(* Sums differ by what their cells differ by.                              *)
LEMMA SumMore ==
  ASSUME NEW s \in [Cell -> Sane], NEW t, NEW b \in Bank, NEW D \in [0 .. Series -> Nat], D[0] = 0,
         \A i \in 0 .. Series - 1 :
            D[i + 1] = D[i] + (Volts(t[b * Series + i]) - Volts(s[b * Series + i])),
         \A i \in 0 .. Series - 1 : Volts(t[b * Series + i]) \in Nat
  PROVE  SumOf(t, b) = SumOf(s, b) + D[Series]
<1>1. PICK f : Adds(f, s, b, Series) /\ SumOf(s, b) = f[Series]
  BY SumIs
<1>2. PICK g : Adds(g, t, b, Series) /\ SumOf(t, b) = g[Series]
  BY SumIs
<1>3. Series \in Nat \ {0} /\ b \in Nat
  BY RuleConstants DEF Bank
<1>4. \A i \in 0 .. Series : f[i] \in Nat
  BY <1>1, SumBound
<1> DEFINE Bad == {i \in 0 .. Series : g[i] # f[i] + D[i]}
<1>5. ASSUME Bad # {} PROVE FALSE
  <2>1. Bad \in SUBSET Nat
    BY <1>3
  <2>2. PICK x \in Bad : \A y \in Bad : x <= y
    BY <1>5, <2>1, LeastNumber
  <2>3. x \in 0 .. Series /\ g[x] # f[x] + D[x]
    BY <2>2
  <2>4. f[0] = 0 /\ g[0] = 0
    BY <1>1, <1>2, <1>3, AddsIs
  <2>5. x # 0
    BY <2>3, <2>4
  <2>6. x \in 1 .. Series /\ x - 1 \in 0 .. Series /\ x - 1 \in 0 .. Series - 1 /\ ~(x <= x - 1)
        /\ x - 1 + 1 = x
    BY <1>3, <2>3, <2>5
  <2>7. x - 1 \notin Bad
    BY <2>2, <2>6
  <2>8. g[x - 1] = f[x - 1] + D[x - 1]
    BY <2>6, <2>7
  <2>9. f[x] = f[x - 1] + Volts(s[b * Series + x - 1])
    BY <1>1, <1>3, <2>6, AddsIs
  <2>10. g[x] = g[x - 1] + Volts(t[b * Series + x - 1])
    BY <1>2, <1>3, <2>6, AddsIs
  <2>11. b * Series + (x - 1) = b * Series + x - 1
    BY <1>3, <2>6
  <2>12. D[x] = D[x - 1] + (Volts(t[b * Series + x - 1]) - Volts(s[b * Series + x - 1]))
    BY <2>6, <2>11
  <2>13. Volts(t[b * Series + x - 1]) \in Nat
    BY <2>6, <2>11
  <2>14. Volts(s[b * Series + x - 1]) \in Nat
    <3>1. b * Series + (x - 1) \in Cell
      BY <2>6, BankCells
    <3> QED BY <2>11, <3>1, RuleConstants DEF Volts, Sane
  <2>15. D[x - 1] \in Nat /\ f[x - 1] \in Nat
    BY <1>4, <2>6
  <2> QED BY <2>3, <2>8, <2>9, <2>10, <2>12, <2>13, <2>14, <2>15
<1>6. Series \in 0 .. Series
  BY <1>3
<1> QED BY <1>1, <1>2, <1>5, <1>6

(* A cell that is new in a bank adds its voltage.                          *)
LEMMA SumWith ==
  ASSUME NEW s \in [Cell -> Sane], NEW b \in Bank, NEW j \in 0 .. Series - 1, NEW c \in Sane,
         ~s[b * Series + j].valid
  PROVE  SumOf([s EXCEPT ![b * Series + j] = c], b) = SumOf(s, b) + Volts(c)
<1> DEFINE t == [s EXCEPT ![b * Series + j] = c]
           D == [i \in 0 .. Series |-> IF i <= j THEN 0 ELSE Volts(c)]
<1>1. Series \in Nat \ {0} /\ b \in Nat /\ j \in Nat /\ j < Series /\ b * Series \in Nat
  BY RuleConstants DEF Bank
<1>2. Volts(c) \in Nat
  BY RuleConstants DEF Volts, Sane
<1>3. D \in [0 .. Series -> Nat] /\ D[0] = 0 /\ D[Series] = Volts(c)
  BY <1>1, <1>2
<1>4. ASSUME NEW i \in 0 .. Series - 1
      PROVE  /\ D[i + 1] = D[i] + (Volts(t[b * Series + i]) - Volts(s[b * Series + i]))
             /\ Volts(t[b * Series + i]) \in Nat
  <2>1. b * Series + i \in Cell
    BY BankCells
  <2>2. Volts(s[b * Series + i]) \in Nat
    BY <2>1, RuleConstants DEF Volts, Sane
  <2>3. D[i] = (IF i <= j THEN 0 ELSE Volts(c)) /\ D[i + 1] = (IF i + 1 <= j THEN 0 ELSE Volts(c))
    BY <1>1
  <2>4. CASE i = j
    <3>1. Volts(s[b * Series + i]) = 0 /\ t[b * Series + i] = c
      BY <2>1, <2>4 DEF Volts
    <3> HIDE DEF t, D
    <3> QED BY <1>1, <1>2, <2>3, <2>4, <3>1
  <2>5. CASE i # j
    <3>1. b * Series + i # b * Series + j
      BY <1>1, <2>5
    <3>2. t[b * Series + i] = s[b * Series + i]
      BY <2>1, <3>1
    <3>3. i <= j <=> i + 1 <= j
      BY <1>1, <2>5
    <3> HIDE DEF t, D
    <3> QED BY <1>1, <1>2, <2>2, <2>3, <3>2, <3>3
  <2> QED BY <2>4, <2>5
<1> HIDE DEF t, D
<1>5. SumOf(t, b) = SumOf(s, b) + D[Series]
  BY <1>3, <1>4, SumMore
<1> QED BY <1>3, <1>5 DEF t

(* A bank that is the same has the same sum.                               *)
LEMMA SumWithout ==
  ASSUME NEW s \in [Cell -> Sane], NEW t, NEW b \in Bank,
         \A i \in 0 .. Series - 1 : t[b * Series + i] = s[b * Series + i]
  PROVE  SumOf(t, b) = SumOf(s, b)
<1> DEFINE D == [i \in 0 .. Series |-> 0]
<1>1. Series \in Nat \ {0}
  BY RuleConstants
<1>2. D \in [0 .. Series -> Nat] /\ D[0] = 0 /\ D[Series] = 0
  BY <1>1
<1>3. ASSUME NEW i \in 0 .. Series - 1
      PROVE  /\ D[i + 1] = D[i] + (Volts(t[b * Series + i]) - Volts(s[b * Series + i]))
             /\ Volts(t[b * Series + i]) \in Nat
  <2>1. b * Series + i \in Cell
    BY BankCells
  <2>2. Volts(s[b * Series + i]) \in Nat
    BY <2>1, RuleConstants DEF Volts, Sane
  <2>3. t[b * Series + i] = s[b * Series + i]
    OBVIOUS
  <2>4. D[i] = 0 /\ D[i + 1] = 0
    BY <1>1
  <2> HIDE DEF D
  <2> QED BY <2>2, <2>3, <2>4
<1>4. SumOf(s, b) \in Nat
  BY <1>1, SumIs, SumBound
<1> HIDE DEF D
<1>5. SumOf(t, b) = SumOf(s, b) + D[Series]
  BY <1>2, <1>3, SumMore
<1> QED BY <1>2, <1>4, <1>5

-----------------------------------------------------------------------------
(* The totals stay within their types.                                     *)
LEMMA HigherTyped == ASSUME NEW a \in Int, NEW b \in Int
                     PROVE  /\ Higher(a, b) \in Int /\ Lower(a, b) \in Int
                            /\ a \in Nat /\ b \in Nat => Higher(a, b) \in Nat /\ Lower(a, b) \in Nat
  BY DEF Higher, Lower

(* What a cell that has the voltage v does to the totals.                  *)
LEMMA VoltageFields ==
  ASSUME NEW s \in Totals, NEW b \in Bank, NEW v \in Nat
  PROVE  LET t == WithVoltage(s, b, v) IN
         /\ t \in Totals
         /\ t.pack = [s.pack EXCEPT ![b] = @ + v]
         /\ t.zero = IF v = 0 THEN s.zero + 1 ELSE s.zero
         /\ t.highCell = Higher(s.highCell, v) /\ t.lowCell = Lower(s.lowCell, v)
         /\ t.highPack = s.highPack /\ t.lowPack = s.lowPack /\ t.invalid = s.invalid
         /\ t.highInternal = s.highInternal /\ t.lowInternal = s.lowInternal
         /\ t.highExternal = s.highExternal /\ t.lowExternal = s.lowExternal
         /\ t.sensor = s.sensor
<1> DEFINE t == WithVoltage(s, b, v)
<1>1. [s.pack EXCEPT ![b] = @ + v] \in [Bank -> Nat]
  BY DEF Totals
<1>2. (IF v = 0 THEN s.zero + 1 ELSE s.zero) \in Nat
  BY DEF Totals
<1>3. Higher(s.highCell, v) \in Nat /\ Lower(s.lowCell, v) \in Nat
  BY DEF Totals, Higher, Lower
<1>4. t \in Totals
  BY <1>1, <1>2, <1>3 DEF WithVoltage, Totals
<1>5. /\ t.pack = [s.pack EXCEPT ![b] = @ + v]
      /\ t.zero = IF v = 0 THEN s.zero + 1 ELSE s.zero
      /\ t.highCell = Higher(s.highCell, v) /\ t.lowCell = Lower(s.lowCell, v)
  BY DEF WithVoltage, Totals
<1>6. /\ t.highPack = s.highPack /\ t.lowPack = s.lowPack /\ t.invalid = s.invalid
      /\ t.highInternal = s.highInternal /\ t.lowInternal = s.lowInternal
      /\ t.highExternal = s.highExternal /\ t.lowExternal = s.lowExternal
      /\ t.sensor = s.sensor
  BY DEF WithVoltage, Totals
<1> QED BY <1>4, <1>5, <1>6

(* What its temperatures do.                                               *)
LEMMA TemperatureFields ==
  ASSUME NEW s \in Totals, NEW c \in Sane
  PROVE  LET t == WithTemperatures(s, c) IN
         /\ t \in Totals
         /\ t.sensor = (s.sensor \/ c.external # NoSensor)
         /\ t.highInternal = Higher(s.highInternal, c.internal)
         /\ c.external # NoSensor =>
              /\ t.highExternal = Higher(s.highExternal, c.external)
              /\ t.lowExternal = Lower(s.lowExternal, c.external)
         /\ c.external = NoSensor =>
              t.highExternal = s.highExternal /\ t.lowExternal = s.lowExternal
         /\ t.pack = s.pack /\ t.zero = s.zero /\ t.invalid = s.invalid
         /\ t.highCell = s.highCell /\ t.lowCell = s.lowCell
         /\ t.highPack = s.highPack /\ t.lowPack = s.lowPack
<1> DEFINE t == WithTemperatures(s, c)
           hx == IF c.external # NoSensor THEN Higher(s.highExternal, c.external) ELSE s.highExternal
           lx == IF c.external # NoSensor THEN Lower(s.lowExternal, c.external) ELSE s.lowExternal
           li == IF c.external < s.lowInternal THEN c.internal ELSE s.lowInternal
<1>1. c.internal \in Int /\ c.external \in Int
  BY DEF Sane
<1>2. hx \in Int /\ lx \in Int /\ li \in Int /\ Higher(s.highInternal, c.internal) \in Int
  BY <1>1, HigherTyped DEF Totals
<1>3. (s.sensor \/ c.external # NoSensor) \in BOOLEAN
  OBVIOUS
<1>4. t = [s EXCEPT !.sensor = @ \/ c.external # NoSensor, !.highExternal = hx, !.lowExternal = lx,
             !.highInternal = Higher(@, c.internal), !.lowInternal = li]
  BY DEF WithTemperatures
<1> HIDE DEF hx, lx, li
<1>5. t \in Totals
  BY <1>2, <1>3, <1>4 DEF Totals
<1>6. /\ t.sensor = (s.sensor \/ c.external # NoSensor)
      /\ t.highInternal = Higher(s.highInternal, c.internal)
      /\ t.highExternal = hx /\ t.lowExternal = lx
  BY <1>4 DEF Totals
<1>7. /\ t.pack = s.pack /\ t.zero = s.zero /\ t.invalid = s.invalid
      /\ t.highCell = s.highCell /\ t.lowCell = s.lowCell
      /\ t.highPack = s.highPack /\ t.lowPack = s.lowPack
  BY <1>4 DEF Totals
<1> QED BY <1>5, <1>6, <1>7 DEF hx, lx

(* What the end of a bank does.                                            *)
LEMMA BankFields ==
  ASSUME NEW s \in Totals, NEW b \in Bank
  PROVE  LET t == WithBank(s, b) IN
         /\ t \in Totals
         /\ t.highPack = Higher(s.highPack, s.pack[b]) /\ t.lowPack = Lower(s.lowPack, s.pack[b])
         /\ t.pack = s.pack /\ t.zero = s.zero /\ t.invalid = s.invalid
         /\ t.highCell = s.highCell /\ t.lowCell = s.lowCell /\ t.sensor = s.sensor
         /\ t.highInternal = s.highInternal
         /\ t.highExternal = s.highExternal /\ t.lowExternal = s.lowExternal
<1> DEFINE t == WithBank(s, b)
<1>1. s.pack[b] \in Nat /\ s.highPack \in Nat /\ s.lowPack \in Nat
  BY DEF Totals
<1>2. Higher(s.highPack, s.pack[b]) \in Nat /\ Lower(s.lowPack, s.pack[b]) \in Nat
  BY <1>1 DEF Higher, Lower
<1>3. t \in Totals
  BY <1>2 DEF WithBank, Totals
<1>4. t.highPack = Higher(s.highPack, s.pack[b]) /\ t.lowPack = Lower(s.lowPack, s.pack[b])
  BY DEF WithBank, Totals
<1>5. /\ t.pack = s.pack /\ t.zero = s.zero /\ t.invalid = s.invalid
      /\ t.highCell = s.highCell /\ t.lowCell = s.lowCell /\ t.sensor = s.sensor
      /\ t.highInternal = s.highInternal
      /\ t.highExternal = s.highExternal /\ t.lowExternal = s.lowExternal
  BY DEF WithBank, Totals
<1> QED BY <1>3, <1>4, <1>5

(* Where a cell is: b is its bank.                                         *)
LEMMA CellPlace ==
  ASSUME NEW k \in Cell
  PROVE  /\ k \div Series \in Bank /\ k % Series \in 0 .. Series - 1
         /\ k = (k \div Series) * Series + (k % Series)
<1> DEFINE b == k \div Series
           j == k % Series
<1>1. Banks \in Nat \ {0} /\ Series \in Nat \ {0} /\ k \in Nat /\ k < Banks * Series
  <2>1. Banks \in Nat \ {0} /\ Series \in Nat \ {0}
    BY RuleConstants
  <2>2. Banks * Series \in Nat
    BY <2>1
  <2> QED BY <2>1, <2>2 DEF Cell
<1>2. b \in Int /\ j \in 0 .. Series - 1 /\ k = b * Series + j
  BY <1>1
<1> HIDE DEF b, j
<1>3. b >= 0
  <2>1. CASE b < 0
    <3>1. (-1 - b) * Series >= 0 /\ (-1 - b) * Series = -Series - b * Series
      BY <1>1, <1>2, <2>1
    <3> QED BY <1>1, <1>2, <3>1
  <2> QED BY <1>2, <2>1
<1>4. b < Banks
  <2>1. CASE b >= Banks
    <3>1. (b - Banks) * Series >= 0 /\ (b - Banks) * Series = b * Series - Banks * Series
      BY <1>1, <1>2, <2>1
    <3> QED BY <1>1, <1>2, <3>1
  <2> QED BY <1>1, <1>2, <2>1
<1>5. b \in Bank
  BY <1>1, <1>2, <1>3, <1>4 DEF Bank
<1> QED BY <1>2, <1>5 DEF b, j

(* No other bank has it, and the banks are complete one after the other.   *)
LEMMA OtherBanks ==
  ASSUME NEW b \in Bank, NEW j \in 0 .. Series - 1, NEW a \in Bank, a # b
  PROVE  /\ \A i \in 0 .. Series - 1 : a * Series + i # b * Series + j
         /\ a * Series + Series <= b * Series + j <=> a * Series + Series <= b * Series + j + 1
<1>1. Series \in Nat \ {0} /\ a \in Nat /\ b \in Nat /\ a * Series \in Nat /\ b * Series \in Nat
  BY RuleConstants DEF Bank
<1>2. CASE a < b
  <2>1. (b - a - 1) * Series >= 0 /\ (b - a - 1) * Series = b * Series - a * Series - Series
    BY <1>1, <1>2
  <2> QED BY <1>1, <2>1
<1>3. CASE a > b
  <2>1. (a - b - 1) * Series >= 0 /\ (a - b - 1) * Series = a * Series - b * Series - Series
    BY <1>1, <1>3
  <2> QED BY <1>1, <2>1
<1> QED BY <1>1, <1>2, <1>3

(* What a cell does to the totals: to the counts and the extremes,         *)
Adding(t, s, c) ==
  /\ t.zero = IF c.valid /\ c.voltage = 0 THEN s.zero + 1 ELSE s.zero
  /\ t.invalid = IF c.valid THEN s.invalid ELSE s.invalid + 1
  /\ t.highCell = IF c.valid THEN Higher(s.highCell, c.voltage) ELSE s.highCell
  /\ t.lowCell = IF c.valid THEN Lower(s.lowCell, c.voltage) ELSE s.lowCell
  /\ t.highInternal = IF c.valid THEN Higher(s.highInternal, c.internal) ELSE s.highInternal
  /\ t.highExternal = IF c.valid /\ c.external # NoSensor
                      THEN Higher(s.highExternal, c.external) ELSE s.highExternal
  /\ t.lowExternal = IF c.valid /\ c.external # NoSensor
                     THEN Lower(s.lowExternal, c.external) ELSE s.lowExternal

(* to what is known of sensors, and to its bank.                           *)
LEMMA CellTotals ==
  ASSUME NEW s \in Totals, NEW b \in Bank, NEW c \in Sane
  PROVE  LET t == WithCell(s, b, c) IN
         /\ t \in Totals /\ Adding(t, s, c)
         /\ t.sensor = (s.sensor \/ (c.valid /\ c.external # NoSensor))
         /\ t.pack = [s.pack EXCEPT ![b] = @ + Volts(c)]
         /\ t.highPack = s.highPack /\ t.lowPack = s.lowPack
<1> DEFINE t == WithCell(s, b, c)
           u == WithVoltage(s, b, c.voltage)
<1>1. c.voltage \in Nat /\ c.valid \in BOOLEAN
  BY RuleConstants DEF Sane
<1>2. CASE c.valid
  <2>1. t = WithTemperatures(u, c) /\ Volts(c) = c.voltage
    BY <1>2 DEF WithCell, Volts
  <2>2. /\ u \in Totals
        /\ u.pack = [s.pack EXCEPT ![b] = @ + c.voltage]
        /\ u.zero = IF c.voltage = 0 THEN s.zero + 1 ELSE s.zero
        /\ u.highCell = Higher(s.highCell, c.voltage) /\ u.lowCell = Lower(s.lowCell, c.voltage)
        /\ u.highPack = s.highPack /\ u.lowPack = s.lowPack /\ u.invalid = s.invalid
        /\ u.highInternal = s.highInternal /\ u.lowInternal = s.lowInternal
        /\ u.highExternal = s.highExternal /\ u.lowExternal = s.lowExternal
        /\ u.sensor = s.sensor
    BY <1>1, VoltageFields
  <2> HIDE DEF u, t
  <2>3. /\ t \in Totals
        /\ t.sensor = (u.sensor \/ c.external # NoSensor)
        /\ t.highInternal = Higher(u.highInternal, c.internal)
        /\ c.external # NoSensor =>
             /\ t.highExternal = Higher(u.highExternal, c.external)
             /\ t.lowExternal = Lower(u.lowExternal, c.external)
        /\ c.external = NoSensor =>
             t.highExternal = u.highExternal /\ t.lowExternal = u.lowExternal
        /\ t.pack = u.pack /\ t.zero = u.zero /\ t.invalid = u.invalid
        /\ t.highCell = u.highCell /\ t.lowCell = u.lowCell
        /\ t.highPack = u.highPack /\ t.lowPack = u.lowPack
    BY <2>1, <2>2, TemperatureFields
  <2>4. t.sensor = (s.sensor \/ (c.valid /\ c.external # NoSensor))
    BY <1>2, <2>2, <2>3
  <2>5. /\ t \in Totals
        /\ t.highPack = s.highPack /\ t.lowPack = s.lowPack
        /\ t.pack = [s.pack EXCEPT ![b] = @ + Volts(c)]
        /\ t.zero = IF c.voltage = 0 THEN s.zero + 1 ELSE s.zero
        /\ t.invalid = s.invalid
        /\ t.highCell = Higher(s.highCell, c.voltage)
        /\ t.lowCell = Lower(s.lowCell, c.voltage)
        /\ t.highInternal = Higher(s.highInternal, c.internal)
    BY <2>1, <2>2, <2>3
  <2>6. /\ t.highExternal = IF c.external # NoSensor
                            THEN Higher(s.highExternal, c.external) ELSE s.highExternal
        /\ t.lowExternal = IF c.external # NoSensor
                           THEN Lower(s.lowExternal, c.external) ELSE s.lowExternal
    BY <2>2, <2>3
  <2>7. Adding(t, s, c)
    BY <1>2, <2>5, <2>6 DEF Adding
  <2> QED BY <2>4, <2>5, <2>7 DEF t
<1>3. CASE ~c.valid
  <2>1. t = [s EXCEPT !.invalid = @ + 1] /\ Volts(c) = 0
    BY <1>3 DEF WithCell, Volts
  <2>2. s.invalid + 1 \in Nat /\ s.pack \in [Bank -> Nat]
    BY DEF Totals
  <2>3. [s.pack EXCEPT ![b] = @ + 0] = s.pack
    BY <2>2
  <2>4. t \in Totals /\ t.invalid = s.invalid + 1 /\ t.pack = s.pack
    BY <2>1, <2>2 DEF Totals
  <2>5. /\ t.zero = s.zero /\ t.sensor = s.sensor
        /\ t.highCell = s.highCell /\ t.lowCell = s.lowCell
        /\ t.highPack = s.highPack /\ t.lowPack = s.lowPack
        /\ t.highInternal = s.highInternal
        /\ t.highExternal = s.highExternal /\ t.lowExternal = s.lowExternal
    BY <2>1 DEF Totals
  <2>6. t.pack = [s.pack EXCEPT ![b] = @ + Volts(c)]
    BY <2>1, <2>3, <2>4
  <2> HIDE DEF t
  <2>7. t.sensor = (s.sensor \/ (c.valid /\ c.external # NoSensor))
    <3>1. s.sensor \in BOOLEAN
      BY DEF Totals
    <3> QED BY <1>3, <2>5, <3>1
  <2>8. Adding(t, s, c)
    BY <1>3, <2>4, <2>5 DEF Adding
  <2> QED BY <2>4, <2>5, <2>6, <2>7, <2>8 DEF t
<1> QED BY <1>1, <1>2, <1>3

-----------------------------------------------------------------------------
(* One step of the walk, in the terms of the invariant.                    *)
LEMMA WalkStep ==
  ASSUME RulesTyped, ProcessCell
  PROVE  /\ next \in Cell /\ next' = next + 1 /\ next \in Nat /\ next + 1 <= Banks * Series
         /\ cmi[next] \in Sane /\ seen' = [seen EXCEPT ![next] = cmi[next]]
         /\ UNCHANGED <<cmi, outcome, state, emergencyStop>>
         /\ scan \in Totals /\ scan' \in Totals
<1>1. next \in Cell /\ next \in Nat /\ next + 1 <= Banks * Series
  <2>1. Banks * Series \in Nat
    BY RuleConstants
  <2> QED BY <2>1 DEF ProcessCell, Cell
<1>2. /\ next' = next + 1 /\ seen' = [seen EXCEPT ![next] = cmi[next]]
      /\ UNCHANGED <<cmi, outcome, state, emergencyStop>>
  BY DEF ProcessCell
<1>3. cmi[next] \in Sane /\ scan \in Totals
  BY <1>1 DEF RulesTyped, RulesTypeOK
<1> DEFINE b == next \div Series
           t == WithCell(scan, b, cmi[next])
<1>4. b \in Bank
  BY <1>1, CellPlace
<1>5. t \in Totals
  BY <1>3, <1>4, CellTotals
<1>6. scan' = t \/ scan' = WithBank(t, b)
  BY DEF ProcessCell
<1> HIDE DEF t, b
<1>7. scan' \in Totals
  BY <1>4, <1>5, <1>6, BankFields
<1> QED BY <1>1, <1>2, <1>3, <1>7

(* What it does to the counts and the extremes.                            *)
LEMMA WalkTotals ==
  ASSUME RulesTyped, ProcessCell
  PROVE  /\ Adding(scan', scan, cmi[next])
         /\ scan'.sensor = (scan.sensor \/ (cmi[next].valid /\ cmi[next].external # NoSensor))
<1> DEFINE b == next \div Series
           c == cmi[next]
           t == WithCell(scan, b, c)
<1>1. c \in Sane /\ scan \in Totals /\ b \in Bank
  BY WalkStep, CellPlace
<1>2. scan' = t \/ scan' = WithBank(t, b)
  BY DEF ProcessCell
<1> HIDE DEF b, c
<1>3. /\ t \in Totals /\ Adding(t, scan, c)
      /\ t.sensor = (scan.sensor \/ (c.valid /\ c.external # NoSensor))
  BY <1>1, CellTotals
<1> HIDE DEF t
<1>4. /\ scan'.zero = t.zero /\ scan'.invalid = t.invalid /\ scan'.sensor = t.sensor
      /\ scan'.highCell = t.highCell /\ scan'.lowCell = t.lowCell
      /\ scan'.highInternal = t.highInternal
      /\ scan'.highExternal = t.highExternal /\ scan'.lowExternal = t.lowExternal
  BY <1>1, <1>2, <1>3, BankFields
<1>5. Adding(scan', scan, c)
  BY <1>3, <1>4 DEF Adding
<1> QED BY <1>3, <1>4, <1>5 DEF c

(* What it does to the banks.                                              *)
LEMMA WalkBanks ==
  ASSUME RulesTyped, ProcessCell, NEW b \in Bank, NEW j \in 0 .. Series - 1,
         b = next \div Series, j = next % Series
  PROVE  /\ scan'.pack = [scan.pack EXCEPT ![b] = @ + Volts(cmi[next])]
         /\ j = Series - 1 =>
              /\ scan'.highPack = Higher(scan.highPack, scan'.pack[b])
              /\ scan'.lowPack = Lower(scan.lowPack, scan'.pack[b])
         /\ j # Series - 1 => scan'.highPack = scan.highPack /\ scan'.lowPack = scan.lowPack
<1> DEFINE t == WithCell(scan, b, cmi[next])
<1>1. cmi[next] \in Sane /\ scan \in Totals
  BY WalkStep
<1>2. scan' = IF j = Series - 1 THEN WithBank(t, b) ELSE t
  BY DEF ProcessCell
<1>3. /\ t \in Totals /\ t.pack = [scan.pack EXCEPT ![b] = @ + Volts(cmi[next])]
      /\ t.highPack = scan.highPack /\ t.lowPack = scan.lowPack
  BY <1>1, CellTotals
<1> HIDE DEF t
<1>4. CASE j = Series - 1
  <2>1. scan' = WithBank(t, b)
    BY <1>2, <1>4
  <2>2. /\ scan'.highPack = Higher(t.highPack, t.pack[b])
        /\ scan'.lowPack = Lower(t.lowPack, t.pack[b]) /\ scan'.pack = t.pack
    BY <1>3, <2>1, BankFields
  <2> QED BY <1>3, <1>4, <2>2
<1>5. CASE j # Series - 1
  BY <1>2, <1>3, <1>5
<1> QED BY <1>4, <1>5

(* The initial state has the types.                                        *)
LEMMA RulesTypedInit == RulesInit => RulesTyped
<1> SUFFICES ASSUME RulesInit PROVE RulesTyped
  OBVIOUS
<1>1. Cleared \in Sane /\ Cleared \in Readings
  BY DEF Cleared, Sane, Readings, NoSensor
<1>2. cmi \in [Cell -> Sane] /\ seen \in [Cell -> Sane] /\ cmi \in [Cell -> Readings]
      /\ seen \in [Cell -> Readings]
  BY <1>1 DEF RulesInit
<1>3. scan \in Totals /\ scan.zero = 0 /\ scan.invalid = 0
  BY DEF RulesInit, Totals
<1>4. Banks * Series \in Nat
  BY RuleConstants
<1>5. next = -1 /\ outcome \in [Rule -> BOOLEAN] /\ state \in {"Stabilizing", "Running"}
      /\ emergencyStop \in BOOLEAN
  BY DEF RulesInit
<1> QED BY <1>2, <1>3, <1>4, <1>5 DEF RulesTyped, RulesTypeOK

(* What the cells store is sane.                                           *)
LEMMA CellsTyped ==
  ASSUME RulesTyped, [RulesNext]_ruleVars PROVE cmi' \in [Cell -> Sane]
<1>1. cmi \in [Cell -> Sane]
  BY DEF RulesTyped
<1>2. ASSUME NEW c \in Cell, ReplyVoltage(c) PROVE cmi' \in [Cell -> Sane]
  <2>1. PICK v \in Voltages : cmi' = [cmi EXCEPT ![c].voltage = v, ![c].valid = @ \/ v > 0]
    BY <1>2 DEF ReplyVoltage
  <2>2. cmi[c] \in Sane
    BY <1>1
  <2>3. [[cmi[c] EXCEPT !.voltage = v] EXCEPT !.valid = @ \/ v > 0] \in Sane
    BY <2>2 DEF Sane
  <2>4. cmi' = [cmi EXCEPT ![c] = [[cmi[c] EXCEPT !.voltage = v] EXCEPT !.valid = @ \/ v > 0]]
    BY <1>1, <2>1
  <2> QED BY <1>1, <2>3, <2>4
<1>3. ASSUME NEW c \in Cell, ReplyTemperature(c) PROVE cmi' \in [Cell -> Sane]
  <2>1. PICK t \in Temperatures :
          cmi' = [cmi EXCEPT ![c].internal = t.internal, ![c].external = t.external]
    BY <1>3 DEF ReplyTemperature
  <2>2. cmi[c] \in Sane /\ t.internal \in -127 .. 126 /\ t.external \in -127 .. 126
    BY <1>1, RuleAssumption
  <2>3. [[cmi[c] EXCEPT !.internal = t.internal] EXCEPT !.external = t.external] \in Sane
    BY <2>2 DEF Sane
  <2>4. cmi' = [cmi EXCEPT ![c] = [[cmi[c] EXCEPT !.internal = t.internal] EXCEPT !.external = t.external]]
    BY <1>1, <2>1
  <2> QED BY <1>1, <2>3, <2>4
<1>4. ASSUME NEW c \in Cell, clearModuleValues(c) PROVE cmi' \in [Cell -> Sane]
  <2>1. Cleared \in Sane
    BY DEF Cleared, Sane, NoSensor
  <2> QED BY <1>1, <1>4, <2>1 DEF clearModuleValues
<1>5. CASE SaveRules \/ EmergencyInput \/ RulesTask \/ UNCHANGED ruleVars
  BY <1>1, <1>5 DEF SaveRules, EmergencyInput, RulesTask, StartPass, ProcessCell, RunRules, ruleVars
<1> QED BY <1>2, <1>3, <1>4, <1>5 DEF RulesNext

(* The totals of a new pass have their types.                              *)
LEMMA ClearedTotals ==
  /\ ClearValues \in Totals /\ ClearValues.zero = 0 /\ ClearValues.invalid = 0
  /\ ClearValues.sensor = FALSE /\ ClearValues.pack = [b \in Bank |-> 0]
  /\ ClearValues.highCell = 0 /\ ClearValues.lowCell = MaxVoltage
  /\ ClearValues.highPack = 0 /\ ClearValues.lowPack = MaxPack
  /\ ClearValues.highInternal = -127
  /\ ClearValues.highExternal = -127 /\ ClearValues.lowExternal = 127
<1>1. ClearValues \in Totals
  BY RuleConstants DEF ClearValues, Totals
<1> QED BY <1>1 DEF ClearValues

(* What is decided of each kind of rule.                                   *)
LEMMA DecideIs ==
  ASSUME NEW shunt, NEW minute
  PROVE  /\ Decide("EmergencyStop", shunt, minute) = emergencyStop
         /\ Decide("BMSError", shunt, minute)
              = (outcome["BMSError"] \/ (state = "Running" /\ scan.zero > 0))
         /\ \A r \in TimerRules :
              Decide(r, shunt, minute) = (Value[r] <= minute /\ minute <= Hysteresis[r])
         /\ \A r \in MonitorRules :
              Decide(r, shunt, minute) = (shunt.valid /\ Latched(r, Measured(shunt, r)))
         /\ \A r \in BankRules :
              Decide(r, shunt, minute)
                = IF scan.zero > 0 THEN outcome[r] ELSE Latched(r, Quantity[r])
         /\ \A r \in ExternalRules :
              Decide(r, shunt, minute)
                = (scan.zero = 0 /\ scan.sensor /\ Latched(r, Quantity[r]))
         /\ \A r \in ModuleRules \ ExternalRules :
              Decide(r, shunt, minute) = (scan.zero = 0 /\ Latched(r, Quantity[r]))
<1> USE DEF Decide, TimerRules, MonitorRules, BankRules, ExternalRules
<1>1. /\ Decide("EmergencyStop", shunt, minute) = emergencyStop
      /\ Decide("BMSError", shunt, minute)
           = (outcome["BMSError"] \/ (state = "Running" /\ scan.zero > 0))
  OBVIOUS
<1>2. \A r \in TimerRules :
        Decide(r, shunt, minute) = (Value[r] <= minute /\ minute <= Hysteresis[r])
  OBVIOUS
<1>3. \A r \in MonitorRules :
        Decide(r, shunt, minute) = (shunt.valid /\ Latched(r, Measured(shunt, r)))
  OBVIOUS
<1>4. \A r \in BankRules :
        Decide(r, shunt, minute) = IF scan.zero > 0 THEN outcome[r] ELSE Latched(r, Quantity[r])
  OBVIOUS
<1>5. \A r \in ExternalRules :
        Decide(r, shunt, minute) = (scan.zero = 0 /\ scan.sensor /\ Latched(r, Quantity[r]))
  OBVIOUS
<1>6. \A r \in ModuleRules \ ExternalRules :
        Decide(r, shunt, minute) = (scan.zero = 0 /\ Latched(r, Quantity[r]))
  BY DEF ModuleRules, OverRules, UnderRules
<1> QED BY <1>1, <1>2, <1>3, <1>4, <1>5, <1>6

(* A rule latches or it does not.                                          *)
LEMMA LatchedTyped ==
  ASSUME NEW r \in ValueRules, NEW x \in Int PROVE Latched(r, x) \in BOOLEAN
<1>1. Value[r] \in Int /\ Hysteresis[r] \in Int
  BY RuleAssumption
<1>2. /\ (x > Value[r]) \in BOOLEAN /\ (x < Value[r]) \in BOOLEAN
      /\ (x > Hysteresis[r]) \in BOOLEAN /\ (x < Hysteresis[r]) \in BOOLEAN
  BY <1>1
<1> DEFINE above == IF r \in OverRules THEN x > Value[r] ELSE x < Value[r]
           below == IF r \in OverRules THEN x < Hysteresis[r] ELSE x > Hysteresis[r]
<1>3. above \in BOOLEAN
  BY <1>2
<1>4. Latched(r, x) = IF outcome[r] THEN ~below ELSE above
  BY DEF Latched
<1> HIDE DEF above, below
<1>5. Latched(r, x) \in {TRUE, FALSE}
  BY <1>3, <1>4, Zenon
<1> QED BY <1>5

(* What the rules compare are numbers.                                     *)
LEMMA QuantityTyped ==
  ASSUME scan \in Totals, NEW r \in ModuleRules \cup BankRules
  PROVE  Quantity[r] \in Int
<1>1. /\ scan.highCell \in Int /\ scan.lowCell \in Int
      /\ scan.highPack \in Int /\ scan.lowPack \in Int
      /\ scan.highInternal \in Int /\ scan.lowInternal \in Int
      /\ scan.highExternal \in Int /\ scan.lowExternal \in Int
  BY DEF Totals
<1>2. \A t \in Int : U8(t) \in Int
  BY DEF U8
<1>3. r \in {"ModuleOverVoltage", "ModuleUnderVoltage", "ModuleOverTemperatureInternal",
             "ModuleUnderTemperatureInternal", "ModuleOverTemperatureExternal",
             "ModuleUnderTemperatureExternal", "BankOverVoltage", "BankUnderVoltage"}
  BY DEF ModuleRules, BankRules, MonitorRules, OverRules, UnderRules
<1> QED BY <1>1, <1>2, <1>3 DEF Quantity

(* Every step keeps the types.                                             *)
LEMMA RulesTypedStep ==
  ASSUME RulesTyped, [RulesNext]_ruleVars PROVE RulesTyped'
<1>1. cmi' \in [Cell -> Sane]
  BY CellsTyped
<1>2. Sane \subseteq Readings
  BY DEF Sane, Readings
<1>3. /\ seen \in [Cell -> Sane] /\ scan \in Totals /\ next \in -1 .. Banks * Series
      /\ scan.zero + scan.invalid <= Banks * Series /\ outcome \in [Rule -> BOOLEAN]
      /\ state \in {"Stabilizing", "Running"} /\ emergencyStop \in BOOLEAN
      /\ next >= 0 => scan.zero + scan.invalid <= next
  BY DEF RulesTyped, RulesTypeOK
<1>4. Banks * Series \in Nat
  BY RuleConstants
<1> DEFINE Others == /\ seen' \in [Cell -> Sane] /\ scan' \in Totals
                     /\ next' \in -1 .. Banks * Series
                     /\ scan'.zero + scan'.invalid <= Banks * Series
                     /\ outcome' \in [Rule -> BOOLEAN]
                     /\ state' \in {"Stabilizing", "Running"} /\ emergencyStop' \in BOOLEAN
                     /\ next' >= 0 => scan'.zero + scan'.invalid <= next'
<1> SUFFICES Others
  BY <1>1, <1>2 DEF RulesTyped, RulesTypeOK
<1>5. ASSUME UNCHANGED <<pass, state>>, outcome' \in [Rule -> BOOLEAN], emergencyStop' \in BOOLEAN
      PROVE  Others
  BY <1>3, <1>5 DEF pass
<1>6. ASSUME NEW c \in Cell, ReplyVoltage(c) \/ ReplyTemperature(c) \/ clearModuleValues(c)
      PROVE  Others
  BY <1>3, <1>5, <1>6 DEF ReplyVoltage, ReplyTemperature, clearModuleValues
<1>7. CASE SaveRules
  BY <1>3, <1>5, <1>7 DEF SaveRules
<1>8. CASE EmergencyInput
  BY <1>3, <1>5, <1>8 DEF EmergencyInput
<1>9. CASE UNCHANGED ruleVars
  BY <1>3, <1>5, <1>9 DEF ruleVars, pass
<1>10. CASE StartPass
  <2>1. outcome' \in [Rule -> BOOLEAN]
    BY <1>3, <1>10, RuleAssumption DEF StartPass
  <2>2. UNCHANGED <<seen, state, emergencyStop>> /\ scan' = ClearValues /\ next' = 0
    BY <1>10 DEF StartPass
  <2>3. scan' \in Totals /\ scan'.zero = 0 /\ scan'.invalid = 0
    BY <2>2, ClearedTotals
  <2> QED BY <1>3, <1>4, <2>1, <2>2, <2>3
<1>11. CASE ProcessCell
  <2>1. /\ next' = next + 1 /\ next \in Nat /\ next + 1 <= Banks * Series
        /\ cmi[next] \in Sane /\ seen' = [seen EXCEPT ![next] = cmi[next]]
        /\ UNCHANGED <<cmi, outcome, state, emergencyStop>>
        /\ scan \in Totals /\ scan' \in Totals
    BY <1>11, WalkStep
  <2>2. Adding(scan', scan, cmi[next])
    BY <1>11, WalkTotals
  <2>3. scan'.zero + scan'.invalid <= scan.zero + scan.invalid + 1
    <3>1. scan.zero \in Nat /\ scan.invalid \in Nat
      BY <2>1 DEF Totals
    <3>2. cmi[next].valid => scan'.invalid = scan.invalid /\ scan'.zero \in {scan.zero, scan.zero + 1}
      BY <2>2 DEF Adding
    <3>3. ~cmi[next].valid => scan'.invalid = scan.invalid + 1 /\ scan'.zero = scan.zero
      BY <2>2 DEF Adding
    <3> QED BY <3>1, <3>2, <3>3
  <2>4. scan'.zero \in Nat /\ scan'.invalid \in Nat /\ scan.zero \in Nat /\ scan.invalid \in Nat
    BY <2>1 DEF Totals
  <2>5. seen' \in [Cell -> Sane]
    BY <1>3, <2>1
  <2>6. scan'.zero + scan'.invalid <= next' /\ scan'.zero + scan'.invalid <= Banks * Series
    BY <1>3, <1>4, <2>1, <2>3, <2>4
  <2> QED BY <1>3, <1>4, <2>1, <2>5, <2>6
<1>12. CASE RunRules
  <2>1. PICK shunt \in Monitors, minute \in Minutes :
          outcome' = [r \in Rule |-> Decide(r, shunt, minute)]
    BY <1>12 DEF RunRules
  <2>2. ASSUME NEW r \in Rule PROVE Decide(r, shunt, minute) \in BOOLEAN
    <3>1. /\ shunt.valid \in BOOLEAN /\ shunt.current \in Int /\ shunt.voltage \in Int
          /\ minute \in Int
      BY RuleAssumption
    <3>2. outcome[r] \in BOOLEAN /\ scan.sensor \in BOOLEAN
      BY <1>3 DEF Totals
    <3>3. \A q \in ModuleRules \cup BankRules : Latched(q, Quantity[q]) \in BOOLEAN
      BY <1>3, LatchedTyped, QuantityTyped DEF ModuleRules, BankRules, ValueRules, OverRules, UnderRules
    <3>4. CASE r = "EmergencyStop"
      BY <1>3, <3>4, DecideIs
    <3>10. CASE r = "BMSError"
      <4>1. Decide(r, shunt, minute)
              = (outcome["BMSError"] \/ (state = "Running" /\ scan.zero > 0))
        BY <3>10, DecideIs
      <4> QED BY <4>1, Zenon
    <3>5. CASE r \in TimerRules
      <4>1. Decide(r, shunt, minute) = (Value[r] <= minute /\ minute <= Hysteresis[r])
        BY <3>5, DecideIs
      <4> QED BY <4>1, Zenon
    <3>6. CASE r \in MonitorRules
      <4>1. r \in ValueRules /\ Measured(shunt, r) \in Int
        BY <3>1, <3>6 DEF MonitorRules, ValueRules, OverRules, UnderRules, Measured
      <4>2. Latched(r, Measured(shunt, r)) \in BOOLEAN
        BY <4>1, LatchedTyped
      <4>3. Decide(r, shunt, minute) = (shunt.valid /\ Latched(r, Measured(shunt, r)))
        BY <3>6, DecideIs
      <4> QED BY <4>3, Zenon
    <3>7. CASE r \in BankRules
      BY <3>2, <3>3, <3>7, DecideIs
    <3>8. CASE r \in ExternalRules
      <4>1. r \in ModuleRules
        BY <3>8 DEF ExternalRules, ModuleRules, MonitorRules, BankRules, OverRules, UnderRules
      <4> QED BY <3>2, <3>3, <3>8, <4>1, DecideIs
    <3>9. CASE r \in ModuleRules \ ExternalRules
      BY <3>3, <3>9, DecideIs
    <3> QED BY <3>4, <3>5, <3>6, <3>7, <3>8, <3>9, <3>10 DEF Rule, ValueRules, ModuleRules
  <2>3. outcome' \in [Rule -> BOOLEAN]
    BY <2>1, <2>2
  <2>4. UNCHANGED <<scan, emergencyStop>> /\ next' = -1 /\ state' \in {"Stabilizing", "Running"}
    BY <1>3, <1>12 DEF RunRules
  <2>5. Cleared \in Sane
    BY DEF Cleared, Sane, NoSensor
  <2>6. seen' \in [Cell -> Sane]
    BY <1>12, <2>5 DEF RunRules
  <2> QED BY <1>3, <1>4, <2>3, <2>4, <2>6
<1> HIDE DEF Others
<1> QED BY <1>6, <1>7, <1>8, <1>9, <1>10, <1>11, <1>12 DEF RulesNext, RulesTask

(* Type correctness of the rules.                                          *)
THEOREM RulesTypeCorrect == RulesSpec => []RulesTypeOK
<1>1. RulesTyped => RulesTypeOK
  BY DEF RulesTyped
<1> QED BY <1>1, RulesTypedInit, RulesTypedStep, PTL DEF RulesSpec

-----------------------------------------------------------------------------
(* The extremes.                                                           *)

(* One more value, and the extreme of all.                                 *)
LEMMA TopMore ==
  ASSUME NEW S \in SUBSET Int, NEW h \in Int, NEW floor \in Int, Top(h, S, floor),
         NEW x \in Int, floor <= x
  PROVE  Top(Higher(h, x), S \cup {x}, floor)
  BY DEF Top, Higher

LEMMA BottomMore ==
  ASSUME NEW S \in SUBSET Int, NEW l \in Int, NEW ceiling \in Int, Bottom(l, S, ceiling),
         NEW x \in Int, x <= ceiling
  PROVE  Bottom(Lower(l, x), S \cup {x}, ceiling)
  BY DEF Bottom, Lower

(* The cells seen before a pass and after a step of it.                    *)
LEMMA AheadStep == ASSUME RulesTyped, AheadInv, [RulesNext]_ruleVars PROVE AheadInv'
<1>1. \A c \in Cell : c \in Nat
  BY DEF Cell
<1>2. next \in Int /\ next >= -1
  BY RuleConstants DEF RulesTyped, RulesTypeOK
<1>3. CASE UNCHANGED pass
  BY <1>3 DEF pass, AheadInv
<1>4. CASE StartPass
  BY <1>1, <1>4 DEF StartPass, AheadInv
<1>5. CASE ProcessCell
  <2>1. /\ next \in Cell /\ next' = next + 1 /\ seen' = [seen EXCEPT ![next] = cmi[next]]
        /\ seen \in [Cell -> Sane]
    BY <1>5, WalkStep DEF RulesTyped
  <2>2. ASSUME NEW c \in Cell, seen'[c].valid PROVE c < next'
    <3>1. c = next \/ seen[c].valid
      BY <2>1, <2>2
    <3> QED BY <1>1, <1>2, <2>1, <3>1 DEF AheadInv
  <2> QED BY <2>2 DEF AheadInv
<1>6. CASE RunRules
  BY <1>6 DEF RunRules, AheadInv, Cleared
<1> QED BY <1>3, <1>4, <1>5, <1>6 DEF RulesNext, RulesTask, ReplyVoltage, ReplyTemperature,
     clearModuleValues, SaveRules, EmergencyInput, ruleVars, pass

(* Before a pass nothing has been seen.                                    *)
LEMMA NothingSeen ==
  ASSUME AheadInv, next = -1
  PROVE  ValidSeen = {} /\ SensorSeen = {} /\ ~ZeroSeen
<1>1. \A c \in Cell : ~(c < -1)
  BY DEF Cell
<1> QED BY <1>1 DEF AheadInv, ValidSeen, SensorSeen, ZeroSeen

(* What a step of the pass adds to it.                                     *)
LEMMA SeenStep ==
  ASSUME RulesTyped, AheadInv, ProcessCell, NEW c \in Sane, c = cmi[next]
  PROVE  /\ ValidSeen' = IF c.valid THEN ValidSeen \cup {next} ELSE ValidSeen
         /\ SensorSeen' = IF c.valid /\ c.external # NoSensor THEN SensorSeen \cup {next}
                          ELSE SensorSeen
         /\ next \notin ValidSeen /\ seen'[next] = c
         /\ \A k \in Cell : k # next => seen'[k] = seen[k]
<1>1. next \in Cell /\ seen' = [seen EXCEPT ![next] = c] /\ seen \in [Cell -> Sane]
  BY WalkStep DEF RulesTyped
<1>2. seen'[next] = c /\ \A k \in Cell : k # next => seen'[k] = seen[k]
  BY <1>1
<1>3. ~seen[next].valid
  <2>1. next \in Int /\ ~(next < next)
    BY <1>1 DEF Cell
  <2> QED BY <1>1, <2>1 DEF AheadInv
<1>4. ValidSeen' = {k \in Cell : seen'[k].valid}
  BY DEF ValidSeen
<1>5. ValidSeen' = IF c.valid THEN ValidSeen \cup {next} ELSE ValidSeen
  BY <1>1, <1>2, <1>3, <1>4 DEF ValidSeen
<1>6. SensorSeen' = {k \in ValidSeen' : seen'[k].external # NoSensor}
  BY DEF SensorSeen
<1>7. \A k \in ValidSeen : k \in Cell /\ k # next
  BY <1>3 DEF ValidSeen
<1>8. SensorSeen' = IF c.valid /\ c.external # NoSensor THEN SensorSeen \cup {next}
                    ELSE SensorSeen
  BY <1>2, <1>5, <1>6, <1>7 DEF SensorSeen
<1> QED BY <1>2, <1>5, <1>7, <1>8

(* So do the values seen.                                                  *)
LEMMA ValuesStep ==
  ASSUME RulesTyped, AheadInv, ProcessCell, NEW c \in Sane, c = cmi[next]
  PROVE  /\ VoltagesSeen' = IF c.valid THEN VoltagesSeen \cup {c.voltage} ELSE VoltagesSeen
         /\ InternalsSeen' = IF c.valid THEN InternalsSeen \cup {c.internal} ELSE InternalsSeen
         /\ ExternalsSeen' = IF c.valid /\ c.external # NoSensor
                             THEN ExternalsSeen \cup {c.external} ELSE ExternalsSeen
<1>1. /\ ValidSeen' = IF c.valid THEN ValidSeen \cup {next} ELSE ValidSeen
      /\ SensorSeen' = IF c.valid /\ c.external # NoSensor THEN SensorSeen \cup {next}
                       ELSE SensorSeen
      /\ next \notin ValidSeen /\ seen'[next] = c
      /\ \A k \in Cell : k # next => seen'[k] = seen[k]
  BY SeenStep
<1>2. /\ \A k \in ValidSeen : seen'[k] = seen[k]
      /\ \A k \in SensorSeen : seen'[k] = seen[k]
  BY <1>1 DEF ValidSeen, SensorSeen
<1>3. /\ VoltagesSeen' = {seen'[k].voltage : k \in ValidSeen'}
      /\ InternalsSeen' = {seen'[k].internal : k \in ValidSeen'}
      /\ ExternalsSeen' = {seen'[k].external : k \in SensorSeen'}
  BY DEF VoltagesSeen, InternalsSeen, ExternalsSeen
<1>4. VoltagesSeen' = IF c.valid THEN VoltagesSeen \cup {c.voltage} ELSE VoltagesSeen
  BY <1>1, <1>2, <1>3 DEF VoltagesSeen
<1>5. InternalsSeen' = IF c.valid THEN InternalsSeen \cup {c.internal} ELSE InternalsSeen
  BY <1>1, <1>2, <1>3 DEF InternalsSeen
<1>6. ExternalsSeen' = IF c.valid /\ c.external # NoSensor
                       THEN ExternalsSeen \cup {c.external} ELSE ExternalsSeen
  BY <1>1, <1>2, <1>3 DEF ExternalsSeen
<1> QED BY <1>4, <1>5, <1>6

(* The values seen are numbers.                                            *)
LEMMA ValuesTyped ==
  ASSUME RulesTyped
  PROVE  VoltagesSeen \subseteq Nat /\ InternalsSeen \subseteq Int /\ ExternalsSeen \subseteq Int
<1>1. ASSUME NEW c \in Cell
      PROVE  seen[c].voltage \in Nat /\ seen[c].internal \in Int /\ seen[c].external \in Int
  <2>1. seen[c] \in Sane
    BY DEF RulesTyped
  <2>2. /\ seen[c].voltage \in Voltages \cup {0}
        /\ seen[c].internal \in -127 .. 126 /\ seen[c].external \in -127 .. 126
    BY <2>1 DEF Sane
  <2> QED BY <2>2, RuleConstants
<1>2. ValidSeen \subseteq Cell /\ SensorSeen \subseteq Cell
  BY DEF ValidSeen, SensorSeen
<1>3. VoltagesSeen \subseteq Nat
  BY <1>1, <1>2 DEF VoltagesSeen
<1>4. InternalsSeen \subseteq Int
  BY <1>1, <1>2 DEF InternalsSeen
<1>5. ExternalsSeen \subseteq Int
  BY <1>1, <1>2 DEF ExternalsSeen
<1> QED BY <1>3, <1>4, <1>5

(* The counts tell whether there are cells without voltage, and sensors.   *)
LEMMA CountsStep ==
  ASSUME RulesTyped, AheadInv, CountsInv, [RulesNext]_ruleVars PROVE CountsInv'
<1>1. CASE UNCHANGED pass
  BY <1>1 DEF pass, CountsInv, ZeroSeen, SensorSeen, ValidSeen
<1>2. CASE StartPass
  <2>1. scan' = ClearValues /\ seen' = seen /\ next = -1
    BY <1>2 DEF StartPass
  <2>2. ~ZeroSeen' /\ SensorSeen' = {}
    BY <2>1, NothingSeen DEF ZeroSeen, SensorSeen, ValidSeen
  <2>3. scan'.zero = 0 /\ scan'.sensor = FALSE
    BY <2>1, ClearedTotals
  <2> QED BY <2>2, <2>3 DEF CountsInv
<1>3. CASE ProcessCell
  <2> DEFINE c == cmi[next]
  <2>1. c \in Sane /\ next \in Nat /\ scan \in Totals
    BY <1>3, WalkStep
  <2>2. Adding(scan', scan, c) /\ scan'.sensor = (scan.sensor \/ (c.valid /\ c.external # NoSensor))
    BY <1>3, WalkTotals
  <2>3. (scan.zero > 0 <=> ZeroSeen) /\ (scan.sensor <=> SensorSeen # {}) /\ scan.zero \in Nat
    BY <2>1 DEF CountsInv, Totals
  <2>4. VoltagesSeen' = IF c.valid THEN VoltagesSeen \cup {c.voltage} ELSE VoltagesSeen
    BY <1>3, <2>1, ValuesStep
  <2>5. SensorSeen' = IF c.valid /\ c.external # NoSensor THEN SensorSeen \cup {next}
                      ELSE SensorSeen
    BY <1>3, <2>1, SeenStep
  <2>6. (ZeroSeen <=> 0 \in VoltagesSeen) /\ (ZeroSeen' <=> 0 \in VoltagesSeen')
    BY DEF ZeroSeen, VoltagesSeen
  <2>7. scan'.zero = IF c.valid /\ c.voltage = 0 THEN scan.zero + 1 ELSE scan.zero
    BY <2>2 DEF Adding
  <2> HIDE DEF c
  <2>8. scan'.zero > 0 <=> ZeroSeen'
    BY <2>3, <2>4, <2>6, <2>7
  <2>9. scan'.sensor <=> SensorSeen' # {}
    BY <2>2, <2>3, <2>5
  <2> QED BY <2>8, <2>9 DEF CountsInv
<1>4. CASE RunRules
  BY <1>4 DEF RunRules, CountsInv
<1> QED BY <1>1, <1>2, <1>3, <1>4 DEF RulesNext, RulesTask, ReplyVoltage, ReplyTemperature,
     clearModuleValues, SaveRules, EmergencyInput, ruleVars, pass

(* The extremes are those of the cells seen.                               *)
LEMMA CellsStep ==
  ASSUME RulesTyped, AheadInv, CellsInv, [RulesNext]_ruleVars PROVE CellsInv'
<1>1. CASE UNCHANGED pass
  BY <1>1 DEF pass, CellsInv, VoltagesSeen, InternalsSeen, ExternalsSeen, SensorSeen, ValidSeen
<1>2. CASE StartPass
  <2>1. scan' = ClearValues /\ seen' = seen /\ next = -1
    BY <1>2 DEF StartPass
  <2>2. VoltagesSeen' = {} /\ InternalsSeen' = {} /\ ExternalsSeen' = {}
    BY <2>1, NothingSeen DEF VoltagesSeen, InternalsSeen, ExternalsSeen, SensorSeen, ValidSeen
  <2> QED BY <2>1, <2>2, ClearedTotals DEF CellsInv, Top, Bottom
<1>3. CASE ProcessCell
  <2> DEFINE c == cmi[next]
  <2>1. c \in Sane /\ next \in Nat /\ scan \in Totals
    BY <1>3, WalkStep
  <2>2. Adding(scan', scan, c)
    BY <1>3, WalkTotals
  <2>3. /\ VoltagesSeen' = IF c.valid THEN VoltagesSeen \cup {c.voltage} ELSE VoltagesSeen
        /\ InternalsSeen' = IF c.valid THEN InternalsSeen \cup {c.internal} ELSE InternalsSeen
        /\ ExternalsSeen' = IF c.valid /\ c.external # NoSensor
                            THEN ExternalsSeen \cup {c.external} ELSE ExternalsSeen
    BY <1>3, <2>1, ValuesStep
  <2>4. /\ Top(scan.highCell, VoltagesSeen, 0) /\ Bottom(scan.lowCell, VoltagesSeen, MaxVoltage)
        /\ Top(scan.highInternal, InternalsSeen, -127)
        /\ Top(scan.highExternal, ExternalsSeen, -127)
        /\ Bottom(scan.lowExternal, ExternalsSeen, 127)
    BY <2>1 DEF CellsInv
  <2>5. /\ VoltagesSeen \in SUBSET Int /\ InternalsSeen \in SUBSET Int
        /\ ExternalsSeen \in SUBSET Int
    BY ValuesTyped
  <2>6. /\ scan.highCell \in Int /\ scan.lowCell \in Int /\ scan.highInternal \in Int
        /\ scan.highExternal \in Int /\ scan.lowExternal \in Int
    BY <2>1 DEF Totals
  <2>7. /\ c.voltage \in Int /\ 0 <= c.voltage /\ c.voltage <= MaxVoltage /\ MaxVoltage \in Int
        /\ c.internal \in Int /\ -127 <= c.internal
        /\ c.external \in Int /\ -127 <= c.external /\ c.external <= 127
    BY <2>1, RuleConstants DEF Sane
  <2> HIDE DEF c
  <2>8. Top(scan'.highCell, VoltagesSeen', 0)
    BY <2>2, <2>3, <2>4, <2>5, <2>6, <2>7, TopMore DEF Adding
  <2>9. Bottom(scan'.lowCell, VoltagesSeen', MaxVoltage)
    BY <2>2, <2>3, <2>4, <2>5, <2>6, <2>7, BottomMore DEF Adding
  <2>10. Top(scan'.highInternal, InternalsSeen', -127)
    BY <2>2, <2>3, <2>4, <2>5, <2>6, <2>7, TopMore DEF Adding
  <2>11. Top(scan'.highExternal, ExternalsSeen', -127)
    BY <2>2, <2>3, <2>4, <2>5, <2>6, <2>7, TopMore DEF Adding
  <2>12. Bottom(scan'.lowExternal, ExternalsSeen', 127)
    BY <2>2, <2>3, <2>4, <2>5, <2>6, <2>7, BottomMore DEF Adding
  <2> QED BY <2>8, <2>9, <2>10, <2>11, <2>12 DEF CellsInv
<1>4. CASE RunRules
  BY <1>4 DEF RunRules, CellsInv
<1> QED BY <1>1, <1>2, <1>3, <1>4 DEF RulesNext, RulesTask, ReplyVoltage, ReplyTemperature,
     clearModuleValues, SaveRules, EmergencyInput, ruleVars, pass

(* A bank has no more than MaxPack.                                        *)
LEMMA PackTyped ==
  ASSUME NEW s \in [Cell -> Sane], NEW b \in Bank PROVE SumOf(s, b) \in 0 .. MaxPack
<1>1. PICK f : Adds(f, s, b, Series) /\ SumOf(s, b) = f[Series]
  BY SumIs
<1>2. Series \in 0 .. Series /\ MaxPack \in Nat
  BY RuleConstants
<1>3. (\A i \in 0 .. Series : f[i] \in Nat) /\ f[Series] <= MaxPack
  BY <1>1, SumBound
<1> QED BY <1>1, <1>2, <1>3

(* The sum of cells that are all unknown.                                  *)
LEMMA NothingSummed ==
  ASSUME NEW s \in [Cell -> Sane], \A k \in Cell : ~s[k].valid, NEW b \in Bank
  PROVE  SumOf(s, b) = 0
<1>1. PICK f : Adds(f, s, b, Series) /\ SumOf(s, b) = f[Series]
  BY SumIs
<1>2. Series \in Nat \ {0} /\ b \in Nat
  BY RuleConstants DEF Bank
<1>3. f[0] = 0 /\ \A i \in 1 .. Series : f[i] = f[i - 1] + Volts(s[b * Series + i - 1])
  BY <1>1, <1>2, AddsIs
<1>4. ASSUME NEW i \in 1 .. Series PROVE Volts(s[b * Series + i - 1]) = 0
  <2>1. i - 1 \in 0 .. Series - 1 /\ b * Series + (i - 1) = b * Series + i - 1
    BY <1>2
  <2>2. b * Series + i - 1 \in Cell
    BY <2>1, BankCells
  <2> QED BY <2>2 DEF Volts
<1> DEFINE Bad == {i \in 0 .. Series : f[i] # 0}
<1>5. ASSUME Bad # {} PROVE FALSE
  <2>1. Bad \in SUBSET Nat
    BY <1>2
  <2>2. PICK x \in Bad : \A y \in Bad : x <= y
    BY <1>5, <2>1, LeastNumber
  <2>3. x \in 1 .. Series /\ x - 1 \in 0 .. Series /\ ~(x <= x - 1)
    BY <1>2, <1>3, <2>2
  <2>4. f[x - 1] = 0
    BY <2>2, <2>3
  <2> QED BY <1>3, <1>4, <2>2, <2>3, <2>4
<1>6. Series \in 0 .. Series
  BY <1>2
<1> QED BY <1>1, <1>5, <1>6

(* A step of the pass adds to one bank, and completes it at its last cell. *)
LEMMA PacksStep ==
  ASSUME RulesTyped, AheadInv, ProcessCell, NEW b \in Bank, NEW j \in 0 .. Series - 1,
         next = b * Series + j, NEW c \in Sane, c = cmi[next]
  PROVE  /\ PackVoltage(b)' = PackVoltage(b) + Volts(c)
         /\ \A a \in Bank : a # b => PackVoltage(a)' = PackVoltage(a)
         /\ PacksSeen' = IF j = Series - 1 THEN PacksSeen \cup {PackVoltage(b)'} ELSE PacksSeen
<1>1. /\ next \in Cell /\ next' = next + 1
      /\ seen' = [seen EXCEPT ![b * Series + j] = c] /\ seen \in [Cell -> Sane]
  BY WalkStep DEF RulesTyped
<1>2. ~seen[next].valid
  <2>1. next \in Int /\ ~(next < next)
    BY <1>1 DEF Cell
  <2> QED BY <1>1, <2>1 DEF AheadInv
<1>3. PackVoltage(b)' = PackVoltage(b) + Volts(c)
  <2>1. SumOf([seen EXCEPT ![b * Series + j] = c], b) = SumOf(seen, b) + Volts(c)
    BY <1>1, <1>2, SumWith
  <2> QED BY <1>1, <2>1, PackIs
<1>4. ASSUME NEW a \in Bank, a # b PROVE PackVoltage(a)' = PackVoltage(a)
  <2>1. \A i \in 0 .. Series - 1 : a * Series + i # b * Series + j
    BY <1>4, OtherBanks
  <2>2. PICK t : t = seen'
    OBVIOUS
  <2>3. \A i \in 0 .. Series - 1 : a * Series + i \in Cell
    BY BankCells
  <2>4. \A i \in 0 .. Series - 1 : t[a * Series + i] = seen[a * Series + i]
    BY <1>1, <2>1, <2>2, <2>3
  <2>5. SumOf(t, a) = SumOf(seen, a)
    BY <1>1, <2>4, SumWithout
  <2> QED BY <2>2, <2>5, PackIs
<1>5. PacksSeen' = {PackVoltage(a)' : a \in Complete'}
  BY DEF PacksSeen
<1>6. Series \in Nat \ {0} /\ b \in Nat /\ b * Series \in Nat
  BY RuleConstants DEF Bank
<1>7. b \notin Complete /\ (b \in Complete' <=> j = Series - 1)
  BY <1>1, <1>6 DEF Complete
<1>8. ASSUME NEW a \in Bank, a # b PROVE a \in Complete' <=> a \in Complete
  <2>1. a * Series + Series <= next <=> a * Series + Series <= next + 1
    BY <1>8, OtherBanks
  <2> QED BY <1>1, <2>1 DEF Complete
<1>9. Complete' = IF j = Series - 1 THEN Complete \cup {b} ELSE Complete
  <2>1. Complete \subseteq Bank /\ Complete' \subseteq Bank
    BY DEF Complete
  <2>2. \A a \in Bank : a # b => (a \in Complete' <=> a \in Complete)
    BY <1>8
  <2>3. CASE j = Series - 1
    BY <1>7, <2>1, <2>2, <2>3
  <2>4. CASE j # Series - 1
    <3>1. \A a : a \in Complete' <=> a \in Complete
      BY <1>7, <2>1, <2>2, <2>4
    <3> QED BY <2>4, <3>1
  <2> QED BY <2>3, <2>4
<1>10. \A a \in Complete : PackVoltage(a)' = PackVoltage(a)
  BY <1>4, <1>7 DEF Complete
<1>11. PacksSeen' = IF j = Series - 1 THEN PacksSeen \cup {PackVoltage(b)'} ELSE PacksSeen
  BY <1>5, <1>9, <1>10 DEF PacksSeen
<1> QED BY <1>3, <1>4, <1>11

(* The sums are those of the cells seen.                                   *)
LEMMA BanksStep ==
  ASSUME RulesTyped, AheadInv, BanksInv, [RulesNext]_ruleVars PROVE BanksInv'
<1>1. seen \in [Cell -> Sane] /\ Series \in Nat \ {0} /\ MaxPack \in Nat
  BY RuleConstants DEF RulesTyped
<1>2. CASE UNCHANGED pass
  <2>1. scan' = scan /\ next' = next /\ seen' = seen
    BY <1>2 DEF pass
  <2>2. \A b : PackVoltage(b)' = PackVoltage(b)
    BY <2>1, PackIs
  <2>3. Complete' = Complete
    BY <2>1 DEF Complete
  <2>4. PacksSeen' = PacksSeen
    BY <2>2, <2>3 DEF PacksSeen
  <2> QED BY <2>1, <2>2, <2>4 DEF BanksInv
<1>3. CASE StartPass
  <2>1. scan' = ClearValues /\ seen' = seen /\ next = -1 /\ next' = 0
    BY <1>3 DEF StartPass
  <2>2. \A k \in Cell : ~seen[k].valid
    BY <2>1, NothingSeen DEF ValidSeen
  <2>3. \A b \in Bank : PackVoltage(b)' = 0
    BY <1>1, <2>1, <2>2, PackIs, NothingSummed
  <2>4. Complete' = {}
    <3>1. \A b \in Bank : b * Series + Series > 0
      BY <1>1 DEF Bank
    <3> QED BY <1>1, <2>1, <3>1 DEF Complete, Bank
  <2>5. PacksSeen' = {}
    BY <2>4 DEF PacksSeen
  <2> QED BY <2>1, <2>3, <2>5, ClearedTotals DEF BanksInv, Top, Bottom
<1>4. CASE ProcessCell
  <2>1. cmi[next] \in Sane /\ next \in Nat /\ next \in Cell /\ scan \in Totals /\ scan' \in Totals
        /\ seen' = [seen EXCEPT ![next] = cmi[next]]
    BY <1>4, WalkStep
  <2>2. next \div Series \in Bank /\ next % Series \in 0 .. Series - 1
        /\ next = (next \div Series) * Series + (next % Series)
    BY <2>1, CellPlace
  <2>a. PICK c \in Sane : c = cmi[next]
    BY <2>1
  <2>b. PICK b \in Bank, j \in 0 .. Series - 1 :
            b = next \div Series /\ j = next % Series /\ next = b * Series + j
    BY <2>2
  <2>3. /\ scan'.pack = [scan.pack EXCEPT ![b] = @ + Volts(c)]
        /\ j = Series - 1 =>
             /\ scan'.highPack = Higher(scan.highPack, scan'.pack[b])
             /\ scan'.lowPack = Lower(scan.lowPack, scan'.pack[b])
        /\ j # Series - 1 => scan'.highPack = scan.highPack /\ scan'.lowPack = scan.lowPack
    BY <1>4, <2>a, <2>b, WalkBanks
  <2>4. /\ PackVoltage(b)' = PackVoltage(b) + Volts(c)
        /\ \A a \in Bank : a # b => PackVoltage(a)' = PackVoltage(a)
        /\ PacksSeen' = IF j = Series - 1 THEN PacksSeen \cup {PackVoltage(b)'} ELSE PacksSeen
    BY <1>4, <2>a, <2>b, PacksStep
  <2>5. seen' \in [Cell -> Sane]
    BY <1>1, <2>1
  <2>6. /\ \A a \in Bank : scan.pack[a] = PackVoltage(a)
        /\ Top(scan.highPack, PacksSeen, 0) /\ Bottom(scan.lowPack, PacksSeen, MaxPack)
    BY <2>1 DEF BanksInv
  <2>7. scan.pack \in [Bank -> Nat] /\ scan.highPack \in Int /\ scan.lowPack \in Int
    BY <2>1 DEF Totals
  <2>8. \A a \in Bank : scan'.pack[a] = PackVoltage(a)'
    BY <2>3, <2>4, <2>6, <2>7
  <2>9. PackVoltage(b)' \in Int /\ 0 <= PackVoltage(b)' /\ PackVoltage(b)' <= MaxPack
    <3>1. PackVoltage(b)' \in 0 .. MaxPack
      BY <2>5, PackIs, PackTyped
    <3> QED BY <1>1, <3>1
  <2>10. PacksSeen \in SUBSET Int
    <3>1. \A a \in Complete : PackVoltage(a) \in Int
      BY <1>1, PackIs, PackTyped DEF Complete
    <3> QED BY <3>1 DEF PacksSeen
  <2>11. Top(scan'.highPack, PacksSeen', 0)
    <3>1. Top(Higher(scan.highPack, PackVoltage(b)'), PacksSeen \cup {PackVoltage(b)'}, 0)
      BY <2>6, <2>7, <2>9, <2>10, TopMore
    <3> QED BY <2>3, <2>4, <2>6, <2>8, <3>1
  <2>12. Bottom(scan'.lowPack, PacksSeen', MaxPack)
    <3>1. Bottom(Lower(scan.lowPack, PackVoltage(b)'), PacksSeen \cup {PackVoltage(b)'}, MaxPack)
      BY <1>1, <2>6, <2>7, <2>9, <2>10, BottomMore
    <3> QED BY <2>3, <2>4, <2>6, <2>8, <3>1
  <2> QED BY <2>8, <2>11, <2>12 DEF BanksInv
<1>5. CASE RunRules
  BY <1>5 DEF RunRules, BanksInv
<1> QED BY <1>2, <1>3, <1>4, <1>5 DEF RulesNext, RulesTask, ReplyVoltage, ReplyTemperature,
     clearModuleValues, SaveRules, EmergencyInput, ruleVars, pass
(* Before the first pass nothing has been seen.                            *)
LEMMA RulesInvInit == RulesInit => RulesInv
<1> SUFFICES ASSUME RulesInit PROVE RulesInv
  OBVIOUS
<1>1. next = -1 /\ ~(next >= 0) /\ \A c \in Cell : ~seen[c].valid
  BY DEF RulesInit, Cleared
<1>2. AheadInv
  BY <1>1 DEF AheadInv
<1>3. CountsInv /\ CellsInv /\ BanksInv
  BY <1>1 DEF CountsInv, CellsInv, BanksInv
<1> QED BY <1>2, <1>3, RulesTypedInit DEF RulesInv

LEMMA RulesInvStep == RulesInv /\ [RulesNext]_ruleVars => RulesInv'
  BY RulesTypedStep, AheadStep, CountsStep, CellsStep, BanksStep DEF RulesInv

-----------------------------------------------------------------------------
(* The decisions at the end of a pass.                                     *)

(* x is the value of S that a rule depends on most.                        *)
Extreme(r, x, S) ==
  x \in S /\ IF r \in OverRules THEN \A y \in S : y <= x ELSE \A y \in S : x <= y

(* A latch on the extreme of the values does what all values ask for.      *)
LEMMA LatchFollows ==
  ASSUME NEW r \in CheckedRules, NEW x \in Int, Values(r) \in SUBSET Int, Extreme(r, x, Values(r)),
         outcome \in [Rule -> BOOLEAN], outcome'[r] \in BOOLEAN,
         outcome'[r] <=> Latched(r, x)
  PROVE  Follows(r)
<1>1. r \in ValueRules /\ r \in Rule
  BY DEF CheckedRules, ModuleRules, BankRules, ValueRules, Rule, OverRules, UnderRules
<1>2. Value[r] \in Int /\ Hysteresis[r] \in Int /\ outcome[r] \in BOOLEAN
  BY <1>1, RuleAssumption
<1>3. CASE r \in OverRules
  <2>1. Triggered(r) <=> x > Value[r]
    BY <1>2, <1>3 DEF Extreme, Triggered
  <2>2. Released(r) <=> x < Hysteresis[r]
    BY <1>2, <1>3 DEF Extreme, Released
  <2>3. Latched(r, x) = IF outcome[r] THEN ~(x < Hysteresis[r]) ELSE x > Value[r]
    BY <1>3 DEF Latched
  <2> QED BY <1>2, <2>1, <2>2, <2>3 DEF Follows
<1>4. CASE r \notin OverRules
  <2>1. Triggered(r) <=> x < Value[r]
    BY <1>2, <1>4 DEF Extreme, Triggered
  <2>2. Released(r) <=> x > Hysteresis[r]
    BY <1>2, <1>4 DEF Extreme, Released
  <2>3. Latched(r, x) = IF outcome[r] THEN ~(x > Hysteresis[r]) ELSE x < Value[r]
    BY <1>4 DEF Latched
  <2> QED BY <1>2, <2>1, <2>2, <2>3 DEF Follows
<1> QED BY <1>3, <1>4

(* A rule without values is off.                                           *)
LEMMA NothingFollows ==
  ASSUME NEW r \in CheckedRules, Values(r) = {}, ~outcome'[r] PROVE Follows(r)
  BY DEF Follows, Triggered, Released

(* The sets of values, as the invariants name them.                        *)
LEMMA ValuesAre ==
  /\ Values("ModuleOverVoltage") = VoltagesSeen /\ Values("ModuleUnderVoltage") = VoltagesSeen
  /\ Values("ModuleOverTemperatureInternal") = InternalsSeen
  /\ Values("ModuleOverTemperatureExternal") = ExternalsSeen
  /\ Values("ModuleUnderTemperatureExternal") = ExternalsSeen
  /\ next = Banks * Series =>
       Values("BankOverVoltage") = PacksSeen /\ Values("BankUnderVoltage") = PacksSeen
<1>1. /\ Values("ModuleOverVoltage") = VoltagesSeen /\ Values("ModuleUnderVoltage") = VoltagesSeen
      /\ Values("ModuleOverTemperatureInternal") = InternalsSeen
      /\ Values("ModuleOverTemperatureExternal") = ExternalsSeen
      /\ Values("ModuleUnderTemperatureExternal") = ExternalsSeen
  BY DEF Values, VoltagesSeen, InternalsSeen, ExternalsSeen, ExternalRules, BankRules
<1>2. /\ Values("BankOverVoltage") = {PackVoltage(b) : b \in Bank}
      /\ Values("BankUnderVoltage") = {PackVoltage(b) : b \in Bank}
  BY DEF Values, ExternalRules, BankRules
<1>3. ASSUME next = Banks * Series PROVE Complete = Bank
  <2>1. ASSUME NEW b \in Bank PROVE b * Series + Series <= Banks * Series
    <3>1. Series \in Nat \ {0} /\ Series - 1 \in 0 .. Series - 1 /\ b * Series \in Nat
          /\ Banks * Series \in Nat
      BY RuleConstants DEF Bank
    <3>2. b * Series + (Series - 1) \in Cell
      BY <3>1, BankCells
    <3> QED BY <3>1, <3>2 DEF Cell
  <2> QED BY <1>3, <2>1 DEF Complete
<1> QED BY <1>1, <1>2, <1>3 DEF PacksSeen

(* A temperature that is not negative fits the byte it is compared as.     *)
LEMMA ByteFits == ASSUME NEW t \in Int, 0 <= t, t <= 126 PROVE U8(t) = t
  BY DEF U8

LEMMA EndOfPass ==
  ASSUME RulesInv, RunRules, ~ZeroSeen, ~NegativeSeen, ValidSeen # {}, NEW r \in CheckedRules
  PROVE  Follows(r)
<1>1. /\ RulesTyped /\ next = Banks * Series /\ next >= 0 /\ scan \in Totals
      /\ outcome \in [Rule -> BOOLEAN]
  <2>1. RulesTyped /\ next = Banks * Series /\ scan \in Totals /\ outcome \in [Rule -> BOOLEAN]
    BY DEF RulesInv, RulesTyped, RulesTypeOK, RunRules
  <2>2. Banks * Series \in Nat
    BY RuleConstants
  <2> QED BY <2>1, <2>2
<1>2. PICK shunt, minute : outcome' = [q \in Rule |-> Decide(q, shunt, minute)]
  BY DEF RunRules
<1>3. scan.zero = 0 /\ (scan.sensor <=> SensorSeen # {})
  BY <1>1 DEF RulesInv, CountsInv, Totals
<1>4. \A q \in Rule : outcome'[q] = Decide(q, shunt, minute)
  BY <1>2
<1>5. outcome'[r] \in BOOLEAN /\ r \in Rule /\ Quantity[r] \in Int /\ r \in ValueRules
  <2>1. r \in Rule /\ r \in ValueRules /\ r \in ModuleRules \cup BankRules
    BY DEF CheckedRules, ModuleRules, BankRules, ValueRules, Rule, OverRules, UnderRules
  <2>2. outcome' \in [Rule -> BOOLEAN]
    BY <1>1, RulesTypedStep DEF RulesNext, RulesTask, RulesTyped, RulesTypeOK
  <2> QED BY <1>1, <2>1, <2>2, QuantityTyped
<1>6. /\ VoltagesSeen \in SUBSET Int /\ InternalsSeen \in SUBSET Int
      /\ ExternalsSeen \in SUBSET Int /\ PacksSeen \in SUBSET Int
  <2>1. PacksSeen \in SUBSET Int
    <3>1. seen \in [Cell -> Sane] /\ MaxPack \in Nat
      BY <1>1, RuleConstants DEF RulesTyped
    <3>2. \A a \in Bank : PackVoltage(a) \in Int
      BY <3>1, PackIs, PackTyped
    <3> QED BY <3>2 DEF PacksSeen, Complete
  <2> QED BY <1>1, <2>1, ValuesTyped
<1>7. VoltagesSeen # {} /\ InternalsSeen # {}
  BY DEF VoltagesSeen, InternalsSeen
<1>8. /\ Top(scan.highCell, VoltagesSeen, 0) /\ Bottom(scan.lowCell, VoltagesSeen, MaxVoltage)
      /\ Top(scan.highInternal, InternalsSeen, -127)
      /\ Top(scan.highExternal, ExternalsSeen, -127)
      /\ Bottom(scan.lowExternal, ExternalsSeen, 127)
      /\ Top(scan.highPack, PacksSeen, 0) /\ Bottom(scan.lowPack, PacksSeen, MaxPack)
  BY <1>1 DEF RulesInv, CellsInv, BanksInv
<1>9. \A t \in InternalsSeen \cup ExternalsSeen : U8(t) = t
  <2>1. ASSUME NEW k \in ValidSeen
        PROVE  /\ seen[k].internal \in Int /\ 0 <= seen[k].internal /\ seen[k].internal <= 126
               /\ k \in SensorSeen => /\ seen[k].external \in Int /\ 0 <= seen[k].external
                                      /\ seen[k].external <= 126
    <3>1. seen[k] \in Sane
      BY <1>1 DEF RulesTyped, ValidSeen
    <3>2. seen[k].internal \in -127 .. 126 /\ seen[k].external \in -127 .. 126
      BY <3>1 DEF Sane
    <3>3. ~(seen[k].internal < 0) /\ (k \in SensorSeen => ~(seen[k].external < 0))
      BY DEF NegativeSeen
    <3> QED BY <3>2, <3>3
  <2>2. SensorSeen \subseteq ValidSeen
    BY DEF SensorSeen
  <2>3. \A t \in InternalsSeen \cup ExternalsSeen : t \in Int /\ 0 <= t /\ t <= 126
    BY <2>1, <2>2 DEF InternalsSeen, ExternalsSeen
  <2> QED BY <2>3, ByteFits
<1>10. CASE r = "ModuleOverVoltage"
  <2>1. outcome'[r] <=> Latched(r, scan.highCell)
    <3>1. r \in ModuleRules \ ExternalRules
      BY <1>10 DEF ModuleRules, ExternalRules, OverRules, UnderRules, MonitorRules, BankRules
    <3>2. Quantity[r] = scan.highCell
      BY <1>10 DEF Quantity
    <3> QED BY <1>3, <1>4, <1>5, <3>1, <3>2, DecideIs
  <2>2. Extreme(r, scan.highCell, VoltagesSeen)
    BY <1>7, <1>8, <1>10 DEF Extreme, Top, OverRules
  <2> QED BY <1>1, <1>5, <1>6, <1>10, <2>1, <2>2, ValuesAre, LatchFollows DEF Extreme
<1>11. CASE r = "ModuleUnderVoltage"
  <2>1. outcome'[r] <=> Latched(r, scan.lowCell)
    <3>1. r \in ModuleRules \ ExternalRules
      BY <1>11 DEF ModuleRules, ExternalRules, OverRules, UnderRules, MonitorRules, BankRules
    <3>2. Quantity[r] = scan.lowCell
      BY <1>11 DEF Quantity
    <3> QED BY <1>3, <1>4, <1>5, <3>1, <3>2, DecideIs
  <2>2. Extreme(r, scan.lowCell, VoltagesSeen)
    BY <1>7, <1>8, <1>11 DEF Extreme, Bottom, OverRules
  <2> QED BY <1>1, <1>5, <1>6, <1>11, <2>1, <2>2, ValuesAre, LatchFollows DEF Extreme
<1>12. CASE r = "ModuleOverTemperatureInternal"
  <2>1. outcome'[r] <=> Latched(r, U8(scan.highInternal))
    <3>1. r \in ModuleRules \ ExternalRules
      BY <1>12 DEF ModuleRules, ExternalRules, OverRules, UnderRules, MonitorRules, BankRules
    <3>2. Quantity[r] = U8(scan.highInternal)
      BY <1>12 DEF Quantity
    <3> QED BY <1>3, <1>4, <1>5, <3>1, <3>2, DecideIs
  <2>2. Extreme(r, scan.highInternal, InternalsSeen) /\ U8(scan.highInternal) = scan.highInternal
    BY <1>7, <1>8, <1>9, <1>12 DEF Extreme, Top, OverRules
  <2> QED BY <1>1, <1>5, <1>6, <1>12, <2>1, <2>2, ValuesAre, LatchFollows DEF Extreme
<1>13. CASE r = "ModuleOverTemperatureExternal"
  <2>1. outcome'[r] <=> (scan.sensor /\ Latched(r, U8(scan.highExternal)))
    <3>1. r \in ExternalRules /\ Quantity[r] = U8(scan.highExternal)
      BY <1>13 DEF ExternalRules, Quantity
    <3>2. Decide(r, shunt, minute) = (scan.zero = 0 /\ scan.sensor /\ Latched(r, U8(scan.highExternal)))
      BY <3>1, DecideIs
    <3> QED BY <1>3, <1>4, <1>5, <3>2
  <2>2. CASE SensorSeen = {}
    <3>1. Values(r) = {} /\ ~outcome'[r]
      BY <1>3, <1>13, <2>1, <2>2, ValuesAre DEF ExternalsSeen
    <3> QED BY <3>1, NothingFollows
  <2>3. CASE SensorSeen # {}
    <3>1. ExternalsSeen # {}
      BY <2>3 DEF ExternalsSeen
    <3>2. Extreme(r, scan.highExternal, ExternalsSeen) /\ U8(scan.highExternal) = scan.highExternal
      BY <1>8, <1>9, <1>13, <3>1 DEF Extreme, Top, OverRules
    <3>3. outcome'[r] <=> Latched(r, scan.highExternal)
      BY <1>3, <2>1, <2>3, <3>2
    <3> QED BY <1>1, <1>5, <1>6, <1>13, <3>2, <3>3, ValuesAre, LatchFollows DEF Extreme
  <2> QED BY <2>2, <2>3
<1>14. CASE r = "ModuleUnderTemperatureExternal"
  <2>1. outcome'[r] <=> (scan.sensor /\ Latched(r, U8(scan.lowExternal)))
    <3>1. r \in ExternalRules /\ Quantity[r] = U8(scan.lowExternal)
      BY <1>14 DEF ExternalRules, Quantity
    <3>2. Decide(r, shunt, minute) = (scan.zero = 0 /\ scan.sensor /\ Latched(r, U8(scan.lowExternal)))
      BY <3>1, DecideIs
    <3> QED BY <1>3, <1>4, <1>5, <3>2
  <2>2. CASE SensorSeen = {}
    <3>1. Values(r) = {} /\ ~outcome'[r]
      BY <1>3, <1>14, <2>1, <2>2, ValuesAre DEF ExternalsSeen
    <3> QED BY <3>1, NothingFollows
  <2>3. CASE SensorSeen # {}
    <3>1. ExternalsSeen # {}
      BY <2>3 DEF ExternalsSeen
    <3>2. Extreme(r, scan.lowExternal, ExternalsSeen) /\ U8(scan.lowExternal) = scan.lowExternal
      BY <1>8, <1>9, <1>14, <3>1 DEF Extreme, Bottom, OverRules
    <3>3. outcome'[r] <=> Latched(r, scan.lowExternal)
      BY <1>3, <2>1, <2>3, <3>2
    <3> QED BY <1>1, <1>5, <1>6, <1>14, <3>2, <3>3, ValuesAre, LatchFollows DEF Extreme
  <2> QED BY <2>2, <2>3
<1>15. PacksSeen # {}
  <2>1. 0 \in Bank
    BY RuleConstants DEF Bank
  <2>2. Values("BankOverVoltage") # {}
    BY <2>1 DEF Values, ExternalRules, BankRules
  <2> QED BY <1>1, <2>2, ValuesAre
<1>16. CASE r = "BankOverVoltage"
  <2>1. outcome'[r] <=> Latched(r, scan.highPack)
    <3>1. r \in BankRules /\ Quantity[r] = scan.highPack
      BY <1>16 DEF BankRules, Quantity
    <3>2. Decide(r, shunt, minute) = IF scan.zero > 0 THEN outcome[r] ELSE Latched(r, scan.highPack)
      BY <3>1, DecideIs
    <3> QED BY <1>3, <1>4, <1>5, <3>2
  <2>2. Extreme(r, scan.highPack, PacksSeen)
    BY <1>8, <1>15, <1>16 DEF Extreme, Top, OverRules
  <2> QED BY <1>1, <1>5, <1>6, <1>16, <2>1, <2>2, ValuesAre, LatchFollows DEF Extreme
<1>17. CASE r = "BankUnderVoltage"
  <2>1. outcome'[r] <=> Latched(r, scan.lowPack)
    <3>1. r \in BankRules /\ Quantity[r] = scan.lowPack
      BY <1>17 DEF BankRules, Quantity
    <3>2. Decide(r, shunt, minute) = IF scan.zero > 0 THEN outcome[r] ELSE Latched(r, scan.lowPack)
      BY <3>1, DecideIs
    <3> QED BY <1>3, <1>4, <1>5, <3>2
  <2>2. Extreme(r, scan.lowPack, PacksSeen)
    BY <1>8, <1>15, <1>17 DEF Extreme, Bottom, OverRules
  <2> QED BY <1>1, <1>5, <1>6, <1>17, <2>1, <2>2, ValuesAre, LatchFollows DEF Extreme
<1> QED BY <1>10, <1>11, <1>12, <1>13, <1>14, <1>16, <1>17 DEF CheckedRules, ModuleRules,
     BankRules, OverRules, UnderRules, MonitorRules

(* A cell of zero volts switches the rules about modules off.              *)
LEMMA ZeroSilences ==
  ASSUME RulesInv, RunRules, ZeroSeen, NEW r \in ModuleRules PROVE ~outcome'[r]
<1>1. next >= 0 /\ scan.zero > 0 /\ ~(scan.zero = 0)
  <2>1. next >= 0 /\ scan \in Totals
    <3>1. next = Banks * Series /\ scan \in Totals
      BY DEF RulesInv, RulesTyped, RulesTypeOK, RunRules
    <3>2. Banks * Series \in Nat
      BY RuleConstants
    <3> QED BY <3>1, <3>2
  <2> QED BY <2>1 DEF RulesInv, CountsInv, Totals
<1>2. PICK shunt, minute : outcome' = [q \in Rule |-> Decide(q, shunt, minute)]
  BY DEF RunRules
<1>3. r \in Rule
  BY DEF ModuleRules, ValueRules, Rule
<1>4. outcome'[r] = Decide(r, shunt, minute)
  BY <1>2, <1>3
<1>5. CASE r \in ExternalRules
  BY <1>1, <1>4, <1>5, DecideIs
<1>6. CASE r \notin ExternalRules
  BY <1>1, <1>4, <1>6, DecideIs
<1> QED BY <1>5, <1>6

(* At the end of a pass the rules about modules and banks agree with what  *)
(* the pass has seen (Rules::RunRules).                                    *)
THEOREM RulesFollow == RulesSpec => RulesFollowCells
<1>1. RulesInv /\ [RulesNext]_ruleVars =>
        [next >= 0 /\ next' = -1 =>
           /\ ZeroSeen => \A r \in ModuleRules : ~outcome'[r]
           /\ ~ZeroSeen /\ ~NegativeSeen /\ ValidSeen # {}
                => \A r \in CheckedRules : Follows(r)]_ruleVars
  <2> SUFFICES ASSUME RulesInv, [RulesNext]_ruleVars, next >= 0, next' = -1
               PROVE  RunRules
    BY EndOfPass, ZeroSilences
  <2>1. next \in Int
    BY RuleConstants DEF RulesInv, RulesTyped, RulesTypeOK
  <2>2. next' # next /\ next' # next + 1 /\ next' # 0
    BY <2>1
  <2> QED BY <2>1, <2>2 DEF RulesNext, RulesTask, ReplyVoltage, ReplyTemperature, ruleVars, pass,
       clearModuleValues, SaveRules, EmergencyInput, StartPass, ProcessCell
<1> QED BY <1>1, RulesInvInit, RulesInvStep, PTL DEF RulesSpec, RulesFollowCells
==============================================================================
