---------------------------- MODULE CurrentMonitor ----------------------------
(***************************************************************************)
(* The RS485 bus of the ESP32 controller and the current monitor on it.    *)
(* rs485_tx and the web pages put MODBUS requests into a queue,            *)
(* service_rs485_transmit_q sends one, wakes rs485_rx and waits for its    *)
(* notification or for two seconds; rs485_rx reads for a quarter of a      *)
(* second whatever is in the UART's buffer and decodes it.  Notifications  *)
(* are eNoAction: a task that does not wait misses them.                   *)
(* The parameters of the port are left out: uart_set_parity and its        *)
(* siblings may fail unnoticed, and a device that they make deaf is one    *)
(* that is heard wrongly or not at all.                                    *)
(***************************************************************************)
EXTENDS Integers, Sequences

CONSTANTS
  QueueSize,     \* requests the queue holds (3)
  OwnAddress,    \* MODBUS address of the device when it is enabled
  MaxSaves,      \* bound: changes by the web pages
  MaxFaults      \* bound: lost, damaged or late answers, and the device unplugged

DefaultAddress == 90

ASSUME ConstantAssumption ==
  /\ QueueSize \in Nat \ {0} /\ OwnAddress \in 1 .. 247
  /\ MaxSaves \in Nat /\ MaxFaults \in Nat

VARIABLES
  enabled, device, address,    \* the settings of the current monitor
  page, current,               \* the page the web server works on, the shunt it writes
  queue,                       \* rs485_transmit_q_handle
  service, rx,                 \* the tasks
  monitor,                     \* currentMonitor: [valid, shunt, range]
  line,                        \* requests the device has not answered
  buffer,                      \* answers in the UART's buffer
  registers,                   \* the device: field -> value
  plugged,
  wired,                       \* the device on the bus
  saves, faults,
  wanted,                      \* what the user saved last (history)
  late,                        \* an answer or a notification came too late (history)
  unwritten                    \* a write did not reach the device (history)

settings == <<enabled, device, address>>
web == <<page, current>>
bus == <<line, buffer, registers, plugged, wired>>
history == <<wanted, late, unwritten>>
vars == <<settings, web, queue, service, rx, monitor, bus, saves, faults, history>>

Fields == {"basic", "triggers", "range", "advanced"}
UserFields == Fields \ {"range"}
Unknown == [valid |-> FALSE, shunt |-> FALSE, range |-> 0]    \* after the memset

Reading(op) == [op |-> op, address |-> address, data |-> <<>>]
Writing(fields) == [op |-> "write", address |-> address, data |-> fields]
ToAll == [op |-> "address", address |-> 248, data |-> address]

IsRequest(r) ==
  /\ r.op \in {"read", "params", "values", "address", "write"} /\ r.address \in 1 .. 248
  /\ r.op = "write" => DOMAIN r.data \subseteq Fields

TypeOK ==
  /\ {enabled, plugged, late, unwritten} \subseteq BOOLEAN
  /\ {device, wired} \subseteq {"DIYBMS", "PZEM"} /\ address \in 1 .. 247
  /\ page \in {"none", "address", "shunt", "port"} /\ current \in 0 .. 1
  /\ Len(queue) <= QueueSize
  /\ \A k \in DOMAIN queue : IsRequest(queue[k])
  /\ service \in {"idle", "sent", "waiting"} /\ rx \in {"wait", "ready", "reading", "done", "loops"}
  /\ monitor \in [valid : BOOLEAN, shunt : BOOLEAN, range : 0 .. 1]
  /\ registers \in [Fields -> 0 .. 1] /\ wanted \in [UserFields -> 0 .. 1]
  /\ saves \in 0 .. MaxSaves /\ faults \in 0 .. MaxFaults

(* setup(): SetupRS485() zeroes the readings; the device keeps its own.    *)
Init ==
  /\ wired \in {"DIYBMS", "PZEM"}
  /\ enabled = TRUE /\ device = wired /\ address = OwnAddress
  /\ page = "none" /\ current = 0
  /\ queue = <<>> /\ service = "idle" /\ rx = "wait" /\ monitor = Unknown
  /\ line = <<>> /\ buffer = <<>> /\ plugged = TRUE
  /\ registers = [f \in Fields |-> IF f = "range" THEN 1 ELSE 0]
  /\ wanted = [f \in UserFields |-> 0]
  /\ saves = 0 /\ faults = 0 /\ late = FALSE /\ unwritten = FALSE

Room == Len(queue) < QueueSize
Fault == faults < MaxFaults /\ faults' = faults + 1
Save == page = "none" /\ saves < MaxSaves /\ saves' = saves + 1

-----------------------------------------------------------------------------
(* rs485_tx, every five seconds: the PZEM is first asked for its shunt.    *)
Poll ==
  /\ enabled /\ Room
  /\ LET op == IF device = "DIYBMS" THEN "read"
               ELSE IF monitor.shunt THEN "values" ELSE "params"
     IN  queue' = Append(queue, Reading(op))
  /\ UNCHANGED <<settings, web, service, rx, monitor, bus, saves, faults, history>>

(* The web pages, one after the other.  Each puts its writes into the      *)
(* queue, waiting for room, and zeroes the readings.                       *)
Written(fields) ==
  /\ queue' = Append(queue, Writing(fields))
  /\ wanted' = [f \in UserFields |-> IF f \in DOMAIN fields THEN fields[f] ELSE wanted[f]]

SaveCurrentMonBasic ==
  /\ Save /\ monitor' = Unknown
  /\ \E v \in 0 .. 1 :
       \/ /\ device = "DIYBMS" /\ Room /\ Written([f \in {"basic"} |-> v])
          /\ UNCHANGED web
       \/ /\ device = "PZEM" /\ page' = "address" /\ current' = v
          /\ UNCHANGED <<queue, wanted>>
  /\ UNCHANGED <<settings, service, rx, bus, faults, late, unwritten>>

(* For a PZEM the page writes twice, its address and its shunt.            *)
SetDeviceAddress ==
  /\ page = "address" /\ page' = "shunt"
  /\ Room /\ queue' = Append(queue, ToAll)
  /\ UNCHANGED <<settings, current, service, rx, monitor, bus, saves, faults, history>>

SetShuntType ==
  /\ page = "shunt" /\ page' = "none"
  /\ Room /\ Written([f \in {"basic"} |-> current])
  /\ monitor' = Unknown
  /\ UNCHANGED <<settings, current, service, rx, bus, saves, faults, late, unwritten>>

(* The page offers the next two for the diyBMS device only.  The flags of  *)
(* the relay share a register with the range of the ADC, which is taken    *)
(* from the last reading.                                                  *)
SaveCurrentMonRelay ==
  /\ Save /\ Room /\ device = "DIYBMS"
  /\ \E v \in 0 .. 1 :
       Written([f \in {"triggers", "range"} |-> IF f = "range" THEN monitor.range ELSE v])
  /\ monitor' = Unknown
  /\ UNCHANGED <<settings, web, service, rx, bus, faults, late, unwritten>>

SaveCurrentMonAdvanced ==
  /\ Save /\ Room /\ device = "DIYBMS"
  /\ \E v \in 0 .. 1 : Written([f \in {"advanced"} |-> v])
  /\ monitor' = Unknown
  /\ UNCHANGED <<settings, web, service, rx, bus, faults, late, unwritten>>

(* Switching the monitor off clears the readings and restores the          *)
(* defaults; switching it on leaves the readings alone.                    *)
SaveCurrentMonSettings ==
  /\ Save
  /\ \/ /\ enabled /\ enabled' = FALSE /\ monitor' = Unknown
        /\ device' = "DIYBMS" /\ address' = DefaultAddress
     \/ /\ ~enabled /\ enabled' = TRUE /\ UNCHANGED monitor
        /\ device' = wired /\ address' = OwnAddress
  /\ UNCHANGED <<web, queue, service, rx, bus, faults, history>>

SaveRS485Settings ==
  /\ Save /\ page' = "port"
  /\ UNCHANGED <<settings, current, queue, service, rx, monitor, bus, faults, history>>

IsWrite(r) == r.op = "write"

Configured ==
  /\ page' = "none"
  /\ UNCHANGED <<settings, current, queue, service, rx, monitor, bus, saves, faults, history>>

(* ConfigureRS485() aborts, and the controller restarts, if rs485_rx keeps *)
(* the mutex for more than 100 ms of its 200.                              *)
Restarted ==
  /\ page' = "none"
  /\ queue' = <<>> /\ service' = "idle" /\ rx' = "wait" /\ monitor' = Unknown /\ buffer' = <<>>
  /\ late' = (late \/ line # <<>>)
  /\ unwritten' = (unwritten \/ \E k \in DOMAIN queue : IsWrite(queue[k]))
  /\ UNCHANGED <<settings, current, line, registers, plugged, wired, saves, faults, wanted>>

ConfigureRS485 ==
  page = "port" /\ (Configured \/ (rx = "reading" /\ Restarted))

-----------------------------------------------------------------------------
(* service_rs485_transmit_q.  What is still in the UART's buffer, or comes *)
(* later, answers an earlier request.  A request that finds the mutex with *)
(* the receiver for 100 ms is dropped.                                     *)
Stale(s) == [k \in DOMAIN s |-> [s[k] EXCEPT !.fresh = FALSE]]

Transmit ==
  /\ line' = Append(Stale(line), [request |-> Head(queue), fresh |-> TRUE])
  /\ buffer' = Stale(buffer)
  /\ service' = "sent"

\* seeded fault: a request that comes while the last is unanswered is dropped
Send_Drops ==
  /\ service = "idle" /\ queue # <<>> /\ queue' = Tail(queue)
  /\ IF rx = "reading" \/ line # <<>> THEN UNCHANGED <<line, buffer, service>> ELSE Transmit
  /\ UNCHANGED <<settings, web, rx, monitor, registers, plugged, wired, saves, faults, history>>
Send ==
  /\ service = "idle" /\ queue # <<>> /\ queue' = Tail(queue)
  /\ IF rx = "reading" THEN UNCHANGED <<line, buffer, service>> ELSE Transmit
  /\ UNCHANGED <<settings, web, rx, monitor, registers, plugged, wired, saves, faults, history>>

(* A receiver that has not yet looped misses the notification.             *)
NotifyReceiver ==
  /\ service = "sent" /\ service' = "waiting"
  /\ rx' = IF rx = "wait" THEN "ready" ELSE rx
  /\ (rx = "wait" /\ UNCHANGED <<faults, late>>) \/ (rx # "wait" /\ Fault /\ late' = TRUE)
  /\ UNCHANGED <<settings, web, queue, monitor, bus, saves, wanted, unwritten>>

\* seeded fault: the sender does not wait for the receiver to end
WaitTimesOut_Short ==
  /\ service = "waiting" /\ service' = "idle"
  /\ UNCHANGED <<settings, web, queue, rx, monitor, bus, saves, faults, history>>
(* Two seconds pass only when rs485_rx was not woken: it ends in less.     *)
WaitTimesOut ==
  /\ service = "waiting" /\ rx = "wait" /\ service' = "idle"
  /\ UNCHANGED <<settings, web, queue, rx, monitor, bus, saves, faults, history>>

-----------------------------------------------------------------------------
(* The device answers a request for its address, and 248 is everybody's.   *)
(* It may be silent, answer late or be heard wrongly.                      *)
Reply(r, fresh, intact) ==
  [op |-> r.op, address |-> r.address, fresh |-> fresh, intact |-> intact,
   range |-> registers["range"]]

Answers(r) ==
  /\ plugged /\ r.address \in {OwnAddress, 248}
  /\ r.op \in IF wired = "DIYBMS" THEN {"read", "write"}
              ELSE {"params", "values", "address", "write"}

Answer ==
  /\ line # <<>>
  /\ LET r == Head(line).request
         fresh == Head(line).fresh
     IN
       \/ /\ Answers(r)
          /\ registers' = IF IsWrite(r)
                          THEN [f \in Fields |-> IF f \in DOMAIN r.data THEN r.data[f]
                                                 ELSE registers[f]]
                          ELSE registers
          /\ UNCHANGED unwritten
          /\ \/ buffer' = Append(buffer, Reply(r, fresh, TRUE)) /\ UNCHANGED faults
             \/ Fault /\ buffer' = Append(buffer, Reply(r, fresh, FALSE))
       \/ /\ (~Answers(r) /\ UNCHANGED faults) \/ Fault
          /\ unwritten' = (unwritten \/ IsWrite(r))
          /\ UNCHANGED <<buffer, registers>>
  /\ line' = Tail(line)
  /\ UNCHANGED <<settings, web, queue, service, rx, monitor, plugged, wired, saves, wanted, late>>

Unplug ==
  /\ plugged /\ Fault /\ plugged' = FALSE
  /\ UNCHANGED <<settings, web, queue, service, rx, monitor, line, buffer, registers, wired, saves,
                 history>>

-----------------------------------------------------------------------------
(* rs485_rx. *)
BeginRead ==
  /\ rx = "ready" /\ rx' = "reading"
  /\ UNCHANGED <<settings, web, queue, service, monitor, bus, saves, faults, history>>

(* One intact answer is decoded by the settings of the moment; several in  *)
(* a row, like a damaged one, are a CRC error and change nothing.          *)
Decoded(reply) ==
  IF reply.address # address THEN monitor
  ELSE IF device = "DIYBMS" /\ reply.op = "read"
       THEN [monitor EXCEPT !.valid = TRUE, !.range = reply.range]
  ELSE IF device = "DIYBMS" /\ reply.op = "params"      \* not as long as it should be
       THEN [monitor EXCEPT !.valid = FALSE, !.shunt = FALSE]
  ELSE IF device = "PZEM" /\ reply.op \in {"params", "read"}
       THEN [monitor EXCEPT !.shunt = TRUE]
  ELSE IF device = "PZEM" /\ reply.op = "values"
       THEN [monitor EXCEPT !.valid = TRUE]
  ELSE monitor

\* the device answers in time, or this is a fault
InTime == (line = <<>> /\ UNCHANGED <<faults, late>>) \/ (line # <<>> /\ Fault /\ late' = TRUE)

\* seeded fault: a short packet leaves the readings alone
EndRead_KeepsValid ==
  /\ rx = "reading" /\ rx' = "done" /\ InTime
  /\ monitor' = IF Len(buffer) = 1 /\ buffer[1].intact THEN Decoded(buffer[1]) ELSE monitor
  /\ buffer' = <<>>
  /\ UNCHANGED <<settings, web, queue, service, line, registers, plugged, wired, saves, wanted,
                 unwritten>>
EndRead ==
  /\ rx = "reading" /\ rx' = "done" /\ InTime
  /\ monitor' = IF buffer = <<>> THEN [monitor EXCEPT !.valid = FALSE]
                ELSE IF Len(buffer) = 1 /\ buffer[1].intact THEN Decoded(buffer[1])
                ELSE monitor
  /\ buffer' = <<>>
  /\ UNCHANGED <<settings, web, queue, service, line, registers, plugged, wired, saves, wanted,
                 unwritten>>

NotifyService ==
  /\ rx = "done" /\ rx' = "loops"
  /\ service' = IF service = "waiting" THEN "idle" ELSE service
  /\ UNCHANGED <<settings, web, queue, monitor, bus, saves, faults, history>>

Loop ==
  /\ rx = "loops" /\ rx' = "wait"
  /\ UNCHANGED <<settings, web, queue, service, monitor, bus, saves, faults, history>>

Next ==
  \/ Poll \/ SaveCurrentMonBasic \/ SetDeviceAddress \/ SetShuntType
  \/ SaveCurrentMonRelay \/ SaveCurrentMonAdvanced \/ SaveCurrentMonSettings
  \/ SaveRS485Settings \/ ConfigureRS485
  \/ Send \/ NotifyReceiver \/ WaitTimesOut
  \/ Answer \/ Unplug
  \/ BeginRead \/ EndRead \/ NotifyService \/ Loop

(* The tasks run, and the device answers or stays silent.                  *)
Fairness ==
  /\ WF_vars(Poll) /\ WF_vars(Send) /\ WF_vars(NotifyReceiver) /\ WF_vars(WaitTimesOut)
  /\ WF_vars(Answer) /\ WF_vars(ConfigureRS485)
  /\ WF_vars(BeginRead) /\ WF_vars(EndRead) /\ WF_vars(NotifyService) /\ WF_vars(Loop)

Spec == Init /\ [][Next]_vars /\ Fairness

-----------------------------------------------------------------------------
(* The sender puts no request on the bus while the receiver reads: they    *)
(* agree through notifications that can be lost and a time-out.            *)
OneRequestAtATime == rx \in {"ready", "reading"} => service = "waiting"

(* A reading that becomes valid answers the request that was sent last,    *)
(* unless an answer came after the receiver had given up or a notification *)
(* was lost on it: the buffer is not emptied before a request is sent.     *)
AnswerToTheRequest ==
  [][EndRead /\ Len(buffer) = 1 /\ buffer[1].intact /\ ~late => buffer[1].fresh]_vars

(* When nothing is under way the device has what the user saved last,      *)
(* unless a write was lost on the bus or by a restart.  None is dropped    *)
(* for want of the mutex.                                                  *)
SavesReachDevice ==
  queue = <<>> /\ line = <<>> /\ ~unwritten
    => \A f \in UserFields : registers[f] = wanted[f]

(* The readings of a device that no longer answers become invalid.         *)
SilenceIsNoticed == enabled /\ ~plugged ~> ~monitor.valid \/ ~enabled
=============================================================================
