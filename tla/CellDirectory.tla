---------------------------- MODULE CellDirectory ----------------------------
(***************************************************************************)
(* What the controller knows of its cells: the cmi[] array, filled by the  *)
(* replies to voltage and settings requests, changed by the web pages, and *)
(* read by the rules that let the controller leave its Stabilizing state.  *)
(*                                                                         *)
(* The string of modules is the lossy first-in first-out link that         *)
(* PacketChain implements: all modules execute a request in one step.      *)
(* Tasks run concurrently; each statement group that another task can see  *)
(* half done is an action of its own.                                      *)
(***************************************************************************)
EXTENDS Integers, Sequences

CONSTANTS
  Count,        \* TotalNumberOfCells()
  Thresholds,   \* bypass thresholds a user or the factory may choose
  RequestQueue, \* capacity of requestQueue (30)
  ReplyQueue,   \* bound on the replies on their way
  Pages,        \* settings pages used: "module", "global"
  MaxSaves,     \* bound on the settings saved
  MaxLosses     \* bound on the packets lost

ASSUME DirectoryAssumption ==
  /\ Count \in Nat \ {0}
  /\ Thresholds \subseteq Nat \ {0} /\ Thresholds # {}
  /\ RequestQueue \in Nat \ {0} /\ ReplyQueue \in Nat \ {0}
  /\ Pages \subseteq {"module", "global"}
  /\ MaxSaves \in Nat /\ MaxLosses \in Nat

Cells == 0 .. Count - 1

VARIABLES
  config,    \* each module's CellModuleConfig
  measured,  \* modules whose raw_adc_voltage is not zero
  valid, cached, volts,  \* CellModuleInfo: valid, settingsCached, voltagemV # 0
  copy,      \* CellModuleInfo: BypassConfigThresholdmV, 0 before any settings reply
  global,    \* the value saved on the global settings page, 0 if none
  requests, replies,
  lazy,      \* lazy_tasks: the module looked at, a request waiting for room
  rules,     \* ProcessRules: the next cell, the counts of invalid and zero-volt cells
  state, bmsError,
  web,       \* the web server's progress through a save
  bounds     \* settings saved, packets lost

modules == <<config, measured>>
cmi == <<valid, cached, volts, copy>>
queues == <<requests, replies>>
outcome == <<state, bmsError>>
vars == <<modules, cmi, global, queues, lazy, rules, outcome, web, bounds>>

Raw == Thresholds \cup {0}
Idle == [at |-> "idle", cell |-> 0, value |-> 0]

TypeOK ==
  /\ config \in [Cells -> Thresholds] /\ measured \subseteq Cells
  /\ valid \subseteq Cells /\ cached \subseteq Cells /\ volts \subseteq Cells
  /\ copy \in [Cells -> Raw] /\ global \in Raw
  /\ Len(requests) <= RequestQueue /\ Len(replies) <= ReplyQueue
  /\ lazy \in [cell : Cells, waiting : BOOLEAN]
  /\ rules \in [cell : 0 .. Count, invalid : 0 .. Count, zero : 0 .. Count]
  /\ state \in {"Stabilizing", "Running"} /\ bmsError \in BOOLEAN
  /\ web \in [at : {"idle", "push", "invalidate", "clear", "push all", "overwrite"},
              cell : Cells, value : Raw]

Init ==
  /\ config \in [Cells -> Thresholds] /\ measured = {}
  /\ valid = {} /\ cached = {} /\ volts = {}
  /\ copy = [c \in Cells |-> 0] /\ global = 0
  /\ requests = <<>> /\ replies = <<>>
  /\ lazy = [cell |-> 0, waiting |-> FALSE]
  /\ rules = [cell |-> 0, invalid |-> 0, zero |-> 0]
  /\ state = "Stabilizing" /\ bmsError = FALSE
  /\ web = Idle
  /\ bounds = [saves |-> 0, losses |-> 0]

Room == Len(requests) < RequestQueue
Push(kind, cell, value) ==
  Room /\ requests' = Append(requests, [kind |-> kind, cell |-> cell, value |-> value])

-----------------------------------------------------------------------------
(* The controller's tasks. *)

\* enqueue_task; the other readings do not touch what is modelled here
EnqueueVoltage ==
  /\ Push("voltage", 0, 0)
  /\ UNCHANGED <<modules, cmi, global, replies, lazy, rules, outcome, web, bounds>>

NextModule == (lazy.cell + 1) % Count

\* lazy_tasks, task 2
LazyLook ==
  /\ ~lazy.waiting
  /\ lazy' = IF lazy.cell \in valid \ cached
             THEN [lazy EXCEPT !.waiting = TRUE]
             ELSE [lazy EXCEPT !.cell = NextModule]
  /\ UNCHANGED <<modules, cmi, global, queues, rules, outcome, web, bounds>>

LazyRequest ==
  /\ lazy.waiting
  /\ Push("settings", lazy.cell, 0)
  /\ lazy' = [cell |-> NextModule, waiting |-> FALSE]
  /\ UNCHANGED <<modules, cmi, global, replies, rules, outcome, web, bounds>>

(* ProcessRules: one cell after the other, then the decision. *)
RulesProcessCell ==
  /\ rules.cell < Count
  /\ rules' = [cell |-> rules.cell + 1,
               invalid |-> rules.invalid + (IF rules.cell \in valid THEN 0 ELSE 1),
               zero |-> rules.zero + (IF rules.cell \in valid \ volts THEN 1 ELSE 0)]
  /\ UNCHANGED <<modules, cmi, global, queues, lazy, outcome, web, bounds>>

RulesDecide ==
  /\ rules.cell = Count
  /\ bmsError' = (state = "Running" /\ rules.zero > 0)
  /\ state' = IF rules.zero = 0 /\ rules.invalid = 0 THEN "Running" ELSE state
  /\ rules' = [cell |-> 0, invalid |-> 0, zero |-> 0]
  /\ UNCHANGED <<modules, cmi, global, queues, lazy, web, bounds>>

(* ProcessReplyVoltage: the voltage is zero as long as the module has none   *)
(* or the controller lacks the factors of a settings reply (RawTomV).        *)

\* seeded faults: raw readings without factors count; the mark is not set
ProcessVoltage_AnyReading(p) ==
  /\ volts' = p.measured
  /\ valid' = valid \cup p.measured
  /\ UNCHANGED <<cached, copy>>
ProcessVoltage_NotMarked(p) ==
  /\ volts' = {c \in p.measured : copy[c] # 0}
  /\ UNCHANGED <<valid, cached, copy>>

ProcessVoltage(p) ==
  LET known == {c \in p.measured : copy[c] # 0}
  IN  /\ volts' = known
      /\ valid' = valid \cup known
      /\ UNCHANGED <<cached, copy>>

\* seeded fault: the mark is not set
ProcessSettings_NotMarked(p) ==
  /\ copy' = [copy EXCEPT ![p.cell] = p.value]
  /\ UNCHANGED <<valid, cached, volts>>

\* ProcessReplySettings
ProcessSettings(p) ==
  /\ copy' = [copy EXCEPT ![p.cell] = p.value]
  /\ cached' = cached \cup {p.cell}
  /\ UNCHANGED <<valid, volts>>

ProcessReply ==
  /\ replies # <<>>
  /\ LET p == Head(replies) IN
       \/ p.kind = "voltage" /\ ProcessVoltage(p)
       \/ p.kind = "settings" /\ ProcessSettings(p)
  /\ replies' = Tail(replies)
  /\ UNCHANGED <<modules, global, requests, lazy, rules, outcome, web, bounds>>

-----------------------------------------------------------------------------
(* The modules. *)

\* onPacketReceived, WriteSettings: a zero leaves the setting alone
Written(p) ==
  IF p.value = 0 THEN config ELSE [config EXCEPT ![p.cell] = p.value]

Reply(p) ==
  [kind |-> p.kind, cell |-> p.cell,
   value |-> IF p.kind = "settings" THEN config[p.cell] ELSE 0,
   measured |-> IF p.kind = "voltage" THEN measured ELSE {}]

Execute ==
  /\ requests # <<>>
  /\ LET p == Head(requests) IN
       \/ /\ p.kind = "write"
          /\ config' = Written(p)
          /\ UNCHANGED replies    \* the controller ignores it
       \/ /\ p.kind # "write"
          /\ Len(replies) < ReplyQueue
          /\ replies' = Append(replies, Reply(p))
          /\ UNCHANGED config
  /\ requests' = Tail(requests)
  /\ UNCHANGED <<measured, cmi, global, lazy, rules, outcome, web, bounds>>

\* the first loop() of a module samples its voltage
Measure(c) ==
  /\ c \notin measured
  /\ measured' = measured \cup {c}
  /\ UNCHANGED <<config, cmi, global, queues, lazy, rules, outcome, web, bounds>>

Lose ==
  /\ bounds.losses < MaxLosses
  /\ bounds' = [bounds EXCEPT !.losses = @ + 1]
  /\ \/ requests # <<>> /\ requests' = Tail(requests) /\ UNCHANGED replies
     \/ replies # <<>> /\ replies' = Tail(replies) /\ UNCHANGED requests
  /\ UNCHANGED <<modules, cmi, global, lazy, rules, outcome, web>>

-----------------------------------------------------------------------------
(* The web server. *)

\* DIYBMSServer::modules, a page that shows a module's settings; the server
\* handles one request after the other
ViewModule(c) ==
  /\ web = Idle
  /\ c \notin cached
  /\ Push("settings", c, 0)
  /\ UNCHANGED <<modules, cmi, global, replies, lazy, rules, outcome, web, bounds>>

MaySave(page) ==
  /\ page \in Pages
  /\ web = Idle
  /\ bounds.saves < MaxSaves
  /\ bounds' = [bounds EXCEPT !.saves = @ + 1]

\* mVToRaw gives zero without the factors of a settings reply
SaveSetting(c, v) ==
  /\ MaySave("module")
  /\ cached' = cached \ {c}
  /\ web' = [at |-> "push", cell |-> c, value |-> IF copy[c] = 0 THEN 0 ELSE v]
  /\ UNCHANGED <<modules, valid, volts, copy, global, queues, lazy, rules, outcome>>

\* sendSaveGlobalSetting: what is sent is the old value of cell 0, the only
\* module a broadcast reaches
SaveGlobal(v) ==
  /\ MaySave("global")
  /\ global' = v
  /\ cached' = {}
  /\ web' = [at |-> "push all", cell |-> 0, value |-> copy[0]]
  /\ UNCHANGED <<modules, valid, volts, copy, queues, lazy, rules, outcome>>

PushSettings(at, pushed, full) ==
  /\ web.at = at
  /\ \/ Push("write", web.cell, web.value) /\ web' = pushed
     \/ ~Room /\ UNCHANGED requests /\ web' = full
  /\ UNCHANGED <<modules, cmi, global, replies, lazy, rules, outcome, bounds>>

PushSetting ==
  LET next == [web EXCEPT !.at = "invalidate"] IN PushSettings("push", next, next)

PushGlobal == PushSettings("push all", [web EXCEPT !.at = "overwrite"], Idle)

\* clearModuleValues
Invalidate ==
  /\ web.at = "invalidate"
  /\ valid' = valid \ {web.cell}
  /\ web' = [web EXCEPT !.at = "clear"]
  /\ UNCHANGED <<modules, cached, volts, copy, global, queues, lazy, rules, outcome, bounds>>

ClearVoltage ==
  /\ web.at = "clear"
  /\ volts' = volts \ {web.cell}
  /\ web' = Idle
  /\ UNCHANGED <<modules, valid, cached, copy, global, queues, lazy, rules, outcome, bounds>>

\* saveGlobalSetting
Overwrite ==
  /\ web.at = "overwrite"
  /\ copy' = [c \in Cells |-> IF c \in valid THEN global ELSE copy[c]]
  /\ web' = Idle
  /\ UNCHANGED <<modules, valid, cached, volts, global, queues, lazy, rules, outcome, bounds>>

Save == PushSetting \/ PushGlobal \/ Invalidate \/ ClearVoltage \/ Overwrite
User == \E c \in Cells : ViewModule(c) \/ \E v \in Thresholds : SaveSetting(c, v) \/ SaveGlobal(v)

Next ==
  \/ EnqueueVoltage \/ LazyLook \/ LazyRequest \/ RulesProcessCell \/ RulesDecide
  \/ ProcessReply \/ Execute \/ Lose \/ Save \/ User
  \/ \E c \in Cells : Measure(c)

Spec == Init /\ [][Next]_vars

(* The tasks run for ever and the modules answer; a task that retries its    *)
(* push gets a place in the queue that is emptied all the time.              *)
Fairness ==
  /\ SF_vars(EnqueueVoltage) /\ SF_vars(LazyRequest) /\ WF_vars(LazyLook)
  /\ WF_vars(RulesProcessCell) /\ WF_vars(RulesDecide)
  /\ WF_vars(ProcessReply) /\ WF_vars(Execute) /\ WF_vars(Save)
  /\ \A c \in Cells : WF_vars(Measure(c))

FairSpec == Spec /\ Fairness
-----------------------------------------------------------------------------
(* Properties. *)

(* "Every module has been read and they all returned a voltage"              *)
(* (ESP32 main.cpp:1135): however the scan of ProcessRules interleaves with  *)
(* the replies and the web pages, the controller leaves Stabilizing only     *)
(* with the settings and a voltage of every module, and never displays a     *)
(* cell as valid, or its settings as cached, without the factors that turn   *)
(* its readings into millivolts.                                             *)
AnsweredBeforeRunning ==
  /\ \A c \in valid \cup cached : copy[c] # 0
  /\ state = "Running" => measured = Cells /\ \A c \in Cells : copy[c] # 0

(* "Force refresh of settings" (PacketRequestGenerator.cpp:18): once the     *)
(* settings of a module were ever known, every save is followed by a new     *)
(* request until they are cached again.                                      *)
SettingsRefreshed == \A c \in Cells : copy[c] # 0 ~> c \in cached

(* When a user has looked at the settings of every module, the controller    *)
(* gets to its Running state.                                                *)
StartsUp == (\A c \in Cells : copy[c] # 0) ~> state = "Running"
=============================================================================
