--------------------------- MODULE DirectoryProofs ---------------------------
(* Proofs about CellDirectory for any number of modules, capacities of the   *)
(* queues, thresholds, saves and losses.                                     *)
EXTENDS CellDirectory, TLAPS

Request == [kind : {"voltage", "settings", "write"}, cell : Cells, value : Raw]
Answer == [kind : {"voltage", "settings"}, cell : Cells, value : Raw, measured : SUBSET Cells]

(* TypeOK, what is on its way and the counts of a scan.                      *)
TypeInv ==
  /\ TypeOK
  /\ requests \in Seq(Request) /\ replies \in Seq(Answer)
  /\ rules.invalid <= rules.cell /\ rules.zero <= rules.cell

-----------------------------------------------------------------------------
(* The scan goes on from the last cell to the first.                       *)
LEMMA NextInRange == \A c \in Cells : (c + 1) % Count \in Cells
  BY DirectoryAssumption DEF Cells

(* What follows of the constants from the assumption.                      *)
LEMMA Constants ==
  /\ 0 \in Cells /\ 0 \in 0 .. Count /\ 0 \in Raw /\ Thresholds \subseteq Raw
  /\ Count \in Nat /\ RequestQueue \in Nat /\ ReplyQueue \in Nat
  BY DirectoryAssumption DEF Cells, Raw

(* A push, also one that finds the queue full, keeps the types.            *)
LEMMA PushKeepsType ==
  ASSUME NEW kind \in {"voltage", "settings", "write"}, NEW c \in Cells, NEW v \in Raw,
         Push(kind, c, v), requests \in Seq(Request)
  PROVE  requests' \in Seq(Request) /\ Len(requests') <= RequestQueue
  BY Constants DEF Push, Room, Request

(* The parts of a sequence that is not empty.                              *)
LEMMA HeadTail ==
  ASSUME NEW S, NEW s \in Seq(S), s # <<>>
  PROVE  Head(s) \in S /\ Tail(s) \in Seq(S) /\ Len(Tail(s)) <= Len(s)
  OBVIOUS

(* The initial states have the types.                                      *)
LEMMA TypeInit == Init => TypeInv
<1> SUFFICES ASSUME Init PROVE TypeInv
  OBVIOUS
<1>1. /\ config \in [Cells -> Thresholds] /\ measured \subseteq Cells
      /\ valid \subseteq Cells /\ cached \subseteq Cells /\ volts \subseteq Cells
      /\ copy \in [Cells -> Raw] /\ global \in Raw
  BY Constants DEF Init
<1>2. /\ Len(requests) <= RequestQueue /\ Len(replies) <= ReplyQueue
      /\ requests \in Seq(Request) /\ replies \in Seq(Answer)
  BY Constants DEF Init
<1>3. /\ lazy \in [cell : Cells, waiting : BOOLEAN]
      /\ rules \in [cell : 0 .. Count, invalid : 0 .. Count, zero : 0 .. Count]
      /\ rules.invalid <= rules.cell /\ rules.zero <= rules.cell
  BY Constants DEF Init
<1>4. /\ state \in {"Stabilizing", "Running"} /\ bmsError \in BOOLEAN
      /\ web \in [at : {"idle", "push", "invalidate", "clear", "push all", "overwrite"},
                  cell : Cells, value : Raw]
  BY Constants DEF Init, Idle
<1> QED BY <1>1, <1>2, <1>3, <1>4 DEF TypeInv, TypeOK

(* Every step keeps the types.                                             *)
LEMMA TypeStep == TypeInv /\ [Next]_vars => TypeInv'
<1> SUFFICES ASSUME TypeInv, [Next]_vars PROVE TypeInv'
  OBVIOUS
<1> USE Constants DEF TypeInv, TypeOK
<1>1. CASE EnqueueVoltage
  BY <1>1, PushKeepsType DEF EnqueueVoltage, modules, cmi, outcome
<1>2. CASE LazyLook
  <2>1. NextModule \in Cells
    BY NextInRange DEF NextModule
  <2>2. lazy' \in [cell : Cells, waiting : BOOLEAN]
    BY <1>2, <2>1 DEF LazyLook
  <2> QED BY <1>2, <2>2 DEF LazyLook, modules, cmi, queues, outcome
<1>3. CASE LazyRequest
  <2>1. lazy.cell \in Cells /\ NextModule \in Cells
    BY NextInRange DEF NextModule
  <2>2. requests' \in Seq(Request) /\ Len(requests') <= RequestQueue
    BY <1>3, <2>1, PushKeepsType DEF LazyRequest
  <2> QED BY <1>3, <2>1, <2>2 DEF LazyRequest, modules, cmi, outcome
<1>4. CASE RulesProcessCell
  <2> DEFINE i == IF rules.cell \in valid THEN 0 ELSE 1
             z == IF rules.cell \in valid \ volts THEN 1 ELSE 0
  <2>1. i \in {0, 1} /\ z \in {0, 1}
    OBVIOUS
  <2>2. rules' = [cell |-> rules.cell + 1, invalid |-> rules.invalid + i, zero |-> rules.zero + z]
    BY <1>4 DEF RulesProcessCell
  <2>0. rules.cell \in 0 .. Count - 1 /\ rules.invalid \in 0 .. rules.cell
        /\ rules.zero \in 0 .. rules.cell
    <3>1. rules \in [cell : 0 .. Count, invalid : 0 .. Count, zero : 0 .. Count]
          /\ rules.invalid <= rules.cell /\ rules.zero <= rules.cell
      OBVIOUS
    <3>2. rules.cell < Count
      BY <1>4 DEF RulesProcessCell
    <3> HIDE DEF TypeInv, TypeOK
    <3> QED BY <3>1, <3>2
  <2> HIDE DEF i, z, TypeInv, TypeOK
  <2>3. rules' \in [cell : 0 .. Count, invalid : 0 .. Count, zero : 0 .. Count]
        /\ rules'.invalid <= rules'.cell /\ rules'.zero <= rules'.cell
    BY <2>0, <2>1, <2>2
  <2> QED BY <1>4, <2>3 DEF RulesProcessCell, TypeInv, TypeOK, modules, cmi, queues, outcome
<1>5. CASE RulesDecide
  <2>1. bmsError' \in BOOLEAN
    <3>1. bmsError' = (state = "Running" /\ rules.zero > 0)
      BY <1>5 DEF RulesDecide
    <3> QED BY <3>1, Zenon
  <2>2. rules' \in [cell : 0 .. Count, invalid : 0 .. Count, zero : 0 .. Count]
        /\ rules'.invalid <= rules'.cell /\ rules'.zero <= rules'.cell
    <3> HIDE DEF TypeInv, TypeOK
    <3> QED BY <1>5 DEF RulesDecide
  <2>3. state' \in {"Stabilizing", "Running"}
    BY <1>5 DEF RulesDecide
  <2> QED BY <1>5, <2>1, <2>2, <2>3 DEF RulesDecide, modules, cmi, queues
<1>6. CASE ProcessReply
  <2>1. Head(replies) \in Answer /\ Tail(replies) \in Seq(Answer)
        /\ Len(Tail(replies)) <= ReplyQueue
    <3>1. replies # <<>> /\ replies \in Seq(Answer) /\ Len(replies) <= ReplyQueue
      BY <1>6 DEF ProcessReply
    <3> HIDE DEF TypeInv, TypeOK
    <3> QED BY <3>1
  <2>2. valid' \subseteq Cells /\ cached' \subseteq Cells /\ volts' \subseteq Cells
        /\ copy' \in [Cells -> Raw]
    BY <1>6, <2>1 DEF ProcessReply, ProcessVoltage, ProcessSettings, Answer
  <2> QED BY <1>6, <2>1, <2>2 DEF ProcessReply, modules, outcome
<1>7. CASE Execute
  <2>1. Head(requests) \in Request /\ Tail(requests) \in Seq(Request)
        /\ Len(Tail(requests)) <= RequestQueue
    <3>1. requests # <<>> /\ requests \in Seq(Request) /\ Len(requests) <= RequestQueue
      BY <1>7 DEF Execute
    <3> HIDE DEF TypeInv, TypeOK
    <3> QED BY <3>1
  <2>2. config' \in [Cells -> Thresholds]
    BY <1>7, <2>1 DEF Execute, Written, Request, Raw
  <2>3. replies' \in Seq(Answer) /\ Len(replies') <= ReplyQueue
    <3> DEFINE p == Head(requests)
    <3>1. ASSUME p.kind # "write" PROVE Reply(p) \in Answer
      <4>1. config[p.cell] \in Raw /\ p.cell \in Cells /\ p.kind \in {"voltage", "settings"}
        BY <2>1, <3>1 DEF Request
      <4> QED BY <4>1 DEF Reply, Answer
    <3>2. CASE p.kind = "write"
      BY <1>7, <3>2 DEF Execute
    <3>3. CASE p.kind # "write"
      <4>1. replies' = Append(replies, Reply(p)) /\ Len(replies) < ReplyQueue
        BY <1>7, <3>3 DEF Execute
      <4>2. replies \in Seq(Answer) /\ Reply(p) \in Answer
        BY <3>1, <3>3
      <4> HIDE DEF p, TypeInv, TypeOK
      <4> QED BY <4>1, <4>2
    <3> QED BY <3>2, <3>3
  <2> QED BY <1>7, <2>1, <2>2, <2>3 DEF Execute, cmi, outcome
<1>8. CASE Lose
  <2>1. requests \in Seq(Request) /\ Len(requests) <= RequestQueue
        /\ replies \in Seq(Answer) /\ Len(replies) <= ReplyQueue
    OBVIOUS
  <2>2. /\ requests' \in Seq(Request) /\ Len(requests') <= RequestQueue
        /\ replies' \in Seq(Answer) /\ Len(replies') <= ReplyQueue
    <3> HIDE DEF TypeInv, TypeOK
    <3>1. CASE requests # <<>> /\ requests' = Tail(requests) /\ UNCHANGED replies
      BY <2>1, <3>1, HeadTail
    <3>2. CASE replies # <<>> /\ replies' = Tail(replies) /\ UNCHANGED requests
      BY <2>1, <3>2, HeadTail
    <3> QED BY <1>8, <3>1, <3>2 DEF Lose
  <2> QED BY <1>8, <2>2 DEF Lose, modules, cmi, outcome
<1>9. CASE Save
  <2>1. CASE PushSetting \/ PushGlobal
    <3>1. web.cell \in Cells /\ web.value \in Raw
      OBVIOUS
    <3>2. requests' \in Seq(Request) /\ Len(requests') <= RequestQueue
      BY <2>1, <3>1, PushKeepsType DEF PushSetting, PushGlobal, PushSettings
    <3>3. web' \in [at : {"idle", "push", "invalidate", "clear", "push all", "overwrite"},
                    cell : Cells, value : Raw]
      <4>1. \/ web' = [web EXCEPT !.at = "invalidate"]
            \/ web' = [web EXCEPT !.at = "overwrite"]
            \/ web' = Idle
        BY <2>1 DEF PushSetting, PushGlobal, PushSettings
      <4>2. web \in [at : {"idle", "push", "invalidate", "clear", "push all", "overwrite"},
                     cell : Cells, value : Raw]
        OBVIOUS
      <4> HIDE DEF TypeInv, TypeOK
      <4>3. CASE web' = [web EXCEPT !.at = "invalidate"]
        BY <4>2, <4>3
      <4>4. CASE web' = [web EXCEPT !.at = "overwrite"]
        BY <4>2, <4>4
      <4>5. CASE web' = Idle
        BY <4>5 DEF Idle
      <4> QED BY <4>1, <4>3, <4>4, <4>5
    <3>4. UNCHANGED <<modules, cmi, global, replies, lazy, rules, outcome>>
      BY <2>1 DEF PushSetting, PushGlobal, PushSettings
    <3> QED BY <3>2, <3>3, <3>4 DEF modules, cmi, outcome
  <2>2. CASE Invalidate
    BY <2>2 DEF Invalidate, modules, queues, outcome
  <2>3. CASE ClearVoltage
    BY <2>3 DEF ClearVoltage, Idle, modules, queues, outcome
  <2>4. CASE Overwrite
    BY <2>4 DEF Overwrite, Idle, modules, queues, outcome
  <2> QED BY <1>9, <2>1, <2>2, <2>3, <2>4 DEF Save
<1>10. CASE User
  <2>1. ASSUME NEW c \in Cells, ViewModule(c) PROVE TypeInv'
    BY <2>1, PushKeepsType DEF ViewModule, modules, cmi, outcome
  <2>2. ASSUME NEW c \in Cells, NEW v \in Thresholds, SaveSetting(c, v) PROVE TypeInv'
    BY <2>2 DEF SaveSetting, modules, queues, outcome
  <2>3. ASSUME NEW v \in Thresholds, SaveGlobal(v) PROVE TypeInv'
    BY <2>3 DEF SaveGlobal, modules, queues, outcome
  <2> QED BY <1>10, <2>1, <2>2, <2>3 DEF User
<1>11. ASSUME NEW c \in Cells, Measure(c) PROVE TypeInv'
  BY <1>11 DEF Measure, cmi, queues, outcome
<1>12. CASE UNCHANGED vars
  BY <1>12 DEF vars, modules, cmi, queues, outcome
<1> QED
  BY <1>1, <1>2, <1>3, <1>4, <1>5, <1>6, <1>7, <1>8, <1>9, <1>10, <1>11, <1>12 DEF Next

(* The controller's picture of its cells is well-formed.                     *)
THEOREM TypeCorrect == Spec => []TypeOK
<1>1. TypeInv => TypeOK
  BY DEF TypeInv
<1> QED BY <1>1, TypeInit, TypeStep, PTL DEF Spec

-----------------------------------------------------------------------------
(* What a reply on its way tells was true when it was sent, and the cells    *)
(* that a scan has passed without an invalid one have answered.              *)
RepliesTrue ==
  \A k \in 1 .. Len(replies) :
    /\ replies[k].measured \subseteq measured
    /\ replies[k].kind = "settings" => replies[k].value # 0
SavesNonzero == web.at \in {"push all", "overwrite"} => global # 0
Answered(c) == c \in measured /\ copy[c] # 0
ScanTrue == \A c \in Cells : c < rules.cell /\ rules.invalid = 0 => Answered(c)

AnswerInv ==
  /\ RepliesTrue /\ SavesNonzero /\ ScanTrue
  /\ valid \subseteq measured
  /\ AnsweredBeforeRunning

(* At the start no cell has answered and no reply is on its way.           *)
LEMMA AnswerInit == Init => AnswerInv
  BY DEF Init, Idle, AnswerInv, RepliesTrue, SavesNonzero, ScanTrue, Answered, Cells,
     AnsweredBeforeRunning

(* A module that has answered stays so.                                      *)
LEMMA AnswersStay ==
  TypeInv /\ AnswerInv /\ [Next]_vars =>
    measured \subseteq measured' /\ \A c \in Cells : copy[c] # 0 => copy'[c] # 0
<1> SUFFICES ASSUME TypeInv, AnswerInv, [Next]_vars
             PROVE  measured \subseteq measured' /\ \A c \in Cells : copy[c] # 0 => copy'[c] # 0
  OBVIOUS
<1>1. CASE ProcessReply
  <2>1. Head(replies) = replies[1] /\ 1 \in 1 .. Len(replies)
    BY <1>1 DEF ProcessReply, TypeInv
  <2>2. Head(replies).kind = "settings" => Head(replies).value # 0
    BY <2>1 DEF AnswerInv, RepliesTrue
  <2>3. copy \in [Cells -> Raw]
    BY DEF TypeInv, TypeOK
  <2>4. measured' = measured
    BY <1>1 DEF ProcessReply, modules
  <2> QED BY <1>1, <2>2, <2>3, <2>4 DEF ProcessReply, ProcessVoltage, ProcessSettings
<1>2. CASE Overwrite
  <2>1. global # 0 /\ measured' = measured
    BY <1>2 DEF Overwrite, modules, AnswerInv, SavesNonzero
  <2> QED BY <1>2, <2>1 DEF Overwrite
<1>3. CASE ~ProcessReply /\ ~Overwrite
  BY <1>3 DEF Next, EnqueueVoltage, LazyLook, LazyRequest, RulesProcessCell, RulesDecide, Execute,
     Lose, Save, PushSetting, PushGlobal, PushSettings, Invalidate, ClearVoltage, User, ViewModule,
     SaveSetting, SaveGlobal, Measure, modules, cmi, vars
<1> QED BY <1>1, <1>2, <1>3

(* What is appended to the replies is true, what is taken away was.          *)
LEMMA RepliesStep == TypeInv /\ AnswerInv /\ [Next]_vars => RepliesTrue'
<1> SUFFICES ASSUME TypeInv, AnswerInv, [Next]_vars PROVE RepliesTrue'
  OBVIOUS
<1>0. measured \subseteq measured' /\ replies \in Seq(Answer) /\ RepliesTrue
  BY AnswersStay DEF TypeInv, AnswerInv
<1>1. CASE replies # <<>> /\ replies' = Tail(replies)
  BY <1>0, <1>1 DEF RepliesTrue
<1>2. CASE replies' = replies
  BY <1>0, <1>2 DEF RepliesTrue
<1>3. CASE requests # <<>> /\ replies' = Append(replies, Reply(Head(requests)))
  <2>1. Head(requests) \in Request /\ config \in [Cells -> Thresholds] /\ 0 \notin Thresholds
    BY <1>3, HeadTail, DirectoryAssumption DEF TypeInv, TypeOK
  <2> DEFINE a == Reply(Head(requests))
  <2>2. a.measured \subseteq measured' /\ (a.kind = "settings" => a.value # 0)
    BY <1>0, <2>1 DEF Reply, Request
  <2> HIDE DEF a
  <2>4. Len(replies') = Len(replies) + 1 /\ replies'[Len(replies) + 1] = a
        /\ \A k \in 1 .. Len(replies) : replies'[k] = replies[k]
    BY <1>0, <1>3 DEF a
  <2>5. Len(replies) \in Nat /\ \A k \in 1 .. Len(replies) + 1 :
                                    k \in 1 .. Len(replies) \/ k = Len(replies) + 1
    BY <1>0
  <2> QED BY <1>0, <2>2, <2>4, <2>5 DEF RepliesTrue
<1>4. \/ replies # <<>> /\ replies' = Tail(replies)
      \/ replies' = replies
      \/ requests # <<>> /\ replies' = Append(replies, Reply(Head(requests)))
  BY DEF Next, EnqueueVoltage, LazyLook, LazyRequest, RulesProcessCell, RulesDecide, Execute,
     ProcessReply, Lose, Save, PushSetting, PushGlobal, PushSettings, Invalidate, ClearVoltage,
     Overwrite, User, ViewModule, SaveSetting, SaveGlobal, Measure, queues, vars
<1> QED BY <1>1, <1>2, <1>3, <1>4

(* A cell is marked only after its factors are known.                        *)
LEMMA MarksStep ==
  TypeInv /\ AnswerInv /\ [Next]_vars =>
    valid' \subseteq measured' /\ \A c \in (valid \cup cached)' : copy'[c] # 0
<1> SUFFICES ASSUME TypeInv, AnswerInv, [Next]_vars
             PROVE  valid' \subseteq measured' /\ \A c \in (valid \cup cached)' : copy'[c] # 0
  OBVIOUS
<1>0. /\ measured \subseteq measured' /\ \A c \in Cells : copy[c] # 0 => copy'[c] # 0
      /\ valid \subseteq measured /\ valid \subseteq Cells /\ cached \subseteq Cells
      /\ \A c \in valid \cup cached : copy[c] # 0
  BY AnswersStay DEF TypeInv, TypeOK, AnswerInv, AnsweredBeforeRunning
<1>1. CASE ProcessReply
  <2>1. Head(replies) = replies[1] /\ 1 \in 1 .. Len(replies) /\ Head(replies) \in Answer
    BY <1>1, HeadTail DEF ProcessReply, TypeInv
  <2>2. /\ Head(replies).kind = "settings" => Head(replies).value # 0
        /\ Head(replies).measured \subseteq measured
    BY <2>1 DEF AnswerInv, RepliesTrue
  <2>3. copy \in [Cells -> Raw]
    BY DEF TypeInv, TypeOK
  <2> QED
    BY <1>0, <1>1, <2>1, <2>2, <2>3 DEF ProcessReply, ProcessVoltage, ProcessSettings, Answer
<1>2. CASE ~ProcessReply
  <2>1. valid' \subseteq valid /\ cached' \subseteq cached
    BY <1>2 DEF Next, EnqueueVoltage, LazyLook, LazyRequest, RulesProcessCell, RulesDecide,
       Execute, Lose, Save, PushSetting, PushGlobal, PushSettings, Invalidate, ClearVoltage,
       Overwrite, User, ViewModule, SaveSetting, SaveGlobal, Measure, cmi, vars
  <2> QED BY <1>0, <2>1
<1> QED BY <1>1, <1>2

(* The scan counts an invalid cell, and a valid one has answered.            *)
LEMMA ScanStep ==
  TypeInv /\ AnswerInv /\ [Next]_vars =>
    /\ ScanTrue'
    /\ state' = "Running" => measured' = Cells /\ \A c \in Cells : copy'[c] # 0
<1> SUFFICES ASSUME TypeInv, AnswerInv, [Next]_vars
             PROVE  /\ ScanTrue'
                    /\ state' = "Running" => measured' = Cells /\ \A c \in Cells : copy'[c] # 0
  OBVIOUS
<1>0. /\ \A c \in Cells : Answered(c) => Answered(c)'
      /\ measured' \subseteq Cells
  BY AnswersStay, TypeStep DEF Answered, TypeInv, TypeOK
<1>1. /\ ScanTrue /\ \A c \in valid : Answered(c)
      /\ state = "Running" => \A c \in Cells : Answered(c)
  BY DEF AnswerInv, AnsweredBeforeRunning, Answered
<1>2. CASE RulesProcessCell
  <2>1. rules.cell \in Nat /\ rules.invalid \in Nat
    <3>1. rules \in [cell : 0 .. Count, invalid : 0 .. Count, zero : 0 .. Count]
      BY DEF TypeInv, TypeOK
    <3> QED BY <3>1, Constants
  <2>2. rules'.cell = rules.cell + 1 /\ state' = state
        /\ rules'.invalid = rules.invalid + (IF rules.cell \in valid THEN 0 ELSE 1)
    BY <1>2 DEF RulesProcessCell, outcome
  <2>3. \A c \in Cells : c < rules'.cell => c < rules.cell \/ c = rules.cell
    BY <2>1, <2>2, DirectoryAssumption DEF Cells
  <2>4. rules'.invalid = 0 => rules.invalid = 0 /\ rules.cell \in valid
    BY <2>1, <2>2
  <2> QED BY <1>0, <1>1, <2>2, <2>3, <2>4 DEF ScanTrue, Answered
<1>3. CASE RulesDecide
  <2>1. rules'.cell = 0 /\ \A c \in Cells : ~(c < 0) /\ c < Count
    BY <1>3, DirectoryAssumption DEF RulesDecide, Cells
  <2>2. state' = "Running" => state = "Running" \/ (rules.cell = Count /\ rules.invalid = 0)
    BY <1>3 DEF RulesDecide
  <2> QED BY <1>0, <1>1, <2>1, <2>2 DEF ScanTrue, Answered
<1>4. CASE ~RulesProcessCell /\ ~RulesDecide
  <2>1. rules' = rules /\ state' = state
    BY <1>4 DEF Next, EnqueueVoltage, LazyLook, LazyRequest, ProcessReply, Execute, Lose, Save,
       PushSetting, PushGlobal, PushSettings, Invalidate, ClearVoltage, Overwrite, User,
       ViewModule, SaveSetting, SaveGlobal, Measure, outcome, vars
  <2> QED BY <1>0, <1>1, <2>1 DEF ScanTrue, Answered
<1> QED BY <1>2, <1>3, <1>4

(* A page saves a threshold, never a zero.                                   *)
LEMMA SavesStep == TypeInv /\ AnswerInv /\ [Next]_vars => SavesNonzero'
<1> SUFFICES ASSUME TypeInv, AnswerInv, [Next]_vars PROVE SavesNonzero'
  OBVIOUS
<1>1. ASSUME NEW v \in Thresholds, SaveGlobal(v) PROVE SavesNonzero'
  BY <1>1, DirectoryAssumption DEF SaveGlobal, SavesNonzero
<1>2. CASE PushGlobal
  BY <1>2 DEF PushGlobal, PushSettings, Idle, AnswerInv, SavesNonzero
<1>3. CASE PushSetting
  <2>1. web'.at = "invalidate"
    BY <1>3 DEF PushSetting, PushSettings, TypeInv, TypeOK
  <2> QED BY <2>1 DEF SavesNonzero
<1>4. CASE Invalidate
  <2>1. web'.at = "clear"
    BY <1>4 DEF Invalidate, TypeInv, TypeOK
  <2> QED BY <2>1 DEF SavesNonzero
<1>5. CASE ~(\E v \in Thresholds : SaveGlobal(v)) /\ ~PushGlobal /\ ~PushSetting /\ ~Invalidate
  <2>1. (web' = web /\ global' = global) \/ web'.at \in {"idle", "push"}
    BY <1>5 DEF Next, EnqueueVoltage, LazyLook, LazyRequest, ProcessReply, RulesProcessCell,
       RulesDecide, Execute, Lose, Save, ClearVoltage, Overwrite, User, ViewModule, SaveSetting,
       Measure, Idle, vars
  <2> QED BY <2>1 DEF AnswerInv, SavesNonzero
<1> QED BY <1>1, <1>2, <1>3, <1>4, <1>5

(* The controller runs only with the settings and a voltage of every module. *)
THEOREM RunsWhenAnswered == Spec => []AnsweredBeforeRunning
<1>1. TypeInv /\ AnswerInv /\ [Next]_vars => AnswerInv'
  BY RepliesStep, MarksStep, ScanStep, SavesStep DEF AnswerInv, AnsweredBeforeRunning
<1>2. AnswerInv => AnsweredBeforeRunning
  BY DEF AnswerInv
<1> QED BY <1>1, <1>2, TypeInit, TypeStep, AnswerInit, PTL DEF Spec
=============================================================================
