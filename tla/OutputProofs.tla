----------------------------- MODULE OutputProofs -----------------------------
(* Proofs about the outputs of the controller: RelayControl for any number of *)
(* relays and rules and any configurations that are saved, PowerExpander for  *)
(* every number of moves and failures, Display for any numbers of banks.      *)
EXTENDS RelayControl, PowerExpander, Display, WellFoundedInduction, TLAPS

-----------------------------------------------------------------------------
(* The relays. *)

(* What is recorded of a relay: as the pass wants it, or still as the pass   *)
(* before, as long as this one has not come to it; a relay of another type   *)
(* is set anew.                                                              *)
Passed(r) == step \in {"idle", "test"} \/ r < relay
RecordInv ==
  /\ relay \in Nat /\ pins \in [Relay -> BOOLEAN] /\ faults \in Nat
  /\ previous = [r \in Relay |-> previous[r]]
  /\ step \in {"idle", "test", "set", "record"}
  /\ step = "record" => relay \in Relay
  /\ \A r \in Relay :
       \/ r \in retyped
       \/ previous[r] = IF Passed(r) THEN target[r] ELSE last[r]

(* A pulse relay defaults to off, the others to what was configured.       *)
LEMMA ForcedDefault ==
  ASSUME NEW c \in Configs
  PROVE  Forced(c).default =
           [r \in Relay |-> IF c.type[r] = "PULSE" THEN "OFF" ELSE c.default[r]]
  BY RelayAssumption DEF Forced

(* At the start every relay is recorded with its default.                  *)
LEMMA RecordInit == Init => RecordInv
<1> SUFFICES ASSUME Init PROVE RecordInv
  OBVIOUS
<1>1. config.default = [r \in Relay |-> config.default[r]]
  <2>1. PICK c \in Configs : config = Forced(c)
    BY DEF Init
  <2> QED BY <2>1, ForcedDefault
<1> QED BY <1>1 DEF Init, RecordInv, Passed

(* Writing one pin.                                                          *)
LEMMA PinSet ==
  ASSUME NEW r \in Relay, NEW on \in BOOLEAN, SetOutputState(r, on),
         pins \in [Relay -> BOOLEAN], faults \in Nat
  PROVE  /\ pins' \in [Relay -> BOOLEAN] /\ faults' \in Nat
         /\ faults' = 0 => faults = 0 /\ pins' = [pins EXCEPT ![r] = on]
<1>1. CASE pins' = [pins EXCEPT ![r] = on] /\ UNCHANGED faults
  BY <1>1
<1>2. CASE faults' = faults + 1 /\ \E garbage \in [Relay -> BOOLEAN] :
             pins' = [garbage EXCEPT ![r] = on]
  BY <1>2
<1>3. CASE faults' = faults + 1 /\ UNCHANGED pins
  BY <1>3
<1> QED BY <1>1, <1>2, <1>3 DEF SetOutputState

(* Without a fault nothing but the relay that is set is switched on.       *)
LEMMA OutputsStay ==
  ASSUME NEW r \in Relay, NEW on \in BOOLEAN, SetOutputState(r, on), RecordInv
  PROVE  /\ pins' \in [Relay -> BOOLEAN] /\ faults' \in Nat
         /\ faults' = 0 => \A q \in Relay : pins'[q] => pins[q] \/ (q = r /\ on)
  BY PinSet DEF RecordInv

(* Every step keeps the record of the relays.                              *)
LEMMA RecordStep == RecordInv /\ [Next]_vars => RecordInv'
<1> SUFFICES ASSUME RecordInv, [Next]_vars PROVE RecordInv'
  OBVIOUS
<1>1. CASE ProcessRules
  BY <1>1 DEF ProcessRules, RecordInv, Passed
<1>2. CASE TestRules
  BY <1>2, RelayAssumption DEF TestRules, RecordInv, Passed, Relay
<1>3. CASE SkipRelay
  BY <1>3 DEF SkipRelay, RecordInv, Passed, history, Relay
<1>4. CASE SetRelay
  <2>1. pins' \in [Relay -> BOOLEAN] /\ faults' \in Nat
    BY <1>4, OutputsStay DEF SetRelay
  <2> QED BY <1>4, <2>1 DEF SetRelay, RecordInv, Passed, history
<1>5. CASE RecordRelay
  <2>1. /\ step = "record" /\ step' = "set" /\ relay' = relay + 1 /\ retyped' = retyped \ {relay}
        /\ previous' = [previous EXCEPT ![relay] = target[relay]]
        /\ UNCHANGED <<pins, faults, target, last>>
    BY <1>5 DEF RecordRelay
  <2>2. relay \in Relay /\ relay \in Int
    BY <2>1 DEF RecordInv, Relay
  <2>3. \A r \in Relay : previous'[r] = IF r = relay THEN target[r] ELSE previous[r]
    BY <2>1, <2>2 DEF RecordInv
  <2>4. \A r \in Relay : r < relay' <=> r < relay \/ r = relay
    BY <2>1, <2>2 DEF Relay
  <2>5. previous' = [r \in Relay |-> previous'[r]]
    BY <2>1, <2>2 DEF RecordInv
  <2> QED BY <2>1, <2>2, <2>3, <2>4, <2>5 DEF RecordInv, Passed
<1>6. CASE EndPass
  BY <1>6, RelayAssumption DEF EndPass, RecordInv, Passed, history, Relay
<1>7. ASSUME NEW r \in Relay, PulseOff(r) PROVE RecordInv'
  <2>1. pins' \in [Relay -> BOOLEAN] /\ faults' \in Nat
    BY <1>7, OutputsStay DEF PulseOff
  <2> QED BY <1>7, <2>1 DEF PulseOff, RecordInv, Passed, rulesTask, history
<1>8. CASE PulseDone
  BY <1>8 DEF PulseDone, RecordInv, Passed, rulesTask, history
<1>9. CASE SaveRules
  <2>1. PICK c \in Configs :
          LET changed == {r \in Relay : config.type[r] # c.type[r]}
          IN  /\ config' = Forced(c)
              /\ previous' = [r \in Relay |-> IF r \in changed THEN "X" ELSE previous[r]]
              /\ retyped' = retyped \cup changed
    BY <1>9 DEF SaveRules
  <2> DEFINE changed == {r \in Relay : config.type[r] # c.type[r]}
  <2>2. /\ previous' = [r \in Relay |-> IF r \in changed THEN "X" ELSE previous[r]]
        /\ retyped' = retyped \cup changed
    BY <2>1
  <2> HIDE DEF changed
  <2> QED BY <1>9, <2>2 DEF SaveRules, RecordInv, Passed, rulesTask
<1>10. CASE UNCHANGED vars
  BY <1>10 DEF vars, RecordInv, Passed, rulesTask, history
<1> QED
  BY <1>1, <1>2, <1>3, <1>4, <1>5, <1>6, <1>7, <1>8, <1>9, <1>10
  DEF Next, RulesTask, PulseTask

(* A pulse is sent once for each change of the rules' minds.                 *)
THEOREM PulsesOnce == Spec => OnePulsePerTrigger
<1> DEFINE Begins(r) == config.type[r] = "PULSE" /\ ~pins[r] /\ pins'[r] /\ faults' = 0
           Once == \A r \in Relay : Begins(r) => last[r] # "ON" \/ r \in retyped
<1>1. RecordInv /\ [Next]_vars => [Once]_vars
  <2> SUFFICES ASSUME RecordInv, Next, NEW r \in Relay, Begins(r)
               PROVE  last[r] # "ON" \/ r \in retyped
    OBVIOUS
  <2>1. CASE SetRelay
    <3>1. r = relay /\ target[relay] = "ON"
      BY <2>1, OutputsStay DEF SetRelay
    <3>2. previous[r] # "ON" /\ ~Passed(r)
      BY <2>1, <3>1 DEF SetRelay, Passed, Relay
    <3> QED BY <3>2 DEF RecordInv
  <2>2. ASSUME NEW q \in Relay, PulseOff(q) PROVE FALSE
    BY <2>2, OutputsStay DEF PulseOff
  <2>3. CASE ~SetRelay /\ ~\E q \in Relay : PulseOff(q)
    BY <2>3 DEF Next, RulesTask, PulseTask, ProcessRules, TestRules, SkipRelay, RecordRelay,
       EndPass, PulseDone, SaveRules
  <2> QED BY <2>1, <2>2, <2>3
<1> QED BY <1>1, RecordInit, RecordStep, PTL DEF Spec, OnePulsePerTrigger

-----------------------------------------------------------------------------
(* What the rules want, and that the relays follow. *)

(* Every set of natural numbers that is not empty has a least element.       *)
LEMMA LeastNumber ==
  ASSUME NEW T \in SUBSET Nat, T # {} PROVE \E x \in T : \A y \in T : x <= y
<1> DEFINE Less == OpToRel(<, Nat)
<1>1. IsWellFoundedOn(Less, Nat)
  BY NatLessThanWellFounded
<1>2. \A x, y \in Nat : y < x => <<y, x>> \in Less
  BY DEF OpToRel
<1> HIDE DEF Less
<1>3. PICK x \in T : \A y \in T : ~ (<<y, x>> \in Less)
  BY <1>1, WFMin
<1>4. x \in Nat /\ \A y \in T : y \in Nat /\ ~(y < x)
  BY <1>2, <1>3
<1>5. \A y \in T : x <= y
  BY <1>4
<1> QED BY <1>5

(* The walk over the rules from the last to the first: f[n] is what the      *)
(* rules from n on decide, of which those in A do, c[n] each.                *)
Walk(f, A, c, d) ==
  f = [n \in 0 .. Rules |-> IF n = Rules THEN d ELSE IF n \in A THEN c[n] ELSE f[n + 1]]
First(S) == CHOOSE n \in S : \A k \in S : n <= k
From(A, n) == {k \in A : n <= k}

(* The least element of a set of numbers.                                    *)
LEMMA FirstIs ==
  ASSUME NEW S \in SUBSET Nat, NEW n \in S, \A k \in S : n <= k PROVE First(S) = n
<1>1. \E m \in S : \A k \in S : m <= k
  OBVIOUS
<1>2. First(S) \in S /\ \A k \in S : First(S) <= k
  BY <1>1, Zenon DEF First
<1>3. First(S) <= n /\ n <= First(S) /\ First(S) \in Nat /\ n \in Nat
  BY <1>2
<1> QED BY <1>3

(* Such a walk exists: from each rule on, the first one that decides wins.   *)
LEMMA WalkExists ==
  ASSUME NEW A \in SUBSET Rule, NEW c, NEW d
  PROVE  Walk([n \in 0 .. Rules |->
                 IF From(A, n) = {} THEN d ELSE c[First(From(A, n))]], A, c, d)
<1> DEFINE g == [n \in 0 .. Rules |-> IF From(A, n) = {} THEN d ELSE c[First(From(A, n))]]
<1>1. ASSUME NEW n \in 0 .. Rules
      PROVE  g[n] = IF n = Rules THEN d ELSE IF n \in A THEN c[n] ELSE g[n + 1]
  <2>1. Rules \in Nat /\ n \in Nat /\ n <= Rules /\ \A k \in A : k \in Nat /\ k < Rules
    BY RelayAssumption DEF Rule
  <2>2. CASE n = Rules
    BY <2>1, <2>2 DEF From
  <2>3. CASE n # Rules /\ n \in A
    <3>1. n \in From(A, n) /\ \A k \in From(A, n) : n <= k
      BY <2>1, <2>3 DEF From
    <3>2. From(A, n) \in SUBSET Nat
      BY <2>1 DEF From
    <3>3. First(From(A, n)) = n
      BY <3>1, <3>2, FirstIs
    <3> QED BY <2>3, <3>1, <3>3
  <2>4. CASE n # Rules /\ n \notin A
    <3>1. n + 1 \in 0 .. Rules
      BY <2>1, <2>4
    <3>2. \A k \in A : n <= k <=> n + 1 <= k
      BY <2>1, <2>4
    <3>3. From(A, n) = From(A, n + 1)
      BY <3>2 DEF From
    <3> QED BY <2>4, <3>1, <3>3
  <2> QED BY <2>2, <2>3, <2>4
<1>2. g = [n \in 0 .. Rules |-> g[n]]
  OBVIOUS
<1> HIDE DEF g
<1>3. Walk(g, A, c, d)
  BY <1>1, <1>2 DEF Walk
<1> QED BY <1>3 DEF g

(* There is one such walk.                                                   *)
LEMMA WalkUnique ==
  ASSUME NEW A \in SUBSET Rule, NEW c, NEW d, NEW f, NEW g, Walk(f, A, c, d), Walk(g, A, c, d)
  PROVE  f[0] = g[0]
<1> DEFINE Bad == {m \in 0 .. Rules : f[Rules - m] # g[Rules - m]}
<1>1. Rules \in Nat /\ Bad \in SUBSET Nat
  BY RelayAssumption
<1>2. ASSUME NEW n \in 0 .. Rules
      PROVE  /\ f[n] = IF n = Rules THEN d ELSE IF n \in A THEN c[n] ELSE f[n + 1]
             /\ g[n] = IF n = Rules THEN d ELSE IF n \in A THEN c[n] ELSE g[n + 1]
  BY DEF Walk
<1>3. ASSUME Bad # {} PROVE FALSE
  <2>1. PICK x \in Bad : \A y \in Bad : x <= y
    BY <1>1, <1>3, LeastNumber
  <2>2. /\ x \in 0 .. Rules /\ Rules - x \in 0 .. Rules /\ f[Rules - x] # g[Rules - x]
    BY <1>1, <2>1
  <2>3. Rules - x # Rules
    BY <1>2, <2>2
  <2>4. f[Rules - x + 1] # g[Rules - x + 1]
    BY <1>2, <2>2, <2>3
  <2>5. x - 1 \in 0 .. Rules /\ Rules - (x - 1) = Rules - x + 1 /\ ~(x <= x - 1)
    BY <1>1, <2>2, <2>3
  <2>6. x - 1 \in Bad
    BY <2>4, <2>5
  <2> QED BY <2>1, <2>5, <2>6
<1>4. Rules \in 0 .. Rules /\ Rules - Rules = 0
  BY <1>1
<1>5. Rules \notin Bad
  BY <1>3
<1> QED BY <1>4, <1>5

(* The pass over the rules finds what the rule with the highest priority     *)
(* that decides about a relay wants.                                         *)
LEMMA DemandIsWanted ==
  ASSUME NEW r \in Relay, active \subseteq Rule PROVE Demand(r) = Wanted(r)
<1> DEFINE A == Deciding(r)
           c == [n \in Rule |-> config.rule[n][r]]
           d == config.default[r]
           g == [n \in 0 .. Rules |-> IF From(A, n) = {} THEN d ELSE c[First(From(A, n))]]
<1>1. A \in SUBSET Rule /\ \A n \in A : n \in Nat /\ c[n] = config.rule[n][r]
  <2>1. A \in SUBSET Rule
    BY DEF Deciding
  <2>2. \A n \in Rule : n \in Nat /\ c[n] = config.rule[n][r]
    BY RelayAssumption DEF Rule
  <2> QED BY <2>1, <2>2
<1>2. \A f : Walk(f, A, c, d) <=>
        f = [n \in 0 .. Rules |-> IF n = Rules THEN config.default[r]
               ELSE IF n \in active /\ config.rule[n][r] # "X" THEN config.rule[n][r]
               ELSE f[n + 1]]
  <2>1. ASSUME NEW n \in 0 .. Rules
        PROVE  /\ n \in A <=> n \in active /\ config.rule[n][r] # "X"
               /\ n \in A => c[n] = config.rule[n][r]
    BY <1>1 DEF Deciding
  <2> HIDE DEF A, c
  <2> QED BY <2>1 DEF Walk
<1>3. Demand(r) = (CHOOSE f : f = [n \in 0 .. Rules |-> IF n = Rules THEN config.default[r]
               ELSE IF n \in active /\ config.rule[n][r] # "X" THEN config.rule[n][r]
               ELSE f[n + 1]])[0]
  BY DEF Demand
<1> HIDE DEF c, d, A
<1>4. Walk(g, A, c, d)
  BY <1>1, WalkExists
<1> HIDE DEF g
<1> DEFINE f == CHOOSE h : h = [n \in 0 .. Rules |-> IF n = Rules THEN config.default[r]
               ELSE IF n \in active /\ config.rule[n][r] # "X" THEN config.rule[n][r]
               ELSE h[n + 1]]
<1>5. Demand(r) = f[0]
  BY <1>3
<1>6. Walk(f, A, c, d)
  BY <1>2, <1>4
<1> HIDE DEF f
<1>7. Demand(r) = g[0]
  BY <1>1, <1>4, <1>5, <1>6, WalkUnique
<1>8. From(A, 0) = A /\ 0 \in 0 .. Rules
  BY <1>1, RelayAssumption DEF From
<1>9. g[0] = IF A = {} THEN d ELSE c[First(A)]
  BY <1>8 DEF g
<1>10. A # {} => First(A) \in A
  <2>1. A # {} => \E n \in A : \A k \in A : n <= k
    BY <1>1, LeastNumber
  <2> QED BY <2>1, Zenon DEF First
<1>11. Demand(r) = IF A = {} THEN d ELSE config.rule[First(A)][r]
  BY <1>1, <1>7, <1>9, <1>10
<1> QED BY <1>11 DEF A, d, Wanted, First

(* Every configuration that may be saved.                                    *)
ConfigSet == [type : [Relay -> {"STANDARD", "PULSE"}],
              default : [Relay -> {"ON", "OFF"}],
              rule : [Rule -> [Relay -> {"ON", "OFF", "X"}]]]

(* The rules want a relay on or off.                                         *)
LEMMA WantedTyped ==
  ASSUME NEW r \in Relay, active \subseteq Rule, config \in ConfigSet
  PROVE  Wanted(r) \in {"ON", "OFF"}
<1>1. config.default[r] \in {"ON", "OFF"}
  BY DEF ConfigSet
<1>2. \A n \in Deciding(r) : config.rule[n][r] \in {"ON", "OFF"}
  BY DEF ConfigSet, Deciding
<1>3. Deciding(r) # {} => First(Deciding(r)) \in Deciding(r)
  <2>1. Deciding(r) \subseteq Rule
    BY DEF Deciding
  <2>2. Rule \subseteq Nat
    BY RelayAssumption DEF Rule
  <2>3. Deciding(r) # {} => \E n \in Deciding(r) : \A k \in Deciding(r) : n <= k
    BY <2>1, <2>2, LeastNumber
  <2> QED BY <2>3, Zenon DEF First
<1> QED BY <1>1, <1>2, <1>3 DEF Wanted, First

(* What is saved keeps its types, and a pulse relay defaults to off.         *)
LEMMA ForcedTyped ==
  ASSUME NEW c \in Configs
  PROVE  /\ Forced(c) \in ConfigSet /\ Forced(c).type = c.type
         /\ \A r \in Relay : c.type[r] = "PULSE" => Forced(c).default[r] = "OFF"
  BY RelayAssumption DEF Forced, ConfigSet

(* The ranges of the variables.                                              *)
RelayTyped ==
  /\ config \in ConfigSet /\ active \subseteq Rule
  /\ step \in {"idle", "test", "set", "record"} /\ relay \in Nat
  /\ target \in [Relay -> {"ON", "OFF"}]
  /\ previous \in [Relay -> {"ON", "OFF", "X"}]
  /\ toPulse \in [Relay -> BOOLEAN] /\ pins \in [Relay -> BOOLEAN]
  /\ faults \in Nat
  /\ step = "record" => relay \in Relay

(* At the start every variable of the relays is in its range.                *)
LEMMA RelayTypeInit == Init => RelayTyped
<1> SUFFICES ASSUME Init PROVE RelayTyped
  OBVIOUS
<1>1. config \in ConfigSet
  BY ForcedTyped DEF Init
<1>2. config.default \in [Relay -> {"ON", "OFF"}]
  BY <1>1 DEF ConfigSet
<1> QED BY <1>1, <1>2 DEF Init, RelayTyped

(* Every step keeps it there.                                                *)
LEMMA RelayTypeStep == RelayTyped /\ [Next]_vars => RelayTyped'
<1> SUFFICES ASSUME RelayTyped, [Next]_vars PROVE RelayTyped'
  OBVIOUS
<1> USE DEF RelayTyped
<1>1. CASE ProcessRules
  BY <1>1 DEF ProcessRules
<1>2. CASE TestRules
  <2>1. \A r \in Relay : Demand(r) \in {"ON", "OFF"}
    BY DemandIsWanted, WantedTyped
  <2> QED BY <1>2, <2>1 DEF TestRules
<1>3. CASE SkipRelay \/ EndPass
  BY <1>3, RelayAssumption DEF SkipRelay, EndPass, history
<1>4. CASE SetRelay
  <2>1. pins' \in [Relay -> BOOLEAN] /\ faults' \in Nat
    BY <1>4, PinSet DEF SetRelay
  <2> QED BY <1>4, <2>1 DEF SetRelay, history
<1>5. CASE RecordRelay
  BY <1>5 DEF RecordRelay
<1>6. ASSUME NEW r \in Relay, PulseOff(r) PROVE RelayTyped'
  <2>1. pins' \in [Relay -> BOOLEAN] /\ faults' \in Nat
    BY <1>6, PinSet DEF PulseOff
  <2> QED BY <1>6, <2>1 DEF PulseOff, rulesTask, history
<1>7. CASE PulseDone
  BY <1>7 DEF PulseDone, rulesTask, history
<1>8. CASE SaveRules
  <2>1. config' \in ConfigSet /\ previous' \in [Relay -> {"ON", "OFF", "X"}]
    BY <1>8, ForcedTyped DEF SaveRules
  <2> QED BY <1>8, <2>1 DEF SaveRules, rulesTask
<1>9. CASE UNCHANGED vars
  BY <1>9 DEF vars, rulesTask, history
<1> QED
  BY <1>1, <1>2, <1>3, <1>4, <1>5, <1>6, <1>7, <1>8, <1>9 DEF Next, RulesTask, PulseTask

(* The ranges of the flags and the counters.                                 *)
FlagsTyped == {fire, pulsing, saved} \subseteq BOOLEAN
CountsTyped ==
  /\ relay \in 0 .. Relays /\ faults \in 0 .. MaxFaults /\ retyped \subseteq Relay
  /\ last \in [Relay -> {"ON", "OFF"}]

(* Every step leaves flags.                                                  *)
LEMMA RelayFlagsStep == RelayTyped /\ FlagsTyped /\ [Next]_vars => FlagsTyped'
<1> SUFFICES ASSUME RelayTyped, FlagsTyped, [Next]_vars PROVE FlagsTyped'
  OBVIOUS
<1> USE DEF FlagsTyped, Next, RulesTask, PulseTask, ProcessRules, TestRules, SkipRelay, SetRelay,
       RecordRelay, EndPass, PulseOff, PulseDone, SaveRules, vars, rulesTask, history
<1>1. fire' \in BOOLEAN
  OBVIOUS
<1>2. pulsing' \in BOOLEAN
  OBVIOUS
<1>3. saved' \in BOOLEAN
  OBVIOUS
<1> QED BY <1>1, <1>2, <1>3 DEF FlagsTyped

(* Every step keeps the counters in range.                                   *)
LEMMA RelayCountsStep == RelayTyped /\ CountsTyped /\ [Next]_vars => CountsTyped'
<1> SUFFICES ASSUME RelayTyped, CountsTyped, [Next]_vars PROVE CountsTyped'
  OBVIOUS
<1> USE DEF CountsTyped
<1>1. CASE ProcessRules \/ TestRules
  <2>1. target \in [Relay -> {"ON", "OFF"}] /\ 0 \in 0 .. Relays
    BY RelayAssumption DEF RelayTyped
  <2> QED BY <1>1, <2>1 DEF ProcessRules, TestRules
<1>2. CASE SkipRelay \/ RecordRelay
  <2>1. relay \in Relay
    BY <1>2 DEF SkipRelay, RecordRelay, RelayTyped
  <2>2. relay + 1 \in 0 .. Relays
    BY <2>1, RelayAssumption DEF Relay
  <2> QED BY <1>2, <2>1, <2>2 DEF SkipRelay, RecordRelay, history
<1>3. CASE SetRelay \/ \E r \in Relay : PulseOff(r)
  <2>1. faults' \in 0 .. MaxFaults
    BY <1>3, RelayAssumption DEF SetRelay, PulseOff, SetOutputState
  <2> QED BY <1>3, <2>1 DEF SetRelay, PulseOff, rulesTask, history
<1>4. CASE EndPass \/ PulseDone
  BY <1>4 DEF EndPass, PulseDone, rulesTask, history
<1>5. CASE SaveRules
  BY <1>5 DEF SaveRules, rulesTask
<1>6. CASE UNCHANGED vars
  BY <1>6 DEF vars, rulesTask, history
<1> QED BY <1>1, <1>2, <1>3, <1>4, <1>5, <1>6 DEF Next, RulesTask, PulseTask

(* Every variable of the relays keeps its range.                             *)
THEOREM RelaysTyped == Spec => []TypeOK
<1> DEFINE Typed == RelayTyped /\ FlagsTyped /\ CountsTyped
<1>1. Init => Typed
  <2> SUFFICES ASSUME Init PROVE Typed
    OBVIOUS
  <2>1. RelayTyped
    BY RelayTypeInit
  <2>2. config.default \in [Relay -> {"ON", "OFF"}]
    BY <2>1 DEF RelayTyped, ConfigSet
  <2>3. CountsTyped
    BY <2>2, RelayAssumption DEF Init, CountsTyped
  <2> QED BY <2>1, <2>3 DEF Init, FlagsTyped
<1>2. Typed /\ [Next]_vars => Typed'
  BY RelayTypeStep, RelayFlagsStep, RelayCountsStep
<1>3. Typed => TypeOK
  BY DEF RelayTyped, FlagsTyped, CountsTyped, TypeOK, ConfigSet
<1> QED BY <1>1, <1>2, <1>3, PTL DEF Spec

(* The pulses: begun in a pass, ended before the next one.                   *)
InPass == step \in {"set", "record"}
PulseInv ==
  /\ pulsing => step = "idle"
  /\ step \in {"idle", "test"} /\ ~pulsing => \A r \in Relay : ~toPulse[r]
  /\ InPass => \A r \in Relay : toPulse[r] => r < relay /\ fire
  /\ \A r \in Relay : config.type[r] = "PULSE" => config.default[r] = "OFF"
  /\ \A r \in Relay : toPulse[r] /\ config.type[r] = "STANDARD" => previous[r] = "X"

(* What is recorded of a relay is what its pin is, a pulse that ended aside. *)
PinsInv ==
  faults = 0 => \A r \in Relay :
    IF step = "record" /\ r = relay THEN pins[r] = (target[r] = "ON")
    ELSE previous[r] # "X" =>
      pins[r] = (previous[r] = "ON" /\ (config.type[r] = "STANDARD" \/ toPulse[r]))

(* Unless the rules were saved since, the pass works for what they want.     *)
TargetInv ==
  ~saved /\ step # "test" =>
    /\ \A r \in Relay : target[r] = Wanted(r)
    /\ \A r \in Relay : step = "idle" \/ r < relay => previous[r] = target[r]

RelayInv == RelayTyped /\ PulseInv /\ PinsInv /\ TargetInv

(* At the start every relay is set to its default.                           *)
LEMMA RelayInit == Init => RelayInv
<1> SUFFICES ASSUME Init PROVE RelayInv
  OBVIOUS
<1>1. RelayTyped
  BY RelayTypeInit
<1>2. \A r \in Relay : config.type[r] = "PULSE" => config.default[r] = "OFF"
  BY ForcedTyped DEF Init
<1>3. PulseInv
  BY <1>2 DEF Init, PulseInv, InPass
<1>4. PinsInv
  BY <1>1, <1>2 DEF Init, PinsInv, RelayTyped, ConfigSet
<1>5. TargetInv
  BY DEF Init, TargetInv, Wanted, Deciding
<1> QED BY <1>1, <1>3, <1>4, <1>5 DEF RelayInv

(* Every step keeps what is known of the pulses.                             *)
LEMMA PulseStep == RelayTyped /\ PulseInv /\ [Next]_vars => PulseInv'
<1> SUFFICES ASSUME RelayTyped, PulseInv, [Next]_vars PROVE PulseInv'
  OBVIOUS
<1> USE DEF RelayTyped, PulseInv, InPass
<1>1. CASE ProcessRules
  BY <1>1 DEF ProcessRules
<1>2. CASE TestRules
  BY <1>2 DEF TestRules
<1>3. CASE SkipRelay
  BY <1>3 DEF SkipRelay, history, Relay
<1>4. CASE SetRelay
  BY <1>4 DEF SetRelay, history
<1>5. CASE RecordRelay
  <2>1. /\ relay \in Relay /\ relay' = relay + 1 /\ step' = "set" /\ ~pulsing'
        /\ UNCHANGED config
        /\ \A r \in Relay : toPulse'[r] =
             IF r = relay THEN toPulse[relay] \/ config.type[relay] = "PULSE" ELSE toPulse[r]
        /\ \A r \in Relay : r # relay => previous'[r] = previous[r]
        /\ fire' = (fire \/ config.type[relay] = "PULSE")
    BY <1>5 DEF RecordRelay
  <2>2. \A r \in Relay : r \in Int
    BY DEF Relay
  <2>3. ~toPulse[relay]
    BY <1>5, <2>1, <2>2 DEF RecordRelay
  <2>4. \A r \in Relay : toPulse'[r] => r < relay' /\ fire'
    BY <1>5, <2>1, <2>2, <2>3 DEF RecordRelay
  <2>5. \A r \in Relay : toPulse'[r] /\ config.type[r] = "STANDARD" => previous'[r] = "X"
    BY <2>1, <2>3
  <2> QED BY <2>1, <2>4, <2>5
<1>6. CASE EndPass
  BY <1>6 DEF EndPass, history, Relay
<1>7. ASSUME NEW r \in Relay, PulseOff(r) PROVE PulseInv'
  BY <1>7 DEF PulseOff, rulesTask, history
<1>8. CASE PulseDone
  BY <1>8 DEF PulseDone, rulesTask, history
<1>9. CASE SaveRules
  <2>1. PICK c \in Configs :
          LET changed == {r \in Relay : config.type[r] # c.type[r]}
          IN  /\ config' = Forced(c)
              /\ previous' = [r \in Relay |-> IF r \in changed THEN "X" ELSE previous[r]]
              /\ retyped' = retyped \cup changed
    BY <1>9 DEF SaveRules
  <2>2. \A r \in Relay : config'.type[r] = c.type[r]
          /\ previous'[r] = IF config.type[r] # c.type[r] THEN "X" ELSE previous[r]
    BY <2>1, ForcedTyped
  <2>3. \A r \in Relay : config'.type[r] = "PULSE" => config'.default[r] = "OFF"
    BY <2>1, ForcedTyped
  <2> QED BY <1>9, <2>2, <2>3 DEF SaveRules, rulesTask
<1>10. CASE UNCHANGED vars
  BY <1>10 DEF vars, rulesTask, history
<1> QED
  BY <1>1, <1>2, <1>3, <1>4, <1>5, <1>6, <1>7, <1>8, <1>9, <1>10 DEF Next, RulesTask, PulseTask

(* Every step keeps the pins as recorded.                                    *)
LEMMA PinsStep == RelayTyped /\ PulseInv /\ PinsInv /\ [Next]_vars => PinsInv'
<1> SUFFICES ASSUME RelayTyped, PulseInv, PinsInv, [Next]_vars PROVE PinsInv'
  OBVIOUS
<1> USE DEF RelayTyped, PinsInv
<1>1. CASE ProcessRules
  BY <1>1 DEF ProcessRules
<1>2. CASE TestRules
  BY <1>2 DEF TestRules
<1>3. CASE SkipRelay \/ EndPass
  BY <1>3 DEF SkipRelay, EndPass, history
<1>4. CASE SetRelay
  <2>1. faults' = 0 => faults = 0 /\ pins' = [pins EXCEPT ![relay] = (target[relay] = "ON")]
    BY <1>4, PinSet DEF SetRelay
  <2> QED BY <1>4, <2>1 DEF SetRelay, history
<1>5. CASE RecordRelay
  <2>1. /\ relay \in Relay /\ step' = "set" /\ UNCHANGED <<config, pins, faults, target>>
        /\ \A r \in Relay : toPulse'[r] =
             IF r = relay THEN toPulse[relay] \/ config.type[relay] = "PULSE" ELSE toPulse[r]
        /\ \A r \in Relay : previous'[r] = IF r = relay THEN target[relay] ELSE previous[r]
    BY <1>5 DEF RecordRelay
  <2>2. config.type[relay] \in {"STANDARD", "PULSE"}
    BY <2>1 DEF ConfigSet
  <2> QED BY <1>5, <2>1, <2>2 DEF RecordRelay
<1>6. ASSUME NEW r \in Relay, PulseOff(r) PROVE PinsInv'
  <2>1. faults' = 0 => faults = 0 /\ pins' = [pins EXCEPT ![r] = FALSE]
    BY <1>6, PinSet DEF PulseOff
  <2>2. toPulse' = [toPulse EXCEPT ![r] = FALSE] /\ step = "idle"
        /\ UNCHANGED <<config, step, previous, target>>
        /\ (config.type[r] = "STANDARD" => previous[r] = "X")
    BY <1>6 DEF PulseOff, PulseInv, rulesTask
  <2> QED BY <2>1, <2>2
<1>7. CASE PulseDone
  BY <1>7 DEF PulseDone, rulesTask, history
<1>8. CASE SaveRules
  <2>1. PICK c \in Configs :
          LET changed == {r \in Relay : config.type[r] # c.type[r]}
          IN  /\ config' = Forced(c)
              /\ previous' = [r \in Relay |-> IF r \in changed THEN "X" ELSE previous[r]]
              /\ retyped' = retyped \cup changed
    BY <1>8 DEF SaveRules
  <2>2. \A r \in Relay : config'.type[r] = c.type[r]
          /\ previous'[r] = IF config.type[r] # c.type[r] THEN "X" ELSE previous[r]
    BY <2>1, ForcedTyped
  <2> QED BY <1>8, <2>2 DEF SaveRules, rulesTask
<1>9. CASE UNCHANGED vars
  BY <1>9 DEF vars, rulesTask, history
<1> QED
  BY <1>1, <1>2, <1>3, <1>4, <1>5, <1>6, <1>7, <1>8, <1>9 DEF Next, RulesTask, PulseTask

(* What the rules want changes with the rules and those active.              *)
LEMMA WantedStays ==
  ASSUME UNCHANGED <<config, active>>, NEW r \in Relay PROVE Wanted(r)' = Wanted(r)
  BY DEF Wanted, Deciding

(* Every step keeps the aim of the pass.                                     *)
LEMMA TargetStep == RelayTyped /\ TargetInv /\ [Next]_vars => TargetInv'
<1> SUFFICES ASSUME RelayTyped, TargetInv, [Next]_vars PROVE TargetInv'
  OBVIOUS
<1> USE DEF RelayTyped, TargetInv
<1>1. CASE ProcessRules
  BY <1>1 DEF ProcessRules
<1>2. CASE TestRules
  <2>1. \A r \in Relay : target'[r] = Wanted(r)'
    BY <1>2, DemandIsWanted, WantedStays DEF TestRules
  <2>2. \A r \in Relay : ~(r < relay')
    BY <1>2 DEF TestRules, Relay
  <2> QED BY <1>2, <2>1, <2>2 DEF TestRules
<1>3. CASE SkipRelay
  BY <1>3, WantedStays DEF SkipRelay, history, Relay
<1>4. CASE SetRelay
  BY <1>4, WantedStays DEF SetRelay, history
<1>5. CASE RecordRelay
  <2>1. \A r \in Relay : r < relay' <=> r < relay \/ r = relay
    BY <1>5 DEF RecordRelay, Relay
  <2> QED BY <1>5, <2>1, WantedStays DEF RecordRelay
<1>6. CASE EndPass
  <2>1. \A r \in Relay : r < relay
    BY <1>6 DEF EndPass, Relay
  <2> QED BY <1>6, <2>1, WantedStays DEF EndPass, history
<1>7. ASSUME NEW r \in Relay, PulseOff(r) PROVE TargetInv'
  BY <1>7, WantedStays DEF PulseOff, rulesTask, history
<1>8. CASE PulseDone
  BY <1>8, WantedStays DEF PulseDone, rulesTask, history
<1>9. CASE SaveRules
  BY <1>9 DEF SaveRules
<1>10. CASE UNCHANGED vars
  BY <1>10, WantedStays DEF vars, rulesTask, history
<1> QED
  BY <1>1, <1>2, <1>3, <1>4, <1>5, <1>6, <1>7, <1>8, <1>9, <1>10 DEF Next, RulesTask, PulseTask

(* Between two passes and after the pulses every relay is as the rules want  *)
(* it, unless the expander failed or the rules were saved in the pass.       *)
THEOREM RelaysFollow == Spec => []RelaysFollowRules
<1>1. RelayInv /\ [Next]_vars => RelayInv'
  BY RelayTypeStep, PulseStep, PinsStep, TargetStep DEF RelayInv
<1>2. RelayInv => RelaysFollowRules
  <2> SUFFICES ASSUME RelayInv, step = "idle", ~pulsing, ~saved, faults = 0, NEW r \in Relay
               PROVE  pins[r] = (config.type[r] = "STANDARD" /\ Wanted(r) = "ON")
    BY DEF RelaysFollowRules
  <2>1. previous[r] = Wanted(r) /\ previous[r] # "X" /\ ~toPulse[r]
    BY DEF RelayInv, RelayTyped, PulseInv, TargetInv
  <2> QED BY <2>1 DEF RelayInv, PinsInv
<1> QED BY <1>1, <1>2, RelayInit, PTL DEF Spec

-----------------------------------------------------------------------------
(* The emergency stop, the LED and the backlight. *)

(* A low stop was pressed, and what the task has read tells so.              *)
StopInv ==
  /\ "stop" \in low => pressed
  /\ isr \in {"store", "act"} /\ "stop" \notin read => pressed \/ broken
  /\ emergencyStop => pressed \/ broken

(* While nothing overlaps at most one task works on the shadow, and the      *)
(* shadow differs from the chip only in the output of a writer that is       *)
(* about to write.                                                           *)
OneWriter == \A o, p \in Output : Busy(o) /\ Busy(p) => o = p
ShadowInv ==
  ~overlapped /\ ~broken =>
    /\ OneWriter
    /\ isr = "store" => read \cap Output = out /\ \A o \in Output : ~Busy(o)
    /\ \A o \in Output : writer[o].step = "store" => writer[o].local = out /\ shadow = out
    /\ \A o \in Output : writer[o].step = "write" => shadow \ {o} = out \ {o}
    /\ (\A o \in Output : ~Busy(o)) => shadow = out

(* The values a writer may have.                                             *)
Writers == [step : {"idle", "store", "write"}, local : SUBSET Output, on : BOOLEAN]

(* What a step does to the flags are disjunctions: flags all the same.       *)
FlagsOK == {emergencyStop, pressed, missedEdge, broken, overlapped} \subseteq BOOLEAN
DataOK ==
  /\ low \subseteq Input /\ readLow \subseteq Input /\ out \subseteq Output
  /\ shadow \subseteq Output /\ read \subseteq Port
  /\ isr \in {"off", "waiting", "ready", "store", "act"}
  /\ moves \in 0 .. MaxMoves /\ failures \in 0 .. MaxFailures

(* The type invariant in the parts the steps are proved for.               *)
LEMMA ExpanderParts == ExpanderTypeOK <=> FlagsOK /\ DataOK /\ writer \in [Output -> Writers]
  BY DEF ExpanderTypeOK, FlagsOK, DataOK, Writers

(* The chip at the start.                                                    *)
LEMMA ExpanderTypeInit == ExpanderInit => ExpanderTypeOK
<1> SUFFICES ASSUME ExpanderInit PROVE ExpanderTypeOK
  OBVIOUS
<1>1. FlagsOK
  <2>1. pressed = ("stop" \in low)
    BY DEF ExpanderInit
  <2>2. pressed \in BOOLEAN
    BY <2>1
  <2> QED BY <2>2 DEF ExpanderInit, FlagsOK
<1>2. DataOK
  BY BoundAssumption DEF ExpanderInit, DataOK
<1>3. [step |-> "idle", local |-> {}, on |-> FALSE] \in Writers
  BY DEF Writers
<1>4. writer \in [Output -> Writers]
  BY <1>3 DEF ExpanderInit
<1> QED BY <1>1, <1>2, <1>4, ExpanderParts

(* A writer that goes on stays a writer.                                     *)
LEMMA WriterStep ==
  ASSUME ExpanderTypeOK, NEW o \in Output, LoadShadow(o) \/ SetOutput(o) \/ WriteOutput(o)
  PROVE  writer' \in [Output -> Writers]
<1>1. writer \in [Output -> Writers] /\ shadow \in SUBSET Output
  BY DEF ExpanderTypeOK, Writers
<1>2. writer[o].on \in BOOLEAN
  BY <1>1 DEF Writers
<1>3. CASE LoadShadow(o)
  BY <1>1, <1>3 DEF LoadShadow, Writers
<1>4. CASE SetOutput(o)
  <2>1. [step |-> "write", local |-> {}, on |-> writer[o].on] \in Writers
    BY <1>2 DEF Writers
  <2> QED BY <1>1, <1>4, <2>1 DEF SetOutput
<1>5. CASE WriteOutput(o)
  BY <1>1, <1>5 DEF WriteOutput, Writers
<1> QED BY <1>3, <1>4, <1>5

(* Every step leaves flags.                                                  *)
LEMMA FlagsStep == FlagsOK /\ [ExpanderNext]_expanderVars => FlagsOK'
<1> SUFFICES ASSUME FlagsOK, [ExpanderNext]_expanderVars PROVE FlagsOK'
  OBVIOUS
<1>1. emergencyStop' \in BOOLEAN
  BY DEF ExpanderNext, StartTask, Move, ReadInputs, StoreShadow, HandleInputs, LoadShadow,
     SetOutput, WriteOutput, expanderVars, FlagsOK
<1>2. pressed' \in BOOLEAN
  BY DEF ExpanderNext, StartTask, Move, ReadInputs, StoreShadow, HandleInputs, LoadShadow,
     SetOutput, WriteOutput, expanderVars, expanderHistory, FlagsOK
<1>3. missedEdge' \in BOOLEAN
  BY DEF ExpanderNext, StartTask, Move, TCA9534AInterrupt, ReadInputs, StoreShadow, HandleInputs,
     LoadShadow, SetOutput, WriteOutput, expanderVars, expanderHistory, FlagsOK
<1>4. broken' \in BOOLEAN /\ overlapped' \in BOOLEAN
  BY DEF ExpanderNext, StartTask, Move, ReadInputs, StoreShadow, HandleInputs, LoadShadow,
     SetOutput, WriteOutput, expanderVars, expanderHistory, FlagsOK
<1> QED BY <1>1, <1>2, <1>3, <1>4 DEF FlagsOK

(* Every step keeps every variable in its range.                             *)
LEMMA ExpanderTypeStep == ExpanderTypeOK /\ [ExpanderNext]_expanderVars => ExpanderTypeOK'
<1> SUFFICES ASSUME ExpanderTypeOK, [ExpanderNext]_expanderVars PROVE ExpanderTypeOK'
  OBVIOUS
<1>0. FlagsOK' /\ DataOK /\ writer \in [Output -> Writers]
  BY ExpanderParts, FlagsStep
<1>1. (DataOK /\ writer \in [Output -> Writers])'
  <2> USE BoundAssumption DEF DataOK
  <2>1. CASE StartTask
    BY <2>1, <1>0 DEF StartTask, chip
  <2>2. ASSUME NEW i \in Input, Move(i) PROVE (DataOK /\ writer \in [Output -> Writers])'
    BY <2>2, <1>0 DEF Move, TCA9534AInterrupt
  <2>3. CASE ReadInputs
    BY <2>3, <1>0 DEF ReadInputs, Levels, Port
  <2>4. CASE StoreShadow \/ HandleInputs
    BY <2>4, <1>0 DEF StoreShadow, HandleInputs, chip
  <2>5. ASSUME NEW o \in Output, LoadShadow(o) \/ SetOutput(o) \/ WriteOutput(o)
        PROVE  (DataOK /\ writer \in [Output -> Writers])'
    <3>1. writer' \in [Output -> Writers]
      BY <2>5, WriterStep
    <3>2. writer[o].local \subseteq Output
      BY <1>0 DEF Writers
    <3>3. CASE LoadShadow(o) \/ WriteOutput(o)
      BY <3>1, <3>3, <1>0 DEF LoadShadow, WriteOutput, chip
    <3>4. CASE SetOutput(o)
      BY <3>1, <3>2, <3>4, <1>0 DEF SetOutput, chip
    <3> QED BY <2>5, <3>3, <3>4
  <2>6. CASE UNCHANGED expanderVars
    BY <2>6, <1>0 DEF expanderVars, chip
  <2> QED BY <2>1, <2>2, <2>3, <2>4, <2>5, <2>6 DEF ExpanderNext
<1> QED BY <1>0, <1>1, ExpanderParts DEF ExpanderTypeOK, FlagsOK, DataOK, Writers

(* Every variable keeps its range.                                           *)
THEOREM ExpanderTyped == ExpanderSpec => []ExpanderTypeOK
<1>1. ExpanderTypeOK /\ [ExpanderNext]_expanderVars => ExpanderTypeOK'
  BY ExpanderTypeStep
<1> QED BY <1>1, ExpanderTypeInit, PTL DEF ExpanderSpec

-----------------------------------------------------------------------------
(* What the task has read is known to come from a press or a failure.        *)
LEMMA StopStep == ExpanderTypeOK /\ StopInv /\ [ExpanderNext]_expanderVars => StopInv'
<1> SUFFICES ASSUME ExpanderTypeOK, StopInv, [ExpanderNext]_expanderVars PROVE StopInv'
  OBVIOUS
<1>1. CASE StartTask
  BY <1>1 DEF StartTask, StopInv, ExpanderTypeOK, chip, expanderHistory
<1>2. ASSUME NEW i \in Input, Move(i) PROVE StopInv'
  BY <1>2 DEF Move, TCA9534AInterrupt, StopInv, ExpanderTypeOK
<1>3. CASE ReadInputs
  BY <1>3 DEF ReadInputs, Levels, StopInv, ExpanderTypeOK, Input, Output
<1>4. CASE StoreShadow
  BY <1>4 DEF StoreShadow, StopInv, chip, expanderHistory
<1>7. CASE HandleInputs
  <2>1. isr' = "waiting" /\ UNCHANGED <<low, pressed, broken>>
    BY <1>7 DEF HandleInputs, chip, expanderHistory
  <2>2. emergencyStop' => pressed \/ broken
    BY <1>7, Zenon DEF HandleInputs, StopInv
  <2> QED BY <2>1, <2>2 DEF StopInv
<1>5. ASSUME NEW o \in Output, LoadShadow(o) \/ SetOutput(o) \/ WriteOutput(o) PROVE StopInv'
  BY <1>5 DEF LoadShadow, SetOutput, WriteOutput, StopInv, chip, expanderHistory
<1>6. CASE UNCHANGED expanderVars
  BY <1>6 DEF expanderVars, chip, expanderHistory, StopInv
<1> QED BY <1>1, <1>2, <1>3, <1>4, <1>5, <1>6, <1>7 DEF ExpanderNext

(* The emergency stop is latched only after it was pressed or a read of the  *)
(* pins failed, however the tasks and the moves interleave.                  *)
THEOREM StopIsReal == ExpanderSpec => []NoFalseStop
<1>1. ExpanderInit => StopInv
  BY DEF ExpanderInit, StopInv
<1>2. StopInv => NoFalseStop
  BY DEF StopInv, NoFalseStop
<1> QED BY <1>1, <1>2, ExpanderTyped, StopStep, PTL DEF ExpanderSpec

-----------------------------------------------------------------------------
(* The steps of the input task: what it stores are the outputs of the chip.  *)
LEMMA ShadowRead ==
  ASSUME ExpanderTypeOK, ShadowInv, ReadInputs \/ StoreShadow PROVE ShadowInv'
<1> USE DEF ExpanderTypeOK, ShadowInv, OneWriter, Busy
<1>1. CASE ReadInputs
  <2>1. Levels \cap Output = out
    BY DEF Levels, Input, Output
  <2> QED BY <1>1, <2>1 DEF ReadInputs
<1>2. CASE StoreShadow
  BY <1>2 DEF StoreShadow, chip
<1> QED BY <1>1, <1>2

(* The steps of a writer: the shadow changes in its own output only.         *)
LEMMA ShadowWrite ==
  ASSUME ExpanderTypeOK, ShadowInv, NEW o \in Output,
         LoadShadow(o) \/ SetOutput(o) \/ WriteOutput(o)
  PROVE  ShadowInv'
<1> SUFFICES ASSUME ~overlapped', ~broken' PROVE ShadowInv'
  BY DEF ShadowInv
<1> USE DEF ExpanderTypeOK, Busy
<1>1. CASE LoadShadow(o)
  <2>1. ~overlapped /\ ~broken /\ isr # "store" /\ \A p \in Output : ~Busy(p)
    BY <1>1 DEF LoadShadow
  <2>2. shadow = out
    BY <2>1 DEF ShadowInv
  <2>3. \A p \in Output : p # o => writer'[p] = writer[p]
    BY <1>1 DEF LoadShadow
  <2>4. writer'[o].step = "store" /\ writer'[o].local = shadow
    BY <1>1 DEF LoadShadow
  <2>5. UNCHANGED <<isr, shadow, out>>
    BY <1>1 DEF LoadShadow, chip
  <2> QED BY <2>1, <2>2, <2>3, <2>4, <2>5 DEF ShadowInv, OneWriter
<1>2. CASE SetOutput(o)
  <2>1. ~overlapped /\ ~broken /\ writer[o].step = "store" /\ UNCHANGED <<isr, out, read>>
    BY <1>2 DEF SetOutput, expanderHistory, chip
  <2>2. writer[o].local = out /\ isr # "store" /\ \A p \in Output : p # o => ~Busy(p)
    BY <2>1 DEF ShadowInv, OneWriter
  <2>3. \A p \in Output : p # o => writer'[p] = writer[p]
    BY <1>2 DEF SetOutput
  <2>4. writer'[o].step = "write"
    BY <1>2 DEF SetOutput
  <2>5. shadow' \ {o} = out \ {o}
    BY <1>2, <2>2 DEF SetOutput
  <2> QED BY <2>1, <2>2, <2>3, <2>4, <2>5 DEF ShadowInv, OneWriter
<1>3. CASE WriteOutput(o)
  <2>1. ~overlapped /\ ~broken /\ writer[o].step = "write" /\ UNCHANGED <<isr, shadow, read>>
    BY <1>3 DEF WriteOutput
  <2>2. isr # "store" /\ out' = shadow /\ \A p \in Output : p # o => ~Busy(p)
    BY <1>3, <2>1 DEF ShadowInv, OneWriter, WriteOutput
  <2>3. \A p \in Output : p # o => writer'[p] = writer[p]
    BY <1>3 DEF WriteOutput
  <2>4. writer'[o].step = "idle"
    BY <1>3 DEF WriteOutput
  <2> QED BY <2>1, <2>2, <2>3, <2>4 DEF ShadowInv, OneWriter
<1> QED BY <1>1, <1>2, <1>3

(* No step of any task breaks the agreement of shadow and chip.              *)
LEMMA ShadowStep == ExpanderTypeOK /\ ShadowInv /\ [ExpanderNext]_expanderVars => ShadowInv'
<1> SUFFICES ASSUME ExpanderTypeOK, ShadowInv, [ExpanderNext]_expanderVars PROVE ShadowInv'
  OBVIOUS
<1>1. CASE StartTask \/ HandleInputs
  BY <1>1 DEF StartTask, HandleInputs, ShadowInv, OneWriter, Busy, chip, expanderHistory
<1>2. ASSUME NEW i \in Input, Move(i) PROVE ShadowInv'
  BY <1>2 DEF Move, TCA9534AInterrupt, ShadowInv, OneWriter, Busy
<1>3. CASE UNCHANGED expanderVars
  BY <1>3 DEF expanderVars, chip, expanderHistory, ShadowInv, OneWriter, Busy
<1> QED BY <1>1, <1>2, <1>3, ShadowRead, ShadowWrite DEF ExpanderNext

(* At the start nobody is busy and the shadow is that of the chip.           *)
LEMMA ShadowInit == ExpanderInit => ShadowInv
  BY DEF ExpanderInit, ShadowInv, OneWriter, Busy

(* Writing one output leaves the other as it is, unless two tasks overlapped *)
(* or a transfer failed.                                                     *)
THEOREM OutputsSafe == ExpanderSpec => OutputsKept
<1> DEFINE Kept == \A o, p \in Output :
      WriteOutput(o) /\ p # o /\ ~overlapped' /\ ~broken => (p \in out' <=> p \in out)
<1>1. ExpanderTypeOK /\ ShadowInv /\ [ExpanderNext]_expanderVars => [Kept]_expanderVars
  <2> SUFFICES ASSUME ExpanderTypeOK, ShadowInv, NEW o \in Output, NEW p \in Output,
                      WriteOutput(o), p # o, ~overlapped', ~broken
               PROVE  p \in out' <=> p \in out
    OBVIOUS
  <2>1. out' = shadow /\ ~overlapped /\ writer[o].step = "write"
    BY DEF WriteOutput
  <2>2. shadow \ {o} = out \ {o}
    BY <2>1 DEF ShadowInv
  <2> QED BY <2>1, <2>2
<1> QED BY <1>1, ShadowInit, ShadowStep, ExpanderTyped, PTL DEF ExpanderSpec, OutputsKept

-----------------------------------------------------------------------------
(* The display. *)

(* The records of the tasks.                                                 *)
WakeTasks == [step : WakeSteps, force : {0, 1}, note : {0, 1}]
UpdateTasks == [step : UpdateSteps, note : {0, 1}, screen : Screens]
TasksTyped == wake \in WakeTasks /\ update \in UpdateTasks

(* A screen counts as awake without its light only while the wake-up task is *)
(* about to switch it on, or the sleep task has switched it off.             *)
LightInv == awake /\ ~backlight => wake.step = "light" \/ sleep = "asleep"

(* A wake-up that is not forced fills a screen that sleeps.                  *)
WakeInv ==
  /\ wake.step \in {"wait", "ready"} => wake.force = 0
  /\ wake.step \in {"fill", "filled"} /\ wake.force = 0 => ~awake

(* The page that is drawn is the one remembered, or was forgotten meanwhile. *)
DrawInv == update.step = "draw" => lastScreen \in {update.screen, "None"}

(* No page is remembered of a screen that sleeps.                            *)
DarkInv ==
  ~disturbed /\ ~awake /\ sleep # "forget" =>
    lastScreen = "None" /\ update.step \notin {"prepare", "store"}

(* Nothing has spoilt it since: the canvas holds the page that is remembered *)
(* or about to be, or it will be prepared anew.                              *)
Bar == {<<"progress", 0>>}      \* of the programmer, on any page
Matches(s) == values \ Bar \subseteq titles /\ (s # "None" => titles = PrepareTFT(s))
Pending == wake.force = 1 \/ update.note = 1 \/ update.step = "prepare"
CanvasInv ==
  ~disturbed /\ sleep # "forget" =>
    \/ Pending
    \/ update.step = "store" /\ Matches(update.screen)
    \/ update.step \notin {"prepare", "store"} /\ (lastScreen = "None" \/ Matches(lastScreen))

DisplayInv ==
  /\ lastScreen \in Screens
  /\ TasksTyped /\ LightInv /\ WakeInv /\ DrawInv /\ DarkInv /\ CanvasInv

(* Every value that a page draws has its title on that page.                 *)
LEMMA DrawnHaveTitles ==
  ASSUME NEW s \in Screens
  PROVE  IF s = "None" THEN DrawTFT(s) = {} ELSE DrawTFT(s) \subseteq PrepareTFT(s)
  BY DEF Screens, DrawTFT, PrepareTFT, TitlesOneBank, TitlesFourBank, TitlesMonitor,
     TitlesControlState, TitlesError, ValuesOneBank, ValuesFourBank, ValuesMonitor,
     ValuesControlState, ValuesError

(* At the start the screen is dark and the wake-up task ready to run.        *)
LEMMA DisplayStart == DisplayInit => DisplayInv
  BY DEF DisplayInit, DisplayInv, TasksTyped, WakeTasks, UpdateTasks, LightInv, WakeInv,
     DrawInv, DarkInv, CanvasInv, WakeSteps, UpdateSteps, Screens

(* Which page is chosen is a page.                                           *)
LEMMA ReplyIsScreen == Reply \in Screens
  BY DEF Reply, Screens

(* What the steps make of the records of the two tasks are such records.     *)
LEMMA WakeTyped ==
  ASSUME NEW t \in WakeTasks
  PROVE  /\ Woken(t) \in WakeTasks
         /\ \A v \in {0, 1} : Notified(t, v) \in WakeTasks
         /\ \A s \in WakeSteps, v \in {0, 1} : [Taken(t, s) EXCEPT !.force = v] \in WakeTasks
<1>1. \A s \in WakeSteps : Taken(t, s) \in WakeTasks
  BY DEF WakeTasks, Taken
<1>2. Woken(t) \in WakeTasks
  BY DEF WakeTasks, WakeSteps, Woken
<1>3. \A u \in WakeTasks, v \in {0, 1} :
        [u EXCEPT !.note = v] \in WakeTasks /\ [u EXCEPT !.force = v] \in WakeTasks
  BY DEF WakeTasks
<1> QED BY <1>1, <1>2, <1>3 DEF Notified

(* The same for the update task.                                             *)
LEMMA UpdateTyped ==
  ASSUME NEW t \in UpdateTasks
  PROVE  /\ Woken(t) \in UpdateTasks
         /\ \A v \in {0, 1} : Notified(t, v) \in UpdateTasks
         /\ \A s \in UpdateSteps : Taken(t, s) \in UpdateTasks
         /\ \A s \in UpdateSteps, p \in Screens :
               [Taken(t, s) EXCEPT !.screen = p] \in UpdateTasks
<1>1. \A s \in UpdateSteps : Taken(t, s) \in UpdateTasks
  BY DEF UpdateTasks, Taken
<1>2. Woken(t) \in UpdateTasks
  BY DEF UpdateTasks, UpdateSteps, Woken
<1>3. \A u \in UpdateTasks :
        /\ \A v \in {0, 1} : [u EXCEPT !.note = v] \in UpdateTasks
        /\ \A p \in Screens : [u EXCEPT !.screen = p] \in UpdateTasks
  BY DEF UpdateTasks
<1> QED BY <1>1, <1>2, <1>3 DEF Notified

(* Every step keeps the records of the tasks.                                *)
LEMMA TasksStep == TasksTyped /\ [DisplayNext]_displayVars => TasksTyped'
<1> SUFFICES ASSUME wake \in WakeTasks, update \in UpdateTasks, [DisplayNext]_displayVars
             PROVE  wake' \in WakeTasks /\ update' \in UpdateTasks
  BY DEF TasksTyped
<1>1. CASE WakeTake
  <2>1. wake.note \in {0, 1} /\ "fill" \in WakeSteps /\ "refresh" \in WakeSteps
    BY DEF WakeTasks, WakeSteps
  <2> QED BY <1>1, <2>1, WakeTyped DEF WakeTake
<1>2. CASE Fill \/ SetAwake \/ LightOn \/ NotifySleep
  BY <1>2 DEF Fill, SetAwake, LightOn, NotifySleep, WakeTasks, WakeSteps
<1>3. CASE NotifyUpdate
  <2>1. wake.force \in {0, 1} /\ [wake EXCEPT !.step = "wait", !.force = 0] \in WakeTasks
    BY DEF WakeTasks, WakeSteps
  <2> QED BY <1>3, <2>1, UpdateTyped DEF NotifyUpdate
<1>4. CASE UpdateTake
  <2>1. {"wait", "prepare", "draw"} \subseteq UpdateSteps
    BY DEF UpdateSteps
  <2> QED BY <1>4, <2>1, UpdateTyped, ReplyIsScreen DEF UpdateTake
<1>5. CASE Prepare \/ StoreLast \/ Draw
  BY <1>5 DEF Prepare, StoreLast, Draw, Screens, UpdateTasks, UpdateSteps
<1>6. CASE SleepNext \/ ProgressBar \/ RaiseError \/ StartRunning \/ SaveSettings
  BY <1>6 DEF SleepNext, SleepTake, DelayEnds, LightOff, FallAsleep, ForgetPage, ProgressBar,
     RaiseError, StartRunning, SaveSettings
<1>7. CASE Snapshot \/ EndProgramming
  BY <1>7, UpdateTyped DEF Snapshot, EndProgramming
<1>8. CASE Touch \/ WakeContact \/ RulesAlarm \/ WifiChanges \/ StartProgramming
  BY <1>8, WakeTyped DEF Touch, WakeContact, RulesAlarm, WifiChanges, StartProgramming
<1>9. CASE UNCHANGED displayVars
  BY <1>9 DEF displayVars
<1> QED
  BY <1>1, <1>2, <1>3, <1>4, <1>5, <1>6, <1>7, <1>8, <1>9 DEF DisplayNext, WakeNext, UpdateNext

(* What a notification and its receipt do to the fields of a task.           *)
LEMMA WakeFields ==
  ASSUME NEW t \in WakeTasks, NEW v \in {0, 1}, NEW s \in WakeSteps
  PROVE  /\ Woken(t).step = (IF t.step = "wait" THEN "ready" ELSE t.step)
         /\ Woken(t).force = t.force /\ Woken(t).note = t.note
         /\ Notified(t, v).step = Woken(t).step /\ Notified(t, v).force = t.force
         /\ [Taken(t, s) EXCEPT !.force = v].step = s
         /\ [Taken(t, s) EXCEPT !.force = v].force = v
  BY DEF WakeTasks, Woken, Notified, Taken

(* The same for the update task.                                             *)
LEMMA UpdateFields ==
  ASSUME NEW t \in UpdateTasks, NEW v \in {0, 1}, NEW s \in UpdateSteps, NEW p \in Screens
  PROVE  /\ Woken(t).step = (IF t.step = "wait" THEN "ready" ELSE t.step)
         /\ Woken(t).screen = t.screen /\ Woken(t).note = t.note
         /\ Notified(t, v).step = Woken(t).step /\ Notified(t, v).screen = t.screen
         /\ Notified(t, v).note = v
         /\ Taken(t, s).step = s /\ Taken(t, s).note = 0
         /\ [Taken(t, s) EXCEPT !.screen = p].step = s
         /\ [Taken(t, s) EXCEPT !.screen = p].screen = p
         /\ [Taken(t, s) EXCEPT !.screen = p].note = 0
  BY DEF UpdateTasks, Woken, Notified, Taken

(* The steps of the wake-up task and who else touches its record.            *)
LEMMA WakeStep ==
  ASSUME TasksTyped, LightInv, WakeInv, [DisplayNext]_displayVars PROVE LightInv' /\ WakeInv'
<1> USE DEF TasksTyped, LightInv, WakeInv
<1>1. CASE WakeTake
  BY <1>1, WakeFields DEF WakeTake, CanTake, WakeTasks, WakeSteps
<1>2. CASE Fill \/ SetAwake \/ LightOn \/ NotifySleep
  BY <1>2 DEF Fill, SetAwake, LightOn, NotifySleep, WakeTasks
<1>8. CASE NotifyUpdate
  <2>1. wake.step \in {"redraw", "refresh"} /\ UNCHANGED <<awake, backlight, sleep>>
    BY <1>8 DEF NotifyUpdate
  <2>2. wake'.step = "wait" /\ wake'.force = 0
    BY <1>8 DEF NotifyUpdate, WakeTasks
  <2> QED BY <2>1, <2>2
<1>3. CASE UpdateNext \/ Snapshot
  BY <1>3 DEF UpdateNext, UpdateTake, Prepare, StoreLast, Draw, Snapshot
<1>4. CASE SleepNext
  BY <1>4 DEF SleepNext, SleepTake, DelayEnds, LightOff, FallAsleep, ForgetPage
<1>5. CASE Touch \/ WakeContact \/ RulesAlarm \/ WifiChanges \/ StartProgramming
  BY <1>5, WakeFields DEF Touch, WakeContact, RulesAlarm, WifiChanges, StartProgramming, Calm, WakeSteps
<1>6. CASE ProgressBar \/ EndProgramming \/ RaiseError \/ StartRunning \/ SaveSettings
  BY <1>6 DEF ProgressBar, EndProgramming, RaiseError, StartRunning, SaveSettings, Calm
<1>7. CASE UNCHANGED displayVars
  BY <1>7 DEF displayVars
<1> QED BY <1>1, <1>2, <1>3, <1>4, <1>5, <1>6, <1>7, <1>8 DEF DisplayNext, WakeNext

(* The steps that remember a page, forget it or darken the screen.           *)
LEMMA PageStep ==
  ASSUME TasksTyped, DrawInv, DarkInv, [DisplayNext]_displayVars PROVE DrawInv' /\ DarkInv'
<1> USE DEF TasksTyped, DrawInv, DarkInv
<1>1. CASE WakeTake \/ Fill \/ SetAwake \/ LightOn \/ NotifySleep
  BY <1>1 DEF WakeTake, Fill, SetAwake, LightOn, NotifySleep, pages
<1>2. CASE NotifyUpdate
  <2>1. wake.force \in {0, 1}
    BY DEF WakeTasks
  <2>2. update'.screen = update.screen
        /\ update'.step = IF update.step = "wait" THEN "ready" ELSE update.step
    BY <1>2, <2>1, UpdateFields DEF NotifyUpdate, UpdateSteps, Screens
  <2> QED BY <1>2, <2>2 DEF NotifyUpdate, pages
<1>3. CASE UpdateTake
  <2>1. CASE ~awake
    <3>1. update'.step = "wait"
      BY <1>3, <2>1, UpdateFields DEF UpdateTake, UpdateSteps, Screens
    <3> QED BY <1>3, <2>1, <3>1 DEF UpdateTake, pages
  <2>2. CASE awake
    <3>1. PICK at \in {"prepare", "draw"} :
            /\ at = "draw" => lastScreen = Reply
            /\ update' = [Taken(update, at) EXCEPT !.screen = Reply]
      BY <1>3, <2>2 DEF UpdateTake
    <3>2. update'.step = at /\ update'.screen = Reply
      BY <3>1, UpdateFields, ReplyIsScreen DEF UpdateSteps
    <3> QED BY <1>3, <2>2, <3>1, <3>2 DEF UpdateTake
  <2> QED BY <2>1, <2>2
<1>4. CASE Prepare \/ StoreLast \/ Draw
  BY <1>4 DEF Prepare, StoreLast, Draw, pages, UpdateTasks
<1>5. CASE SleepNext
  BY <1>5 DEF SleepNext, SleepTake, DelayEnds, LightOff, FallAsleep, ForgetPage, pages
<1>6. CASE Snapshot \/ EndProgramming
  BY <1>6, UpdateFields DEF Snapshot, EndProgramming, Calm, pages, UpdateSteps, Screens
<1>7. CASE Touch \/ WakeContact \/ RulesAlarm \/ WifiChanges \/ StartProgramming
  BY <1>7 DEF Touch, WakeContact, RulesAlarm, WifiChanges, StartProgramming, Calm, pages
<1>8. CASE ProgressBar \/ RaiseError \/ StartRunning \/ SaveSettings
  BY <1>8 DEF ProgressBar, RaiseError, StartRunning, SaveSettings, Calm, pages
<1>9. CASE UNCHANGED displayVars
  BY <1>9 DEF displayVars, pages
<1> QED
  BY <1>1, <1>2, <1>3, <1>4, <1>5, <1>6, <1>7, <1>8, <1>9 DEF DisplayNext, WakeNext, UpdateNext

(* The titles of a page change only with the number of banks.                *)
LEMMA TitlesStay ==
  ASSUME UNCHANGED banks, NEW s \in Screens \ {"None"} PROVE PrepareTFT(s)' = PrepareTFT(s)
  BY DEF Screens, PrepareTFT, TitlesOneBank, TitlesFourBank, TitlesMonitor, TitlesControlState,
     TitlesError, TitlesAVRProgrammer, ShownBanks

(* A step that leaves the canvas and what names its page alone.              *)
LEMMA CanvasStays ==
  ASSUME CanvasInv, TasksTyped, lastScreen \in Screens, ~disturbed' => ~disturbed,
         UNCHANGED <<banks, canvas, lastScreen>>, update'.screen = update.screen,
         sleep = "forget" => sleep' = "forget",
         update.step \in {"prepare", "store"} \/ update'.step \in {"prepare", "store"} =>
           update'.step = update.step,
         Pending /\ ~disturbed' => Pending'
  PROVE  CanvasInv'
<1>1. ASSUME NEW s \in Screens, Matches(s) PROVE Matches(s)'
  BY <1>1, TitlesStay DEF Matches, canvas
<1>2. Matches(lastScreen) => Matches(lastScreen)'
  BY <1>1
<1>3. Matches(update.screen) => Matches(update.screen)'
  BY <1>1 DEF TasksTyped, UpdateTasks
<1> QED BY <1>2, <1>3 DEF CanvasInv

(* The wake-up task: it fills a screen grey only when the page is drawn anew *)
(* or none is remembered.                                                    *)
LEMMA CanvasWake ==
  ASSUME TasksTyped, lastScreen \in Screens, WakeInv, DarkInv, CanvasInv, WakeNext
  PROVE  CanvasInv'
<1>1. CASE WakeTake
  <2>1. wake.force = 0
    BY <1>1 DEF WakeTake, CanTake, WakeInv
  <2> QED BY <1>1, <2>1, CanvasStays DEF WakeTake, settings, pages, Pending
<1>2. CASE Fill
  <2>1. CASE UNCHANGED canvas
    BY <1>2, <2>1, CanvasStays DEF Fill, settings, pages, Pending, TasksTyped, WakeTasks
  <2>2. CASE wake.force = 1
    BY <1>2, <2>2 DEF Fill, CanvasInv, Pending, TasksTyped, WakeTasks
  <2>3. CASE wake.force = 0
    <3>1. ~awake /\ UNCHANGED <<update, sleep, disturbed, lastScreen>>
      BY <1>2, <2>3 DEF Fill, WakeInv, pages
    <3> QED BY <3>1 DEF DarkInv, CanvasInv
  <2> QED BY <1>2, <2>1, <2>2, <2>3 DEF Fill, TasksTyped, WakeTasks
<1>3. CASE SetAwake \/ LightOn \/ NotifySleep
  BY <1>3, CanvasStays
  DEF SetAwake, LightOn, NotifySleep, settings, pages, Pending, TasksTyped, WakeTasks
<1>4. CASE NotifyUpdate
  <2>1. wake.force \in {0, 1} /\ update \in UpdateTasks
    BY DEF TasksTyped, WakeTasks
  <2>2. update'.note = wake.force /\ update'.screen = update.screen
        /\ update'.step = IF update.step = "wait" THEN "ready" ELSE update.step
    BY <1>4, <2>1, UpdateFields DEF NotifyUpdate, UpdateSteps, Screens
  <2>3. CASE wake.force = 1
    BY <2>2, <2>3 DEF CanvasInv, Pending
  <2>4. CASE wake.force = 0
    <3>1. Pending /\ ~disturbed' => Pending'
      BY <1>4, <2>2, <2>4 DEF NotifyUpdate, Pending
    <3> QED BY <1>4, <2>2, <3>1, CanvasStays DEF NotifyUpdate, settings, pages
  <2> QED BY <2>1, <2>3, <2>4
<1> QED BY <1>1, <1>2, <1>3, <1>4 DEF WakeNext

(* The update task: what it draws belongs to the page it has prepared.       *)
LEMMA CanvasUpdate ==
  ASSUME TasksTyped, lastScreen \in Screens, DrawInv, DarkInv, CanvasInv, UpdateNext
  PROVE  CanvasInv'
<1> USE DEF TasksTyped
<1>1. CASE UpdateTake
  <2>1. /\ update.step \in {"wait", "ready"}
        /\ UNCHANGED <<banks, canvas, lastScreen, wake, sleep>>
    BY <1>1 DEF UpdateTake, CanTake, settings, pages
  <2>2. CASE ~awake
    <3>1. update'.step = "wait" /\ disturbed' = disturbed
      BY <1>1, <2>2, UpdateFields DEF UpdateTake, UpdateSteps, Screens
    <3> QED BY <2>1, <2>2, <3>1 DEF DarkInv, CanvasInv
  <2>3. CASE awake
    <3>1. PICK at \in {"prepare", "draw"} :
            /\ at = "draw" => update.note # 1 /\ (disturbed => disturbed')
            /\ update' = [Taken(update, at) EXCEPT !.screen = Reply]
      BY <1>1, <2>3 DEF UpdateTake
    <3>2. update'.step = at
      BY <3>1, UpdateFields, ReplyIsScreen DEF UpdateSteps
    <3>3. CASE at = "prepare"
      BY <3>2, <3>3 DEF CanvasInv, Pending
    <3>4. CASE at = "draw"
      <4>1. Matches(lastScreen) => Matches(lastScreen)'
        BY <2>1, TitlesStay DEF Matches, canvas
      <4> QED BY <2>1, <3>1, <3>2, <3>4, <4>1 DEF CanvasInv, Pending
    <3> QED BY <3>3, <3>4
  <2> QED BY <2>2, <2>3
<1>2. CASE Prepare
  <2>1. update'.step = "store" /\ update'.screen = update.screen /\ update.screen \in Screens
        /\ UNCHANGED banks
    BY <1>2 DEF Prepare, UpdateTasks, settings
  <2>2. CASE ~disturbed'
    <3>1. titles' = PrepareTFT(update.screen) /\ values' = {}
      BY <1>2, <2>2 DEF Prepare
    <3>2. update.screen # "None" => titles' = PrepareTFT(update.screen)'
      BY <2>1, <3>1, TitlesStay
    <3> QED BY <2>1, <3>1, <3>2 DEF CanvasInv, Matches
  <2> QED BY <2>2 DEF CanvasInv
<1>3. CASE StoreLast
  <2>1. /\ update'.step = "draw" /\ update'.note = update.note /\ lastScreen' = update.screen
        /\ update.step = "store" /\ update.screen \in Screens
        /\ UNCHANGED <<banks, canvas, wake, sleep, disturbed>>
    BY <1>3 DEF StoreLast, UpdateTasks, settings
  <2>2. Matches(update.screen) => Matches(lastScreen)'
    BY <2>1, TitlesStay DEF Matches, canvas
  <2> QED BY <2>1, <2>2 DEF CanvasInv, Pending
<1>4. CASE Draw
  <2>1. /\ update'.step = "wait" /\ update'.note = update.note /\ update.step = "draw"
        /\ update.screen \in Screens
        /\ UNCHANGED <<banks, titles, lastScreen, wake, sleep, disturbed>>
    BY <1>4 DEF Draw, UpdateTasks, settings, pages
  <2>2. ASSUME lastScreen # "None", Matches(lastScreen) PROVE Matches(lastScreen)'
    <3>1. lastScreen = update.screen
      BY <2>1, <2>2 DEF DrawInv
    <3>2. DrawTFT(update.screen) \subseteq titles
      BY <2>1, <2>2, <3>1, DrawnHaveTitles DEF Matches
    <3>3. values' \ Bar \subseteq titles
      BY <1>4, <2>2, <3>2 DEF Draw, Matches
    <3> QED BY <2>1, <2>2, <3>3, TitlesStay DEF Matches
  <2> QED BY <2>1, <2>2 DEF CanvasInv, Pending
<1> QED BY <1>1, <1>2, <1>3, <1>4 DEF UpdateNext

(* The sleep task and those who notify.                                      *)
LEMMA CanvasOthers ==
  ASSUME TasksTyped, lastScreen \in Screens, CanvasInv,
         [DisplayNext]_displayVars, ~WakeNext, ~UpdateNext
  PROVE  CanvasInv'
<1>1. CASE SleepTake \/ DelayEnds \/ LightOff
  BY <1>1, CanvasStays DEF SleepTake, DelayEnds, LightOff, settings, pages, Pending
<1>2. CASE FallAsleep \/ ForgetPage
  BY <1>2 DEF FallAsleep, ForgetPage, CanvasInv
<1>3. CASE Snapshot \/ EndProgramming
  <2>1. /\ update'.step = (IF update.step = "wait" THEN "ready" ELSE update.step)
        /\ update'.note = update.note /\ update'.screen = update.screen
    BY <1>3, UpdateFields DEF Snapshot, EndProgramming, TasksTyped, UpdateSteps, Screens
  <2> QED
    BY <1>3, <2>1, CanvasStays DEF Snapshot, EndProgramming, Calm, settings, pages, Pending
<1>4. CASE Touch \/ WakeContact \/ RulesAlarm \/ WifiChanges \/ StartProgramming
  <2>1. wake'.force = wake.force
    BY <1>4, WakeFields
    DEF Touch, WakeContact, RulesAlarm, WifiChanges, StartProgramming, TasksTyped, WakeSteps
  <2> QED
    BY <1>4, <2>1, CanvasStays
    DEF Touch, WakeContact, RulesAlarm, WifiChanges, StartProgramming, Calm, settings, pages, Pending
<1>8. CASE ProgressBar
  <2>1. ASSUME NEW s \in Screens, Matches(s) PROVE Matches(s)'
    <3>1. values' \ Bar = values \ Bar /\ UNCHANGED <<titles, banks>>
      BY <1>8 DEF ProgressBar, Bar, settings
    <3> QED BY <2>1, <3>1, TitlesStay DEF Matches
  <2>2. UNCHANGED <<lastScreen, wake, update, sleep, disturbed>>
    BY <1>8 DEF ProgressBar, pages
  <2>3. Matches(lastScreen) => Matches(lastScreen)'
    BY <2>1, <2>2
  <2>4. Matches(update.screen) => Matches(update.screen)'
    BY <2>1, <2>2 DEF TasksTyped, UpdateTasks
  <2> QED BY <2>2, <2>3, <2>4 DEF CanvasInv, Pending
<1>5. CASE RaiseError \/ StartRunning
  BY <1>5, CanvasStays DEF RaiseError, StartRunning, Calm, settings, pages, Pending
<1>6. CASE SaveSettings
  <2>1. CASE disturbed'
    BY <2>1 DEF CanvasInv
  <2>2. CASE ~disturbed'
    BY <1>6, <2>2, CanvasStays DEF SaveSettings, Calm, settings, pages, Pending
  <2> QED BY <2>1, <2>2
<1>7. CASE UNCHANGED displayVars
  BY <1>7, CanvasStays DEF displayVars, settings, pages, Pending
<1> QED BY <1>1, <1>2, <1>3, <1>4, <1>5, <1>6, <1>7, <1>8 DEF DisplayNext, SleepNext

(* The page remembered is a page.                                            *)
LEMMA LastScreenStep ==
  ASSUME TasksTyped, lastScreen \in Screens, [DisplayNext]_displayVars
  PROVE  lastScreen' \in Screens
  BY DEF TasksTyped, UpdateTasks, Screens, DisplayNext, WakeNext, UpdateNext, SleepNext, WakeTake,
     Fill, SetAwake, LightOn, NotifySleep, NotifyUpdate, UpdateTake, Prepare, StoreLast, Draw,
     SleepTake, DelayEnds, LightOff, FallAsleep, ForgetPage, Snapshot, Touch, WakeContact, RulesAlarm, WifiChanges, StartProgramming, ProgressBar, EndProgramming, RaiseError, StartRunning, SaveSettings,
     Calm, pages, displayVars

(* The fields that are on the canvas are those of the pages.                 *)
LEMMA FieldsOfPages ==
  ASSUME NEW s \in Screens, banks \in BankCounts, titles \subseteq Fields
  PROVE  PrepareTFT(s) \subseteq Fields /\ DrawTFT(s) \subseteq Fields
<1>1. banks \in 1 .. 16
  BY ConstantAssumption
<1>2. ShownBanks(banks) \subseteq ShownBanks(16)
  BY <1>1 DEF ShownBanks
<1>3. TitlesFourBank \subseteq Fields
  BY <1>2 DEF TitlesFourBank, TitlesOneBank, Fields
<1> QED
  BY <1>3 DEF Screens, PrepareTFT, DrawTFT, Fields, TitlesOneBank, TitlesFourBank, TitlesMonitor,
     TitlesControlState, TitlesError, TitlesAVRProgrammer, ValuesOneBank, ValuesFourBank,
     ValuesMonitor, ValuesControlState, ValuesError

(* The ranges of what the tasks share.                                       *)
PagesTyped == lastScreen \in Screens /\ counter \in 0 .. CounterSize - 1 /\ page \in 0 .. 1
CanvasTyped == banks \in BankCounts /\ titles \subseteq Fields /\ values \subseteq Fields
StateTyped ==
  /\ controllerState \in {"Stabilizing", "Running"}
  /\ alarm \in {"none", "error", "programming"}
  /\ sleep \in SleepSteps /\ events \in 0 .. MaxEvents
LampsTyped == {monitoring, awake, backlight, missed, disturbed} \subseteq BOOLEAN

(* Choosing a page keeps its counters in range.                              *)
LEMMA ChoiceTyped ==
  ASSUME PagesTyped, WhatScreenToDisplay, UNCHANGED lastScreen PROVE PagesTyped'
<1>1. CounterSize \in Nat \ {0} /\ counter \in Nat
  BY ConstantAssumption DEF PagesTyped
<1>2. Page \in 0 .. 1
  BY DEF Page, Rotated, PagesTyped
<1>3. page' \in 0 .. 1
  BY <1>2 DEF WhatScreenToDisplay, PagesTyped
<1>4. \A n \in Nat : (n + 1) % CounterSize \in 0 .. CounterSize - 1
  BY <1>1
<1>5. counter' \in 0 .. CounterSize - 1
  BY <1>1, <1>4 DEF WhatScreenToDisplay
<1> QED BY <1>3, <1>5 DEF PagesTyped

(* Every step keeps the pages in range.                                      *)
LEMMA PagesStep ==
  ASSUME PagesTyped, TasksTyped, [DisplayNext]_displayVars PROVE PagesTyped'
<1>1. CASE UpdateTake \/ DelayEnds
  BY <1>1, ChoiceTyped DEF UpdateTake, DelayEnds, pages, PagesTyped
<1>2. CASE StoreLast
  BY <1>2 DEF StoreLast, PagesTyped, TasksTyped, UpdateTasks
<1>3. CASE ForgetPage
  BY <1>3, ConstantAssumption DEF ForgetPage, PagesTyped, Screens
<1>4. CASE UNCHANGED pages
  BY <1>4 DEF pages, PagesTyped
<1> QED
  BY <1>1, <1>2, <1>3, <1>4
  DEF DisplayNext, WakeNext, UpdateNext, SleepNext, WakeTake, Fill, SetAwake, LightOn,
     NotifySleep, NotifyUpdate, Prepare, Draw, SleepTake, LightOff, FallAsleep, Snapshot, Touch, WakeContact, RulesAlarm, WifiChanges, StartProgramming, ProgressBar, EndProgramming, RaiseError, StartRunning,
     SaveSettings, Calm, displayVars

(* Every step keeps the canvas within the fields.                            *)
LEMMA FieldsStep ==
  ASSUME CanvasTyped, TasksTyped, [DisplayNext]_displayVars PROVE CanvasTyped'
<1>1. CASE Fill
  BY <1>1 DEF Fill, canvas, settings, CanvasTyped
<1>2. CASE Prepare \/ Draw
  <2>1. PrepareTFT(update.screen) \subseteq Fields /\ DrawTFT(update.screen) \subseteq Fields
    BY FieldsOfPages DEF CanvasTyped, TasksTyped, UpdateTasks
  <2> QED BY <1>2, <2>1 DEF Prepare, Draw, canvas, settings, CanvasTyped
<1>3. CASE SaveSettings
  BY <1>3 DEF SaveSettings, Calm, canvas, CanvasTyped
<1>5. CASE ProgressBar
  BY <1>5 DEF ProgressBar, CanvasTyped, Fields, TitlesAVRProgrammer, settings
<1>4. CASE UNCHANGED <<banks, canvas>>
  BY <1>4 DEF canvas, CanvasTyped
<1> QED
  BY <1>1, <1>2, <1>3, <1>4, <1>5
  DEF DisplayNext, WakeNext, UpdateNext, SleepNext, WakeTake, SetAwake, LightOn, NotifySleep,
     NotifyUpdate, UpdateTake, StoreLast, SleepTake, DelayEnds, LightOff, FallAsleep, ForgetPage,
     Snapshot, Touch, WakeContact, RulesAlarm, WifiChanges, StartProgramming, ProgressBar, EndProgramming, RaiseError,
     StartRunning, Calm, settings, displayVars

(* Every step keeps the states in range.                                     *)
LEMMA StateStep == ASSUME StateTyped, [DisplayNext]_displayVars PROVE StateTyped'
  BY ConstantAssumption
  DEF StateTyped, SleepSteps, DisplayNext, WakeNext, UpdateNext, SleepNext, WakeTake, Fill,
     SetAwake, LightOn, NotifySleep, NotifyUpdate, UpdateTake, Prepare, StoreLast, Draw,
     SleepTake, DelayEnds, LightOff, FallAsleep, ForgetPage, Snapshot, Touch, WakeContact, RulesAlarm, WifiChanges, StartProgramming, ProgressBar, EndProgramming, RaiseError, StartRunning, SaveSettings,
     Event, TimesOut, Calm, settings, displayVars

(* Every step leaves flags.                                                  *)
LEMMA LampsStep == ASSUME LampsTyped, [DisplayNext]_displayVars PROVE LampsTyped'
<1> USE DEF LampsTyped, DisplayNext, WakeNext, UpdateNext, SleepNext, WakeTake, Fill, SetAwake,
       LightOn, NotifySleep, NotifyUpdate, UpdateTake, Prepare, StoreLast, Draw, SleepTake,
       DelayEnds, LightOff, FallAsleep, ForgetPage, Snapshot, Touch, WakeContact, RulesAlarm, WifiChanges,
       StartProgramming, ProgressBar, EndProgramming, RaiseError, StartRunning, SaveSettings, Calm, settings,
       displayVars
<1>1. monitoring' \in BOOLEAN
  OBVIOUS
<1>2. awake' \in BOOLEAN /\ backlight' \in BOOLEAN
  OBVIOUS
<1>3. missed' \in BOOLEAN
  OBVIOUS
<1>4. disturbed' \in BOOLEAN
  <2>1. CASE UpdateTake
    <3>1. \/ disturbed' = disturbed
          \/ \E at \in {"prepare", "draw"} : disturbed' = (disturbed /\ at = "draw")
      BY <2>1
    <3> QED BY <3>1, Zenon
  <2> QED BY <2>1
<1> QED BY <1>1, <1>2, <1>3, <1>4 DEF LampsTyped

(* Every variable of the display keeps its range.                            *)
THEOREM DisplayTyped == DisplaySpec => []DisplayTypeOK
<1> DEFINE Typed == TasksTyped /\ PagesTyped /\ CanvasTyped /\ StateTyped /\ LampsTyped
<1>1. DisplayInit => Typed
  <2> SUFFICES ASSUME DisplayInit PROVE Typed
    OBVIOUS
  <2>1. TasksTyped /\ LampsTyped
    BY DisplayStart DEF DisplayInit, DisplayInv, LampsTyped
  <2>4. StateTyped
    BY ConstantAssumption DEF DisplayInit, StateTyped, SleepSteps
  <2>2. PagesTyped
    BY ConstantAssumption DEF DisplayInit, PagesTyped, Screens
  <2>3. CanvasTyped
    BY DEF DisplayInit, CanvasTyped, Fields, TitlesControlState, ValuesControlState
  <2> QED BY <2>1, <2>2, <2>3, <2>4
<1>2. Typed /\ [DisplayNext]_displayVars => Typed'
  BY TasksStep, PagesStep, FieldsStep, StateStep, LampsStep
<1>3. Typed => DisplayTypeOK
  BY DEF TasksTyped, WakeTasks, UpdateTasks, PagesTyped, CanvasTyped, StateTyped, LampsTyped,
     DisplayTypeOK
<1> QED BY <1>1, <1>2, <1>3, PTL DEF DisplaySpec

(* Every step keeps the invariant of the display.                            *)
LEMMA DisplayStep == DisplayInv /\ [DisplayNext]_displayVars => DisplayInv'
<1> SUFFICES ASSUME DisplayInv, [DisplayNext]_displayVars PROVE DisplayInv'
  OBVIOUS
<1>1. TasksTyped' /\ LightInv' /\ WakeInv' /\ DrawInv' /\ DarkInv' /\ lastScreen' \in Screens
  BY TasksStep, WakeStep, PageStep, LastScreenStep DEF DisplayInv
<1>2. CanvasInv'
  BY CanvasWake, CanvasUpdate, CanvasOthers DEF DisplayInv
<1> QED BY <1>1, <1>2 DEF DisplayInv

(* When the tasks are idle a screen that counts as awake is lit, whatever    *)
(* the order in which the wake-up and the sleep task set the two.            *)
THEOREM DisplayIsLit == DisplaySpec => []AwakeIsLit
<1>1. DisplayInv => AwakeIsLit
  BY DEF DisplayInv, LightInv, AwakeIsLit, Idle
<1> QED BY <1>1, DisplayStart, DisplayStep, PTL DEF DisplaySpec

(* When the tasks are idle the values stand under the titles of the page     *)
(* that is remembered.                                                       *)
THEOREM DisplayIsTitled == DisplaySpec => []ValuesHaveTitles
<1>1. DisplayInv => ValuesHaveTitles
  BY DEF DisplayInv, WakeInv, CanvasInv, Pending, Matches, Bar, ValuesHaveTitles, Idle
<1> QED BY <1>1, DisplayStart, DisplayStep, PTL DEF DisplaySpec
=============================================================================
