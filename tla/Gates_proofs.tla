----------------------------- MODULE Gates_proofs -----------------------------
(***************************************************************************)
(* Theorems about Gates for every table of gates and every set of          *)
(* registered steps: what a green run has shown, and that no step gets a   *)
(* run to green by becoming worse.                                         *)
(***************************************************************************)
EXTENDS Gates, TLAPS

(* A status of one of the classes above passed *)
Worrying(st) == \E i \in DOMAIN Severity : Class(st) = Severity[i]

(* a is at least as severe as b *)
AsSevere(a, b) ==
  \A i \in DOMAIN Severity : Class(b) = Severity[i] => \E j \in 1..i : Class(a) = Severity[j]

(* The order has six classes, none of them passed. *)
LEMMA SeverityIs ==
  /\ DOMAIN Severity = 1..6
  /\ \A i \in 1..6 : Severity[i] # "passed"
  BY DEF Severity

(* _worst_status returns the first class of the order that any status is in,
   passed when there is none, and no evidence is not-run. *)
LEMMA WorstIsFirst ==
  ASSUME NEW S
  PROVE  /\ S = {} => Worst(S) = "not-run"
         /\ S # {} /\ (\A st \in S : ~Worrying(st)) => Worst(S) = "passed"
         /\ \A st \in S : Worrying(st) =>
              \E i \in 1..6 : /\ Worst(S) = Severity[i]
                              /\ \E t \in S : Class(t) = Severity[i]
                              /\ \A j \in 1..6 : Class(st) = Severity[j] => i <= j
  <1> DEFINE found == {i \in DOMAIN Severity : \E st \in S : Class(st) = Severity[i]}
             least == CHOOSE i \in found : \A j \in found : i <= j
  <1>1. found \subseteq 1..6 /\ \A st \in S : \A i \in 1..6 : Class(st) = Severity[i] => i \in found
    BY SeverityIs
  <1>2. Worst(S) = IF S = {} THEN "not-run" ELSE IF found = {} THEN "passed" ELSE Severity[least]
    BY DEF Worst
  <1>3. ASSUME NEW st \in S, Worrying(st)
        PROVE  \E i \in 1..6 : /\ Worst(S) = Severity[i]
                               /\ \E t \in S : Class(t) = Severity[i]
                               /\ \A j \in 1..6 : Class(st) = Severity[j] => i <= j
    <2>1. found # {}
      BY <1>1, <1>3, SeverityIs DEF Worrying
    <2>2. \E i \in found : \A j \in found : i <= j
      <3> HIDE DEF found
      <3>1. \A i \in found : i \in {1, 2, 3, 4, 5, 6}
        BY <1>1
      <3>2. CASE 1 \in found BY <1>1, <3>2
      <3>3. CASE 1 \notin found /\ 2 \in found BY <1>1, <3>1, <3>3
      <3>4. CASE {1, 2} \cap found = {} /\ 3 \in found BY <1>1, <3>1, <3>4
      <3>5. CASE {1, 2, 3} \cap found = {} /\ 4 \in found BY <1>1, <3>1, <3>5
      <3>6. CASE {1, 2, 3, 4} \cap found = {} /\ 5 \in found BY <1>1, <3>1, <3>6
      <3>7. CASE {1, 2, 3, 4, 5} \cap found = {} /\ 6 \in found BY <3>1, <3>7
      <3> QED BY <2>1, <3>1, <3>2, <3>3, <3>4, <3>5, <3>6, <3>7
    <2>3. least \in found /\ \A j \in found : least <= j
      <3> HIDE DEF found
      <3> QED BY <2>2
    <2>4. \E t \in S : Class(t) = Severity[least]
      BY <2>3
    <2>5. least \in 1..6 /\ \A j \in 1..6 : Class(st) = Severity[j] => least <= j
      <3> HIDE DEF found, least
      <3> QED BY <1>1, <2>3
    <2>6. Worst(S) = Severity[least]
      <3> HIDE DEF found, least
      <3> QED BY <1>2, <2>1
    <2> HIDE DEF found, least
    <2> QED BY <2>4, <2>5, <2>6
  <1>4. (\A st \in S : ~Worrying(st)) => found = {}
    BY DEF Worrying
  <1> HIDE DEF found, least
  <1> QED BY <1>2, <1>3, <1>4

(* A gate is passed exactly when it has a registered step and no registered
   step of it gives cause to worry. *)
LEMMA PassedGate ==
  ASSUME NEW g \in GateNames, NEW R, NEW eff
  PROVE  GateStatus(g, R, eff) = "passed" <=>
           GateSteps[g] \cap R # {} /\ \A s \in GateSteps[g] \cap R : ~Worrying(eff[s])
  <1> DEFINE T == GateSteps[g] \cap R
             S == {eff[s] : s \in T}
  <1>1. GateStatus(g, R, eff) = Worst(S)
    BY DEF GateStatus
  <1>2. S = {} <=> T = {}
    OBVIOUS
  <1>3. \A s \in T : eff[s] \in S
    OBVIOUS
  <1>4. (\A s \in T : ~Worrying(eff[s])) <=> \A st \in S : ~Worrying(st)
    OBVIOUS
  <1> HIDE DEF S
  <1>5. Worst(S) = "passed" => S # {} /\ \A st \in S : ~Worrying(st)
    <2>1. S = {} => Worst(S) = "not-run"
      BY WorstIsFirst
    <2>2. ASSUME NEW st \in S, Worrying(st) PROVE Worst(S) # "passed"
      BY <2>2, WorstIsFirst, SeverityIs
    <2> QED BY <2>1, <2>2
  <1>6. S # {} /\ (\A st \in S : ~Worrying(st)) => Worst(S) = "passed"
    BY WorstIsFirst
  <1> QED BY <1>1, <1>2, <1>4, <1>5, <1>6

(* Green is fail-closed: every hard gate that was not declared inapplicable
   has a step that was registered, and none of its registered steps failed, is
   stale, did not run, retries, warns or was skipped (classify_run_outcome). *)
THEOREM GreenIsFailClosed ==
  ASSUME NEW status, NEW errors \in BOOLEAN, NEW R, NEW eff, NEW traced \in BOOLEAN,
         Outcome(status, errors, R, eff, traced) = "green"
  PROVE  /\ status = "completed" /\ ~errors /\ traced
         /\ \A g \in HardGates \ DeclaredNA :
              /\ GateSteps[g] \cap R # {}
              /\ \A s \in GateSteps[g] \cap R : ~Worrying(eff[s])
  <1>1. status = "completed" /\ ~errors /\ traced /\ Blocking(R, eff) = {}
    BY DEF Outcome
  <1>2. ASSUME NEW g \in HardGates \ DeclaredNA
        PROVE  GateStatus(g, R, eff) = "passed"
    BY <1>1 DEF Blocking
  <1>3. HardGates \subseteq GateNames
    BY DEF HardGates
  <1> QED BY <1>1, <1>2, <1>3, PassedGate

(* A run does not become green because some of its steps got worse: if it is
   green with them, it was green before, whatever they were.  Gates declared
   inapplicable are kept out of the comparison: not-run is excused there, the
   milder warning is not. *)
THEOREM WorseIsNotGreener ==
  ASSUME NEW status, NEW errors \in BOOLEAN, NEW R, NEW traced \in BOOLEAN,
         NEW eff, NEW worse,
         \A s \in R : AsSevere(worse[s], eff[s]),
         \A g \in DeclaredNA : \A s \in GateSteps[g] \cap R : worse[s] = eff[s],
         Outcome(status, errors, R, worse, traced) = "green"
  PROVE  Outcome(status, errors, R, eff, traced) = "green"
  <1>1. status = "completed" /\ ~errors /\ traced /\ Blocking(R, worse) = {}
    BY DEF Outcome
  <1>2. ASSUME NEW s \in R, Worrying(eff[s]) PROVE Worrying(worse[s])
    <2>1. PICK i \in DOMAIN Severity : Class(eff[s]) = Severity[i]
      BY <1>2 DEF Worrying
    <2>2. PICK j \in 1..i : Class(worse[s]) = Severity[j]
      BY <2>1 DEF AsSevere
    <2> QED BY <2>1, <2>2, SeverityIs DEF Worrying
  <1>3. HardGates \subseteq GateNames
    BY DEF HardGates
  <1>4. ASSUME NEW g \in HardGates \ DeclaredNA PROVE g \notin Blocking(R, eff)
    <2>1. GateStatus(g, R, worse) = "passed"
      BY <1>1, <1>4 DEF Blocking
    <2>2. GateStatus(g, R, eff) = "passed"
      BY <1>2, <1>3, <2>1, PassedGate
    <2> QED BY <2>2 DEF Blocking
  <1>5. ASSUME NEW g \in HardGates \cap DeclaredNA PROVE g \notin Blocking(R, eff)
    <2>1. {eff[s] : s \in GateSteps[g] \cap R} = {worse[s] : s \in GateSteps[g] \cap R}
      OBVIOUS
    <2>2. GateStatus(g, R, eff) = GateStatus(g, R, worse)
      BY <2>1 DEF GateStatus
    <2> QED BY <1>1, <2>2 DEF Blocking
  <1>6. Blocking(R, eff) = {}
    BY <1>4, <1>5 DEF Blocking
  <1> QED BY <1>1, <1>6 DEF Outcome
=============================================================================
