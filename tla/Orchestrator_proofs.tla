------------------------- MODULE Orchestrator_proofs -------------------------
(***************************************************************************)
(* Theorems about Orchestrator for every set of steps, groups, profiles,   *)
(* outcomes and bounds.                                                    *)
(*                                                                         *)
(* The invariant is in layers, each proved from those before it: types;    *)
(* which threads may be alive; the walk over the registered steps; the     *)
(* life of a step; the cache; the final report; session.json; and, each on *)
(* these, the saved result of a run and the evidence behind its verdict.   *)
(***************************************************************************)
EXTENDS Orchestrator, FiniteSetTheorems, WellFoundedInduction, TLAPS

(* TypeOK, in parts *)
FlowTyped ==
  /\ stage \in {"idle", "loop", "join", "classify", "publish", "done"}
  /\ at \in Steps \cup {None}
  /\ profile \subseteq Steps /\ from \in Nat /\ serial \in BOOLEAN
  /\ runs \in 0..MaxRuns /\ faults \in 0..MaxFaults
ThreadsTyped ==
  /\ th \in [Steps -> {"idle", "ready", "handler", "output", "judge", "judge cached"}]
  /\ ret \in [Steps -> {"none", "ok", "block", "failed"}]
  /\ wrote \subseteq Steps
StatusTyped ==
  /\ status \in {"none", "created", "completed", "failed"}
  /\ steps \in [Steps -> StepStatus] /\ errors \in BOOLEAN
  /\ verdict \in {NoVerdict, "green", "unverified", "red"}
  /\ job \in {"none", "running", "completed", "failed"}
FilesTyped ==
  /\ out \in [Steps -> Output] /\ arts \in [Steps -> Output]
  /\ file \in [Steps -> Artifact \cup {None}]
CacheTyped == cache \in [Steps -> [output: Output, says: Verdict] \cup {None}]
SavedInRun == saved = None \/ saved.run \in 1..runs

(* Types, and what a save may take from the session directory. *)
SavedTyped ==
  saved # None =>
    /\ saved.arts \in [Steps -> Output] /\ saved.file \in [Steps -> Artifact \cup {None}]
    /\ \A s \in Steps : saved.arts[s] = "own" => saved.file[s] # None
OwnIsThere == \A s \in Steps : out[s] = "own" \/ arts[s] = "own" => file[s] # None
TypeInv == TypeOK /\ SavedTyped /\ OwnIsThere /\ (runs = 0 => stage = "idle" /\ Busy = {})

(* Only a launched team runs; outside a pool a step runs alone, and nothing
   starts after a step has said stop. *)
ThreadInv ==
  /\ stage # "join" => Busy = {}
  /\ stage = "loop" => ~Broken
  /\ \A s \in Busy : /\ at # None /\ s \in Team(at) /\ ret[s] = "none"
                     /\ ~Pooled(s) => Busy = {s} /\ ~Broken

(* The life of a step: its recorded status follows its thread. *)
Looping == stage \in {"loop", "join"}
Life(s) ==
  /\ th[s] = "ready" => steps[s] = "pending"
  /\ th[s] \in {"handler", "output"} => steps[s] = "running"
  /\ th[s] \in {"judge", "judge cached"} => steps[s] = "completed"
  /\ Looping /\ th[s] = "idle" /\ ret[s] = "none" =>
       steps[s] = (IF s \in profile THEN "pending" ELSE "absent")
  /\ ret[s] = "ok" => steps[s] \in {"completed", "failed", "skipped"}
  /\ stage # "idle" /\ s \in profile => steps[s] # "absent"
  /\ stage # "idle" /\ s \notin profile => steps[s] = "absent" /\ ret[s] = "none"
LifeInv == \A s \in Steps : Life(s)

(* The loop has passed a step only after it was executed or skipped. *)
WalkInv ==
  /\ at # None => at \in profile
  /\ Looping => \A s \in profile : at = None \/ s < at => ret[s] # "none"

(* A failed output is neither cached nor taken from the cache. *)
CacheInv ==
  \A s \in Steps :
    /\ cache[s] # None => s \in Reusable /\ (cache[s].output = "own" => cache[s].says # "failed")
    /\ th[s] = "judge cached" => s \in Reusable /\ (out[s] = "own" => file[s].says # "failed")

(* A run is completed when its final report, the last step, has begun; it has
   failed when a step said stop. *)
ReportInv ==
  /\ Looping /\ status = "failed" => Broken
  /\ Looping /\ status = "completed" =>
       /\ th[FinalReport] # "ready" /\ (ret[FinalReport] # "none" \/ th[FinalReport] # "idle")
       /\ \A s \in profile \ {FinalReport} : ret[s] # "none"
  /\ th[FinalReport] \in {"handler", "output", "judge"} => status = "completed"
  /\ Looping /\ ret[FinalReport] = "ok" /\ steps[FinalReport] # "skipped" => status = "completed"

(* Steps that have ended, or are not registered. *)
Ended(s) == steps[s] \in {"absent", "completed", "failed", "skipped"}

(* session.json after the loop *)
Returned == stage \in {"classify", "publish"} \/ (stage = "done" /\ job = "completed")
DiskInv ==
  /\ CompletedOnDisk
  /\ stage \in {"idle", "loop", "join", "classify"} => verdict = NoVerdict
  /\ stage = "classify" /\ status = "completed" =>
       (\A s \in Steps : Ended(s)) /\ (\A s \in profile : ret[s] = "ok")
  /\ Returned => saved.run = runs /\ saved.status = status /\ saved.steps = steps
  /\ Returned /\ status \in {"completed", "failed"} =>
       \/ saved.verdict = (IF status = "completed" THEN verdict ELSE NoVerdict)
       \/ saved.verdict = NoVerdict /\ faults > 0

(* --from-step names a registered step; the code does not check it *)
FromWithin == \A p \in Profiles, f \in FromSteps : FinalReport \in p => f <= Cardinality(p)
FinalInv ==
  /\ Looping /\ FinalReport \in profile => from <= Cardinality(profile)
  /\ Looping => steps[FinalReport] # "skipped"
  /\ Returned => status \in {"completed", "failed"}

(* Where the output and the artifact of a step come from. *)
Evidence(s) ==
  /\ file[s] # None => s \in wrote \/ s < from \/ s \in Reusable
  /\ th[s] # "idle" \/ steps[s] = "completed" => s >= from
  /\ out[s] = "own" /\ s \notin Reusable => s \in wrote
  /\ s \in wrote => /\ th[s] \notin {"ready", "handler"} /\ steps[s] # "pending"
                    /\ out[s] = "own" /\ file[s] # None /\ file[s].says \in Outcomes[s]
  /\ s \in wrote \ Text /\ th[s] = "idle" /\ ret[s] = "ok" /\ steps[s] = "completed"
       /\ file[s].says = "retry" => errors
EvidenceInv ==
  /\ \A s \in Steps : Evidence(s)
  /\ verdict = "green" => stage \in {"publish", "done"}
  /\ GreenIsEarned
-----------------------------------------------------------------------------
(* The order of the steps *)

(* The steps are finitely many numbers, the last of them the final report. *)
LEMMA StepsAreNumbers ==
  /\ Steps \subseteq 1..FinalReport /\ Steps \subseteq Nat \ {0} /\ FinalReport \in Steps
  /\ FinalReport \in Nat /\ IsFiniteSet(Steps) /\ None \notin Steps
  <1>1. Steps \subseteq Nat \ {0} /\ FinalReport \in Steps /\ \A s \in Steps : s <= FinalReport
    BY GatesAssumption, StepsAssumption DEF GatesAssumption, StepsAssumption
  <1>2. Steps \subseteq 1..FinalReport /\ FinalReport \in Nat
    BY <1>1
  <1>3. IsFiniteSet(1..FinalReport)
    BY <1>2, FS_Interval
  <1>4. IsFiniteSet(Steps)
    BY <1>2, <1>3, FS_Subset
  <1> QED BY <1>1, <1>2, <1>4, NoneAssumption DEF NoneAssumption

(* Among some numbers there is a smallest one. *)
LEMMA MinIsFirst ==
  ASSUME NEW S, S \subseteq Nat, S # {}
  PROVE  Min(S) \in S /\ \A x \in S : Min(S) <= x
  <1> DEFINE Less == OpToRel(<, Nat)
  <1> HIDE DEF Less
  <1>1. PICK t \in S : \A u \in S : ~(<<u, t>> \in Less)
    <2>1. IsWellFoundedOn(Less, Nat)
      BY NatLessThanWellFounded DEF Less
    <2> QED BY <2>1, WFMin
  <1>2. \A u \in S : t <= u
    <2> SUFFICES ASSUME NEW u \in S PROVE t <= u
      OBVIOUS
    <2>1. t \in Nat /\ u \in Nat /\ ~(<<u, t>> \in Less)
      BY <1>1
    <2>2. u < t => <<u, t>> \in Less
      BY <2>1 DEF OpToRel, Less
    <2> QED BY <2>1, <2>2
  <1> QED BY <1>2 DEF Min

(* After(s) is the next registered step. *)
LEMMA AfterIsNext ==
  ASSUME NEW s \in Steps, profile \subseteq Steps
  PROVE  \/ After(s) = None /\ \A t \in profile : t <= s
         \/ /\ After(s) \in profile /\ After(s) # None /\ After(s) > s
            /\ \A t \in profile : t <= s \/ After(s) <= t
  <1> DEFINE later == {t \in profile : t > s}
  <1>1. profile \subseteq Nat /\ s \in Nat /\ later \subseteq Nat
    BY StepsAreNumbers
  <1>2. CASE later = {}
    BY <1>1, <1>2 DEF After
  <1>3. CASE later # {}
    <2>1. Min(later) \in later /\ \A t \in later : Min(later) <= t
      BY <1>1, <1>3, MinIsFirst
    <2>2. After(s) = Min(later)
      BY <1>3 DEF After
    <2> QED BY <1>1, <2>1, <2>2, StepsAreNumbers
  <1> QED BY <1>2, <1>3

(* The position of a step is at most its number; the final report comes last. *)
LEMMA PositionIsSmall ==
  ASSUME NEW s \in Steps, profile \subseteq Steps
  PROVE  /\ Position(s) \in Nat /\ Position(s) <= s
         /\ s = FinalReport => Position(s) = Cardinality(profile)
  <1> DEFINE upto == {t \in profile : t <= s}
  <1>1. upto \subseteq 1..s /\ s \in Nat /\ s >= 1
    <2>1. s \in Nat \ {0} /\ profile \subseteq Nat \ {0}
      BY StepsAreNumbers
    <2>2. \A t \in upto : t \in 1..s
      BY <2>1
    <2>3. s \in Nat /\ s >= 1
      BY <2>1
    <2> HIDE DEF upto
    <2> QED BY <2>2, <2>3
  <1>2. IsFiniteSet(1..s) /\ Cardinality(1..s) = s
    BY <1>1, FS_Interval
  <1>3. IsFiniteSet(upto) /\ Cardinality(upto) <= s
    BY <1>1, <1>2, FS_Subset
  <1>4. Cardinality(upto) \in Nat
    BY <1>3, FS_CardinalityType
  <1>5. ASSUME s = FinalReport PROVE upto = profile
    BY <1>5, StepsAreNumbers
  <1> QED BY <1>3, <1>4, <1>5 DEF Position

(* A team is registered; the final report works alone; groups do not overlap. *)
LEMMA TeamIsOne ==
  ASSUME NEW s \in Steps
  PROVE  /\ Team(s) \subseteq profile
         /\ s \in profile => s \in Team(s)
         /\ FinalReport \in Team(s) => s = FinalReport
         /\ \A t \in Team(s) : s \in profile /\ (\E G \in Groups : t \in G) => \E G \in Groups : s \in G
         /\ (~ \E G \in Groups : s \in G) => Team(s) \subseteq {s}
  BY StepsAssumption DEF StepsAssumption, Team
-----------------------------------------------------------------------------
(* Types *)

(* An artifact is not None. *)
LEMMA ArtifactIsThere ==
  ASSUME NEW v \in Verdict, NEW o \in BOOLEAN
  PROVE  [says |-> v, ours |-> o] \in Artifact \ {None}
  <1>1. [says |-> v, ours |-> o] \in Artifact
    BY DEF Artifact
  <1> QED BY <1>1, NoneAssumption DEF NoneAssumption

LEMMA TypeOKInParts ==
  TypeOK <=> /\ FlowTyped /\ ThreadsTyped /\ StatusTyped
             /\ FilesTyped /\ CacheTyped /\ SavedInRun
  BY DEF TypeOK, FlowTyped, ThreadsTyped, StatusTyped, FilesTyped, CacheTyped, SavedInRun

LEMMA InitTypes == Init => TypeInv
  <1> SUFFICES ASSUME Init PROVE TypeInv
    OBVIOUS
  <1>1. FlowTyped
    <2>1. runs \in 0..MaxRuns /\ faults \in 0..MaxFaults /\ from \in Nat
      BY RunsAssumption DEF RunsAssumption, Init
    <2>2. profile \subseteq Steps /\ serial \in BOOLEAN /\ at \in Steps \cup {None}
      BY DEF Init
    <2> QED BY <2>1, <2>2 DEF Init, FlowTyped
  <1>4. ThreadsTyped /\ StatusTyped
    BY DEF Init, ThreadsTyped, StatusTyped, Absent, StepStatus, NoVerdict
  <1>2. FilesTyped /\ CacheTyped /\ SavedInRun /\ SavedTyped /\ OwnIsThere
    BY DEF Init, FilesTyped, CacheTyped, SavedInRun, SavedTyped, OwnIsThere, Absent, Output
  <1>3. runs = 0 => stage = "idle" /\ Busy = {}
    BY DEF Init, Absent, Busy
  <1> QED BY <1>1, <1>2, <1>3, <1>4, TypeOKInParts DEF TypeInv

(* What the cache hands back fits the session directory and takes nothing
   out of it. *)
LEMMA FetchedFits ==
  ASSUME FilesTyped, CacheTyped, NEW s \in Steps, cache[s] # None
  PROVE  /\ Fetched(s) \in [Steps -> Artifact \cup {None}]
         /\ \A t \in Steps : file[t] # None => Fetched(s)[t] # None
  <1>1. cache[s].output \in Output /\ cache[s].says \in Verdict
    BY DEF CacheTyped
  <1>2. [says |-> cache[s].says, ours |-> TRUE] \in Artifact /\ [says |-> cache[s].says, ours |-> TRUE] # None
    BY <1>1, ArtifactIsThere DEF Artifact
  <1> QED BY <1>2 DEF FilesTyped, Fetched

(* What the cache takes is an output it can hand back. *)
LEMMA StoredFits ==
  ASSUME FilesTyped, CacheTyped, OwnIsThere, NEW s \in Steps
  PROVE  Stored(s) \in [Steps -> [output: Output, says: Verdict] \cup {None}]
  BY DEF CacheTyped, FilesTyped, OwnIsThere, Stored, Artifact, Verdict

LEMMA StepTypes ==
  ASSUME TypeInv, [Next]_vars
  PROVE  TypeInv'
  <1> DEFINE Goal == /\ FlowTyped' /\ ThreadsTyped' /\ StatusTyped' /\ FilesTyped'
                     /\ CacheTyped' /\ SavedInRun' /\ SavedTyped' /\ OwnIsThere'
                     /\ (runs' = 0 => stage' = "idle" /\ Busy' = {})
  <1>0. /\ FlowTyped /\ ThreadsTyped /\ StatusTyped /\ FilesTyped
        /\ CacheTyped /\ SavedInRun /\ SavedTyped /\ OwnIsThere
        /\ (runs = 0 => stage = "idle" /\ Busy = {})
    BY TypeOKInParts DEF TypeInv
  <1>a. Steps \subseteq Nat /\ FromSteps \subseteq Nat /\ Modes \subseteq BOOLEAN
        /\ Profiles \subseteq SUBSET Steps /\ {} \notin Profiles
        /\ MaxRuns \in Nat /\ MaxFaults \in Nat
    BY StepsAreNumbers, StepsAssumption, RunsAssumption
  <1>b. stage # "idle" \/ (\E s \in Steps : th[s] # "idle") => runs \in 1..runs
    <2>1. runs \in Nat
      BY <1>0 DEF FlowTyped
    <2>2. stage # "idle" \/ (\E s \in Steps : th[s] # "idle") => runs # 0
      BY <1>0 DEF Busy
    <2> QED BY <2>1, <2>2
  <1>c. None \notin Artifact /\ \A s \in Steps : Outcomes[s] \subseteq Verdict
    BY NoneAssumption, StepsAssumption
  <1>1. ASSUME NEW p \in Profiles, NEW f \in FromSteps, NEW same \in BOOLEAN, NEW m \in Modes, Start(p, f, same, m) PROVE  Goal
    <2>1. FlowTyped'
      <3>1. p # {} /\ p \subseteq Steps /\ p \subseteq Nat /\ f \in Nat /\ m \in BOOLEAN
        BY <1>a
      <3>2. Min(p) \in p
        BY <3>1, MinIsFirst
      <3>3. runs' \in 0..MaxRuns /\ faults' \in 0..MaxFaults /\ from' \in Nat
        BY <1>0, <1>a, <1>1, <3>1 DEF Start, FlowTyped
      <3> QED BY <1>1, <3>1, <3>2, <3>3 DEF Start, FlowTyped
    <2>2. ThreadsTyped'
      BY <1>0, <1>1 DEF Start, Absent, ThreadsTyped
    <2>3. StatusTyped'
      BY <1>0, <1>1 DEF Start, StatusTyped, StepStatus
    <2>4. FilesTyped'
      <3>1. \A s \in Restored(f) :
              /\ saved.arts[s] \in Output
              /\ saved.arts[s] = "own" => saved.file[s] \in Artifact
        BY <1>0 DEF Restored, SavedTyped
      <3>2. arts' \in [Steps -> Output] /\ out' \in [Steps -> Output]
        <4>1. ASSUME NEW s \in Steps PROVE arts'[s] \in Output /\ out'[s] \in Output
          <5>1. CASE s \in Restored(f)
            BY <1>1, <3>1, <5>1 DEF Start, Absent, Output
          <5>2. CASE s \notin Restored(f)
            BY <1>1, <5>2 DEF Start, Absent, Output
          <5> QED BY <5>1, <5>2
        <4>2. arts' = [s \in Steps |-> arts'[s]] /\ out' = [s \in Steps |-> out'[s]]
          BY <1>1 DEF Start, Absent
        <4> QED BY <4>1, <4>2
      <3>3. ASSUME NEW a \in Artifact PROVE  [a EXCEPT !.ours = @ /\ same] \in Artifact
        BY DEF Artifact
      <3>4. file' \in [Steps -> Artifact \cup {None}]
        <4>1. ASSUME NEW s \in Steps PROVE file'[s] \in Artifact \cup {None}
          <5>1. CASE s \in Restored(f) /\ saved.arts[s] = "own"
            <6>1. file'[s] = [saved.file[s] EXCEPT !.ours = @ /\ same]
              BY <1>1, <5>1 DEF Start
            <6> QED BY <3>1, <3>3, <5>1, <6>1
          <5>2. CASE ~(s \in Restored(f) /\ saved.arts[s] = "own")
            BY <1>1, <5>2 DEF Start
          <5> QED BY <5>1, <5>2
        <4>2. file' = [s \in Steps |-> file'[s]]
          BY <1>1 DEF Start
        <4> QED BY <4>1, <4>2
      <3> QED BY <3>2, <3>4 DEF FilesTyped
    <2>5. CacheTyped'
      BY <1>0, <1>1 DEF Start, CacheTyped
    <2>6. SavedInRun'
      BY <1>0, <1>1 DEF Start, SavedInRun, FlowTyped
    <2>7. SavedTyped'
      BY <1>0, <1>1 DEF Start, SavedTyped
    <2>8. OwnIsThere'
      <3>1. \A s \in Restored(f) : saved.arts[s] = "own" => saved.file[s] \in Artifact
        BY <1>0 DEF Restored, SavedTyped
      <3>2. ASSUME NEW a \in Artifact PROVE  [a EXCEPT !.ours = @ /\ same] # None
        BY <1>c DEF Artifact
      <3>3. SUFFICES ASSUME NEW s \in Steps, out'[s] = "own" \/ arts'[s] = "own" PROVE file'[s] # None
        BY DEF OwnIsThere
      <3>4. s \in Restored(f) /\ saved.arts[s] = "own"
        BY <1>1, <3>3 DEF Start, Absent
      <3>5. file'[s] = [saved.file[s] EXCEPT !.ours = @ /\ same]
        BY <1>1, <3>4 DEF Start
      <3> QED BY <3>1, <3>2, <3>4, <3>5
    <2>9. runs' = 0 => stage' = "idle" /\ Busy' = {}
      BY <1>0, <1>1 DEF Start, FlowTyped
    <2> QED BY <2>1, <2>2, <2>3, <2>4, <2>5, <2>6, <2>7, <2>8, <2>9
  <1>2. ASSUME SkipStep PROVE  Goal
    <2>1. FlowTyped'
      BY <1>0, AfterIsNext, <1>2 DEF SkipStep, FlowTyped, params
    <2>2. ThreadsTyped'
      BY <1>0, <1>2 DEF SkipStep, ThreadsTyped
    <2>3. StatusTyped'
      BY <1>0, <1>2 DEF SkipStep, StatusTyped, result, StepStatus
    <2>4. FilesTyped'
      BY <1>0, <1>2 DEF SkipStep, FilesTyped
    <2>5. CacheTyped'
      BY <1>0, <1>2 DEF SkipStep, CacheTyped
    <2>6. SavedInRun'
      BY <1>0, <1>2 DEF SkipStep, SavedInRun, params
    <2>7. SavedTyped'
      BY <1>0, <1>2 DEF SkipStep, SavedTyped
    <2>8. OwnIsThere'
      BY <1>0, <1>2 DEF SkipStep, OwnIsThere
    <2>9. runs' = 0 => stage' = "idle" /\ Busy' = {}
      BY <1>0, <1>2 DEF SkipStep, params
    <2> QED BY <2>1, <2>2, <2>3, <2>4, <2>5, <2>6, <2>7, <2>8, <2>9
  <1>3. ASSUME Launch PROVE  Goal
    <2>1. FlowTyped'
      BY <1>0, <1>3 DEF Launch, FlowTyped, params
    <2>2. ThreadsTyped'
      BY <1>0, <1>3 DEF Launch, ThreadsTyped
    <2>3. StatusTyped'
      BY <1>0, <1>3 DEF Launch, StatusTyped, session, result
    <2>4. FilesTyped'
      BY <1>0, <1>3 DEF Launch, FilesTyped, session
    <2>5. CacheTyped'
      BY <1>0, <1>3 DEF Launch, CacheTyped
    <2>6. SavedInRun'
      BY <1>0, <1>3 DEF Launch, SavedInRun, params
    <2>7. SavedTyped'
      BY <1>0, <1>3 DEF Launch, SavedTyped
    <2>8. OwnIsThere'
      BY <1>0, <1>3 DEF Launch, OwnIsThere, session
    <2>9. runs' = 0 => stage' = "idle" /\ Busy' = {}
      BY <1>0, <1>3 DEF Launch, params
    <2> QED BY <2>1, <2>2, <2>3, <2>4, <2>5, <2>6, <2>7, <2>8, <2>9
  <1>4. ASSUME Advance PROVE  Goal
    <2>1. FlowTyped'
      BY <1>0, AfterIsNext, <1>4 DEF Advance, FlowTyped, params
    <2>2. ThreadsTyped'
      BY <1>0, <1>4 DEF Advance, ThreadsTyped, threads
    <2>3. StatusTyped'
      BY <1>0, <1>4 DEF Advance, StatusTyped, session, result
    <2>4. FilesTyped'
      BY <1>0, <1>4 DEF Advance, FilesTyped, session, threads
    <2>5. CacheTyped'
      BY <1>0, <1>4 DEF Advance, CacheTyped
    <2>6. SavedInRun'
      BY <1>0, <1>4 DEF Advance, SavedInRun, params
    <2>7. SavedTyped'
      BY <1>0, <1>4 DEF Advance, SavedTyped
    <2>8. OwnIsThere'
      BY <1>0, <1>4 DEF Advance, OwnIsThere, session, threads
    <2>9. runs' = 0 => stage' = "idle" /\ Busy' = {}
      BY <1>0, <1>4 DEF Advance, params
    <2> QED BY <2>1, <2>2, <2>3, <2>4, <2>5, <2>6, <2>7, <2>8, <2>9
  <1>5. ASSUME Join PROVE  Goal
    <2>1. FlowTyped'
      BY <1>0, <1>5 DEF Join, FlowTyped, params
    <2>2. ThreadsTyped'
      BY <1>0, <1>5 DEF Join, ThreadsTyped, threads
    <2>3. StatusTyped'
      BY <1>0, <1>5 DEF Join, StatusTyped, session, result
    <2>4. FilesTyped'
      BY <1>0, <1>5 DEF Join, FilesTyped, session, threads
    <2>5. CacheTyped'
      BY <1>0, <1>5 DEF Join, CacheTyped
    <2>6. SavedInRun'
      BY <1>0, <1>5 DEF Join, SavedInRun, params
    <2>7. SavedTyped'
      BY <1>0, <1>5 DEF Join, SavedTyped
    <2>8. OwnIsThere'
      BY <1>0, <1>5 DEF Join, OwnIsThere, session, threads
    <2>9. runs' = 0 => stage' = "idle" /\ Busy' = {}
      BY <1>0, <1>5 DEF Join, params
    <2> QED BY <2>1, <2>2, <2>3, <2>4, <2>5, <2>6, <2>7, <2>8, <2>9
  <1>6. ASSUME Conclude PROVE  Goal
    <2>1. FlowTyped'
      BY <1>0, <1>6 DEF Conclude, FlowTyped, params
    <2>2. ThreadsTyped'
      BY <1>0, <1>6 DEF Conclude, ThreadsTyped, threads
    <2>3. StatusTyped'
      BY <1>0, <1>6 DEF Conclude, StatusTyped, result
    <2>4. FilesTyped'
      BY <1>0, <1>6 DEF Conclude, FilesTyped, threads
    <2>5. CacheTyped'
      BY <1>0, <1>6 DEF Conclude, CacheTyped
    <2>6. SavedInRun'
      BY <1>0, <1>b, <1>6 DEF Conclude, Snapshot, SavedInRun, params
    <2>7. SavedTyped'
      BY <1>0, <1>6 DEF Conclude, Snapshot, SavedTyped, FilesTyped, OwnIsThere
    <2>8. OwnIsThere'
      BY <1>0, <1>6 DEF Conclude, OwnIsThere, threads
    <2>9. runs' = 0 => stage' = "idle" /\ Busy' = {}
      BY <1>0, <1>6 DEF Conclude, params
    <2> QED BY <2>1, <2>2, <2>3, <2>4, <2>5, <2>6, <2>7, <2>8, <2>9
  <1>7. ASSUME Publish PROVE  Goal
    <2>1. FlowTyped'
      BY <1>0, <1>7 DEF Publish, FlowTyped, params
    <2>2. ThreadsTyped'
      BY <1>0, <1>7 DEF Publish, ThreadsTyped, threads
    <2>3. StatusTyped'
      BY <1>0, <1>7 DEF Publish, StatusTyped, session
    <2>4. FilesTyped'
      BY <1>0, <1>7 DEF Publish, FilesTyped, session, threads
    <2>5. CacheTyped'
      BY <1>0, <1>7 DEF Publish, CacheTyped
    <2>6. SavedInRun'
      BY <1>0, <1>7 DEF Publish, SavedInRun, params
    <2>7. SavedTyped'
      BY <1>0, <1>7 DEF Publish, SavedTyped
    <2>8. OwnIsThere'
      BY <1>0, <1>7 DEF Publish, OwnIsThere, session, threads
    <2>9. runs' = 0 => stage' = "idle" /\ Busy' = {}
      BY <1>0, <1>7 DEF Publish, params
    <2> QED BY <2>1, <2>2, <2>3, <2>4, <2>5, <2>6, <2>7, <2>8, <2>9
  <1>8. ASSUME NEW traced \in BOOLEAN, Classify(traced) PROVE  Goal
    <2>1. FlowTyped'
      BY <1>0, <1>a, <1>8 DEF Classify, FlowTyped, params
    <2>2. ThreadsTyped'
      BY <1>0, <1>8 DEF Classify, ThreadsTyped, threads
    <2>3. StatusTyped'
      BY <1>0, <1>8 DEF Classify, StatusTyped, session, Outcome
    <2>4. FilesTyped'
      BY <1>0, <1>8 DEF Classify, FilesTyped, session, threads
    <2>5. CacheTyped'
      BY <1>0, <1>8 DEF Classify, CacheTyped
    <2>6. SavedInRun'
      BY <1>0, <1>b, <1>8 DEF Classify, Snapshot, SavedInRun, params
    <2>7. SavedTyped'
      BY <1>0, <1>8 DEF Classify, Snapshot, SavedTyped, FilesTyped, OwnIsThere
    <2>8. OwnIsThere'
      BY <1>0, <1>8 DEF Classify, OwnIsThere, session, threads
    <2>9. runs' = 0 => stage' = "idle" /\ Busy' = {}
      BY <1>0, <1>8 DEF Classify, params
    <2> QED BY <2>1, <2>2, <2>3, <2>4, <2>5, <2>6, <2>7, <2>8, <2>9
  <1>9. ASSUME NEW s \in Steps, CacheHit(s) PROVE  Goal
    <2>1. FlowTyped'
      BY <1>0, <1>9 DEF CacheHit, FlowTyped, params
    <2>2. ThreadsTyped'
      BY <1>0, <1>9 DEF CacheHit, Goto, ThreadsTyped
    <2>3. StatusTyped'
      BY <1>0, <1>9 DEF CacheHit, StatusTyped, result, StepStatus
    <2>4. FilesTyped'
      BY <1>0, <1>9 DEF CacheHit, Fetched, FilesTyped, CacheTyped, Artifact
    <2>5. CacheTyped'
      BY <1>0, <1>9 DEF CacheHit, Fetched, CacheTyped
    <2>6. SavedInRun'
      BY <1>0, <1>b, <1>9 DEF CacheHit, Snapshot, SavedInRun, params
    <2>7. SavedTyped'
      BY <1>0, <1>9 DEF CacheHit, Fetched, Snapshot, SavedTyped, FilesTyped, OwnIsThere
    <2>8. OwnIsThere'
      <3>1. SUFFICES ASSUME NEW t \in Steps, out'[t] = "own" \/ arts'[t] = "own" PROVE file'[t] # None
        BY DEF OwnIsThere
      <3>2. CASE t = s
        <4>1. cache[s].output = "own" /\ cache[s].says \in Verdict
          BY <1>0, <1>9, <3>1, <3>2 DEF CacheHit, Fetched, CacheTyped, FilesTyped
        <4>2. file'[s] = [says |-> cache[s].says, ours |-> TRUE]
          BY <1>0, <1>9, <4>1 DEF CacheHit, Fetched, FilesTyped
        <4> QED BY <3>2, <4>1, <4>2, ArtifactIsThere
      <3> QED BY <1>0, <1>9, <3>1, <3>2 DEF CacheHit, Fetched, FilesTyped, OwnIsThere
    <2>9. runs' = 0 => stage' = "idle" /\ Busy' = {}
      BY <1>0, <1>9 DEF CacheHit, Busy, params
    <2> QED BY <2>1, <2>2, <2>3, <2>4, <2>5, <2>6, <2>7, <2>8, <2>9
  <1>10. ASSUME NEW s \in Steps, Begin(s) PROVE  Goal
    <2>1. FlowTyped'
      BY <1>0, <1>10 DEF Begin, FlowTyped, params
    <2>2. ThreadsTyped'
      BY <1>0, <1>10 DEF Begin, Goto, ThreadsTyped
    <2>3. StatusTyped'
      BY <1>0, <1>10 DEF Begin, StatusTyped, result, StepStatus
    <2>4. FilesTyped'
      BY <1>0, <1>10 DEF Begin, FilesTyped
    <2>5. CacheTyped'
      BY <1>0, <1>10 DEF Begin, CacheTyped
    <2>6. SavedInRun'
      BY <1>0, <1>b, <1>10 DEF Begin, Snapshot, SavedInRun, params
    <2>7. SavedTyped'
      BY <1>0, <1>10 DEF Begin, Snapshot, SavedTyped, FilesTyped, OwnIsThere
    <2>8. OwnIsThere'
      BY <1>0, <1>10 DEF Begin, OwnIsThere
    <2>9. runs' = 0 => stage' = "idle" /\ Busy' = {}
      BY <1>0, <1>10 DEF Begin, Busy, params
    <2> QED BY <2>1, <2>2, <2>3, <2>4, <2>5, <2>6, <2>7, <2>8, <2>9
  <1>11. ASSUME NEW s \in Steps, Complete(s) PROVE  Goal
    <2>1. FlowTyped'
      BY <1>0, <1>11 DEF Complete, FlowTyped, params
    <2>2. ThreadsTyped'
      BY <1>0, <1>11 DEF Complete, Goto, ThreadsTyped
    <2>3. StatusTyped'
      BY <1>0, <1>11 DEF Complete, StatusTyped, result, StepStatus
    <2>4. FilesTyped'
      BY <1>0, <1>11 DEF Complete, Stored, FilesTyped
    <2>5. CacheTyped'
      BY <1>0, <1>11 DEF Complete, Stored, CacheTyped, FilesTyped, OwnIsThere, Artifact, Verdict
    <2>6. SavedInRun'
      BY <1>0, <1>b, <1>11 DEF Complete, Snapshot, SavedInRun, params
    <2>7. SavedTyped'
      BY <1>0, <1>11 DEF Complete, Stored, Snapshot, SavedTyped, FilesTyped, OwnIsThere
    <2>8. OwnIsThere'
      BY <1>0, <1>11 DEF Complete, OwnIsThere
    <2>9. runs' = 0 => stage' = "idle" /\ Busy' = {}
      BY <1>0, <1>11 DEF Complete, Busy, params
    <2> QED BY <2>1, <2>2, <2>3, <2>4, <2>5, <2>6, <2>7, <2>8, <2>9
  <1>12. ASSUME NEW s \in Steps, Judge(s) PROVE  Goal
    <2>1. FlowTyped'
      BY <1>0, <1>12 DEF Judge, FlowTyped, params
    <2>2. ThreadsTyped'
      BY <1>0, <1>12 DEF Judge, Return, ThreadsTyped
    <2>3. StatusTyped'
      BY <1>0, <1>12 DEF Judge, StatusTyped, StepStatus
    <2>4. FilesTyped'
      BY <1>0, <1>12 DEF Judge, FilesTyped
    <2>5. CacheTyped'
      BY <1>0, <1>12 DEF Judge, CacheTyped
    <2>6. SavedInRun'
      BY <1>0, <1>b, <1>12 DEF Judge, Snapshot, SavedInRun, params
    <2>7. SavedTyped'
      BY <1>0, <1>12 DEF Judge, Snapshot, SavedTyped, FilesTyped, OwnIsThere
    <2>8. OwnIsThere'
      BY <1>0, <1>12 DEF Judge, OwnIsThere
    <2>9. runs' = 0 => stage' = "idle" /\ Busy' = {}
      BY <1>0, <1>12 DEF Judge, Busy, params
    <2> QED BY <2>1, <2>2, <2>3, <2>4, <2>5, <2>6, <2>7, <2>8, <2>9
  <1>13. ASSUME NEW s \in Steps, NEW v \in Outcomes[s], HandlerReturns(s, v) PROVE  Goal
    <2>1. FlowTyped'
      BY <1>0, <1>13 DEF HandlerReturns, FlowTyped, params
    <2>2. ThreadsTyped'
      BY <1>0, <1>13 DEF HandlerReturns, Goto, ThreadsTyped
    <2>3. StatusTyped'
      BY <1>0, <1>13 DEF HandlerReturns, StatusTyped, result
    <2>4. FilesTyped'
      BY <1>0, <1>c, <1>13 DEF HandlerReturns, FilesTyped, Output, Artifact
    <2>5. CacheTyped'
      BY <1>0, <1>13 DEF HandlerReturns, CacheTyped
    <2>6. SavedInRun'
      BY <1>0, <1>13 DEF HandlerReturns, SavedInRun, params
    <2>7. SavedTyped'
      BY <1>0, <1>13 DEF HandlerReturns, SavedTyped
    <2>8. OwnIsThere'
      <3>1. [says |-> v, ours |-> TRUE] # None
        BY <1>c, ArtifactIsThere
      <3> QED BY <1>0, <1>13, <3>1 DEF HandlerReturns, OwnIsThere, FilesTyped
    <2>9. runs' = 0 => stage' = "idle" /\ Busy' = {}
      BY <1>0, <1>13 DEF HandlerReturns, Busy, params
    <2> QED BY <2>1, <2>2, <2>3, <2>4, <2>5, <2>6, <2>7, <2>8, <2>9
  <1>14. ASSUME NEW s \in Steps, NEW v \in Outcomes[s] \cup {None}, HandlerRaises(s, v) PROVE  Goal
    <2>1. FlowTyped'
      BY <1>0, <1>14 DEF HandlerRaises, FlowTyped, params
    <2>2. ThreadsTyped'
      BY <1>0, <1>14 DEF HandlerRaises, Goto, ThreadsTyped
    <2>3. StatusTyped'
      BY <1>0, <1>14 DEF HandlerRaises, StatusTyped, result
    <2>4. FilesTyped'
      BY <1>0, <1>c, <1>14 DEF HandlerRaises, FilesTyped, Output, Artifact
    <2>5. CacheTyped'
      BY <1>0, <1>14 DEF HandlerRaises, CacheTyped
    <2>6. SavedInRun'
      BY <1>0, <1>14 DEF HandlerRaises, SavedInRun, params
    <2>7. SavedTyped'
      BY <1>0, <1>14 DEF HandlerRaises, SavedTyped
    <2>8. OwnIsThere'
      <3>1. v # None => [says |-> v, ours |-> TRUE] # None
        BY <1>c, ArtifactIsThere
      <3> QED BY <1>0, <1>14, <3>1 DEF HandlerRaises, OwnIsThere
    <2>9. runs' = 0 => stage' = "idle" /\ Busy' = {}
      BY <1>0, <1>14 DEF HandlerRaises, Busy, params
    <2> QED BY <2>1, <2>2, <2>3, <2>4, <2>5, <2>6, <2>7, <2>8, <2>9
  <1>15. ASSUME NEW s \in Steps, HandlerFails(s) PROVE  Goal
    <2>1. FlowTyped'
      BY <1>0, <1>15 DEF HandlerFails, FlowTyped, params
    <2>2. ThreadsTyped'
      BY <1>0, <1>15 DEF HandlerFails, Return, ThreadsTyped
    <2>3. StatusTyped'
      BY <1>0, <1>15 DEF HandlerFails, StatusTyped, StepStatus
    <2>4. FilesTyped'
      BY <1>0, <1>15 DEF HandlerFails, FilesTyped
    <2>5. CacheTyped'
      BY <1>0, <1>15 DEF HandlerFails, CacheTyped
    <2>6. SavedInRun'
      BY <1>0, <1>b, <1>15 DEF HandlerFails, Snapshot, SavedInRun, params
    <2>7. SavedTyped'
      BY <1>0, <1>15 DEF HandlerFails, Snapshot, SavedTyped, FilesTyped, OwnIsThere
    <2>8. OwnIsThere'
      BY <1>0, <1>15 DEF HandlerFails, OwnIsThere
    <2>9. runs' = 0 => stage' = "idle" /\ Busy' = {}
      BY <1>0, <1>15 DEF HandlerFails, Busy, params
    <2> QED BY <2>1, <2>2, <2>3, <2>4, <2>5, <2>6, <2>7, <2>8, <2>9
  <1>16. ASSUME Abort PROVE  Goal
    <2>1. FlowTyped'
      BY <1>0, <1>a, <1>16 DEF Abort, Exit, FlowTyped, params
    <2>2. ThreadsTyped'
      BY <1>0, <1>16 DEF Abort, ThreadsTyped, threads
    <2>3. StatusTyped'
      BY <1>0, <1>16 DEF Abort, Exit, StatusTyped, session
    <2>4. FilesTyped'
      BY <1>0, <1>16 DEF Abort, FilesTyped, session, threads
    <2>5. CacheTyped'
      BY <1>0, <1>16 DEF Abort, CacheTyped
    <2>6. SavedInRun'
      BY <1>0, <1>16 DEF Abort, SavedInRun, params
    <2>7. SavedTyped'
      BY <1>0, <1>16 DEF Abort, SavedTyped
    <2>8. OwnIsThere'
      BY <1>0, <1>16 DEF Abort, OwnIsThere, session, threads
    <2>9. runs' = 0 => stage' = "idle" /\ Busy' = {}
      BY <1>0, <1>16 DEF Abort, params
    <2> QED BY <2>1, <2>2, <2>3, <2>4, <2>5, <2>6, <2>7, <2>8, <2>9
  <1>17. ASSUME NEW s \in Steps, SaveFails(s) PROVE  Goal
    <2>0. /\ file' = file \/ (cache[s] # None /\ file' = Fetched(s))
          /\ cache' = cache \/ cache' = Stored(s)
      BY <1>17 DEF SaveFails
    <2>1. FlowTyped'
      BY <1>0, <1>a, <1>17 DEF SaveFails, Raise, Exit, FlowTyped, params
    <2>2. ThreadsTyped'
      BY <1>0, <1>17 DEF SaveFails, Raise, Goto, Return, ThreadsTyped
    <2>3. StatusTyped'
      BY <1>0, <1>17 DEF SaveFails, Raise, Exit, StatusTyped, StepStatus
    <2>4. FilesTyped'
      BY <1>0, <1>17, <2>0, FetchedFits DEF SaveFails, Raise, FilesTyped
    <2>5. CacheTyped'
      BY <1>0, <2>0, StoredFits DEF CacheTyped
    <2>6. SavedInRun'
      BY <1>0, <1>17 DEF SaveFails, Raise, SavedInRun, params
    <2>7. SavedTyped'
      BY <1>0, <1>17 DEF SaveFails, Raise, SavedTyped
    <2>8. OwnIsThere'
      BY <1>0, <1>17, <2>0, FetchedFits DEF SaveFails, Raise, OwnIsThere
    <2>9. runs' = 0 => stage' = "idle" /\ Busy' = {}
      BY <1>0, <1>17 DEF SaveFails, Raise, Busy, params
    <2> QED BY <2>1, <2>2, <2>3, <2>4, <2>5, <2>6, <2>7, <2>8, <2>9
  <1>18. ASSUME Crash PROVE  Goal
    <2>1. FlowTyped'
      BY <1>0, <1>a, <1>18 DEF Crash, FlowTyped, params
    <2>2. ThreadsTyped'
      BY <1>0, <1>18 DEF Crash, Absent, ThreadsTyped
    <2>3. StatusTyped'
      BY <1>0, <1>18 DEF Crash, Absent, StatusTyped, StepStatus
    <2>4. FilesTyped'
      BY <1>0, <1>18 DEF Crash, Absent, FilesTyped, Output
    <2>5. CacheTyped'
      BY <1>0, <1>18 DEF Crash, CacheTyped
    <2>6. SavedInRun'
      BY <1>0, <1>18 DEF Crash, SavedInRun, params
    <2>7. SavedTyped'
      BY <1>0, <1>18 DEF Crash, SavedTyped
    <2>8. OwnIsThere'
      BY <1>0, <1>18 DEF Crash, Absent, OwnIsThere
    <2>9. runs' = 0 => stage' = "idle" /\ Busy' = {}
      BY <1>0, <1>18 DEF Crash, params
    <2> QED BY <2>1, <2>2, <2>3, <2>4, <2>5, <2>6, <2>7, <2>8, <2>9
  <1>19. ASSUME UNCHANGED vars PROVE Goal
    <2>0. UNCHANGED vars
      BY <1>19
    <2>1. FlowTyped'
      BY <1>0, <2>0 DEF FlowTyped, vars, params
    <2>4. ThreadsTyped'
      BY <1>0, <2>0 DEF ThreadsTyped, vars, threads
    <2>5. StatusTyped'
      BY <1>0, <2>0 DEF StatusTyped, vars, session, result
    <2>2. FilesTyped' /\ CacheTyped' /\ SavedInRun' /\ SavedTyped' /\ OwnIsThere'
      BY <1>0, <1>19 DEF FilesTyped, CacheTyped, SavedInRun, SavedTyped, OwnIsThere, vars, session,
         threads, params
    <2>3. runs' = 0 => stage' = "idle" /\ Busy' = {}
      BY <1>0, <1>19 DEF Busy, vars, threads, params
    <2> QED BY <2>1, <2>2, <2>3, <2>4, <2>5
  <1>20. Goal
    BY <1>1, <1>2, <1>3, <1>4, <1>5, <1>6, <1>7, <1>8, <1>9, <1>10, <1>11, <1>12, <1>13, <1>14,
       <1>15, <1>16, <1>17, <1>18, <1>19 DEF Next, Main, Step
  <1>21. TypeOK'
    BY <1>20 DEF TypeOK, FlowTyped, ThreadsTyped, StatusTyped, FilesTyped, CacheTyped, SavedInRun
  <1> QED BY <1>20, <1>21 DEF TypeInv

(* Every variable keeps its type. *)
THEOREM TypeCorrect == Spec => []TypeOK
  <1>1. TypeInv /\ [Next]_vars => TypeInv'
    BY StepTypes
  <1>2. TypeInv => TypeOK
    BY DEF TypeInv
  <1> QED BY InitTypes, <1>1, <1>2, PTL DEF Spec

-----------------------------------------------------------------------------
(* Threads *)

(* A step's thread touches that step only; only a save that fails outside a
   pool ends the run. *)
LEMMA OneThreadMoves ==
  ASSUME TypeInv, NEW s \in Steps, Step(s) \/ SaveFails(s)
  PROVE  /\ th[s] # "idle" /\ at' = at /\ verdict' = verdict /\ UNCHANGED params
         /\ \A t \in Steps \ {s} :
              /\ th'[t] = th[t] /\ ret'[t] = ret[t] /\ steps'[t] = steps[t]
              /\ out'[t] = out[t] /\ arts'[t] = arts[t] /\ file'[t] = file[t]
              /\ cache'[t] = cache[t] /\ (t \in wrote' <=> t \in wrote)
         /\ th'[s] # "idle" => ret' = ret
         /\ \/ stage' = stage /\ job' = job
            \/ stage' = "done" /\ job' = "failed" /\ ~Pooled(s) /\ th'[s] = "idle" /\ SaveFails(s)
  <1> DEFINE Others == \A t \in Steps \ {s} :
                         /\ th'[t] = th[t] /\ ret'[t] = ret[t] /\ steps'[t] = steps[t]
                         /\ out'[t] = out[t] /\ arts'[t] = arts[t] /\ file'[t] = file[t]
                         /\ cache'[t] = cache[t] /\ (t \in wrote' <=> t \in wrote)
             Goal == /\ th[s] # "idle" /\ at' = at /\ verdict' = verdict /\ UNCHANGED params
                     /\ Others
                     /\ th'[s] # "idle" => ret' = ret
                     /\ \/ stage' = stage /\ job' = job
                        \/ stage' = "done" /\ job' = "failed" /\ ~Pooled(s) /\ th'[s] = "idle" /\ SaveFails(s)
  <1>0. ThreadsTyped /\ StatusTyped /\ FilesTyped /\ CacheTyped
    BY TypeOKInParts DEF TypeInv
  <1>1. ASSUME CacheHit(s) PROVE Goal
    BY <1>0, <1>1 DEF CacheHit, Fetched, Goto, result, ThreadsTyped, StatusTyped, FilesTyped
  <1>2. ASSUME Begin(s) PROVE Goal
    BY <1>0, <1>2 DEF Begin, Goto, result, ThreadsTyped, StatusTyped
  <1>3. ASSUME Complete(s) PROVE Goal
    BY <1>0, <1>3 DEF Complete, Stored, Goto, result, ThreadsTyped, StatusTyped, FilesTyped, CacheTyped
  <1>4. ASSUME Judge(s) PROVE Goal
    BY <1>0, <1>4 DEF Judge, Return, ThreadsTyped, StatusTyped
  <1>5. ASSUME NEW v \in Outcomes[s], HandlerReturns(s, v) PROVE Goal
    BY <1>0, <1>5 DEF HandlerReturns, Goto, result, ThreadsTyped, FilesTyped
  <1>6. ASSUME NEW v \in Outcomes[s] \cup {None}, HandlerRaises(s, v) PROVE Goal
    BY <1>0, <1>6 DEF HandlerRaises, Goto, result, ThreadsTyped, FilesTyped
  <1>7. ASSUME HandlerFails(s) PROVE Goal
    BY <1>0, <1>7 DEF HandlerFails, Return, ThreadsTyped, StatusTyped
  <1>8. ASSUME SaveFails(s) PROVE Goal
    <2>1. /\ \A t \in Steps \ {s} : file'[t] = file[t] /\ cache'[t] = cache[t]
          /\ \A t \in Steps \ {s} : steps'[t] = steps[t]
      BY <1>0, <1>8 DEF SaveFails, Fetched, Stored, FilesTyped, CacheTyped, StatusTyped
    <2> QED BY <1>0, <1>8, <2>1 DEF SaveFails, Raise, Return, Goto, Exit, ThreadsTyped
  <1> QED BY <1>1, <1>2, <1>3, <1>4, <1>5, <1>6, <1>7, <1>8 DEF Step

LEMMA InitThreads == Init => ThreadInv
  BY DEF Init, Absent, ThreadInv, Busy

LEMMA StepThreads ==
  ASSUME TypeInv, ThreadInv, [Next]_vars
  PROVE  ThreadInv'
  <1>0. ThreadsTyped /\ FlowTyped
    BY TypeOKInParts DEF TypeInv
  <1>1. ASSUME NEW s \in Steps, Step(s) \/ SaveFails(s) PROVE ThreadInv'
    <2>1. /\ s \in Busy /\ Busy' \subseteq Busy /\ stage = "join"
          /\ at' = at /\ profile' = profile /\ serial' = serial
      BY <1>1, OneThreadMoves DEF Busy, ThreadInv, params
    <2>2. \A t \in Steps : Pooled(t)' <=> Pooled(t)
      BY <2>1 DEF Pooled
    <2>3. Team(at)' = Team(at)
      BY <2>1 DEF Team
    <2>4. ASSUME NEW t \in Busy'
          PROVE  /\ at' # None /\ t \in Team(at)' /\ ret'[t] = "none"
                 /\ ~Pooled(t)' => Busy' = {t} /\ ~Broken'
      <3>1. t \in Busy /\ at # None /\ t \in Team(at) /\ ret[t] = "none"
        BY <2>1, <2>4 DEF ThreadInv
      <3>2. ret'[t] = "none"
        BY <1>1, <2>4, <3>1, OneThreadMoves DEF Busy
      <3>3. ASSUME ~Pooled(t)' PROVE Busy' = {t} /\ ~Broken'
        <4>1. Busy = {t} /\ ~Broken /\ s = t
          BY <2>1, <2>2, <3>1, <3>3 DEF ThreadInv, Busy
        <4>2. ret' = ret
          BY <1>1, <2>4, <4>1, OneThreadMoves DEF Busy
        <4> QED BY <2>1, <2>4, <4>1, <4>2 DEF Broken
      <3> QED BY <2>1, <2>3, <3>1, <3>2, <3>3
    <2>5. stage' # "join" => Busy' = {}
      <3>1. SUFFICES ASSUME stage' # "join" PROVE Busy' = {}
        OBVIOUS
      <3>2. ~Pooled(s) /\ th'[s] = "idle"
        BY <1>1, <2>1, <3>1, OneThreadMoves
      <3>3. Busy = {s}
        BY <2>1, <3>2 DEF ThreadInv
      <3> QED BY <2>1, <3>2, <3>3 DEF Busy
    <2>6. stage' # "loop"
      BY <1>1, <2>1, OneThreadMoves
    <2> QED BY <2>4, <2>5, <2>6 DEF ThreadInv
  <1>2. ASSUME Launch PROVE ThreadInv'
    <2>1. PICK chosen : /\ chosen = IF serial THEN {Min(Todo)} ELSE Todo
                        /\ th' = [s \in Steps |-> IF s \in chosen THEN "ready" ELSE th[s]]
      BY <1>2 DEF Launch
    <2>2. Todo \subseteq Team(at) /\ Todo # {} /\ Todo \subseteq Steps /\ at \in Steps
      BY <1>0, <1>2 DEF Launch, Todo, Team, FlowTyped
    <2>3. Todo \subseteq Nat
      BY <2>2, StepsAreNumbers
    <2>4. Min(Todo) \in Todo
      BY <2>2, <2>3, MinIsFirst
    <2>5. chosen \subseteq Todo
      BY <2>1, <2>4
    <2>6. Busy = {} /\ ~Broken
      BY <1>2 DEF Launch, ThreadInv
    <2>7. Busy' = chosen
      BY <2>1, <2>2, <2>5, <2>6 DEF Busy
    <2>8. /\ at' = at /\ at # None /\ ret' = ret /\ profile' = profile /\ serial' = serial /\ stage' = "join"
      BY <1>2 DEF Launch, params
    <2>9. ~Broken' /\ Team(at)' = Team(at) /\ \A t \in Steps : Pooled(t)' <=> Pooled(t)
      BY <2>6, <2>8 DEF Broken, Team, Pooled
    <2>10. ASSUME NEW t \in chosen, ~Pooled(t) PROVE chosen = {t}
      <3>1. CASE serial
        BY <2>1, <2>10, <3>1
      <3>2. CASE ~serial
        <4>1. t \in Team(at) /\ ~ \E G \in Groups : t \in G
          BY <2>2, <2>5, <2>10, <3>2 DEF Pooled
        <4>2. ~ \E G \in Groups : at \in G
          BY <4>1 DEF Team
        <4>3. Team(at) \subseteq {at}
          BY <2>2, <4>2, TeamIsOne
        <4> QED BY <2>2, <2>5, <2>10, <4>1, <4>3
      <3> QED BY <3>1, <3>2
    <2>11. \A t \in chosen : t \in Team(at) /\ ret[t] = "none" /\ t \in Steps
      BY <2>2, <2>5 DEF Todo
    <2> QED BY <2>7, <2>8, <2>9, <2>10, <2>11 DEF ThreadInv
  <1>3. ASSUME \E p \in Profiles, f \in FromSteps, same \in BOOLEAN, m \in Modes :
                 Start(p, f, same, m) PROVE ThreadInv'
    BY <1>3 DEF Start, ThreadInv, Busy, Broken, Absent
  <1>4. ASSUME SkipStep PROVE ThreadInv'
    BY <1>0, <1>4 DEF SkipStep, ThreadInv, Busy, Broken, ThreadsTyped
  <1>5. ASSUME Join PROVE ThreadInv'
    BY <1>5 DEF Join, ThreadInv, Busy, Broken, threads
  <1>6. ASSUME Advance \/ Conclude \/ Publish \/ Abort \/ \E traced \in BOOLEAN : Classify(traced)
        PROVE  ThreadInv'
    <2>1. Busy = {} /\ Busy' = {}
      BY <1>6 DEF Advance, Conclude, Publish, Abort, Classify, ThreadInv, Busy, threads
    <2>2. stage' = "loop" => ~Broken'
      BY <1>6 DEF Advance, Conclude, Publish, Abort, Exit, Classify, ThreadInv, Broken, threads
    <2> QED BY <2>1, <2>2 DEF ThreadInv
  <1>7. ASSUME Crash PROVE ThreadInv'
    BY <1>7 DEF Crash, ThreadInv, Busy, Absent
  <1>8. CASE UNCHANGED vars
    BY <1>8 DEF vars, threads, params, ThreadInv, Busy, Broken, Team, Pooled
  <1> QED BY <1>1, <1>2, <1>3, <1>4, <1>5, <1>6, <1>7, <1>8 DEF Next, Main

-----------------------------------------------------------------------------
(* The walk over the registered steps *)

LEMMA InitWalk == Init => WalkInv
  BY DEF Init, WalkInv, Looping

LEMMA StepWalk ==
  ASSUME TypeInv, ThreadInv, WalkInv, [Next]_vars
  PROVE  WalkInv'
  <1>0. ThreadsTyped /\ FlowTyped /\ Steps \subseteq Nat \ {0} /\ None \notin Steps
    BY TypeOKInParts, StepsAreNumbers DEF TypeInv
  <1>1. ASSUME NEW s \in Steps, Step(s) \/ SaveFails(s) PROVE WalkInv'
    <2>1. /\ ret[s] = "none" /\ at' = at /\ profile' = profile /\ (Looping' => Looping)
          /\ \A t \in Steps \ {s} : ret'[t] = ret[t]
      BY <1>1, OneThreadMoves DEF ThreadInv, Busy, params, Looping
    <2> QED BY <1>0, <2>1 DEF WalkInv, FlowTyped
  <1>2. ASSUME NEW p \in Profiles, NEW f \in FromSteps, NEW same \in BOOLEAN, NEW m \in Modes,
               Start(p, f, same, m)
        PROVE  WalkInv'
    <2>1. p # {} /\ p \subseteq Steps
      BY StepsAssumption DEF StepsAssumption
    <2>2. Min(p) \in p /\ \A x \in p : Min(p) <= x
      BY <1>0, <2>1, MinIsFirst
    <2>3. at' = Min(p) /\ profile' = p
      BY <1>2 DEF Start
    <2>4. ASSUME NEW x \in p PROVE ~(x < Min(p))
      <3>1. x \in Nat /\ Min(p) \in Nat /\ Min(p) <= x
        BY <1>0, <2>1, <2>2
      <3> QED BY <3>1
    <2> QED BY <1>0, <2>1, <2>2, <2>3, <2>4 DEF WalkInv
  <1>3. ASSUME SkipStep \/ Advance PROVE WalkInv'
    <2>1. at # None /\ at \in profile /\ at \in Steps /\ profile \subseteq Steps
          /\ at' = After(at) /\ profile' = profile /\ Looping /\ Looping'
      BY <1>0, <1>3 DEF SkipStep, Advance, WalkInv, FlowTyped, params, Looping
    <2>2. ret'[at] # "none" /\ \A t \in Steps : ret[t] # "none" => ret'[t] # "none"
      <3>1. CASE SkipStep
        BY <1>0, <2>1, <3>1 DEF SkipStep, ThreadsTyped
      <3>2. CASE Advance
        <4>1. ret[at] # "none"
          BY <2>1, <3>2, TeamIsOne DEF Advance, Todo
        <4> QED BY <3>2, <4>1 DEF Advance, threads
      <3> QED BY <1>3, <3>1, <3>2
    <2>3. \A t \in profile : t < at => ret'[t] # "none"
      BY <2>1, <2>2 DEF WalkInv
    <2>4. CASE After(at) = None /\ \A t \in profile : t <= at
      <3>1. \A t \in profile : t = at \/ t < at
        BY <1>0, <2>1, <2>4
      <3> QED BY <2>1, <2>2, <2>3, <2>4, <3>1 DEF WalkInv
    <2>5. CASE After(at) \in profile /\ \A t \in profile : t <= at \/ After(at) <= t
      <3>1. ASSUME NEW t \in profile, t < After(at) PROVE t = at \/ t < at
        <4>1. t \in Nat /\ at \in Nat /\ After(at) \in Nat
          BY <1>0, <2>1, <2>5
        <4> QED BY <2>5, <3>1, <4>1
      <3>2. After(at) # None
        BY <1>0, <2>1, <2>5
      <3> QED BY <2>1, <2>2, <2>3, <2>5, <3>1, <3>2 DEF WalkInv
    <2> QED BY <2>1, <2>4, <2>5, AfterIsNext
  <1>4. ASSUME \/ Launch \/ Join \/ Conclude \/ Publish \/ Abort
               \/ \E traced \in BOOLEAN : Classify(traced)
        PROVE  WalkInv'
    <2>1. at' = at /\ ret' = ret /\ profile' = profile /\ (Looping' => Looping)
      BY <1>4 DEF Launch, Join, Conclude, Publish, Abort, Exit, Classify, threads, params, Looping
    <2> QED BY <2>1 DEF WalkInv
  <1>5. ASSUME Crash PROVE WalkInv'
    BY <1>5 DEF Crash, WalkInv, Looping
  <1>6. CASE UNCHANGED vars
    BY <1>6 DEF vars, threads, params, WalkInv, Looping
  <1> QED BY <1>1, <1>2, <1>3, <1>4, <1>5, <1>6 DEF Next, Main

-----------------------------------------------------------------------------
(* The life of a step *)

LEMMA InitLife == Init => LifeInv
  BY DEF Init, Absent, LifeInv, Life, Looping

(* A thread moves a registered step that has not returned, while the main
   thread waits for it. *)
LEMMA ThreadIsAwaited ==
  ASSUME TypeInv, ThreadInv, NEW s \in Steps, Step(s) \/ SaveFails(s)
  PROVE  s \in profile /\ ret[s] = "none" /\ stage = "join" /\ at # None /\ s \in Team(at)
  BY OneThreadMoves DEF ThreadInv, Busy, Team

LEMMA StepLife ==
  ASSUME TypeInv, ThreadInv, WalkInv, LifeInv, [Next]_vars
  PROVE  LifeInv'
  <1>0. ThreadsTyped /\ FlowTyped /\ StatusTyped
    BY TypeOKInParts DEF TypeInv
  <1>1. ASSUME NEW s \in Steps, Step(s) \/ SaveFails(s) PROVE LifeInv'
    <2>0. /\ s \in profile /\ ret[s] = "none" /\ stage = "join" /\ profile' = profile
          /\ (Looping' => Looping) /\ Life(s)
      BY <1>1, OneThreadMoves, ThreadIsAwaited DEF params, Looping, LifeInv
    <2>1. ASSUME NEW t \in Steps \ {s} PROVE Life(t)'
      <3>1. th'[t] = th[t] /\ ret'[t] = ret[t] /\ steps'[t] = steps[t] /\ Life(t)
        BY <1>1, OneThreadMoves DEF LifeInv
      <3> QED BY <2>0, <3>1 DEF Life
    <2>2. Life(s)'
      <3>1. CASE CacheHit(s) \/ Begin(s) \/ Complete(s)
        BY <1>0, <2>0, <3>1 DEF CacheHit, Begin, Complete, Goto, ThreadsTyped, StatusTyped, Life
      <3>2. CASE Judge(s)
        BY <1>0, <2>0, <3>2 DEF Judge, Return, ThreadsTyped, StatusTyped, Life
      <3>3. CASE \/ \E v \in Outcomes[s] : HandlerReturns(s, v)
                 \/ \E v \in Outcomes[s] \cup {None} : HandlerRaises(s, v)
        BY <1>0, <2>0, <3>3 DEF HandlerReturns, HandlerRaises, Goto, ThreadsTyped, Life
      <3>4. CASE HandlerFails(s)
        BY <1>0, <2>0, <3>4 DEF HandlerFails, Return, ThreadsTyped, StatusTyped, Life
      <3>5. CASE SaveFails(s)
        BY <1>0, <2>0, <3>5 DEF SaveFails, Raise, Exit, Return, Goto, ThreadsTyped, StatusTyped, Life, Looping
      <3> QED BY <1>1, <3>1, <3>2, <3>3, <3>4, <3>5 DEF Step
    <2> QED BY <2>1, <2>2 DEF LifeInv
  <1>2. ASSUME NEW p \in Profiles, NEW f \in FromSteps, NEW same \in BOOLEAN, NEW m \in Modes,
               Start(p, f, same, m)
        PROVE  LifeInv'
    BY <1>2 DEF Start, Absent, LifeInv, Life
  <1>3. ASSUME SkipStep PROVE LifeInv'
    <2>1. at \in profile /\ at \in Steps /\ stage' = stage /\ profile' = profile /\ th' = th
      BY <1>0, <1>3 DEF SkipStep, WalkInv, FlowTyped, params
    <2>2. th[at] = "idle"
      BY <1>3, <2>1 DEF SkipStep, ThreadInv, Busy
    <2> QED BY <1>0, <1>3, <2>1, <2>2 DEF SkipStep, LifeInv, Life, Looping, ThreadsTyped, StatusTyped
  <1>4. ASSUME Launch PROVE LifeInv'
    <2>1. PICK chosen : /\ chosen = IF serial THEN {Min(Todo)} ELSE Todo
                        /\ th' = [s \in Steps |-> IF s \in chosen THEN "ready" ELSE th[s]]
      BY <1>4 DEF Launch
    <2>2. Todo \subseteq profile /\ Todo # {} /\ \A s \in Todo : ret[s] = "none"
      BY <1>4 DEF Launch, Todo, Team
    <2>3. Min(Todo) \in Todo
      BY <1>0, <2>2, StepsAreNumbers, MinIsFirst DEF FlowTyped
    <2>4. \A s \in chosen : s \in profile /\ ret[s] = "none"
      BY <2>1, <2>2, <2>3
    <2>5. Looping /\ Looping' /\ ret' = ret /\ steps' = steps /\ profile' = profile
          /\ stage # "idle" /\ stage' # "idle" /\ \A s \in Steps : th[s] = "idle"
      BY <1>4 DEF Launch, session, params, Looping, ThreadInv, Busy
    <2>6. ASSUME NEW s \in Steps PROVE Life(s)'
      <3>1. Life(s) /\ th'[s] = IF s \in chosen THEN "ready" ELSE "idle"
        BY <2>1, <2>5 DEF LifeInv
      <3> QED BY <2>4, <2>5, <3>1 DEF Life
    <2> QED BY <2>6 DEF LifeInv
  <1>5. ASSUME \/ Advance \/ Join \/ Conclude \/ Publish \/ Abort
               \/ \E traced \in BOOLEAN : Classify(traced)
        PROVE  LifeInv'
    <2>1. /\ th' = th /\ ret' = ret /\ steps' = steps /\ profile' = profile
          /\ (Looping' => Looping) /\ stage # "idle"
      BY <1>5 DEF Advance, Join, Conclude, Publish, Abort, Exit, Classify, threads, params, session, Looping
    <2> QED BY <2>1 DEF LifeInv, Life
  <1>6. ASSUME Crash PROVE LifeInv'
    BY <1>6 DEF Crash, Absent, LifeInv, Life, Looping
  <1>7. CASE UNCHANGED vars
    BY <1>7 DEF vars, threads, params, session, LifeInv, Life, Looping
  <1> QED BY <1>1, <1>2, <1>3, <1>4, <1>5, <1>6, <1>7 DEF Next, Main

-----------------------------------------------------------------------------
(* The step cache *)

LEMMA InitCache == Init => CacheInv
  BY DEF Init, Absent, CacheInv

LEMMA StepCache ==
  ASSUME TypeInv, CacheInv, [Next]_vars
  PROVE  CacheInv'
  <1>0. ThreadsTyped /\ FilesTyped /\ CacheTyped
    BY TypeOKInParts DEF TypeInv
  <1> DEFINE Cached(s) ==
        /\ cache[s] # None => s \in Reusable /\ (cache[s].output = "own" => cache[s].says # "failed")
        /\ th[s] = "judge cached" => s \in Reusable /\ (out[s] = "own" => file[s].says # "failed")
  <1>1. ASSUME NEW s \in Steps, Step(s) \/ SaveFails(s) PROVE CacheInv'
    <2>1. ASSUME NEW t \in Steps \ {s} PROVE Cached(t)'
      <3>1. th'[t] = th[t] /\ out'[t] = out[t] /\ file'[t] = file[t] /\ cache'[t] = cache[t]
        BY <1>1, OneThreadMoves
      <3>2. Cached(t)
        BY DEF CacheInv
      <3> QED BY <3>1, <3>2
    <2>2. Cached(s)'
      <3>0. Cached(s)
        BY DEF CacheInv
      <3>1. CASE CacheHit(s)
        <4>1. /\ cache' = cache /\ cache[s] # None /\ out'[s] = cache[s].output
              /\ cache[s].output = "own" => file'[s] = [says |-> cache[s].says, ours |-> TRUE]
          BY <1>0, <3>1 DEF CacheHit, Fetched, FilesTyped
        <4>2. s \in Reusable /\ (cache[s].output = "own" => cache[s].says # "failed")
          BY <3>0, <4>1
        <4>3. out'[s] = "own" => file'[s].says # "failed"
          BY <4>1, <4>2
        <4> QED BY <4>1, <4>2, <4>3
      <3>2. CASE Begin(s)
        BY <1>0, <3>0, <3>2 DEF Begin, Goto, ThreadsTyped
      <3>3. CASE Complete(s) \/ (SaveFails(s) /\ cache' # cache)
        <4>1. th'[s] # "judge cached" /\ cache' = Stored(s)
          BY <1>0, <3>3 DEF Complete, SaveFails, Raise, Goto, Return, ThreadsTyped
        <4>2. CASE ~Storable(s)
          BY <3>0, <4>1, <4>2 DEF Stored
        <4>3. CASE Storable(s)
          <5>1. cache'[s] = [output |-> out[s], says |-> IF out[s] = "own" THEN file[s].says ELSE "passed"]
            BY <1>0, <4>1, <4>3 DEF Stored, CacheTyped
          <5>2. s \in Reusable /\ (cache'[s].output = "own" => cache'[s].says # "failed")
            BY <4>3, <5>1 DEF Storable
          <5> QED BY <4>1, <5>2
        <4> QED BY <4>2, <4>3
      <3>4. CASE \/ Judge(s) \/ HandlerFails(s) \/ (SaveFails(s) /\ cache' = cache)
                 \/ \E v \in Outcomes[s] : HandlerReturns(s, v)
                 \/ \E v \in Outcomes[s] \cup {None} : HandlerRaises(s, v)
        <4>1. th'[s] # "judge cached" /\ cache' = cache
          BY <1>0, <3>4 DEF Judge, HandlerFails, SaveFails, Raise, HandlerReturns, HandlerRaises,
            Goto, Return, ThreadsTyped
        <4> QED BY <3>0, <4>1
      <3> QED BY <1>1, <3>1, <3>2, <3>3, <3>4 DEF Step
    <2> QED BY <2>1, <2>2 DEF CacheInv
  <1>2. ASSUME \/ \E p \in Profiles, f \in FromSteps, same \in BOOLEAN, m \in Modes : Start(p, f, same, m)
               \/ Crash
        PROVE  CacheInv'
    <2>1. cache' = cache /\ \A s \in Steps : th'[s] = "idle"
      BY <1>2 DEF Start, Crash, Absent
    <2> QED BY <2>1 DEF CacheInv
  <1>3. ASSUME Launch PROVE CacheInv'
    <2>1. cache' = cache /\ out' = out /\ file' = file
          /\ \A s \in Steps : th'[s] = "judge cached" => th[s] = "judge cached"
      BY <1>3 DEF Launch, session
    <2> QED BY <2>1 DEF CacheInv
  <1>4. ASSUME \/ SkipStep \/ Advance \/ Join \/ Conclude \/ Publish \/ Abort
               \/ \E traced \in BOOLEAN : Classify(traced)
               \/ UNCHANGED vars
        PROVE  CacheInv'
    <2>1. cache' = cache /\ out' = out /\ file' = file /\ th' = th
      BY <1>4 DEF SkipStep, Advance, Join, Conclude, Publish, Abort, Classify, vars, session, threads
    <2> QED BY <2>1 DEF CacheInv
  <1> QED BY <1>1, <1>2, <1>3, <1>4 DEF Next, Main

(* What comes from the cache does not fail. *)
LEMMA CachedPasses ==
  ASSUME CacheInv, NEW s \in Steps, th[s] = "judge cached"
  PROVE  Says(s) # "failed"
  BY DEF CacheInv, Says

-----------------------------------------------------------------------------
(* The status of the run *)

LEMMA InitReport == Init => ReportInv
  BY StepsAreNumbers DEF Init, Absent, ReportInv, Looping

(* The final report runs alone, after every other registered step. *)
LEMMA ReportIsLast ==
  ASSUME TypeInv, ThreadInv, WalkInv, th[FinalReport] # "idle"
  PROVE  /\ Busy = {FinalReport} /\ ~Broken /\ FinalReport \in profile /\ stage = "join"
         /\ \A s \in profile \ {FinalReport} : ret[s] # "none"
  <1>0. FlowTyped /\ FinalReport \in Steps /\ Steps \subseteq Nat \ {0} /\ \A s \in Steps : s <= FinalReport
    BY TypeOKInParts, StepsAreNumbers, StepsAssumption DEF TypeInv, StepsAssumption
  <1>1. ~ \E G \in Groups : FinalReport \in G
    BY StepsAssumption DEF StepsAssumption
  <1>2. FinalReport \in Busy /\ ~Pooled(FinalReport)
    BY <1>0, <1>1 DEF Busy, Pooled
  <1>3. /\ Busy = {FinalReport} /\ ~Broken /\ stage = "join"
        /\ at # None /\ FinalReport \in Team(at)
    BY <1>2 DEF ThreadInv
  <1>4. at = FinalReport /\ FinalReport \in profile
    BY <1>0, <1>3, TeamIsOne DEF FlowTyped
  <1>5. ASSUME NEW s \in profile \ {FinalReport} PROVE ret[s] # "none"
    <2>1. s \in Nat /\ FinalReport \in Nat /\ s <= FinalReport /\ s # FinalReport
      BY <1>0 DEF FlowTyped
    <2>2. s < at
      BY <1>4, <2>1
    <2> QED BY <1>3, <2>2 DEF WalkInv, Looping
  <1> QED BY <1>3, <1>4, <1>5

LEMMA StepReport ==
  ASSUME TypeInv, ThreadInv, WalkInv, LifeInv, CacheInv, ReportInv, [Next]_vars
  PROVE  ReportInv'
  <1> DEFINE F == FinalReport
  <1>0. ThreadsTyped /\ FlowTyped /\ StatusTyped /\ F \in Steps /\ F \notin Reusable
    BY TypeOKInParts, StepsAreNumbers, StepsAssumption DEF TypeInv, StepsAssumption
  <1>1. ASSUME NEW s \in Steps, Step(s) \/ SaveFails(s) PROVE ReportInv'
    <2>1. /\ s \in profile /\ ret[s] = "none" /\ stage = "join" /\ profile' = profile
          /\ (Looping' => Looping /\ stage' = stage) /\ Looping
          /\ \A t \in Steps \ {s} : th'[t] = th[t] /\ ret'[t] = ret[t] /\ steps'[t] = steps[t]
      BY <1>1, OneThreadMoves, ThreadIsAwaited DEF params, Looping
    <2>2. Broken => Broken'
      BY <1>0, <2>1 DEF Broken
    <2>3. CASE s # F
      <3>1. th[F] = "idle" /\ status # "completed"
        <4>1. s \in Busy
          BY <1>1, OneThreadMoves DEF Busy
        <4>2. th[F] = "idle"
          BY <2>3, <4>1, ReportIsLast
        <4> QED BY <2>1, <2>3, <4>2 DEF ReportInv
      <3>2. th'[F] = "idle" /\ ret'[F] = ret[F] /\ steps'[F] = steps[F]
        BY <1>0, <2>1, <2>3, <3>1
      <3>3. \/ status' = status
            \/ status' = "failed" /\ (Broken' \/ ~Looping')
        <4>1. CASE Judge(s)
          <5>1. th[s] = "judge cached" => Says(s) # "failed"
            BY CachedPasses
          <5> QED BY <1>0, <4>1, <5>1 DEF Judge, Return, ThreadsTyped, Broken
        <4>2. CASE HandlerFails(s)
          BY <1>0, <4>2 DEF HandlerFails, Return, ThreadsTyped, Broken
        <4>3. CASE \/ CacheHit(s) \/ Begin(s) \/ Complete(s)
                   \/ \E v \in Outcomes[s] : HandlerReturns(s, v)
                   \/ \E v \in Outcomes[s] \cup {None} : HandlerRaises(s, v)
          BY <2>3, <4>3 DEF CacheHit, Begin, Complete, HandlerReturns, HandlerRaises
        <4>4. CASE SaveFails(s)
          <5>1. status' = status \/ status' = "failed"
            BY <4>4 DEF SaveFails
          <5>2. ret'[s] = "failed" \/ stage' = "done"
            BY <1>0, <4>4 DEF SaveFails, Raise, Return, Exit, ThreadsTyped
          <5> QED BY <5>1, <5>2 DEF Broken, Looping
        <4> QED BY <1>1, <4>1, <4>2, <4>3, <4>4 DEF Step
      <3> QED BY <1>0, <2>1, <2>2, <3>1, <3>2, <3>3 DEF ReportInv, StatusTyped
    <2>4. CASE s = F
      <3>1. /\ ~Broken /\ th[F] # "judge cached"
            /\ \A t \in profile \ {F} : ret[t] # "none" /\ ret'[t] # "none"
        <4>1. th[F] # "idle"
          BY <1>1, <2>4, OneThreadMoves
        <4>2. th[F] # "judge cached"
          BY <1>0 DEF CacheInv
        <4> QED BY <1>0, <2>1, <2>4, <4>1, <4>2, ReportIsLast DEF FlowTyped
      <3>2. ~CacheHit(F)
        BY <1>0 DEF CacheHit, Fetched, CacheInv
      <3>3. CASE Begin(F)
        <4>1. status' = "completed" /\ th'[F] = "handler" /\ ret'[F] = "none"
          BY <1>0, <2>1, <2>4, <3>3 DEF Begin, Goto, ThreadsTyped
        <4> QED BY <3>1, <2>1, <4>1 DEF ReportInv
      <3>4. CASE \/ Complete(F)
                 \/ \E v \in Outcomes[F] : HandlerReturns(F, v)
                 \/ \E v \in Outcomes[F] \cup {None} : HandlerRaises(F, v)
        <4>1. status' = status /\ th[F] \in {"handler", "output"} /\ th'[F] \in {"output", "judge"} /\ ret'[F] = "none"
          BY <1>0, <2>1, <2>4, <3>4 DEF Complete, HandlerReturns, HandlerRaises, Goto, ThreadsTyped
        <4> QED BY <3>1, <2>1, <4>1 DEF ReportInv
      <3>5. CASE Judge(F)
        <4>1. th'[F] = "idle" /\ th[F] = "judge"
              /\ \/ ret'[F] = "block" /\ status' = "failed"
                 \/ ret'[F] = "ok" /\ status' = status
          BY <1>0, <3>1, <3>5 DEF Judge, Return, ThreadsTyped
        <4> QED BY <1>0, <2>1, <3>1, <4>1 DEF ReportInv, Broken
      <3>6. CASE HandlerFails(F)
        <4>1. th'[F] = "idle" /\ ret'[F] = "failed" /\ status' = "failed"
          BY <1>0, <3>6 DEF HandlerFails, Return, ThreadsTyped
        <4> QED BY <1>0, <4>1 DEF ReportInv, Broken
      <3>7. CASE SaveFails(F)
        <4>1. ~Pooled(F)
          BY StepsAssumption DEF StepsAssumption, Pooled
        <4>2. stage' = "done" /\ th'[F] = "idle"
          BY <1>0, <3>7, <4>1 DEF SaveFails, Raise, Goto, Exit, ThreadsTyped
        <4> QED BY <4>2 DEF ReportInv, Looping
      <3> QED BY <1>1, <2>4, <3>2, <3>3, <3>4, <3>5, <3>6, <3>7 DEF Step
    <2> QED BY <2>3, <2>4
  <1>2. ASSUME \E p \in Profiles, f \in FromSteps, same \in BOOLEAN, m \in Modes : Start(p, f, same, m)
        PROVE  ReportInv'
    <2>1. status' = "created" /\ th'[F] = "idle" /\ ret'[F] = "none"
      BY <1>0, <1>2 DEF Start, Absent
    <2> QED BY <2>1 DEF ReportInv
  <1>3. ASSUME SkipStep PROVE ReportInv'
    <2>1. /\ Looping /\ ~Broken /\ th' = th /\ status' = status /\ at \in profile /\ at \in Steps
          /\ stage' = stage /\ profile' = profile /\ Busy = {}
      BY <1>0, <1>3 DEF SkipStep, Looping, ThreadInv, WalkInv, FlowTyped, params
    <2>2. /\ \A t \in Steps : ret[t] # "none" => ret'[t] # "none"
          /\ \A t \in Steps \ {at} : ret'[t] = ret[t] /\ steps'[t] = steps[t]
          /\ steps'[at] = "skipped"
      BY <1>0, <1>3, <2>1 DEF SkipStep, ThreadsTyped, StatusTyped
    <2>3. Looping'
      BY <2>1 DEF Looping
    <2> QED BY <1>0, <2>1, <2>2, <2>3 DEF ReportInv, Busy, FlowTyped
  <1>4. ASSUME Launch PROVE ReportInv'
    <2>1. /\ Looping /\ ~Broken /\ Busy = {} /\ ret' = ret /\ status' = status /\ steps' = steps
          /\ profile' = profile
          /\ \A t \in Steps : th'[t] = "idle" \/ (th'[t] = "ready" /\ t \in profile /\ ret[t] = "none")
      <3>1. PICK chosen : /\ chosen = IF serial THEN {Min(Todo)} ELSE Todo
                          /\ th' = [s \in Steps |-> IF s \in chosen THEN "ready" ELSE th[s]]
        BY <1>4 DEF Launch
      <3>2. Todo \subseteq profile /\ Todo # {} /\ \A s \in Todo : ret[s] = "none"
        BY <1>4 DEF Launch, Todo, Team
      <3>3. Min(Todo) \in Todo
        BY <1>0, <3>2, StepsAreNumbers, MinIsFirst DEF FlowTyped
      <3>4. \A s \in chosen : s \in profile /\ ret[s] = "none"
        BY <3>1, <3>2, <3>3
      <3>5. Looping /\ ~Broken /\ Busy = {} /\ ret' = ret /\ status' = status /\ steps' = steps /\ profile' = profile
        BY <1>4 DEF Launch, Looping, ThreadInv, session, params
      <3> QED BY <3>1, <3>4, <3>5 DEF Busy
    <2>2. th'[F] = "ready" => status # "completed"
      BY <1>0, <2>1 DEF ReportInv, Busy
    <2> QED BY <1>0, <2>1, <2>2 DEF ReportInv, Broken, Busy
  <1>5. ASSUME Advance \/ Join PROVE ReportInv'
    BY <1>5 DEF Advance, Join, threads, session, params, ReportInv, Looping, Broken
  <1>6. ASSUME Conclude \/ Publish \/ Abort \/ \E traced \in BOOLEAN : Classify(traced)
        PROVE  ReportInv'
    <2>1. ~Looping' /\ th' = th /\ Busy = {}
      BY <1>6 DEF Conclude, Publish, Abort, Exit, Classify, Looping, threads, ThreadInv
    <2> QED BY <1>0, <2>1 DEF ReportInv, Busy
  <1>7. ASSUME Crash PROVE ReportInv'
    BY <1>0, <1>7 DEF Crash, Absent, ReportInv, Looping
  <1>8. CASE UNCHANGED vars
    BY <1>8 DEF vars, threads, session, params, ReportInv, Looping, Broken
  <1> QED BY <1>1, <1>2, <1>3, <1>4, <1>5, <1>6, <1>7, <1>8 DEF Next, Main

-----------------------------------------------------------------------------
(* session.json *)

LEMMA InitDisk == Init => DiskInv
  BY DEF Init, DiskInv, CompletedOnDisk, Returned, NoVerdict

(* While the final report runs, every other step has ended. *)
LEMMA OthersHaveEnded ==
  ASSUME TypeInv, ThreadInv, WalkInv, LifeInv, th[FinalReport] # "idle"
  PROVE  \A t \in Steps \ {FinalReport} : Ended(t)
  <1>0. ThreadsTyped
    BY TypeOKInParts DEF TypeInv
  <1>1. /\ ~Broken /\ stage = "join"
        /\ \A t \in profile \ {FinalReport} : ret[t] # "none"
    BY ReportIsLast
  <1>2. SUFFICES ASSUME NEW t \in Steps \ {FinalReport} PROVE Ended(t)
    OBVIOUS
  <1>3. CASE t \in profile
    <2>1. ret[t] = "ok"
      BY <1>0, <1>1, <1>3 DEF ThreadsTyped, Broken
    <2> QED BY <2>1 DEF LifeInv, Life, Ended
  <1>4. CASE t \notin profile
    BY <1>1, <1>4 DEF LifeInv, Life, Ended
  <1> QED BY <1>3, <1>4

LEMMA StepDisk ==
  ASSUME TypeInv, ThreadInv, WalkInv, LifeInv, CacheInv, ReportInv, DiskInv, [Next]_vars
  PROVE  DiskInv'
  <1> DEFINE F == FinalReport
  <1>0. ThreadsTyped /\ StatusTyped /\ FlowTyped /\ F \in Steps /\ F \notin Reusable
    BY TypeOKInParts, StepsAreNumbers, StepsAssumption DEF TypeInv, StepsAssumption
  <1>1. ASSUME NEW s \in Steps, Step(s) \/ SaveFails(s) PROVE DiskInv'
    <2>1. /\ verdict' = verdict /\ stage = "join" /\ s \in profile /\ ret[s] = "none"
          /\ (stage' = "join" \/ (stage' = "done" /\ job' = "failed"))
          /\ \A t \in Steps \ {s} : steps'[t] = steps[t]
      BY <1>1, OneThreadMoves, ThreadIsAwaited
    <2>2. status = "completed" => s = F
      BY <1>0, <2>1 DEF ReportInv, Looping
    <2>3. CompletedOnDisk'
      <3>1. CASE saved' = saved
        BY <3>1 DEF DiskInv, CompletedOnDisk
      <3>2. CASE saved' = Snapshot(status', steps') /\ status' = "completed" /\ Ended(s)' /\ s = F
        <4>1. th[F] # "idle"
          BY <1>1, <3>2, OneThreadMoves
        <4>2. \A t \in Steps \ {F} : Ended(t)
          BY <4>1, OthersHaveEnded
        <4>3. \A t \in Steps : steps'[t] \in {"absent", "completed", "failed", "skipped"}
          BY <2>1, <3>2, <4>2 DEF Ended
        <4>4. saved'.steps = steps'
          BY <3>2 DEF Snapshot
        <4> QED BY <4>3, <4>4 DEF CompletedOnDisk
      <3>3. CASE \E st : saved' = Snapshot(st, steps') /\ st # "completed"
        BY <3>3 DEF Snapshot, CompletedOnDisk
      <3>4. ASSUME CacheHit(s) \/ Begin(s)
            PROVE  saved' = Snapshot(status, steps') /\ status # "completed"
        <4>1. th[s] = "ready" /\ saved' = Snapshot(status, steps')
          BY <3>4 DEF CacheHit, Begin
        <4> QED BY <1>0, <2>1, <2>2, <4>1 DEF ReportInv, Looping
      <3>5. ASSUME Complete(s)
            PROVE  saved' = Snapshot(status', steps') /\ Ended(s)'
        BY <1>0, <3>5 DEF Complete, Ended, StatusTyped
      <3>6. ASSUME Judge(s)
            PROVE  \/ saved' = saved
                   \/ saved' = Snapshot(status', steps') /\ Ended(s)'
        <4>1. steps[s] = "completed"
          BY <3>6 DEF Judge, LifeInv, Life
        <4>2. Ended(s)'
          BY <1>0, <3>6, <4>1 DEF Judge, Ended, StatusTyped
        <4> QED BY <3>6, <4>2 DEF Judge
      <3>7. ASSUME HandlerFails(s)
            PROVE  saved' = Snapshot("failed", steps')
        BY <3>7 DEF HandlerFails
      <3>8. ASSUME \/ SaveFails(s)
                   \/ \E v \in Outcomes[s] : HandlerReturns(s, v)
                   \/ \E v \in Outcomes[s] \cup {None} : HandlerRaises(s, v)
            PROVE  saved' = saved
        BY <3>8 DEF SaveFails, Raise, HandlerReturns, HandlerRaises
      <3>9. ASSUME Complete(s) \/ Judge(s) PROVE status' = "completed" => s = F
        BY <2>2, <3>9 DEF Complete, Judge
      <3> QED BY <1>1, <3>1, <3>2, <3>3, <3>4, <3>5, <3>6, <3>7, <3>8, <3>9 DEF Step
    <2>4. stage' \in {"idle", "loop", "join", "classify"} => verdict' = NoVerdict
      BY <2>1 DEF DiskInv
    <2>5. ~Returned' /\ stage' # "classify"
      BY <2>1 DEF Returned
    <2> QED BY <2>3, <2>4, <2>5 DEF DiskInv
  <1>2. ASSUME \E p \in Profiles, f \in FromSteps, same \in BOOLEAN, m \in Modes : Start(p, f, same, m)
        PROVE  DiskInv'
    <2>1. stage' = "loop" /\ saved' = saved /\ verdict' = NoVerdict
      BY <1>2 DEF Start
    <2> QED BY <2>1 DEF DiskInv, CompletedOnDisk, Returned
  <1>3. ASSUME SkipStep \/ Launch \/ Advance \/ Join PROVE DiskInv'
    <2>1. stage' \in {"loop", "join"} /\ stage \in {"loop", "join"} /\ saved' = saved /\ verdict' = verdict
      BY <1>3 DEF SkipStep, Launch, Advance, Join, result
    <2> QED BY <2>1 DEF DiskInv, CompletedOnDisk, Returned
  <1>4. ASSUME Conclude PROVE DiskInv'
    <2>1. /\ stage' = "classify" /\ steps' = steps /\ verdict' = verdict /\ verdict = NoVerdict
          /\ saved' = Snapshot(status', steps) /\ runs' = runs /\ stage \in {"join", "loop"}
      BY <1>4 DEF Conclude, result, params, DiskInv
    <2>2. ASSUME status' = "completed"
          PROVE  (\A s \in Steps : Ended(s)) /\ (\A s \in profile : ret[s] = "ok")
      <3>1. ~Broken /\ stage = "loop" /\ at = None
        BY <1>4, <2>2 DEF Conclude
      <3>2. ASSUME NEW s \in profile PROVE Ended(s) /\ ret[s] = "ok"
        <4>1. s \in Steps /\ ret[s] = "ok"
          BY <1>0, <3>1 DEF WalkInv, Looping, FlowTyped, ThreadsTyped, Broken
        <4> QED BY <4>1 DEF LifeInv, Life, Ended
      <3>3. \A s \in Steps \ profile : Ended(s)
        BY <3>1 DEF LifeInv, Life, Ended
      <3> QED BY <3>2, <3>3
    <2>3. /\ saved'.status = status' /\ saved'.steps = steps' /\ saved'.run = runs' /\ saved'.verdict = NoVerdict
      BY <2>1 DEF Snapshot
    <2>4. status' = "completed" => (\A s \in Steps : Ended(s)') /\ (\A s \in profile' : ret'[s] = "ok")
      BY <1>4, <2>1, <2>2 DEF Conclude, threads, params, Ended
    <2>5. CompletedOnDisk'
      BY <2>3, <2>4 DEF CompletedOnDisk, Ended
    <2> QED BY <2>1, <2>3, <2>4, <2>5 DEF DiskInv
  <1>5. ASSUME NEW traced \in BOOLEAN, Classify(traced) PROVE DiskInv'
    <2>1. /\ stage = "classify" /\ stage' = "publish" /\ status' = status /\ steps' = steps /\ runs' = runs
          /\ verdict = NoVerdict /\ Returned
      BY <1>5 DEF Classify, session, params, DiskInv, Returned
    <2>2. CASE status = "failed"
      <3>1. saved' = saved
        BY <1>5, <2>2 DEF Classify
      <3> QED BY <2>1, <2>2, <3>1 DEF DiskInv, CompletedOnDisk, Returned
    <2>4. CASE faults' = faults + 1 /\ saved' = saved
      <3>1. status' \in {"completed", "failed"} => saved'.verdict = NoVerdict /\ faults' > 0
        <4>1. faults \in Nat
          BY <1>0 DEF FlowTyped
        <4>2. status \in {"completed", "failed"} => saved.verdict = NoVerdict
          BY <2>1 DEF DiskInv
        <4> QED BY <2>1, <2>4, <4>1, <4>2
      <3> QED BY <2>1, <2>4, <3>1 DEF DiskInv, CompletedOnDisk, Returned
    <2>3. CASE status # "failed" /\ ~(faults' = faults + 1 /\ saved' = saved)
      <3>1. /\ saved'.status = status' /\ saved'.steps = steps' /\ saved'.run = runs' /\ saved'.verdict = verdict'
        BY <1>5, <2>1, <2>3 DEF Classify, Snapshot
      <3>2. CompletedOnDisk'
        BY <2>1, <3>1 DEF DiskInv, CompletedOnDisk, Ended
      <3> QED BY <2>1, <2>3, <3>1, <3>2 DEF DiskInv
    <2> QED BY <2>2, <2>3, <2>4
  <1>6. ASSUME Publish PROVE DiskInv'
    <2>1. /\ stage = "publish" /\ stage' = "done" /\ saved' = saved /\ status' = status /\ steps' = steps
          /\ runs' = runs /\ verdict' = verdict /\ faults' = faults
      BY <1>6 DEF Publish, session, params
    <2> QED BY <2>1 DEF DiskInv, CompletedOnDisk, Returned
  <1>7. ASSUME Abort PROVE DiskInv'
    <2>1. stage' = "done" /\ job' = "failed" /\ saved' = saved
      BY <1>7 DEF Abort, Exit
    <2> QED BY <2>1 DEF DiskInv, CompletedOnDisk, Returned
  <1>8. ASSUME Crash PROVE DiskInv'
    <2>1. stage' = "idle" /\ saved' = saved /\ verdict' = NoVerdict
      BY <1>8 DEF Crash
    <2> QED BY <2>1 DEF DiskInv, CompletedOnDisk, Returned
  <1>9. CASE UNCHANGED vars
    BY <1>9 DEF vars, params, threads, session, result, DiskInv, CompletedOnDisk, Returned, Ended
  <1> QED BY <1>1, <1>2, <1>3, <1>4, <1>5, <1>6, <1>7, <1>8, <1>9 DEF Next, Main

-----------------------------------------------------------------------------
(* The final status, when --from-step names a registered step *)

LEMMA InitFinal == Init => FinalInv
  BY DEF Init, Absent, FinalInv, Looping, Returned

LEMMA StepFinal ==
  ASSUME FromWithin, TypeInv, ThreadInv, WalkInv, LifeInv, ReportInv, FinalInv, [Next]_vars
  PROVE  FinalInv'
  <1> DEFINE F == FinalReport
  <1>0. ThreadsTyped /\ StatusTyped /\ FlowTyped /\ F \in Steps
    BY TypeOKInParts, StepsAreNumbers DEF TypeInv
  <1>1. ASSUME NEW s \in Steps, Step(s) \/ SaveFails(s) PROVE FinalInv'
    <2>1. /\ stage = "join" /\ Looping /\ ~Returned' /\ profile' = profile /\ from' = from
          /\ \A t \in Steps \ {s} : steps'[t] = steps[t]
      BY <1>1, OneThreadMoves, ThreadIsAwaited DEF Looping, Returned, params
    <2>2. steps'[F] # "skipped"
      <3>1. steps[F] # "skipped"
        BY <2>1 DEF FinalInv
      <3>2. CASE s # F
        BY <1>0, <2>1, <3>1, <3>2
      <3>3. CASE s = F
        BY <1>0, <1>1, <3>1, <3>3 DEF Step, CacheHit, Begin, Complete, Judge, HandlerReturns,
          HandlerRaises, HandlerFails, SaveFails, Raise, StatusTyped
      <3> QED BY <3>2, <3>3
    <2> QED BY <2>1, <2>2 DEF FinalInv
  <1>2. ASSUME NEW p \in Profiles, NEW f \in FromSteps, NEW same \in BOOLEAN, NEW m \in Modes,
               Start(p, f, same, m)
        PROVE  FinalInv'
    <2>1. /\ stage' = "loop" /\ profile' = p /\ (from' = 0 \/ from' = f)
          /\ steps'[F] # "skipped"
      BY <1>0, <1>2 DEF Start
    <2>2. p \subseteq Steps
      BY StepsAssumption DEF StepsAssumption
    <2>3. IsFiniteSet(p)
      BY <2>2, StepsAreNumbers, FS_Subset
    <2>4. Cardinality(p) \in Nat
      BY <2>3, FS_CardinalityType
    <2>5. F \in p => from' <= Cardinality(p)
      <3>1. CASE from' = 0
        BY <2>4, <3>1
      <3>2. CASE from' = f
        BY <3>2 DEF FromWithin
      <3> QED BY <2>1, <3>1, <3>2
    <2> QED BY <2>1, <2>5 DEF FinalInv, Returned
  <1>3. ASSUME SkipStep PROVE FinalInv'
    <2>1. /\ at \in profile /\ at \in Steps /\ profile \subseteq Steps /\ stage = "loop" /\ stage' = "loop"
          /\ profile' = profile /\ from' = from /\ Position(at) < from /\ Looping /\ from \in Nat
      BY <1>0, <1>3 DEF SkipStep, WalkInv, FlowTyped, params, Looping
    <2>2. at # F
      <3>1. SUFFICES ASSUME at = F PROVE FALSE
        OBVIOUS
      <3>2. Position(at) = Cardinality(profile) /\ Position(at) \in Nat
        BY <2>1, <3>1, PositionIsSmall
      <3>3. from <= Cardinality(profile)
        BY <2>1, <3>1 DEF FinalInv
      <3> QED BY <2>1, <3>2, <3>3
    <2>3. steps'[F] = steps[F]
      BY <1>0, <1>3, <2>2 DEF SkipStep, StatusTyped
    <2> QED BY <2>1, <2>3 DEF FinalInv, Returned
  <1>4. ASSUME Launch \/ Advance \/ Join PROVE FinalInv'
    <2>1. /\ Looping /\ stage' \in {"loop", "join"} /\ profile' = profile /\ from' = from /\ steps' = steps
      BY <1>4 DEF Launch, Advance, Join, Looping, params, session
    <2> QED BY <2>1 DEF FinalInv, Returned
  <1>5. ASSUME Conclude PROVE FinalInv'
    <2>1. stage' = "classify" /\ Looping
      BY <1>5 DEF Conclude, Looping
    <2>2. status' \in {"completed", "failed"}
      <3>1. CASE Broken
        BY <1>5, <3>1 DEF Conclude
      <3>2. CASE ~Broken /\ F \notin profile
        BY <1>5, <3>2 DEF Conclude
      <3>3. CASE ~Broken /\ F \in profile
        <4>1. stage = "loop" /\ at = None
          BY <1>5, <3>3 DEF Conclude
        <4>2. ret[F] = "ok"
          BY <1>0, <2>1, <3>3, <4>1 DEF WalkInv, ThreadsTyped, Broken
        <4>3. status = "completed"
          BY <2>1, <4>2 DEF FinalInv, ReportInv
        <4> QED BY <1>5, <3>3, <4>3 DEF Conclude
      <3> QED BY <3>1, <3>2, <3>3
    <2> QED BY <2>1, <2>2 DEF FinalInv, Looping
  <1>6. ASSUME Publish \/ \E traced \in BOOLEAN : Classify(traced) PROVE FinalInv'
    <2>1. Returned /\ ~Looping' /\ status' = status
      BY <1>6 DEF Publish, Classify, Returned, Looping, session
    <2> QED BY <2>1 DEF FinalInv
  <1>7. ASSUME Abort \/ Crash PROVE FinalInv'
    <2>1. ~Looping' /\ ~Returned'
      BY <1>7 DEF Abort, Exit, Crash, Looping, Returned
    <2> QED BY <2>1 DEF FinalInv
  <1>8. CASE UNCHANGED vars
    BY <1>8 DEF vars, params, session, result, FinalInv, Looping, Returned
  <1> QED BY <1>1, <1>2, <1>3, <1>4, <1>5, <1>6, <1>7, <1>8 DEF Next, Main

-----------------------------------------------------------------------------
(* The evidence behind green *)

(* A gate is passed only if no status of its steps is worse. *)
LEMMA WorstPasses ==
  ASSUME NEW S, Worst(S) = "passed", NEW st \in S
  PROVE  st \notin {"failed", "stale", "not-run", "retry", "skipped", "pending"}
  <1> DEFINE found == {i \in DOMAIN Severity : \E x \in S : Class(x) = Severity[i]}
  <1>1. DOMAIN Severity = 1..6 /\ \A i \in DOMAIN Severity : Severity[i] # "passed"
    BY DEF Severity
  <1>2. found \subseteq Nat
    BY <1>1
  <1>3. found = {}
    <2>1. SUFFICES ASSUME found # {} PROVE FALSE
      OBVIOUS
    <2>2. PICK i \in found : \A j \in found : i <= j
      <3> HIDE DEF found
      <3> QED BY <1>2, <2>1, MinIsFirst
    <2>3. DEFINE first == CHOOSE k \in found : \A j \in found : k <= j
    <2>4. first \in found
      <3> HIDE DEF found
      <3> QED BY <2>2
    <2>5. Worst(S) = Severity[first]
      BY <2>1 DEF Worst
    <2> QED BY <1>1, <2>4, <2>5
  <1>4. \A i \in DOMAIN Severity : Class(st) # Severity[i]
    BY <1>3
  <1>5. Class(st) \notin {"failed", "stale", "not-run", "retry", "skipped"}
    BY <1>1, <1>4 DEF Severity
  <1> QED BY <1>5 DEF Class

(* A recorded status that passes, and what the artifact then says. *)
LEMMA OverlayPasses ==
  ASSUME NEW s \in Steps, NEW st \in StepStatus, NEW f \in Artifact \cup {None},
         Overlay(s, st, f) \notin {"failed", "stale", "not-run", "retry", "skipped", "pending"}
  PROVE  /\ st \notin {"failed", "skipped", "pending"}
         /\ st = "completed" /\ s \notin Reusable => f # None
         /\ f # None => /\ f.says # "skipped"
                        /\ f.says = "refuted" => s \in Text
  <1>1. ArtifactVerdict(s, f) \in {"", "stale", "skipped", "failed"}
    BY DEF ArtifactVerdict
  <1>2. ArtifactVerdict(s, f) = ""
    BY <1>1 DEF Overlay
  <1>3. Overlay(s, st, f) = IF st = "completed" /\ f = None /\ s \notin Reusable THEN "not-run" ELSE st
    BY <1>2 DEF Overlay
  <1>4. f # None => ~IsStale(s, f) /\ f.says # "skipped" /\ (f.says = "refuted" => s \in Text)
    BY <1>2 DEF ArtifactVerdict
  <1> QED BY <1>3, <1>4

LEMMA InitEvidence == Init => EvidenceInv
  BY DEF Init, Absent, EvidenceInv, Evidence, GreenIsEarned, NoVerdict

LEMMA StepEvidence ==
  ASSUME ~LateRaise, TypeInv, ThreadInv, WalkInv, LifeInv, CacheInv, DiskInv, EvidenceInv, [Next]_vars
  PROVE  EvidenceInv'
  <1>0. ThreadsTyped /\ StatusTyped /\ FilesTyped /\ FlowTyped /\ CacheTyped /\ Steps \subseteq Nat \ {0}
    BY TypeOKInParts, StepsAreNumbers DEF TypeInv
  <1>1. ASSUME NEW s \in Steps, Step(s) \/ SaveFails(s) PROVE EvidenceInv'
    <2>1. /\ verdict' = verdict /\ stage = "join" /\ s \in profile /\ from' = from /\ Evidence(s)
          /\ s >= from /\ ret[s] = "none"
      BY <1>1, OneThreadMoves, ThreadIsAwaited DEF params, EvidenceInv, Evidence
    <2>2. verdict' # "green"
      BY <2>1 DEF EvidenceInv
    <2>3. errors => errors'
      BY <1>1 DEF Step, CacheHit, Begin, Complete, Judge, HandlerReturns, HandlerRaises, HandlerFails, SaveFails, Raise
    <2>4. ASSUME NEW t \in Steps \ {s} PROVE Evidence(t)'
      <3>1. /\ th'[t] = th[t] /\ ret'[t] = ret[t] /\ steps'[t] = steps[t] /\ out'[t] = out[t] /\ file'[t] = file[t]
            /\ (t \in wrote' <=> t \in wrote) /\ Evidence(t)
        BY <1>1, OneThreadMoves DEF EvidenceInv
      <3> QED BY <2>1, <2>3, <3>1 DEF Evidence
    <2>5. Evidence(s)'
      <3>1. CASE CacheHit(s)
        <4>1. s \in Reusable /\ s \notin wrote /\ wrote' = wrote
          BY <2>1, <3>1 DEF CacheHit, Fetched, CacheInv, Evidence
        <4> QED BY <2>1, <4>1 DEF Evidence
      <3>2. CASE Begin(s)
        <4>1. s \notin wrote /\ wrote' = wrote /\ out' = out /\ file' = file
          BY <2>1, <3>2 DEF Begin, Evidence
        <4> QED BY <2>1, <4>1 DEF Evidence
      <3>3. CASE Complete(s)
        <4>1. /\ wrote' = wrote /\ out' = out /\ file' = file
              /\ steps'[s] = "completed" /\ th'[s] = "judge"
          BY <1>0, <3>3 DEF Complete, Goto, ThreadsTyped, StatusTyped
        <4> QED BY <2>1, <4>1 DEF Evidence
      <3>4. CASE Judge(s)
        <4>1. /\ wrote' = wrote /\ out' = out /\ file' = file /\ th'[s] = "idle"
              /\ steps'[s] \in {"completed", "failed"}
          <5>1. steps[s] = "completed"
            BY <3>4 DEF Judge, LifeInv, Life
          <5> QED BY <1>0, <3>4, <5>1 DEF Judge, Return, ThreadsTyped, StatusTyped
        <4>2. s \in wrote \ Text /\ file[s].says = "retry" => errors'
          BY <2>1, <3>4 DEF Judge, Says, Evidence
        <4> QED BY <2>1, <4>1, <4>2 DEF Evidence
      <3>5. CASE \E v \in Outcomes[s] : HandlerReturns(s, v)
        <4>1. PICK v \in Outcomes[s] : HandlerReturns(s, v)
          BY <3>5
        <4>2. v \in Verdict
          BY StepsAssumption DEF StepsAssumption
        <4>3. /\ wrote' = wrote \cup {s} /\ out'[s] = "own" /\ th'[s] = "output" /\ steps' = steps
              /\ file'[s] = [says |-> v, ours |-> TRUE] /\ th[s] = "handler"
          BY <1>0, <4>1 DEF HandlerReturns, Goto, ThreadsTyped, FilesTyped
        <4>4. file'[s] # None /\ file'[s].says = v
          <5>1. [says |-> v, ours |-> TRUE] # None
            BY <4>2, ArtifactIsThere
          <5> QED BY <4>3, <5>1
        <4>5. steps[s] = "running"
          BY <4>3 DEF LifeInv, Life
        <4> QED BY <2>1, <4>1, <4>3, <4>4, <4>5 DEF Evidence
      <3>6. CASE \E v \in Outcomes[s] \cup {None} : HandlerRaises(s, v)
        <4>1. s \notin wrote /\ wrote' = wrote /\ out'[s] = "fallback" /\ file' = file
          BY <1>0, <2>1, <3>6 DEF HandlerRaises, Evidence, FilesTyped
        <4> QED BY <2>1, <4>1 DEF Evidence
      <3>7. CASE HandlerFails(s)
        <4>1. s \notin wrote /\ wrote' = wrote /\ out' = out /\ file' = file
          BY <2>1, <3>7 DEF HandlerFails, Evidence
        <4> QED BY <2>1, <4>1 DEF Evidence
      <3>8. CASE SaveFails(s)
        <4>1. /\ wrote' = wrote /\ out' = out /\ th'[s] = "idle" /\ ret'[s] # "ok"
          BY <1>0, <2>1, <3>8 DEF SaveFails, Raise, Return, Goto, ThreadsTyped
        <4>2. steps'[s] # "pending"
          <5>1. th[s] = "judge" => steps[s] = "completed"
            BY DEF LifeInv, Life
          <5> QED BY <1>0, <3>8, <5>1 DEF SaveFails, StatusTyped
        <4>3. \/ file' = file
              \/ s \in Reusable /\ s \notin wrote
          BY <2>1, <3>8 DEF SaveFails, CacheInv, Evidence
        <4>4. CASE file' = file
          BY <2>1, <4>1, <4>2, <4>4 DEF Evidence
        <4>5. CASE s \in Reusable /\ s \notin wrote
          BY <2>1, <4>1, <4>5 DEF Evidence
        <4> QED BY <4>3, <4>4, <4>5
      <3> QED BY <1>1, <3>1, <3>2, <3>3, <3>4, <3>5, <3>6, <3>7, <3>8 DEF Step
    <2> QED BY <2>2, <2>4, <2>5 DEF EvidenceInv, GreenIsEarned
  <1>2. ASSUME NEW p \in Profiles, NEW f \in FromSteps, NEW same \in BOOLEAN, NEW m \in Modes,
               Start(p, f, same, m)
        PROVE  EvidenceInv'
    <2>1. verdict' # "green"
      BY <1>2 DEF Start, NoVerdict
    <2>2. ASSUME NEW s \in Steps PROVE Evidence(s)'
      <3>1. /\ th'[s] = "idle" /\ out'[s] = "none" /\ wrote' = {} /\ steps'[s] \in {"pending", "absent"}
        BY <1>2 DEF Start, Absent
      <3>2. file'[s] # None => s < from'
        BY <1>2 DEF Start, Restored
      <3> QED BY <3>1, <3>2 DEF Evidence
    <2> QED BY <2>1, <2>2 DEF EvidenceInv, GreenIsEarned
  <1>3. ASSUME SkipStep PROVE EvidenceInv'
    <2>1. /\ verdict' = verdict /\ verdict # "green" /\ from' = from /\ th' = th /\ out' = out /\ wrote' = wrote
          /\ file' = file /\ errors' = errors /\ at \in Steps
          /\ \A s \in Steps : s # at => ret'[s] = ret[s]
          /\ \A s \in Steps : steps'[s] = IF s = at THEN "skipped" ELSE steps[s]
      BY <1>0, <1>3 DEF SkipStep, result, params, EvidenceInv, FlowTyped, StatusTyped, ThreadsTyped
    <2>2. ASSUME NEW s \in Steps PROVE Evidence(s)'
      <3>1. th[s] = "idle" /\ Evidence(s)
        BY <1>3 DEF SkipStep, ThreadInv, Busy, EvidenceInv
      <3> QED BY <2>1, <3>1 DEF Evidence
    <2> QED BY <2>1, <2>2 DEF EvidenceInv, GreenIsEarned
  <1>4. ASSUME Launch PROVE EvidenceInv'
    <2>1. PICK chosen : /\ chosen = IF serial THEN {Min(Todo)} ELSE Todo
                        /\ th' = [s \in Steps |-> IF s \in chosen THEN "ready" ELSE th[s]]
      BY <1>4 DEF Launch
    <2>2. Todo \subseteq profile /\ Todo # {} /\ \A s \in Todo : ret[s] = "none"
      BY <1>4 DEF Launch, Todo, Team
    <2>3. Min(Todo) \in Todo
      BY <1>0, <2>2, StepsAreNumbers, MinIsFirst DEF FlowTyped
    <2>4. /\ verdict' = verdict /\ verdict # "green" /\ from' = from /\ ret' = ret /\ out' = out /\ wrote' = wrote
          /\ file' = file /\ errors' = errors /\ steps' = steps /\ stage = "loop" /\ at \in profile
          /\ Position(at) >= from /\ \A s \in Steps : th[s] = "idle"
      BY <1>4 DEF Launch, result, params, session, EvidenceInv, WalkInv, ThreadInv, Busy
    <2>5. ASSUME NEW s \in chosen PROVE s >= from /\ steps[s] = "pending" /\ s \in Steps
      <3>1. s \in profile /\ ret[s] = "none" /\ s \in Steps
        BY <1>0, <2>1, <2>2, <2>3 DEF FlowTyped
      <3>2. s \in Nat /\ at \in Nat /\ at \in Steps /\ from \in Nat /\ profile \subseteq Steps
        BY <1>0, <2>4, <3>1 DEF FlowTyped
      <3>3. ~(s < at)
        BY <1>0, <2>4, <3>1, <3>2 DEF WalkInv, Looping
      <3>4. Position(at) <= at /\ Position(at) \in Nat
        BY <3>2, PositionIsSmall
      <3>5. steps[s] = "pending"
        BY <2>4, <3>1 DEF LifeInv, Life, Looping
      <3> QED BY <2>4, <3>1, <3>2, <3>3, <3>4, <3>5
    <2>6. ASSUME NEW s \in Steps PROVE Evidence(s)'
      <3>1. Evidence(s) /\ th'[s] = IF s \in chosen THEN "ready" ELSE "idle"
        BY <2>1, <2>4 DEF EvidenceInv
      <3>2. CASE s \in chosen
        BY <2>4, <2>5, <3>1, <3>2 DEF Evidence
      <3>3. CASE s \notin chosen
        BY <2>4, <3>1, <3>3 DEF Evidence
      <3> QED BY <3>2, <3>3
    <2> QED BY <2>4, <2>6 DEF EvidenceInv, GreenIsEarned
  <1>5. ASSUME Advance \/ Join \/ Conclude \/ Abort PROVE EvidenceInv'
    <2>1. /\ verdict' = verdict /\ verdict # "green" /\ from' = from /\ th' = th /\ ret' = ret /\ out' = out
          /\ wrote' = wrote
          /\ file' = file /\ errors' = errors /\ steps' = steps
      BY <1>5 DEF Advance, Join, Conclude, Abort, result, params, session, threads, EvidenceInv
    <2> QED BY <2>1 DEF EvidenceInv, Evidence, GreenIsEarned
  <1>6. ASSUME NEW traced \in BOOLEAN, Classify(traced) PROVE EvidenceInv'
    <2>1. /\ from' = from /\ th' = th /\ ret' = ret /\ out' = out /\ wrote' = wrote /\ profile' = profile
          /\ file' = file /\ errors' = errors /\ steps' = steps /\ stage = "classify" /\ stage' = "publish"
          /\ verdict' = Outcome(status, errors, profile, Effective, traced)
      BY <1>6 DEF Classify, params, session, threads
    <2>2. \A s \in Steps : Evidence(s)'
      BY <2>1 DEF EvidenceInv, Evidence
    <2>3. ASSUME verdict' = "green", NEW g \in HardGates \ DeclaredNA, NEW s \in GateSteps[g] \cap profile
          PROVE  /\ steps[s] = "completed"
                 /\ s \notin Reusable => s \in wrote /\ file[s].says \in {"passed", "failed"}
      <3>1. status = "completed" /\ Blocking(profile, Effective) = {} /\ ~errors
        BY <2>1, <2>3 DEF Outcome
      <3>2. GateStatus(g, profile, Effective) = "passed"
        BY <3>1 DEF Blocking
      <3>3. s \in Steps /\ steps[s] \in StepStatus /\ file[s] \in Artifact \cup {None}
        BY <1>0 DEF FlowTyped, StatusTyped, FilesTyped
      <3>4. Effective[s] \notin {"failed", "stale", "not-run", "retry", "skipped", "pending"}
        BY <3>2, WorstPasses DEF GateStatus
      <3>5. Effective[s] = Overlay(s, steps[s], file[s])
        BY <3>3 DEF Effective
      <3>6. /\ steps[s] \notin {"failed", "skipped", "pending"}
            /\ steps[s] = "completed" /\ s \notin Reusable => file[s] # None
            /\ file[s] # None => /\ file[s].says # "skipped"
                                 /\ file[s].says = "refuted" => s \in Text
        BY <3>3, <3>4, <3>5, OverlayPasses
      <3>7. steps[s] = "completed"
        <4>1. steps[s] # "absent"
          BY <2>1, <3>3 DEF LifeInv, Life
        <4>2. Ended(s)
          BY <2>1, <3>1, <3>3 DEF DiskInv
        <4> QED BY <3>6, <4>1, <4>2 DEF Ended
      <3>8. ASSUME s \notin Reusable PROVE s \in wrote /\ file[s].says \in {"passed", "failed"}
        <4>1. Evidence(s) /\ file[s] # None /\ s \in Nat /\ from \in Nat
          BY <1>0, <3>3, <3>6, <3>7, <3>8 DEF EvidenceInv, FlowTyped
        <4>2. s >= from /\ th[s] = "idle"
          BY <2>1, <3>3, <3>7, <4>1 DEF Evidence, ThreadInv, Busy
        <4>3. s \in wrote
          BY <3>8, <4>1, <4>2 DEF Evidence
        <4>4. file[s].says \in Outcomes[s]
          BY <4>1, <4>3 DEF Evidence
        <4>5. CASE s \in Text
          BY <3>6, <4>1, <4>3, <4>4, <4>5, StepsAssumption DEF StepsAssumption
        <4>6. CASE s \notin Text
          <5>0. ret[s] = "ok"
            BY <2>1, <3>1 DEF DiskInv
          <5>1. file[s].says # "retry"
            BY <3>1, <3>7, <4>1, <4>2, <4>3, <4>6, <5>0 DEF Evidence
          <5>2. file[s].says \in Verdict
            BY <3>3, <4>4, StepsAssumption DEF StepsAssumption
          <5> QED BY <3>6, <4>1, <4>3, <4>6, <5>1, <5>2 DEF Verdict
        <4> QED BY <4>3, <4>5, <4>6
      <3> QED BY <3>7, <3>8
    <2>4. GreenIsEarned'
      BY <2>1, <2>3 DEF GreenIsEarned
    <2> QED BY <2>1, <2>2, <2>4 DEF EvidenceInv
  <1>7. ASSUME Publish PROVE EvidenceInv'
    <2>1. /\ verdict' = verdict /\ stage' = "done" /\ from' = from /\ th' = th /\ ret' = ret /\ out' = out
          /\ wrote' = wrote
          /\ file' = file /\ errors' = errors /\ steps' = steps /\ profile' = profile
      BY <1>7 DEF Publish, params, session, threads
    <2> QED BY <2>1 DEF EvidenceInv, Evidence, GreenIsEarned
  <1>8. ASSUME Crash PROVE EvidenceInv'
    BY <1>8 DEF Crash, Absent, EvidenceInv, Evidence, GreenIsEarned, NoVerdict
  <1>9. CASE UNCHANGED vars
    <2>1. /\ verdict' = verdict /\ stage' = stage /\ from' = from /\ th' = th /\ ret' = ret /\ out' = out
          /\ wrote' = wrote
          /\ file' = file /\ errors' = errors /\ steps' = steps /\ profile' = profile
      BY <1>9 DEF vars, params, session, threads, result
    <2> QED BY <2>1 DEF EvidenceInv, Evidence, GreenIsEarned
  <1> QED BY <1>1, <1>2, <1>3, <1>4, <1>5, <1>6, <1>7, <1>8, <1>9 DEF Next, Main

-----------------------------------------------------------------------------
(* What holds of every run *)

RunInv == /\ TypeInv /\ ThreadInv /\ WalkInv /\ LifeInv
          /\ CacheInv /\ ReportInv /\ DiskInv

LEMMA RunInvariant == Spec => []RunInv
  <1>1. Init => RunInv
    BY InitTypes, InitThreads, InitWalk, InitLife, InitCache, InitReport, InitDisk DEF RunInv
  <1>2. RunInv /\ [Next]_vars => RunInv'
    BY StepTypes, StepThreads, StepWalk, StepLife, StepCache, StepReport, StepDisk DEF RunInv
  <1> QED BY <1>1, <1>2, PTL DEF Spec

(* The result is final: while it is classified and published, no step thread
   (orchestrator.py:_run_parallel_group) is left that could change it. *)
THEOREM ResultIsFinal == Spec => []NothingLeftRunning
  <1>1. RunInv => NothingLeftRunning
    BY DEF RunInv, ThreadInv, NothingLeftRunning
  <1> QED BY <1>1, RunInvariant, PTL

(* Once a step has blocked or failed, no further step of the run is started. *)
THEOREM NothingStartsAfterBlock == Spec => StopsAfterBlock
  <1>1. RunInv /\ [Next]_vars =>
          [Broken /\ stage' \in {"join", "loop"} /\ runs' = runs
             => \A s \in Steps : th[s] = "idle" => th'[s] = "idle"]_vars
    <2> SUFFICES ASSUME RunInv, Next, Broken, stage' \in {"join", "loop"}, runs' = runs,
                        NEW t \in Steps, th[t] = "idle"
                 PROVE  th'[t] = "idle"
      OBVIOUS
    <2>1. ASSUME NEW s \in Steps, Step(s) \/ SaveFails(s) PROVE th'[t] = "idle"
      BY <2>1, OneThreadMoves DEF RunInv
    <2>2. ~Launch /\ ~Crash
      BY DEF RunInv, ThreadInv, Launch, Crash
    <2>3. ~ \E p \in Profiles, f \in FromSteps, same \in BOOLEAN, m \in Modes : Start(p, f, same, m)
      <3>1. runs \in Nat
        BY TypeOKInParts DEF RunInv, TypeInv, FlowTyped
      <3> QED BY <3>1 DEF Start
    <2>4. ASSUME \/ SkipStep \/ Advance \/ Join \/ Conclude \/ Publish \/ Abort
                 \/ \E traced \in BOOLEAN : Classify(traced)
          PROVE  th'[t] = "idle"
      BY <2>4 DEF SkipStep, Advance, Join, Conclude, Publish, Abort, Classify, threads
    <2> QED BY <2>1, <2>2, <2>3, <2>4 DEF Next, Main
  <1> QED BY <1>1, RunInvariant, PTL DEF Spec, StopsAfterBlock

(* A failed run stays failed: the final report, which would declare it
   completed, does not run beside a step that fails nor after it. *)
THEOREM FailureIsKept == Spec => FailedStays
  <1>1. RunInv /\ [Next]_vars =>
          [status = "failed" /\ runs' = runs /\ stage' # "idle" => status' = "failed"]_vars
    <2> SUFFICES ASSUME RunInv, Next, status = "failed", runs' = runs, stage' # "idle"
                 PROVE  status' = "failed"
      OBVIOUS
    <2>1. ASSUME NEW s \in Steps, Step(s) \/ SaveFails(s) PROVE status' = "failed"
      <3>1. ~(Begin(s) /\ s = FinalReport)
        <4>1. SUFFICES ASSUME s = FinalReport PROVE FALSE
          OBVIOUS
        <4>2. th[FinalReport] # "idle"
          BY <2>1, <4>1, OneThreadMoves DEF RunInv
        <4>3. ~Broken /\ Looping
          BY <4>2, ReportIsLast DEF RunInv, Looping
        <4> QED BY <4>3 DEF RunInv, ReportInv
      <3> QED BY <2>1, <3>1 DEF Step, CacheHit, Begin, Complete, Judge, HandlerReturns,
            HandlerRaises, HandlerFails, SaveFails, Raise
    <2>2. ~Crash /\ ~ \E p \in Profiles, f \in FromSteps, same \in BOOLEAN, m \in Modes : Start(p, f, same, m)
      <3>1. runs \in Nat
        BY TypeOKInParts DEF RunInv, TypeInv, FlowTyped
      <3> QED BY <3>1 DEF Start, Crash
    <2>3. ASSUME \/ SkipStep \/ Launch \/ Advance \/ Join \/ Conclude \/ Publish \/ Abort
                 \/ \E traced \in BOOLEAN : Classify(traced)
          PROVE  status' = "failed"
      BY <2>3 DEF SkipStep, Launch, Advance, Join, Conclude, Publish, Abort, Classify, session
    <2> QED BY <2>1, <2>2, <2>3 DEF Next, Main
  <1> QED BY <1>1, RunInvariant, PTL DEF Spec, FailedStays

(* session.json says completed only when every registered step has ended. *)
THEOREM CompletedMeansEnded == Spec => []CompletedOnDisk
  <1>1. RunInv => CompletedOnDisk
    BY DEF RunInv, DiskInv
  <1> QED BY <1>1, RunInvariant, PTL

(* A run that returned has saved its session as it is in memory, with a final
   status: for every profile with the final report, --from-step must not
   exceed the number of registered steps (the code does not check it). *)
THEOREM ReturnedIsSaved == ASSUME FromWithin PROVE Spec => []SavedAsReturned
  <1>1. Init => FinalInv
    BY InitFinal
  <1>2. RunInv /\ FinalInv /\ [Next]_vars => FinalInv'
    BY StepFinal DEF RunInv
  <1>3. RunInv /\ FinalInv => SavedAsReturned
    BY DEF RunInv, FinalInv, DiskInv, Returned, SavedAsReturned
  <1> QED BY <1>1, <1>2, <1>3, RunInvariant, PTL DEF Spec

LEMMA EvidenceInvariant == ASSUME ~LateRaise PROVE Spec => []EvidenceInv
  <1>1. RunInv /\ EvidenceInv /\ [Next]_vars => EvidenceInv'
    BY StepEvidence DEF RunInv
  <1> QED BY <1>1, InitEvidence, RunInvariant, PTL DEF Spec

(* Green rests on work of this run, if a handler that raises has written
   nothing: a template, a restored or a skipped artifact earns no green
   (gates.py). *)
THEOREM GreenNeedsEvidence == ASSUME ~LateRaise PROVE Spec => []GreenIsEarned
  <1>1. EvidenceInv => GreenIsEarned
    BY DEF EvidenceInv
  <1> QED BY <1>1, EvidenceInvariant, PTL

(* Resuming takes over only what precedes the step it starts from. *)
THEOREM OnlyEarlierTakenOver == Spec => []OnlyEarlierRestored
  <1>1. CASE LateRaise
    <2>1. OnlyEarlierRestored
      BY <1>1 DEF OnlyEarlierRestored
    <2> QED BY <2>1, PTL
  <1>2. CASE ~LateRaise
    <2>1. TypeOK /\ EvidenceInv => OnlyEarlierRestored
      <3> SUFFICES ASSUME TypeOK, EvidenceInv, NEW s \in Steps, file[s] # None, s >= from, s \notin Reusable
                   PROVE  s \in wrote
        BY DEF OnlyEarlierRestored
      <3>1. s \in Nat /\ from \in Nat /\ ~(s < from)
        <4>1. s \in Nat /\ from \in Nat
          BY StepsAreNumbers DEF TypeOK
        <4> QED BY <4>1
      <3> QED BY <3>1 DEF EvidenceInv, Evidence
    <2> QED BY <1>2, <2>1, TypeCorrect, EvidenceInvariant, PTL
  <1> QED BY <1>1, <1>2
=============================================================================
