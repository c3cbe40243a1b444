-------------------------------- MODULE Gates --------------------------------
(***************************************************************************)
(* pipeline/gates.py: how the steps of a run, corrected by the artifacts   *)
(* found in the session directory, become gate statuses and the verdict    *)
(* green / unverified / red of the run.  Pure operators; Orchestrator      *)
(* applies them to a session.                                              *)
(***************************************************************************)
EXTENDS Naturals

CONSTANTS
  Steps,      \* step keys of PIPELINE_STEPS, in the order of the numbers
  GateNames,
  GateSteps,  \* GATES: the steps of a gate
  Advisory,   \* gates that do not count for the verdict
  DeclaredNA, \* gates declared not applicable (na_gates, OSH_NA_GATES)
  Reusable,   \* REUSABLE_STEPS: may carry an older session's artifact
  Text,       \* steps whose artifact is Markdown: no verdict, no session
  Unsigned,   \* steps whose JSON artifact names no session
  None

ASSUME GatesAssumption ==
  /\ Steps \subseteq Nat \ {0}
  /\ GateSteps \in [GateNames -> SUBSET Steps]
  /\ Advisory \subseteq GateNames /\ DeclaredNA \subseteq GateNames
  /\ Reusable \subseteq Steps /\ Text \subseteq Steps /\ Unsigned \subseteq Steps

(* What an artifact says of itself.  "refuted" stands for passed or
   gate_passed: false without a failed status, "failed" for the statuses
   failed and incomplete (of test-qualification only). *)
Verdict == {"passed", "failed", "refuted", "retry", "skipped"}

(* Hard gates: those that are not advisory *)
HardGates == GateNames \ Advisory

(* _verdict_from_json / _verdict_from_text: f is None or the artifact of s
   with what it says and whether it names the session of the run (ours);
   "" is no verdict *)
IsStale(s, f) == s \notin Text \cup Reusable \cup Unsigned /\ ~f.ours

ArtifactVerdict(s, f) ==
  CASE f = None -> ""
    [] f # None /\ IsStale(s, f) -> "stale"
    [] f # None /\ ~IsStale(s, f) /\ f.says = "skipped" -> "skipped"
    [] f # None /\ ~IsStale(s, f) /\ f.says = "refuted" /\ s \notin Text -> "failed"
    [] OTHER -> ""

(* _apply_artifact_overlay for one step with the recorded status st *)
Overlay(s, st, f) ==
  LET v == ArtifactVerdict(s, f)
  IN  IF v # "" THEN v
      ELSE IF st = "completed" /\ f = None /\ s \notin Reusable THEN "not-run"
      ELSE st

(* GATE_STATUS_ORDER above passed, and the class _worst_status puts a status
   in; a status of no class, completed or running, is no worse than passed *)
Severity == <<"failed", "stale", "not-run", "retry", "warning", "skipped">>
Class(st) == CASE st \in {"incomplete", "error"} -> "failed"
               [] st = "pending" -> "not-run"
               [] OTHER -> st

(* _worst_status: without any status there is no evidence *)
Worst(S) ==
  LET found == {i \in DOMAIN Severity : \E st \in S : Class(st) = Severity[i]}
  IN  IF S = {} THEN "not-run"
      ELSE IF found = {} THEN "passed"
      ELSE Severity[CHOOSE i \in found : \A j \in found : i <= j]

(* aggregate_gate_status: steps without a status contribute nothing *)
GateStatus(g, registered, eff) == Worst({eff[s] : s \in GateSteps[g] \cap registered})

(* classify_run_outcome: the gates that block green *)
Blocking(registered, eff) ==
  {g \in HardGates :
     /\ GateStatus(g, registered, eff) # "passed"
     /\ ~(g \in DeclaredNA /\ GateStatus(g, registered, eff) \in {"skipped", "not-run"})}

Outcome(status, errors, registered, eff, traced) ==
  CASE status # "completed" -> "red"
    [] status = "completed" /\ Blocking(registered, eff) = {} /\ traced /\ ~errors -> "green"
    [] OTHER -> "unverified"
=============================================================================
