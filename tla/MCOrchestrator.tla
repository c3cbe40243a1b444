--------------------------- MODULE MCOrchestrator ---------------------------
(* An instance of Orchestrator for TLC with one step of every kind:
   1 codegen-deploy: reusable, in a parallel group with 3
   2 internal-code-review: same gate as 1, outside the group; its artifact
     names no session here, as that of development-review does not
   3 claude-review: advisory gate
   4 test-qualification: blocks
   5 final-report: Markdown, same gate as 4 *)
EXTENDS Orchestrator

CONSTANTS G3, G4, G10

FiveSteps == 1..5
ThreeGates == {G3, G4, G10}
MCGateSteps == [g \in GateNames |-> CASE g = G3 -> {1, 2} [] g = G4 -> {3} [] g = G10 -> {4, 5}]
OnlyG4 == {G4}
NoGate == {}
Deploy == {1}
Report == {5}
Review == {2}
MCGate == [s \in Steps |-> CASE s = 4 -> "block" [] s = 5 -> "info" [] OTHER -> "warn"]
DeployGroup == {{1, 3}}
MCOutcomes == [s \in Steps |->
  CASE s = 1 -> {"passed", "failed"}
    [] s = 2 -> {"passed", "failed", "refuted"}
    [] s = 3 -> {"passed", "retry"}
    [] s = 4 -> {"passed", "failed", "skipped"}
    [] s = 5 -> {"passed"}]
(* the safety profile, and one without the final report *)
MCProfiles == {1..5, 1..4}
(* the diff planner has dropped step 2 *)
PlannedProfiles == {{1, 3, 4, 5}}
FreshOrThird == {0, 3}
Fresh == {0}
Parallel == {FALSE}
BothModes == {FALSE, TRUE}
=============================================================================
