---------------------------- MODULE Orchestrator ----------------------------
(***************************************************************************)
(* One pipeline run: run_pipeline, _execute_step and _run_parallel_group   *)
(* of pipeline/orchestrator.py over the session of pipeline/session.py,    *)
(* with the step cache, the gates and the job of api/pipeline.py that      *)
(* starts the run and shows its result on the board.                       *)
(*                                                                         *)
(* The main thread (stage, at) walks over the registered steps.  It        *)
(* launches a step, or all the steps of a parallel group at once; each is  *)
(* executed by a thread of its own (th), which ends with a result (ret).   *)
(* A step handler is one of its possible outcomes.  sess variables live in *)
(* memory, saved is session.json, cache the cached outputs.                *)
(***************************************************************************)
EXTENDS Gates, FiniteSets, FiniteSetsExt

CONSTANTS
  FinalReport,  \* the step that reports
  Gate,         \* resolve_gate: "block", "warn" or "info" of a step
  Groups,       \* PARALLEL_GROUPS
  Outcomes,     \* verdicts the artifact of a step may carry
  Profiles,     \* sets of steps left by the profile and the diff planner
  FromSteps,    \* values of --from-step
  Modes,        \* values of YULEOSH_PIPELINE_SERIAL
  LateRaise,    \* a handler may raise after it wrote its artifact
  MaxRuns, MaxFaults  \* bounds: runs started; crashes and failed writes

ASSUME StepsAssumption ==
  /\ FinalReport \in Steps
  /\ Gate \in [Steps -> {"block", "warn", "info"}]
  /\ Groups \subseteq SUBSET Steps
  /\ \A G, H \in Groups : G # H => G \cap H = {}
  /\ FinalReport \notin (UNION Groups) \cup Reusable /\ \A s \in Steps : s <= FinalReport
  /\ Outcomes \in [Steps -> SUBSET Verdict]
  /\ \A s \in Text : Outcomes[s] \subseteq {"passed", "skipped"}
  /\ Profiles \subseteq SUBSET Steps /\ {} \notin Profiles
ASSUME RunsAssumption ==
  /\ FromSteps \subseteq Nat /\ Modes \subseteq BOOLEAN /\ LateRaise \in BOOLEAN
  /\ MaxRuns \in Nat /\ MaxFaults \in Nat

StepStatus == {"absent", "pending", "running", "completed", "failed", "skipped"}
Output == {"none", "own", "fallback"}
(* ours: its session field is the name of this run *)
Artifact == [says: Verdict, ours: BOOLEAN]

ASSUME NoneAssumption == None \notin Steps /\ None \notin Artifact

VARIABLES
  stage,    \* main thread: idle, loop, join, classify, publish, done
  at,       \* _ri: the step of _registered it looks at, None past the last
  th, ret,  \* of a step: where its thread is, what _execute_step returned
  out,      \* output path of a step: its own artifact or the template fallback
  status, steps, errors, arts, verdict,   \* fields of PipelineSession
  file,     \* artifacts in the session directory
  saved,    \* session.json of the latest session with this spec
  cache,    \* step cache: an output, for the fingerprint it was stored under
  profile, from, serial,      \* parameters of the run
  wrote,    \* history: steps whose handler wrote its artifact in this run
  runs, faults,
  job, board  \* _RUN_JOBS record and the checkpoint state the board reads

session == <<status, steps, errors, arts, file>>
threads == <<th, ret, out, wrote>>
params == <<profile, from, serial, runs>>
result == <<verdict, job, board>>
vars == <<stage, at, threads, session, saved, cache, params, faults, result>>

(* to_dict: what a save writes, the files being on disk anyway *)
Snapshot(st, ss) == [run |-> runs, status |-> st, steps |-> ss, arts |-> arts,
                     verdict |-> verdict, file |-> file]

NoVerdict == "none"
Absent(f) == [s \in Steps |-> f]
Busy == {s \in Steps : th[s] # "idle"}
(* position of a step in _registered, counted from 1 *)
Position(s) == Cardinality({t \in profile : t <= s})
(* mutant of After: it walks past the last step *)
AfterUnchecked(s) == s + 1
After(s) == LET later == {t \in profile : t > s}
            IN  IF later = {} THEN None ELSE Min(later)
(* the parallel group of a step, or the step alone *)
Team(s) == profile \cap (IF \E G \in Groups : s \in G
                         THEN UNION {G \in Groups : s \in G} ELSE {s})
(* _members: those not in _executed *)
Todo == {s \in Team(at) : ret[s] = "none"}
(* steps run by a pool of threads, which catches whatever they raise *)
Pooled(s) == ~serial /\ \E G \in Groups : s \in G
(* the run was told to stop: _blocked or _failed *)
Broken == \E s \in Steps : ret[s] \in {"block", "failed"}

Init ==
  /\ stage = "idle" /\ at = None
  /\ th = Absent("idle") /\ ret = Absent("none") /\ out = Absent("none") /\ wrote = {}
  /\ status = "none" /\ steps = Absent("absent") /\ errors = FALSE
  /\ arts = Absent("none") /\ file = Absent(None)
  /\ saved = None /\ cache = Absent(None)
  /\ profile = {} /\ from = 0 /\ serial = FALSE
  /\ runs = 0 /\ faults = 0
  /\ verdict = NoVerdict /\ job = "none" /\ board = None

-----------------------------------------------------------------------------
(* The job of a one-click run calls run_pipeline *)

(* mutant of Restored: the artifacts of later steps come along *)
RestoredAll(f) ==
  IF f > 1 /\ saved # None THEN {s \in Steps : saved.arts[s] # "none"} ELSE {}

(* artifacts _find_previous_session's session hands to a run from step f:
   those of the steps before f in PIPELINE_STEPS *)
Restored(f) ==
  IF f > 1 /\ saved # None THEN {s \in Steps : s < f /\ saved.arts[s] # "none"} ELSE {}

(* same: the run has the name of the previous one, names being free *)
Start(p, f, same, sequential) ==
  /\ stage \in {"idle", "done"} /\ runs < MaxRuns
  /\ stage' = "loop" /\ at' = Min(p)
  /\ th' = Absent("idle") /\ ret' = Absent("none") /\ out' = Absent("none") /\ wrote' = {}
  /\ status' = "created" /\ errors' = FALSE /\ verdict' = NoVerdict
  /\ steps' = [s \in Steps |-> IF s \in p THEN "pending" ELSE "absent"]
  /\ LET kept == Restored(f)
     IN  /\ arts' = [s \in Steps |-> IF s \in kept THEN saved.arts[s] ELSE "none"]
         /\ file' = [s \in Steps |-> IF s \in kept /\ saved.arts[s] = "own"
                                     THEN [saved.file[s] EXCEPT !.ours = @ /\ same] ELSE None]
  /\ from' = IF saved = None THEN 0 ELSE f
  /\ profile' = p /\ serial' = sequential /\ runs' = runs + 1
  /\ job' = "running"
  /\ UNCHANGED <<saved, cache, faults, board>>

-----------------------------------------------------------------------------
(* The main loop *)

(* a step before from_step is marked skipped and counts as executed *)
SkipStep ==
  /\ stage = "loop" /\ at # None /\ Position(at) < from
  /\ steps' = [steps EXCEPT ![at] = "skipped"]
  /\ ret' = [ret EXCEPT ![at] = "ok"]
  /\ at' = After(at)
  /\ UNCHANGED <<stage, th, out, wrote, status, errors, arts, file, saved, cache, params, faults, result>>

(* execute a step, or what is left of its group: all members at once, or in
   serial mode one after the other *)
Launch ==
  /\ stage = "loop" /\ at # None /\ Position(at) >= from /\ Todo # {}
  /\ LET chosen == IF serial THEN {Min(Todo)} ELSE Todo
     IN  th' = [s \in Steps |-> IF s \in chosen THEN "ready" ELSE th[s]]
  /\ stage' = "join"
  /\ UNCHANGED <<at, ret, out, wrote, session, saved, cache, params, faults, result>>

Advance ==
  /\ stage = "loop" /\ at # None /\ Position(at) >= from /\ Todo = {}
  /\ at' = After(at)
  /\ UNCHANGED <<stage, threads, session, saved, cache, params, faults, result>>

(* mutant of Join: the answer of the threads is not looked at *)
JoinUnchecked ==
  /\ stage = "join" /\ Busy = {}
  /\ stage' = "loop"
  /\ UNCHANGED <<at, threads, session, saved, cache, params, faults, result>>

(* every launched thread has returned, and none of them says stop *)
Join ==
  /\ stage = "join" /\ Busy = {} /\ ~Broken
  /\ stage' = "loop"
  /\ UNCHANGED <<at, threads, session, saved, cache, params, faults, result>>

(* mutant of Conclude: a broken group is not waited for *)
ConcludeEarly ==
  /\ \/ stage = "join" /\ Broken
     \/ stage = "loop" /\ at = None
  /\ status' = IF Broken THEN "failed"
               ELSE IF status # "failed" /\ FinalReport \notin profile THEN "completed"
               ELSE status
  /\ saved' = Snapshot(status', steps)
  /\ stage' = "classify"
  /\ UNCHANGED <<at, threads, steps, errors, arts, file, cache, params, faults, result>>

(* mutant of Conclude: the session of a failed run is not saved *)
ConcludeUnsaved ==
  /\ \/ stage = "join" /\ Busy = {} /\ Broken
     \/ stage = "loop" /\ at = None
  /\ status' = IF Broken THEN "failed"
               ELSE IF status # "failed" /\ FinalReport \notin profile THEN "completed"
               ELSE status
  /\ saved' = IF status' = "failed" THEN saved ELSE Snapshot(status', steps)
  /\ stage' = "classify"
  /\ UNCHANGED <<at, threads, steps, errors, arts, file, cache, params, faults, result>>

(* the loop is over: set the status a final report would have set, save *)
Conclude ==
  /\ \/ stage = "join" /\ Busy = {} /\ Broken
     \/ stage = "loop" /\ at = None
  /\ status' = IF Broken THEN "failed"
               ELSE IF status # "failed" /\ FinalReport \notin profile THEN "completed"
               ELSE status
  /\ saved' = Snapshot(status', steps)
  /\ stage' = "classify"
  /\ UNCHANGED <<at, threads, steps, errors, arts, file, cache, params, faults, result>>

(* write_gate_summary: the status of each step after the overlay *)
Effective == [s \in Steps |-> Overlay(s, steps[s], file[s])]

(* classify_run_outcome.  traced: the gate summary was written, and the
   requirements are traced where that is asked for; without either the run is
   unverified.  A failed run's verdict is not saved, and a save that fails
   here is only logged. *)
Classify(traced) ==
  /\ stage = "classify"
  /\ verdict' = Outcome(status, errors, profile, Effective, traced)
  /\ \/ /\ saved' = IF status = "failed" THEN saved
                    ELSE [Snapshot(status, steps) EXCEPT !.verdict = verdict']
        /\ UNCHANGED faults
     \/ /\ status # "failed" /\ faults < MaxFaults
        /\ faults' = faults + 1
        /\ UNCHANGED saved
  /\ stage' = "publish"
  /\ UNCHANGED <<at, threads, session, cache, params, job, board>>

-----------------------------------------------------------------------------
(* _execute_step in the thread of step s *)

(* _publish_orchestrator_checkpoint: the board's copy of a step *)
BoardStep(jobStatus, st) ==
  CASE st = "completed" -> "passed"
    [] st \in {"failed", "skipped", "running"} -> st
    [] OTHER -> IF jobStatus = "completed" THEN "passed" ELSE "pending"

(* _make_orchestrator_step_callback, called where _execute_step returns: the
   board is brought up to date with the steps ss *)
ShowProgress(ss) ==
  board' = [status |-> "running", steps |-> [s \in Steps |-> BoardStep("running", ss[s])]]

Goto(s, l) == th' = [th EXCEPT ![s] = l]
Return(s, r) == /\ th' = [th EXCEPT ![s] = "idle"]
                /\ ret' = [ret EXCEPT ![s] = r]

(* step_cache.restore: the cached output is copied into the session *)
Fetched(s) == [file EXCEPT ![s] = IF cache[s].output = "own"
                                  THEN [says |-> cache[s].says, ours |-> TRUE] ELSE @]

(* a cached output is restored: complete_step saves, set_artifact does not *)
CacheHit(s) ==
  /\ th[s] = "ready" /\ cache[s] # None
  /\ steps' = [steps EXCEPT ![s] = "completed"]
  /\ saved' = Snapshot(status, steps')
  /\ arts' = [arts EXCEPT ![s] = cache[s].output]
  /\ out' = [out EXCEPT ![s] = cache[s].output]
  /\ file' = Fetched(s)
  /\ Goto(s, "judge cached")
  /\ UNCHANGED <<stage, at, ret, wrote, status, errors, cache, params, faults, result>>

(* mutant of Begin: the run is declared completed before the save *)
BeginCompleted(s) ==
  /\ th[s] = "ready"
  /\ steps' = [steps EXCEPT ![s] = "running"]
  /\ status' = IF s = FinalReport THEN "completed" ELSE status
  /\ saved' = Snapshot(status', steps')
  /\ Goto(s, "handler")
  /\ UNCHANGED <<stage, at, ret, out, wrote, errors, arts, file, cache, params, faults, result>>

(* start_step saves; only then a final report declares the run completed *)
Begin(s) ==
  /\ th[s] = "ready"
  /\ steps' = [steps EXCEPT ![s] = "running"]
  /\ saved' = Snapshot(status, steps')
  /\ status' = IF s = FinalReport THEN "completed" ELSE status
  /\ Goto(s, "handler")
  /\ UNCHANGED <<stage, at, ret, out, wrote, errors, arts, file, cache, params, faults, result>>

(* the handler returns its artifact, which says v *)
HandlerReturns(s, v) ==
  /\ th[s] = "handler"
  /\ file' = [file EXCEPT ![s] = [says |-> v, ours |-> TRUE]]
  /\ out' = [out EXCEPT ![s] = "own"]
  /\ wrote' = wrote \cup {s}
  /\ Goto(s, "output")
  /\ UNCHANGED <<stage, at, ret, status, steps, errors, arts, saved, cache, params, faults, result>>

(* mutant of HandlerRaises: the template is written under the artifact's name *)
HandlerRaisesOver(s, v) ==
  /\ th[s] = "handler" /\ (v # None => LateRaise)
  /\ file' = [file EXCEPT ![s] = [says |-> "passed", ours |-> TRUE]]
  /\ out' = [out EXCEPT ![s] = "fallback"]
  /\ Goto(s, "output")
  /\ UNCHANGED <<stage, at, ret, wrote, status, steps, errors, arts, saved, cache, params, faults, result>>

(* _run_step_with_fallback: any exception but PipelineStepError is answered
   with a template; the artifact v, if not None, had been written before *)
HandlerRaises(s, v) ==
  /\ th[s] = "handler" /\ (v # None => LateRaise)
  /\ file' = IF v = None THEN file
             ELSE [file EXCEPT ![s] = [says |-> v, ours |-> TRUE]]
  /\ out' = [out EXCEPT ![s] = "fallback"]
  /\ Goto(s, "output")
  /\ UNCHANGED <<stage, at, ret, wrote, status, steps, errors, arts, saved, cache, params, faults, result>>

(* PipelineStepError: fail_step *)
HandlerFails(s) ==
  /\ th[s] = "handler"
  /\ steps' = [steps EXCEPT ![s] = "failed"]
  /\ errors' = TRUE /\ status' = "failed"
  /\ saved' = Snapshot(status', steps')
  /\ Return(s, "failed")
  /\ ShowProgress(steps')
  /\ UNCHANGED <<stage, at, out, wrote, arts, file, cache, params, faults, verdict, job>>

(* step_cache.store keeps what is not a failed JSON output.  It would keep
   the status incomplete, which no reusable step writes. *)
Storable(s) == s \in Reusable /\ ~(out[s] = "own" /\ file[s].says = "failed")
Stored(s) == IF Storable(s)
             THEN [cache EXCEPT ![s] = [output |-> out[s],
                     says |-> IF out[s] = "own" THEN file[s].says ELSE "passed"]]
             ELSE cache

(* store in the cache, complete_step (saves), set_artifact (does not) *)
Complete(s) ==
  /\ th[s] = "output"
  /\ cache' = Stored(s)
  /\ steps' = [steps EXCEPT ![s] = "completed"]
  /\ saved' = Snapshot(status, steps')
  /\ arts' = [arts EXCEPT ![s] = out[s]]
  /\ Goto(s, "judge")
  /\ UNCHANGED <<stage, at, ret, out, wrote, status, errors, file, params, faults, result>>

(* what _propagate_step_verdict reads from the output of s *)
Says(s) == IF out[s] = "own" /\ s \notin Text THEN file[s].says ELSE "passed"

(* mutant of Judge: the answer "block" is ignored for every output *)
JudgeIgnored(s) ==
  /\ th[s] \in {"judge", "judge cached"}
  /\ LET failed == Says(s) = "failed"
         blocks == failed /\ Gate[s] = "block"
     IN  /\ steps' = IF failed THEN [steps EXCEPT ![s] = "failed"] ELSE steps
         /\ errors' = (errors \/ (failed /\ Gate[s] # "info") \/ Says(s) = "retry")
         /\ status' = IF blocks THEN "failed" ELSE status
         /\ Return(s, "ok")
         /\ saved' = IF s = FinalReport /\ ~blocks THEN Snapshot(status', steps') ELSE saved
  /\ ShowProgress(steps')
  /\ UNCHANGED <<stage, at, out, wrote, arts, file, cache, params, faults, verdict, job>>

(* mutant of Judge: a worker of a group that blocks never returns *)
JudgeHangs(s) ==
  /\ th[s] \in {"judge", "judge cached"} /\ Says(s) # "failed"
  /\ errors' = (errors \/ Says(s) = "retry")
  /\ Return(s, "ok")
  /\ ShowProgress(steps)
  /\ UNCHANGED <<stage, at, out, wrote, status, steps, arts, file, saved, cache, params, faults, verdict, job>>

(* _propagate_step_verdict in memory; its answer "block" is ignored for a
   cached output.  A final report then saves, unless it blocks. *)
Judge(s) ==
  /\ th[s] \in {"judge", "judge cached"}
  /\ LET failed == Says(s) = "failed"
         blocks == failed /\ Gate[s] = "block"
     IN  /\ steps' = IF failed THEN [steps EXCEPT ![s] = "failed"] ELSE steps
         /\ errors' = (errors \/ (failed /\ Gate[s] # "info") \/ Says(s) = "retry")
         /\ status' = IF blocks THEN "failed" ELSE status
         /\ Return(s, IF blocks /\ th[s] = "judge" THEN "block" ELSE "ok")
         /\ saved' = IF s = FinalReport /\ ~blocks THEN Snapshot(status', steps') ELSE saved
  /\ ShowProgress(steps')
  /\ UNCHANGED <<stage, at, out, wrote, arts, file, cache, params, faults, verdict, job>>

-----------------------------------------------------------------------------
(* The end of the job *)

(* run_pipeline has returned a session: the job is completed, whatever the
   status of the session *)
Publish ==
  /\ stage = "publish"
  /\ job' = "completed"
  /\ board' = [status |-> "completed", steps |-> [s \in Steps |-> BoardStep("completed", steps[s])]]
  /\ stage' = "done"
  /\ UNCHANGED <<at, threads, session, saved, cache, params, faults, verdict>>

(* run_pipeline exits, after an exception outside the step handlers: there is
   no session to publish *)
Exit ==
  /\ job' = "failed"
  /\ board' = [status |-> "failed", steps |-> Absent("pending")]
  /\ stage' = "done"

(* in the main thread, the save after the loop included *)
Abort ==
  /\ stage \in {"loop", "classify"} \/ (stage = "join" /\ Busy = {} /\ Broken)
  /\ faults < MaxFaults
  /\ faults' = faults + 1
  /\ Exit
  /\ UNCHANGED <<at, threads, session, saved, cache, params, verdict>>

(* _save raises in the thread of s: the pool takes the step for failed,
   without a pool the run exits *)
Raise(s) ==
  /\ faults < MaxFaults
  /\ faults' = faults + 1
  /\ IF Pooled(s)
     THEN /\ Return(s, "failed")
          /\ UNCHANGED <<stage, job, board>>
     ELSE /\ Goto(s, "idle") /\ Exit
          /\ UNCHANGED ret
  /\ UNCHANGED <<at, out, wrote, arts, saved, params, verdict>>

(* session.json cannot be written, by start_step; by complete_step of a cached
   output or of one the cache has just taken; by fail_step; at the end of the
   final report.  Each has changed the session in memory before. *)
SaveFails(s) ==
  /\ Raise(s)
  /\ \/ /\ th[s] = "ready"
        /\ steps' = [steps EXCEPT ![s] = "running"]
        /\ UNCHANGED <<status, errors, file, cache>>
     \/ /\ th[s] = "ready" /\ cache[s] # None
        /\ steps' = [steps EXCEPT ![s] = "completed"]
        /\ file' = Fetched(s)
        /\ UNCHANGED <<status, errors, cache>>
     \/ /\ th[s] = "output"
        /\ steps' = [steps EXCEPT ![s] = "completed"]
        /\ cache' = Stored(s)
        /\ UNCHANGED <<status, errors, file>>
     \/ /\ th[s] = "handler"
        /\ steps' = [steps EXCEPT ![s] = "failed"]
        /\ errors' = TRUE /\ status' = "failed"
        /\ UNCHANGED <<file, cache>>
     \/ /\ th[s] = "judge" /\ s = FinalReport
        /\ ~(Says(s) = "failed" /\ Gate[s] = "block")
        /\ UNCHANGED <<steps, status, errors, file, cache>>

(* the server dies: session, job and threads are gone *)
Crash ==
  /\ stage \notin {"idle", "done"} /\ faults < MaxFaults
  /\ faults' = faults + 1
  /\ stage' = "idle" /\ at' = None
  /\ th' = Absent("idle") /\ ret' = Absent("none") /\ out' = Absent("none") /\ wrote' = {}
  /\ status' = "none" /\ steps' = Absent("absent") /\ errors' = FALSE
  /\ arts' = Absent("none") /\ file' = Absent(None)
  /\ verdict' = NoVerdict /\ job' = "none"
  /\ UNCHANGED <<saved, cache, params, board>>

-----------------------------------------------------------------------------
Main == \/ SkipStep \/ Launch \/ Advance \/ Join \/ Conclude \/ Publish
        \/ \E traced \in BOOLEAN : Classify(traced)

Step(s) == \/ CacheHit(s) \/ Begin(s) \/ Complete(s) \/ Judge(s)
           \/ \E v \in Outcomes[s] : HandlerReturns(s, v)
           \/ \E v \in Outcomes[s] \cup {None} : HandlerRaises(s, v)
           \/ HandlerFails(s)

Next ==
  \/ \E p \in Profiles, f \in FromSteps, same \in BOOLEAN, m \in Modes :
       Start(p, f, same, m)
  \/ Main
  \/ \E s \in Steps : Step(s)
  \/ Abort \/ \E s \in Steps : SaveFails(s)
  \/ Crash

Spec == Init /\ [][Next]_vars
(* the threads are scheduled, handlers and the model calls in them time out *)
FairSpec == Spec /\ WF_vars(Main) /\ \A s \in Steps : WF_vars(Step(s))

-----------------------------------------------------------------------------
(* Every variable has its type. *)
TypeOK ==
  /\ stage \in {"idle", "loop", "join", "classify", "publish", "done"}
  /\ at \in Steps \cup {None}
  /\ th \in [Steps -> {"idle", "ready", "handler", "output", "judge", "judge cached"}]
  /\ ret \in [Steps -> {"none", "ok", "block", "failed"}]
  /\ out \in [Steps -> Output] /\ arts \in [Steps -> Output]
  /\ status \in {"none", "created", "completed", "failed"}
  /\ steps \in [Steps -> StepStatus] /\ errors \in BOOLEAN
  /\ file \in [Steps -> Artifact \cup {None}]
  /\ saved = None \/ saved.run \in 1..runs
  /\ cache \in [Steps -> [output: Output, says: Verdict] \cup {None}]
  /\ profile \subseteq Steps /\ from \in Nat  /\ serial \in BOOLEAN
  /\ wrote \subseteq Steps /\ runs \in 0..MaxRuns /\ faults \in 0..MaxFaults
  /\ verdict \in {NoVerdict, "green", "unverified", "red"}
  /\ job \in {"none", "running", "completed", "failed"}

(* Green rests on work of this run: every registered step of an applicable
   hard gate has ended completed and, unless it is reusable, its handler has
   written an artifact in this run that refutes nothing.  Templates, restored
   and skipped steps do not count (gates.py: no evidence, no green). *)
GreenIsEarned ==
  verdict = "green" =>
    \A g \in HardGates \ DeclaredNA : \A s \in GateSteps[g] \cap profile :
      /\ steps[s] = "completed"
      /\ s \notin Reusable => s \in wrote /\ file[s].says \in {"passed", "failed"}

(* Nothing starts after a stop: once a step has blocked or failed, no further
   step of the run is launched; the members of its group only finish. *)
StopsAfterBlock ==
  [][Broken /\ stage' \in {"join", "loop"} /\ runs' = runs
       => \A s \in Steps : th[s] = "idle" => th'[s] = "idle"]_vars

(* A run that has failed stays failed: neither the final report nor a step
   that was running beside the failing one makes it completed again. *)
FailedStays == [][status = "failed" /\ runs' = runs /\ stage' # "idle" => status' = "failed"]_vars

(* What session.json calls completed has come to its end: every registered
   step it lists has ended, also when the process dies right after the save. *)
CompletedOnDisk ==
  saved # None /\ saved.status = "completed" =>
    \A s \in Steps : saved.steps[s] \in {"absent", "completed", "failed", "skipped"}

(* The result is final: while it is classified and published no step thread
   is left that could still change the session. *)
NothingLeftRunning == stage \in {"classify", "publish", "done"} => Busy = {}

(* Resuming takes over only what precedes the step it starts from: any other
   artifact in the session directory was written by this run. *)
OnlyEarlierRestored ==
  \A s \in Steps : file[s] # None /\ th[s] = "idle" /\ s >= from /\ s \notin Reusable
                     /\ ~LateRaise => s \in wrote

(* A run that returned has saved its session as it is in memory, with a final
   status, and with its verdict unless it failed or that write did. *)
SavedAsReturned ==
  stage = "done" /\ job = "completed" =>
    /\ saved.run = runs /\ saved.status = status /\ saved.steps = steps
    /\ status \in {"completed", "failed"}
    /\ \/ saved.verdict = (IF status = "completed" THEN verdict ELSE NoVerdict)
       \/ saved.verdict = NoVerdict /\ faults > 0

(* A job ends: every member of a parallel group returns and the loop goes on,
   or the process dies. *)
JobEnds == job = "running" ~> job # "running"

(* Statements of the repository the code does not keep *)

(* gates.py:191: a gate is green only when every one of its steps actually
   ran and passed. *)
GreenMeansEveryStepRan ==
  verdict = "green" =>
    \A g \in HardGates \ DeclaredNA : \A s \in GateSteps[g] : steps[s] = "completed"

(* orchestrator.py:735: an interrupted run must not be shown as a success on
   the dashboard. *)
BoardTellsOutcome ==
  stage = "done" /\ board.status = "completed" => status = "completed"
=============================================================================
