--------------------------- MODULE CheckpointEngine ---------------------------
(***************************************************************************)
(* The checkpoint pipeline engine (engine/checkpoint.py) as the HTTP API   *)
(* drives it (api/pipeline.py: retry, resume, rerun, stop).                *)
(*                                                                         *)
(* An accepted request becomes a background thread, here a "run".  The     *)
(* engine object of a run holds the checkpoint in memory and writes it to  *)
(* the project's sqlite file at every change of state; the stop request is *)
(* a flag file of the project.  One action is one stretch of code between  *)
(* two accesses that another thread, another request or a restart of the   *)
(* server can separate.  The one-click job of the same API writes the      *)
(* checkpoint row too, without the operation slot: its writes come from    *)
(* outside, as rows of JobRows.                                            *)
(***************************************************************************)
EXTENDS Naturals

CONSTANTS
  Pipelines,      \* pipeline names used in one project directory
  Runs,           \* identities of control operations (run_id)
  N,              \* number of registered steps
  Requests,       \* control requests the API may receive
  JobPipeline,    \* the pipeline whose row the one-click job writes
  JobRows,        \* checkpoints the one-click job may publish
  MaxPublishes,   \* bound: rows the one-click job writes
  MaxCrashes,     \* bound: restarts of the server process
  MaxFaults       \* bound: accesses to database, flag file or threads that fail

Steps == 1..N
UnknownStep == 0  \* a step id that is not registered

StepStatus == {"pending", "running", "passed", "failed", "skipped"}
PipelineStatus == {"none", "running", "completed", "failed", "stopped"}
(* job is history: the one-click job put the status word there *)
Checkpoint ==
  [status: PipelineStatus, steps: [Steps -> StepStatus], job: BOOLEAN]

(* Absence of a checkpoint row, and the checkpoints a fresh run starts from *)
NoCheckpoint ==
  [status |-> "none", steps |-> [k \in Steps |-> "pending"], job |-> FALSE]
Fresh(status, chosen, onChosen) ==
  [status |-> status,
   steps  |-> [k \in Steps |-> IF k \in chosen THEN onChosen ELSE "skipped"],
   job    |-> FALSE]

RequestType ==
  [mode: {"full", "resume", "inject", "selected"},
   steps: SUBSET (Steps \cup {UnknownStep})]

ASSUME NAssumption == N \in Nat \ {0}
ASSUME RequestsAssumption ==
  /\ Requests \subseteq RequestType
  /\ \A q \in Requests :
       /\ q.mode = "selected" => q.steps # {}
       /\ q.mode = "inject" => \E k \in Steps \cup {UnknownStep} : q.steps = {k}
ASSUME JobAssumption ==
  JobPipeline \in Pipelines /\ JobRows \subseteq {c \in Checkpoint : c.job}
ASSUME BoundsAssumption ==
  MaxCrashes \in Nat /\ MaxFaults \in Nat /\ MaxPublishes \in Nat

VARIABLES
  disk,     \* checkpoint_state: the persisted checkpoint of each pipeline
  hist,     \* pipeline_runs: recorded status of each run ("none": no row)
  flag,     \* the stop flag file of the project exists
  active,   \* _ENGINE_OP_ACTIVE
  pc,       \* where the thread of a run is
  pipe,     \* pipeline of a run
  req,      \* request of a run
  mem,      \* self._state of the run's engine
  todo,     \* steps the run has still to finish
  crashes,  \* restarts so far
  faults,   \* failed accesses so far
  published, \* rows the one-click job has written
  told,     \* history: a stop request met the run past its clear_stop, before
            \* ("now") or behind ("next") the boundary check of a step
  crossed   \* history: the job wrote over the row since the run last wrote
            \* or read it

vars == <<disk, hist, flag, active, pc, pipe, req, mem, todo,
          crashes, faults, published, told, crossed>>

PCs == {"idle", "accepted", "recorded", "cleared", "loaded", "boundary",
        "starting", "executing", "broken", "stopping", "reporting", "raised",
        "releasing", "done"}

(* A thread that holds the operation slot of its pipeline *)
Live(r) == pc[r] \notin {"idle", "done"}
(* A thread inside run(), past clear_stop *)
Listening(r) ==
  pc[r] \in {"cleared", "loaded", "boundary", "starting", "executing"}

NoRequest == [mode |-> "full", steps |-> {}]
IsFirst(k, S) == k \in S /\ \A j \in S : k <= j
Resumable(c) == {k \in Steps : c.steps[k] \in {"pending", "failed"}}

Goto(r, l) == pc' = [pc EXCEPT ![r] = l]

(* One more access fails *)
Fault == faults < MaxFaults /\ faults' = faults + 1

(* _save_state: the row is replaced, or sqlite3.Error is logged and ignored;
   a connection that cannot be opened is StoreRaises below *)
Save(p, c) ==
  \/ disk' = [disk EXCEPT ![p] = c] /\ UNCHANGED faults
  \/ Fault /\ UNCHANGED disk

Remember(r, c) ==
  /\ mem' = [mem EXCEPT ![r] = c]
  /\ Save(pipe[r], c)
  /\ crossed' = [crossed EXCEPT ![r] = FALSE]

(* What most steps of a thread leave alone *)
Aside == UNCHANGED <<crashes, published, told, crossed>>

-----------------------------------------------------------------------------
Init ==
  /\ disk = [p \in Pipelines |-> NoCheckpoint]
  /\ hist = [r \in Runs |-> "none"]
  /\ flag = FALSE
  /\ active = [p \in Pipelines |-> FALSE]
  /\ pc = [r \in Runs |-> "idle"]
  /\ pipe \in [Runs -> Pipelines]
  /\ req = [r \in Runs |-> NoRequest]
  /\ mem = [r \in Runs |-> NoCheckpoint]
  /\ todo = [r \in Runs |-> {}]
  /\ crashes = 0 /\ faults = 0 /\ published = 0
  /\ told = [r \in Runs |-> "no"]
  /\ crossed = [r \in Runs |-> FALSE]

(* mutant of Accept: the busy test is forgotten *)
AcceptBusy(r, q) ==
  /\ pc[r] = "idle"
  /\ active' = [active EXCEPT ![pipe[r]] = TRUE]
  /\ req' = [req EXCEPT ![r] = q]
  /\ Goto(r, "accepted")
  /\ UNCHANGED <<disk, hist, flag, pipe, mem, todo, faults>> /\ Aside

(* _retry_pipeline / _resume_pipeline / _rerun_pipeline: test and set under
   _ENGINE_OP_LOCK; a busy pipeline answers 409 and nothing changes *)
Accept(r, q) ==
  /\ pc[r] = "idle" /\ ~active[pipe[r]]
  /\ active' = [active EXCEPT ![pipe[r]] = TRUE]
  /\ req' = [req EXCEPT ![r] = q]
  /\ Goto(r, "accepted")
  /\ UNCHANGED <<disk, hist, flag, pipe, mem, todo, faults>> /\ Aside

(* t.start() raises: there is no thread, and nobody gives the slot back *)
StartFails(r) ==
  /\ pc[r] = "accepted" /\ Fault
  /\ req' = [req EXCEPT ![r] = NoRequest]
  /\ Goto(r, "done")
  /\ UNCHANGED <<disk, hist, flag, active, pipe, mem, todo>> /\ Aside

(* _run_engine_op: record_run inserts the row *)
RecordRun(r) ==
  /\ pc[r] = "accepted"
  /\ hist' = [hist EXCEPT ![r] = "running"]
  /\ Goto(r, "recorded")
  /\ UNCHANGED <<disk, flag, active, pipe, req, mem, todo, faults>> /\ Aside

(* _sqlite_conn cannot open the database: record_run, _load_state,
   _save_state or finish_run raises out of the run; only the save of a passed
   step is inside a try (StepFail) *)
StoreRaises(r) ==
  /\ \/ pc[r] \in {"accepted", "cleared", "loaded", "starting", "executing",
                   "broken", "reporting"}
     \/ pc[r] = "boundary" /\ (todo[r] = {} \/ flag)
  /\ Fault
  /\ Goto(r, "raised")
  /\ UNCHANGED <<disk, hist, flag, active, pipe, req, mem, todo>> /\ Aside

(* clear_stop: an OSError is logged and the flag stays *)
Unflag ==
  \/ flag' = FALSE /\ UNCHANGED faults
  \/ Fault /\ UNCHANGED flag

(* run(): clear_stop *)
ClearStop(r) ==
  /\ pc[r] = "recorded"
  /\ Unflag
  /\ Goto(r, "cleared")
  /\ UNCHANGED <<disk, hist, active, pipe, req, mem, todo>> /\ Aside

(* _prepare_resume reads the row; an error of sqlite counts as no row *)
Load(r) ==
  /\ pc[r] = "cleared" /\ req[r].mode = "resume"
  /\ \/ mem' = [mem EXCEPT ![r] = disk[pipe[r]]] /\ UNCHANGED faults
     \/ mem' = [mem EXCEPT ![r] = NoCheckpoint] /\ Fault
  /\ crossed' = [crossed EXCEPT ![r] = FALSE]
  /\ Goto(r, "loaded")
  /\ UNCHANGED <<disk, hist, flag, active, pipe, req, todo,
                 crashes, published, told>>

(* The part of run() that every prepared run shares: set the state, save it *)
Prepared(r, c, rest) ==
  /\ Remember(r, c)
  /\ todo' = [todo EXCEPT ![r] = rest]
  /\ Goto(r, "boundary")

PrepareFull(r) == Prepared(r, Fresh("running", Steps, "pending"), Steps)

PrepareInject(r) ==
  \E k \in req[r].steps :
    \/ k \in Steps /\ Prepared(r, Fresh("running", k..N, "pending"), k..N)
    \/ /\ k \notin Steps    \* ValueError caught: all failed, nothing saved
       /\ mem' = [mem EXCEPT ![r] = Fresh("failed", Steps, "failed")]
       /\ Goto(r, "reporting")
       /\ UNCHANGED <<disk, faults, todo, crossed>>

(* mutant of PrepareSelected: step ids are not looked up first *)
PrepareSelectedUnchecked(r) ==
  Prepared(r, Fresh("running", req[r].steps, "pending"), req[r].steps)

PrepareSelected(r) ==
  LET S == req[r].steps IN
    \/ S \subseteq Steps /\ Prepared(r, Fresh("running", S, "pending"), S)
    \/ /\ ~ S \subseteq Steps   \* find_step_index raises out of run()
       /\ Goto(r, "raised")
       /\ UNCHANGED <<disk, faults, mem, todo, crossed>>

(* What was loaded: no row, a step to resume from, or nothing left *)
PrepareResume(r) ==
  \/ mem[r].status = "none" /\ PrepareFull(r)
  \/ /\ mem[r].status # "none"
     /\ \E k \in Steps : /\ IsFirst(k, Resumable(mem[r]))
                         /\ Prepared(r, mem[r], k..N)
  \/ /\ mem[r].status # "none" /\ Resumable(mem[r]) = {}
     /\ Goto(r, "reporting")
     /\ UNCHANGED <<disk, faults, mem, todo, crossed>>

(* run(): choose the mode and prepare *)
Prepare(r) ==
  /\ \/ pc[r] = "cleared" /\ req[r].mode = "full" /\ PrepareFull(r)
     \/ pc[r] = "cleared" /\ req[r].mode = "inject" /\ PrepareInject(r)
     \/ pc[r] = "cleared" /\ req[r].mode = "selected" /\ PrepareSelected(r)
     \/ pc[r] = "loaded" /\ PrepareResume(r)
  /\ UNCHANGED <<hist, flag, active, pipe, req, crashes, published, told>>

(* mutant of CheckBoundary: the boundary check is dropped *)
CheckNothing(r) ==
  /\ pc[r] = "boundary" /\ todo[r] # {}
  /\ Goto(r, "starting")
  /\ UNCHANGED <<disk, hist, flag, active, pipe, req, mem, todo, faults>>
  /\ Aside

(* _execute_steps, step boundary: no stop flag, go on to the next step *)
CheckBoundary(r) ==
  /\ pc[r] = "boundary" /\ todo[r] # {} /\ ~flag
  /\ Goto(r, "starting")
  /\ UNCHANGED <<disk, hist, flag, active, pipe, req, mem, todo, faults>>
  /\ Aside

(* ... the step becomes RUNNING; a stop that arrived since the check counts
   from here on *)
StepStart(r) ==
  /\ pc[r] = "starting"
  /\ \E k \in Steps :
       /\ IsFirst(k, todo[r])
       /\ Remember(r, [mem[r] EXCEPT !.steps[k] = "running"])
  /\ told' = [told EXCEPT ![r] = IF @ = "next" THEN "now" ELSE @]
  /\ Goto(r, "executing")
  /\ UNCHANGED <<hist, flag, active, pipe, req, todo, crashes, published>>

(* The handler returned: through the runner with a verdict other than failed,
   in line with any verdict *)
StepPass(r) ==
  /\ pc[r] = "executing"
  /\ \E k \in Steps :
       /\ IsFirst(k, todo[r])
       /\ Remember(r, [mem[r] EXCEPT !.steps[k] = "passed"])
       /\ todo' = [todo EXCEPT ![r] = @ \ {k}]
  /\ Goto(r, "boundary")
  /\ UNCHANGED <<hist, flag, active, pipe, req, crashes, published, told>>

(* mutant of StepFail: the loop goes on after a failed step *)
StepFailGoesOn(r) ==
  /\ pc[r] = "executing"
  /\ \E k \in Steps :
       /\ IsFirst(k, todo[r])
       /\ Remember(r, [mem[r] EXCEPT !.steps[k] = "failed"])
       /\ todo' = [todo EXCEPT ![r] = @ \ {k}]
  /\ Goto(r, "boundary")
  /\ UNCHANGED <<hist, flag, active, pipe, req, crashes, published, told>>

(* The handler raised, the runner saw a failed verdict, the output file is
   missing or empty, or the save of the passed step raised: FAILED and no
   later step *)
StepFail(r) ==
  /\ pc[r] = "executing"
  /\ \E k \in Steps :
       /\ IsFirst(k, todo[r])
       /\ Remember(r, [mem[r] EXCEPT !.steps[k] = "failed"])
  /\ Goto(r, "broken")
  /\ UNCHANGED <<hist, flag, active, pipe, req, todo, crashes, published, told>>

(* A status the engine gives to the whole record *)
Concluded(c, status) == [c EXCEPT !.status = status, !.job = FALSE]

(* run(): the boundary saw the flag; the rest stays as it is *)
StopAtBoundary(r) ==
  /\ pc[r] = "boundary" /\ todo[r] # {} /\ flag
  /\ Remember(r, Concluded(mem[r], "stopped"))
  /\ Goto(r, "stopping")
  /\ UNCHANGED <<hist, flag, active, pipe, req, todo, crashes, published, told>>

StopClear(r) ==
  /\ pc[r] = "stopping"
  /\ Unflag
  /\ Goto(r, "reporting")
  /\ UNCHANGED <<disk, hist, active, pipe, req, mem, todo>> /\ Aside

(* mutant of Finalize: the final status is not saved *)
FinalizeInMemory(r) ==
  /\ \/ /\ pc[r] = "boundary" /\ todo[r] = {}
        /\ mem' = [mem EXCEPT ![r] = Concluded(@, "completed")]
     \/ /\ pc[r] = "broken"
        /\ mem' = [mem EXCEPT ![r] = Concluded(@, "failed")]
  /\ Goto(r, "reporting")
  /\ UNCHANGED <<disk, faults, hist, flag, active, pipe, req, todo>> /\ Aside

(* _finalize *)
Finalize(r) ==
  /\ \/ /\ pc[r] = "boundary" /\ todo[r] = {}
        /\ Remember(r, Concluded(mem[r], "completed"))
     \/ /\ pc[r] = "broken"
        /\ Remember(r, Concluded(mem[r], "failed"))
  /\ Goto(r, "reporting")
  /\ UNCHANGED <<hist, flag, active, pipe, req, todo, crashes, published, told>>

(* _run_engine_op: final = engine.status() re-reads the row, finish_run copies
   its status and snapshot into the run's history row; no row, or one that
   sqlite cannot read, is "unknown" *)
Report(r) ==
  /\ pc[r] = "reporting"
  /\ \/ /\ hist' = [hist EXCEPT ![r] = IF disk[pipe[r]].status = "none"
                                       THEN "unknown" ELSE disk[pipe[r]].status]
        /\ UNCHANGED faults
     \/ Fault /\ hist' = [hist EXCEPT ![r] = "unknown"]
  /\ Goto(r, "releasing")
  /\ UNCHANGED <<disk, flag, active, pipe, req, mem, todo>> /\ Aside

(* _run_engine_op, except branch: finish_run("failed"); no row, no effect, and
   a second failure is ignored *)
ReportRaised(r) ==
  /\ pc[r] = "raised"
  /\ \/ /\ hist' = [hist EXCEPT ![r] = IF @ = "none" THEN @ ELSE "failed"]
        /\ UNCHANGED faults
     \/ Fault /\ UNCHANGED hist
  /\ Goto(r, "releasing")
  /\ UNCHANGED <<disk, flag, active, pipe, req, mem, todo>> /\ Aside

(* The engine object of a run is dropped *)
Dropped(r) ==
  /\ mem' = [mem EXCEPT ![r] = NoCheckpoint]
  /\ todo' = [todo EXCEPT ![r] = {}]
  /\ req' = [req EXCEPT ![r] = NoRequest]
  /\ told' = [told EXCEPT ![r] = "no"]
  /\ crossed' = [crossed EXCEPT ![r] = FALSE]

(* mutant of Release: the slot is not popped *)
ReleaseKeepsSlot(r) ==
  /\ pc[r] = "releasing"
  /\ Dropped(r)
  /\ Goto(r, "done")
  /\ UNCHANGED <<disk, hist, flag, active, pipe, crashes, faults, published>>

(* _run_engine_op, finally branch *)
Release(r) ==
  /\ pc[r] = "releasing"
  /\ active' = [active EXCEPT ![pipe[r]] = FALSE]
  /\ Dropped(r)
  /\ Goto(r, "done")
  /\ UNCHANGED <<disk, hist, flag, pipe, crashes, faults, published>>

(* POST pipeline/stop for pipeline p, answered 200 at any time *)
RequestStop(p) ==
  /\ flag' = TRUE
  /\ told' = [r \in Runs |->
                IF pipe[r] # p \/ ~Listening(r) \/ told[r] = "now" THEN told[r]
                ELSE IF pc[r] = "starting" THEN "next" ELSE "now"]
  /\ UNCHANGED <<disk, hist, active, pc, pipe, req, mem, todo,
                 crashes, faults, published, crossed>>

(* _publish_orchestrator_checkpoint: the one-click job replaces the row, after
   every step and at its end, whoever holds the operation slot *)
Publish(c) ==
  /\ published < MaxPublishes /\ published' = published + 1
  /\ disk' = [disk EXCEPT ![JobPipeline] = c]
  /\ crossed' = [r \in Runs |->
                   crossed[r] \/ (pipe[r] = JobPipeline /\ Live(r))]
  /\ UNCHANGED <<hist, flag, active, pc, pipe, req, mem, todo,
                 crashes, faults, told>>

(* The server process dies and restarts: threads and _ENGINE_OP_ACTIVE go,
   the files stay *)
Crash ==
  /\ crashes < MaxCrashes /\ crashes' = crashes + 1
  /\ active' = [p \in Pipelines |-> FALSE]
  /\ pc' = [r \in Runs |-> IF Live(r) THEN "done" ELSE pc[r]]
  /\ mem' = [r \in Runs |-> NoCheckpoint]
  /\ todo' = [r \in Runs |-> {}]
  /\ req' = [r \in Runs |-> NoRequest]
  /\ told' = [r \in Runs |-> "no"]
  /\ crossed' = [r \in Runs |-> FALSE]
  /\ UNCHANGED <<disk, hist, flag, pipe, faults, published>>

(* What a thread does when nothing fails, and the failures it may meet *)
Works(r) ==
  \/ RecordRun(r) \/ ClearStop(r) \/ Load(r) \/ Prepare(r)
  \/ CheckBoundary(r) \/ StepStart(r) \/ StepPass(r) \/ StepFail(r)
  \/ StopAtBoundary(r) \/ StopClear(r) \/ Finalize(r)
  \/ Report(r) \/ ReportRaised(r) \/ Release(r)
Thread(r) == Works(r) \/ StoreRaises(r)

Next ==
  \/ \E r \in Runs : \/ Thread(r) \/ StartFails(r)
                     \/ \E q \in Requests : Accept(r, q)
  \/ \E p \in Pipelines : RequestStop(p)
  \/ \E c \in JobRows : Publish(c)
  \/ Crash

Spec == Init /\ [][Next]_vars

(* Threads are scheduled and handlers return; nobody has to call the API *)
FairSpec == Spec /\ \A r \in Runs : WF_vars(Thread(r))

-----------------------------------------------------------------------------
TypeOK ==
  /\ disk \in [Pipelines -> Checkpoint]
  /\ hist \in [Runs -> PipelineStatus \cup {"unknown"}]
  /\ flag \in BOOLEAN
  /\ active \in [Pipelines -> BOOLEAN]
  /\ pc \in [Runs -> PCs]
  /\ pipe \in [Runs -> Pipelines]
  /\ req \in [Runs -> RequestType]
  /\ mem \in [Runs -> Checkpoint]
  /\ todo \in [Runs -> SUBSET Steps]
  /\ crashes \in Nat /\ faults \in Nat /\ published \in Nat
  /\ told \in [Runs -> {"no", "next", "now"}]
  /\ crossed \in [Runs -> BOOLEAN]

(* Two control operations never work on the same pipeline at once, whatever
   the order of requests, completions and restarts (_ENGINE_OP_LOCK). *)
OneOpPerPipeline ==
  \A r, s \in Runs : Live(r) /\ Live(s) /\ pipe[r] = pipe[s] => r = s

(* A checkpoint that a control operation made "completed" has no step left
   that was never finished or that failed, across resumes (also of a row the
   one-click job left), injections, stops, restarts and failed writes
   (_execute_steps, _finalize, _prepare_resume). *)
CompletedLeavesNothing ==
  \A p \in Pipelines :
    disk[p].status = "completed" /\ ~disk[p].job => Resumable(disk[p]) = {}

(* While a step executes every earlier step has been dealt with: none is
   still pending and none has failed (_execute_steps stops at a failure). *)
NoStepBeforeItsTurn ==
  \A r \in Runs : pc[r] = "executing" =>
    \A k \in Steps : IsFirst(k, todo[r]) =>
      \A j \in Steps : j < k => mem[r].steps[j] \notin {"pending", "failed"}

(* The history row of a run tells that run's own outcome although it is read
   back from the row the runs of a pipeline share (finish_run).  Another
   outcome needs a failed access, a write of the one-click job since the run's
   own last write, or an unregistered step to inject. *)
HistoryIsOwn ==
  \A r \in Runs : pc[r] = "releasing" /\ faults = 0 /\ ~crossed[r] =>
    \/ hist[r] = mem[r].status
    \/ hist[r] = "failed" /\ mem[r].status = "none"
    \/ req[r].mode = "inject" /\ req[r].steps = {UnknownStep}

(* A stop that arrives once the run has passed clear_stop lets at most the
   step begin whose boundary check it came too late for, and no step after
   that one (_execute_steps). *)
LateStopHonoured ==
  [][\A r \in Runs : told[r] = "now" /\ pc[r] # "executing"
       => pc'[r] # "executing"]_vars

(* Every operation whose thread was started gives its pipeline back, through
   every exit of _run_engine_op (the finally branch): failed and raising
   accesses to the database, stops and steps that fail included. *)
Started(r) == Live(r) /\ pc[r] # "accepted"
SlotReturns == \A r \in Runs : Started(r) ~> ~active[pipe[r]]

-----------------------------------------------------------------------------
(* A statement the repository makes that the code does not keep. *)

(* "resume continues from the step last interrupted or failed": a completed
   pipeline has run every step that was not skipped on purpose. *)
CompletedMeansSettled ==
  \A p \in Pipelines : disk[p].status = "completed" =>
    \A k \in Steps : disk[p].steps[k] \in {"passed", "skipped"}
=============================================================================
