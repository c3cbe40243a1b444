------------------------ MODULE CheckpointEngine_proofs ------------------------
(***************************************************************************)
(* Theorems about CheckpointEngine for every number of steps, pipelines,   *)
(* runs, requests, restarts and failed accesses.  The argument has layers:   *)
(* types; the operation slot, which belongs to one live run; the work of a *)
(* run, whose unfinished steps are exactly in its work list; the history   *)
(* row, which tells the outcome of the run that holds the slot.            *)
(***************************************************************************)
EXTENDS CheckpointEngine, TLAPS

-----------------------------------------------------------------------------
(* Records of a checkpoint: what one assignment of the code changes. *)
LEMMA SetStep ==
  ASSUME NEW c \in Checkpoint, NEW k \in Steps, NEW s \in StepStatus
  PROVE  /\ [c EXCEPT !.steps[k] = s] \in Checkpoint
         /\ [c EXCEPT !.steps[k] = s].status = c.status
         /\ [c EXCEPT !.steps[k] = s].job = c.job
         /\ \A j \in Steps : [c EXCEPT !.steps[k] = s].steps[j] =
                               IF j = k THEN s ELSE c.steps[j]
  BY DEF Checkpoint

LEMMA SetStatus ==
  ASSUME NEW c \in Checkpoint, NEW s \in PipelineStatus
  PROVE  /\ Concluded(c, s) \in Checkpoint
         /\ Concluded(c, s).status = s
         /\ Concluded(c, s).steps = c.steps
  BY DEF Checkpoint, Concluded

LEMMA FreshType ==
  ASSUME NEW status \in PipelineStatus, NEW S, NEW x \in StepStatus
  PROVE  /\ Fresh(status, S, x) \in Checkpoint
         /\ Fresh(status, S, x).status = status
         /\ \A j \in Steps : Fresh(status, S, x).steps[j] =
                               IF j \in S THEN x ELSE "skipped"
  BY DEF Fresh, Checkpoint, StepStatus

LEMMA NoCheckpointType == NoCheckpoint \in Checkpoint
  BY DEF NoCheckpoint, Checkpoint, PipelineStatus, StepStatus

(* A write puts the new checkpoint on disk or leaves the disk alone, for its
   own pipeline only (_save_state). *)
LEMMA SaveEffect ==
  ASSUME TypeOK, NEW p \in Pipelines, NEW c \in Checkpoint, Save(p, c)
  PROVE  /\ disk' \in [Pipelines -> Checkpoint]
         /\ faults' \in Nat
         /\ \A q \in Pipelines : disk'[q] = disk[q] \/ disk'[q] = c
  BY DEF TypeOK, Save, Fault

LEMMA RememberEffect ==
  ASSUME TypeOK, NEW r \in Runs, NEW c \in Checkpoint, Remember(r, c)
  PROVE  /\ disk' \in [Pipelines -> Checkpoint]
         /\ faults' \in Nat
         /\ \A q \in Pipelines : disk'[q] = disk[q] \/ disk'[q] = c
         /\ mem' \in [Runs -> Checkpoint]
         /\ mem'[r] = c
         /\ \A s \in Runs \ {r} : mem'[s] = mem[s]
         /\ crossed' \in [Runs -> BOOLEAN]
  <1>1. pipe[r] \in Pipelines
    BY DEF TypeOK
  <1>2. Save(pipe[r], c)
    BY DEF Remember
  <1>3. mem' \in [Runs -> Checkpoint] /\ mem'[r] = c
          /\ \A s \in Runs \ {r} : mem'[s] = mem[s]
    BY DEF Remember, TypeOK
  <1>4. crossed' \in [Runs -> BOOLEAN]
    BY DEF Remember, TypeOK
  <1> QED BY <1>1, <1>2, <1>3, <1>4, SaveEffect

(* Moving the thread of one run leaves the others where they are. *)
LEMMA GotoEffect ==
  ASSUME TypeOK, NEW r \in Runs, NEW l \in PCs, Goto(r, l)
  PROVE  /\ pc' \in [Runs -> PCs]
         /\ pc'[r] = l
         /\ \A s \in Runs \ {r} : pc'[s] = pc[s]
  BY DEF TypeOK, Goto

(* What every prepared run shares (run(), the save before _execute_steps). *)
LEMMA PreparedEffect ==
  ASSUME TypeOK, NEW r \in Runs, NEW c \in Checkpoint, NEW S \in SUBSET Steps,
         Prepared(r, c, S)
  PROVE  /\ disk' \in [Pipelines -> Checkpoint]
         /\ faults' \in Nat
         /\ \A q \in Pipelines : disk'[q] = disk[q] \/ disk'[q] = c
         /\ mem' \in [Runs -> Checkpoint] /\ mem'[r] = c
         /\ \A s \in Runs \ {r} : mem'[s] = mem[s]
         /\ todo' \in [Runs -> SUBSET Steps] /\ todo'[r] = S
         /\ \A s \in Runs \ {r} : todo'[s] = todo[s]
         /\ pc' \in [Runs -> PCs] /\ pc'[r] = "boundary"
         /\ \A s \in Runs \ {r} : pc'[s] = pc[s]
         /\ crossed' \in [Runs -> BOOLEAN]
  <1>1. Remember(r, c) /\ Goto(r, "boundary") /\ "boundary" \in PCs
    BY DEF Prepared, PCs
  <1>2. todo' \in [Runs -> SUBSET Steps] /\ todo'[r] = S
          /\ \A s \in Runs \ {r} : todo'[s] = todo[s]
    BY DEF Prepared, TypeOK
  <1> QED BY <1>1, <1>2, RememberEffect, GotoEffect

-----------------------------------------------------------------------------
(* Every step of every thread, request, stop and restart keeps the types. *)
LEMMA TypeInit == ASSUME Init PROVE TypeOK
  <1>1. NoCheckpoint \in Checkpoint
    BY NoCheckpointType
  <1>2. NoRequest \in RequestType
    BY DEF NoRequest, RequestType
  <1> QED BY <1>1, <1>2 DEF Init, TypeOK, PCs, PipelineStatus

LEMMA UnflagType ==
  ASSUME TypeOK, Unflag PROVE flag' \in BOOLEAN /\ faults' \in Nat
  <1>1. CASE flag' = FALSE /\ UNCHANGED faults
    BY <1>1 DEF TypeOK
  <1>2. CASE Fault /\ UNCHANGED flag
    <2>1. flag' = flag /\ flag \in BOOLEAN
      BY <1>2 DEF TypeOK
    <2>2. faults' \in Nat
      BY <1>2 DEF TypeOK, Fault
    <2> QED BY <2>1, <2>2
  <1> QED BY <1>1, <1>2 DEF Unflag

LEMMA TypePrepare ==
  ASSUME TypeOK, NEW r \in Runs, Prepare(r) PROVE TypeOK'
  <1> USE NAssumption DEF Prepare
  <1>1. Steps \subseteq Steps /\ \A k \in Steps : k..N \subseteq Steps
    BY DEF Steps
  <1>2. req[r] \in RequestType /\ pipe[r] \in Pipelines
    BY DEF TypeOK
  <1>3. "reporting" \in PCs /\ "raised" \in PCs
    BY DEF PCs
  <1>4. "pending" \in StepStatus /\ "failed" \in StepStatus
          /\ "running" \in PipelineStatus /\ "failed" \in PipelineStatus
    BY DEF StepStatus, PipelineStatus
  <1>5. ASSUME NEW c \in Checkpoint, NEW S \in SUBSET Steps, Prepared(r, c, S)
        PROVE  TypeOK'
    <2>1. /\ disk' \in [Pipelines -> Checkpoint] /\ faults' \in Nat
          /\ mem' \in [Runs -> Checkpoint] /\ todo' \in [Runs -> SUBSET Steps]
          /\ pc' \in [Runs -> PCs] /\ crossed' \in [Runs -> BOOLEAN]
      BY <1>5, PreparedEffect
    <2> QED BY <2>1 DEF TypeOK
  <1>6. ASSUME NEW c \in Checkpoint, mem' = [mem EXCEPT ![r] = c],
               NEW l \in PCs, Goto(r, l), UNCHANGED <<disk, faults, todo, crossed>>
        PROVE  TypeOK'
    <2>1. pc' \in [Runs -> PCs]
      BY <1>6, GotoEffect
    <2>2. mem' \in [Runs -> Checkpoint]
      BY <1>6 DEF TypeOK
    <2> QED BY <1>6, <2>1, <2>2 DEF TypeOK
  <1>7. ASSUME PrepareFull(r) PROVE TypeOK'
    <2>1. Fresh("running", Steps, "pending") \in Checkpoint
      BY <1>4, FreshType
    <2> QED BY <1>1, <1>5, <1>7, <2>1 DEF PrepareFull
  <1>8. CASE PrepareInject(r)
    <2>1. PICK k \in req[r].steps :
            \/ k \in Steps /\ Prepared(r, Fresh("running", k..N, "pending"), k..N)
            \/ /\ k \notin Steps
               /\ mem' = [mem EXCEPT ![r] = Fresh("failed", Steps, "failed")]
               /\ Goto(r, "reporting")
               /\ UNCHANGED <<disk, faults, todo, crossed>>
      BY <1>8 DEF PrepareInject
    <2>2. CASE k \in Steps /\ Prepared(r, Fresh("running", k..N, "pending"), k..N)
      <3>1. Fresh("running", k..N, "pending") \in Checkpoint
        BY <1>4, FreshType
      <3> QED BY <1>1, <1>5, <2>2, <3>1
    <2>3. CASE mem' = [mem EXCEPT ![r] = Fresh("failed", Steps, "failed")]
               /\ Goto(r, "reporting") /\ UNCHANGED <<disk, faults, todo, crossed>>
      <3>1. Fresh("failed", Steps, "failed") \in Checkpoint
        BY <1>4, FreshType
      <3> QED BY <1>3, <1>6, <2>3, <3>1
    <2> QED BY <2>1, <2>2, <2>3
  <1>9. CASE PrepareSelected(r)
    <2>1. CASE req[r].steps \subseteq Steps
               /\ Prepared(r, Fresh("running", req[r].steps, "pending"), req[r].steps)
      <3>1. Fresh("running", req[r].steps, "pending") \in Checkpoint
        BY <1>4, FreshType
      <3> QED BY <1>5, <2>1, <3>1
    <2>2. CASE Goto(r, "raised") /\ UNCHANGED <<disk, faults, mem, todo, crossed>>
      <3>1. pc' \in [Runs -> PCs]
        BY <1>3, <2>2, GotoEffect
      <3> QED BY <2>2, <3>1 DEF TypeOK
    <2> QED BY <1>9, <2>1, <2>2 DEF PrepareSelected
  <1>10. CASE PrepareResume(r)
    <2>1. mem[r] \in Checkpoint
      BY DEF TypeOK
    <2>2. ASSUME NEW k \in Steps, Prepared(r, mem[r], k..N) PROVE TypeOK'
      BY <1>1, <1>5, <2>1, <2>2
    <2>3. CASE Goto(r, "reporting") /\ UNCHANGED <<disk, faults, mem, todo, crossed>>
      <3>1. pc' \in [Runs -> PCs]
        BY <1>3, <2>3, GotoEffect
      <3> QED BY <2>3, <3>1 DEF TypeOK
    <2> QED BY <1>7, <1>10, <2>2, <2>3 DEF PrepareResume
  <1> QED BY <1>7, <1>8, <1>9, <1>10

LEMMA TypeStep ==
  ASSUME TypeOK, [Next]_vars PROVE TypeOK'
  <1> USE DEF TypeOK, Aside
  <1>1. ASSUME NEW r \in Runs, NEW q \in Requests, Accept(r, q) PROVE TypeOK'
    BY <1>1, RequestsAssumption DEF Accept, Goto, PCs
  <1>2. ASSUME NEW r \in Runs, RecordRun(r) PROVE TypeOK'
    BY <1>2 DEF RecordRun, Goto, PCs, PipelineStatus
  <1>3. ASSUME NEW r \in Runs, ClearStop(r) PROVE TypeOK'
    BY <1>3, UnflagType DEF ClearStop, Goto, PCs
  <1>4. ASSUME NEW r \in Runs, Prepare(r) PROVE TypeOK'
    BY <1>4, TypePrepare
  <1>5. ASSUME NEW r \in Runs, NEW k \in Steps, NEW s \in StepStatus, NEW l \in PCs,
               Remember(r, [mem[r] EXCEPT !.steps[k] = s]), Goto(r, l)
        PROVE  /\ disk' \in [Pipelines -> Checkpoint] /\ faults' \in Nat
               /\ mem' \in [Runs -> Checkpoint] /\ pc' \in [Runs -> PCs]
               /\ crossed' \in [Runs -> BOOLEAN]
    <2>1. [mem[r] EXCEPT !.steps[k] = s] \in Checkpoint
      BY SetStep
    <2> QED BY <1>5, <2>1, RememberEffect, GotoEffect
  <1>6. ASSUME NEW r \in Runs, NEW s \in PipelineStatus, NEW l \in PCs,
               Remember(r, Concluded(mem[r], s)), Goto(r, l)
        PROVE  /\ disk' \in [Pipelines -> Checkpoint] /\ faults' \in Nat
               /\ mem' \in [Runs -> Checkpoint] /\ pc' \in [Runs -> PCs]
               /\ crossed' \in [Runs -> BOOLEAN]
    <2>1. Concluded(mem[r], s) \in Checkpoint
      BY SetStatus
    <2> QED BY <1>6, <2>1, RememberEffect, GotoEffect
  <1>7. ASSUME NEW r \in Runs, StepStart(r) PROVE TypeOK'
    <2>1. "running" \in StepStatus /\ "executing" \in PCs
      BY DEF StepStatus, PCs
    <2>2. told' \in [Runs -> {"no", "next", "now"}]
      BY <1>7 DEF StepStart
    <2> QED BY <1>5, <1>7, <2>1, <2>2 DEF StepStart
  <1>8. ASSUME NEW r \in Runs, StepPass(r) PROVE TypeOK'
    <2>1. "passed" \in StepStatus /\ "boundary" \in PCs
      BY DEF StepStatus, PCs
    <2>2. todo' \in [Runs -> SUBSET Steps]
      BY <1>8 DEF StepPass
    <2> QED BY <1>5, <1>8, <2>1, <2>2 DEF StepPass
  <1>9. ASSUME NEW r \in Runs, StepFail(r) PROVE TypeOK'
    <2>1. "failed" \in StepStatus /\ "broken" \in PCs
      BY DEF StepStatus, PCs
    <2> QED BY <1>5, <1>9, <2>1 DEF StepFail
  <1>10. ASSUME NEW r \in Runs, StopAtBoundary(r) PROVE TypeOK'
    <2>1. "stopped" \in PipelineStatus /\ "stopping" \in PCs
      BY DEF PipelineStatus, PCs
    <2> QED BY <1>6, <1>10, <2>1 DEF StopAtBoundary
  <1>11. ASSUME NEW r \in Runs, StopClear(r) PROVE TypeOK'
    BY <1>11, UnflagType DEF StopClear, Goto, PCs
  <1>12. ASSUME NEW r \in Runs, Finalize(r) PROVE TypeOK'
    <2>1. "completed" \in PipelineStatus /\ "failed" \in PipelineStatus
            /\ "reporting" \in PCs
      BY DEF PipelineStatus, PCs
    <2> QED BY <1>6, <1>12, <2>1 DEF Finalize
  <1>13. ASSUME NEW r \in Runs, Report(r) PROVE TypeOK'
    <2>1. disk[pipe[r]].status \in PipelineStatus
      BY DEF Checkpoint
    <2> QED BY <1>13, <2>1 DEF Report, Fault, Goto, PCs
  <1>14. ASSUME NEW r \in Runs, ReportRaised(r) PROVE TypeOK'
    BY <1>14 DEF ReportRaised, Fault, Goto, PCs, PipelineStatus
  <1>15. NoCheckpoint \in Checkpoint /\ NoRequest \in RequestType
    BY NoCheckpointType DEF NoRequest, RequestType
  <1>16. ASSUME NEW r \in Runs, Release(r) PROVE TypeOK'
    BY <1>15, <1>16 DEF Release, Dropped, Goto, PCs
  <1>17. ASSUME NEW p \in Pipelines, RequestStop(p) PROVE TypeOK'
    BY <1>17 DEF RequestStop
  <1>18. CASE Crash
    BY <1>15, <1>18 DEF Crash, PCs
  <1>19. CASE UNCHANGED vars
    BY <1>19 DEF vars
  <1>20. ASSUME NEW r \in Runs, StartFails(r) PROVE TypeOK'
    BY <1>15, <1>20 DEF StartFails, Fault, Goto, PCs
  <1>21. ASSUME NEW r \in Runs, StoreRaises(r) PROVE TypeOK'
    BY <1>21 DEF StoreRaises, Fault, Goto, PCs
  <1>22. ASSUME NEW r \in Runs, Load(r) PROVE TypeOK'
    <2>1. disk[pipe[r]] \in Checkpoint
      OBVIOUS
    <2>2. mem' \in [Runs -> Checkpoint] /\ faults' \in Nat
      BY <1>15, <1>22, <2>1 DEF Load, Fault
    <2>3. pc' \in [Runs -> PCs] /\ crossed' \in [Runs -> BOOLEAN]
      BY <1>22 DEF Load, Goto, PCs
    <2> QED BY <1>22, <2>2, <2>3 DEF Load
  <1>23. ASSUME NEW r \in Runs, CheckBoundary(r) PROVE TypeOK'
    BY <1>23 DEF CheckBoundary, Goto, PCs
  <1>24. ASSUME NEW c \in JobRows, Publish(c) PROVE TypeOK'
    BY <1>24, JobAssumption DEF Publish
  <1> QED BY <1>1, <1>2, <1>3, <1>4, <1>7, <1>8, <1>9, <1>10, <1>11, <1>12,
             <1>13, <1>14, <1>16, <1>17, <1>18, <1>19, <1>20, <1>21, <1>22,
             <1>23, <1>24 DEF Next, Thread, Works

(* The state of the engine, of the API and of every run keeps its type. *)
THEOREM TypeCorrect == Spec => []TypeOK
  <1>1. Init => TypeOK
    BY TypeInit
  <1>2. TypeOK /\ [Next]_vars => TypeOK'
    BY TypeStep
  <1> QED BY <1>1, <1>2, PTL DEF Spec

-----------------------------------------------------------------------------
(* The operation slot: a live thread holds the slot of its pipeline, and no
   other thread is live on it.  OneOpPerPipeline alone is not inductive: Accept
   tests active, not the threads. *)
SlotHeld == \A r \in Runs : Live(r) => active[pipe[r]]
SlotInv == OneOpPerPipeline /\ SlotHeld

(* Thread steps other than Release keep the thread live and the slot set. *)
LEMMA ThreadKeepsSlot ==
  ASSUME TypeOK, NEW r \in Runs, Thread(r), ~Release(r)
  PROVE  /\ Live(r) /\ UNCHANGED <<active, pipe>>
         /\ \A s \in Runs \ {r} : pc'[s] = pc[s]
  <1> USE DEF TypeOK, Live, Goto
  <1>1. CASE Prepare(r)
    BY <1>1 DEF Prepare, Prepared, PrepareFull, PrepareInject, PrepareSelected,
                PrepareResume
  <1>2. CASE RecordRun(r) \/ ClearStop(r) \/ Report(r) \/ ReportRaised(r) \/ StopClear(r)
    BY <1>2 DEF RecordRun, ClearStop, Report, ReportRaised, StopClear
  <1>3. CASE StepStart(r) \/ StepPass(r) \/ StepFail(r)
    BY <1>3 DEF StepStart, StepPass, StepFail
  <1>4. CASE StopAtBoundary(r) \/ Finalize(r)
    BY <1>4 DEF StopAtBoundary, Finalize
  <1>5. CASE Load(r) \/ CheckBoundary(r) \/ StoreRaises(r)
    BY <1>5 DEF Load, CheckBoundary, StoreRaises
  <1> QED BY <1>1, <1>2, <1>3, <1>4, <1>5 DEF Thread, Works

LEMMA SlotStep ==
  ASSUME TypeOK, SlotInv, [Next]_vars PROVE SlotInv'
  <1> USE DEF SlotInv, OneOpPerPipeline, SlotHeld
  <1>1. ASSUME NEW r \in Runs, NEW q \in Requests, Accept(r, q) PROVE SlotInv'
    BY <1>1 DEF TypeOK, Accept, Goto, Live
  <1>2. ASSUME NEW r \in Runs, Thread(r), ~Release(r) PROVE SlotInv'
    <2>1. Live(r) /\ UNCHANGED <<active, pipe>>
            /\ \A s \in Runs \ {r} : pc'[s] = pc[s]
      BY <1>2, ThreadKeepsSlot
    <2>2. \A s \in Runs : Live(s)' => Live(s)
      BY <2>1 DEF Live
    <2> QED BY <2>1, <2>2
  <1>3. ASSUME NEW r \in Runs, Release(r) PROVE SlotInv'
    <2>1. pipe' = pipe /\ ~Live(r)' /\ Live(r)
            /\ \A s \in Runs \ {r} : pc'[s] = pc[s]
      BY <1>3 DEF TypeOK, Release, Goto, Live
    <2>2. \A s \in Runs : Live(s)' => Live(s) /\ s # r
      BY <2>1 DEF Live
    <2>3. \A p \in Pipelines \ {pipe[r]} : active'[p] = active[p]
      BY <1>3 DEF TypeOK, Release
    <2> QED BY <2>1, <2>2, <2>3 DEF TypeOK
  <1>4. ASSUME NEW p \in Pipelines, RequestStop(p) PROVE SlotInv'
    BY <1>4 DEF RequestStop, Live
  <1>5. CASE Crash
    <2>1. \A r \in Runs : ~Live(r)'
      BY <1>5 DEF Crash, Live
    <2> QED BY <2>1
  <1>6. CASE UNCHANGED vars
    BY <1>6 DEF vars, Live
  <1>7. ASSUME NEW r \in Runs, StartFails(r) PROVE SlotInv'
    <2>1. UNCHANGED <<active, pipe>> /\ \A s \in Runs : Live(s)' => Live(s)
      BY <1>7 DEF TypeOK, StartFails, Goto, Live
    <2> QED BY <2>1
  <1>8. ASSUME NEW c \in JobRows, Publish(c) PROVE SlotInv'
    BY <1>8 DEF Publish, Live
  <1> QED BY <1>1, <1>2, <1>3, <1>4, <1>5, <1>6, <1>7, <1>8 DEF Next

(* Two control operations never work on the same pipeline at once: the test
   and set of _ENGINE_OP_ACTIVE under _ENGINE_OP_LOCK, with the finally branch
   and a restart as the only ways to give the slot back. *)
THEOREM OneOperation == Spec => []OneOpPerPipeline
  <1>1. Init => SlotInv
    BY DEF Init, SlotInv, OneOpPerPipeline, SlotHeld, Live
  <1>2. TypeOK /\ SlotInv /\ [Next]_vars => SlotInv'
    BY SlotStep
  <1>3. SlotInv => OneOpPerPipeline
    BY DEF SlotInv
  <1> QED BY <1>1, <1>2, <1>3, TypeCorrect, PTL DEF Spec

-----------------------------------------------------------------------------
(* The work of a run.  What it holds in memory is not completed before
   _finalize, unless the one-click job left that word there, and every step it
   has neither passed nor skipped nor left running is in its work list; so an
   empty work list leaves nothing to resume.  Two runs of one pipeline need no
   care here: the invariant holds even for the disk they share. *)
Looping(r) == pc[r] \in {"boundary", "starting", "executing"}
Unfinished(r) == Looping(r) \/ pc[r] = "broken"
Honest(c) == c.status = "completed" /\ ~c.job => Resumable(c) = {}
WorkListed ==
  \A r \in Runs :
    /\ pc[r] = "loaded" => Honest(mem[r])
    /\ Unfinished(r) => mem[r].status # "completed" \/ mem[r].job
    /\ Looping(r) => Resumable(mem[r]) \subseteq todo[r]
WorkInv == CompletedLeavesNothing /\ WorkListed

LEMMA FirstStep ==
  ASSUME NEW S, NEW k \in Steps, NEW j \in Steps, IsFirst(k, S), IsFirst(j, S)
  PROVE  j = k
  BY NAssumption DEF IsFirst, Steps

(* A write of a checkpoint that keeps the promise keeps it on disk. *)
LEMMA DiskKept ==
  ASSUME WorkInv, NEW c, Honest(c),
         \A q \in Pipelines : disk'[q] = disk[q] \/ disk'[q] = c
  PROVE  CompletedLeavesNothing'
  BY DEF WorkInv, CompletedLeavesNothing, Resumable, Honest

(* The other runs are not touched by a step of run r. *)
LEMMA OthersKept ==
  ASSUME WorkInv, NEW r \in Runs,
         \A s \in Runs \ {r} : pc'[s] = pc[s] /\ mem'[s] = mem[s] /\ todo'[s] = todo[s],
         pc'[r] = "loaded" => Honest(mem'[r]),
         Unfinished(r)' => mem'[r].status # "completed" \/ mem'[r].job,
         Looping(r)' => Resumable(mem'[r]) \subseteq todo'[r]
  PROVE  WorkListed'
  BY DEF WorkInv, WorkListed, Unfinished, Looping, Resumable, Honest

LEMMA WorkPrepared ==
  ASSUME TypeOK, WorkInv, NEW r \in Runs, NEW c \in Checkpoint,
         NEW S \in SUBSET Steps, Prepared(r, c, S),
         c.status # "completed" \/ c.job, Resumable(c) \subseteq S
  PROVE  WorkInv'
  <1>1. /\ \A q \in Pipelines : disk'[q] = disk[q] \/ disk'[q] = c
        /\ mem'[r] = c /\ todo'[r] = S /\ pc'[r] = "boundary"
        /\ \A s \in Runs \ {r} : pc'[s] = pc[s] /\ mem'[s] = mem[s] /\ todo'[s] = todo[s]
    BY PreparedEffect
  <1>2. CompletedLeavesNothing'
    BY <1>1, DiskKept DEF Honest
  <1>3. WorkListed'
    BY <1>1, OthersKept DEF Unfinished
  <1> QED BY <1>2, <1>3 DEF WorkInv

LEMMA WorkPrepare ==
  ASSUME TypeOK, WorkInv, NEW r \in Runs, Prepare(r) PROVE WorkInv'
  <1> USE NAssumption
  <1>1. req[r] \in RequestType /\ mem[r] \in Checkpoint
    BY DEF TypeOK
  <1>2. \A k \in Steps : k..N \subseteq Steps
    BY DEF Steps
  <1>3. ASSUME NEW l \in {"reporting", "raised"}, Goto(r, l), UNCHANGED <<disk, todo>>,
               NEW c, mem' = [mem EXCEPT ![r] = c]
        PROVE  WorkInv'
    <2>1. /\ pc'[r] = l
          /\ \A s \in Runs \ {r} : pc'[s] = pc[s] /\ mem'[s] = mem[s] /\ todo'[s] = todo[s]
      BY <1>3 DEF TypeOK, Goto
    <2>2. WorkListed'
      BY <2>1, OthersKept DEF Unfinished, Looping
    <2> QED BY <1>3, <2>2 DEF WorkInv, CompletedLeavesNothing, Resumable
  <1>4. ASSUME NEW S \in SUBSET Steps, Prepared(r, Fresh("running", S, "pending"), S)
        PROVE  WorkInv'
    <2>1. "running" \in PipelineStatus /\ "pending" \in StepStatus
      BY DEF PipelineStatus, StepStatus
    <2>2. /\ Fresh("running", S, "pending") \in Checkpoint
          /\ Fresh("running", S, "pending").status = "running"
          /\ \A j \in Steps : Fresh("running", S, "pending").steps[j] =
                                IF j \in S THEN "pending" ELSE "skipped"
      BY <2>1, FreshType
    <2>3. Resumable(Fresh("running", S, "pending")) \subseteq S
      BY <2>2 DEF Resumable
    <2> QED BY <1>4, <2>2, <2>3, WorkPrepared
  <1>5. ASSUME PrepareFull(r) PROVE WorkInv'
    BY <1>4, <1>5 DEF PrepareFull
  <1>6. CASE PrepareInject(r)
    BY <1>2, <1>3, <1>4, <1>6 DEF PrepareInject
  <1>b. mem' = mem => mem' = [mem EXCEPT ![r] = mem[r]]
    BY DEF TypeOK
  <1>7. CASE PrepareSelected(r)
    BY <1>3, <1>4, <1>7, <1>b DEF PrepareSelected
  <1>8. CASE pc[r] = "loaded" /\ PrepareResume(r)
    <2>1. CASE PrepareFull(r)
      BY <1>5, <2>1
    <2>2. ASSUME NEW k \in Steps, IsFirst(k, Resumable(mem[r])),
                 Prepared(r, mem[r], k..N)
          PROVE  WorkInv'
      <3>1. mem[r].status # "completed" \/ mem[r].job
        BY <1>1, <1>8, <2>2 DEF WorkInv, WorkListed, Honest, IsFirst
      <3>2. Resumable(mem[r]) \subseteq k..N
        BY <2>2 DEF IsFirst, Resumable, Steps
      <3> QED BY <1>1, <1>2, <2>2, <3>1, <3>2, WorkPrepared
    <2>3. CASE Goto(r, "reporting") /\ UNCHANGED <<disk, faults, mem, todo, crossed>>
      BY <1>3, <1>b, <2>3
    <2> QED BY <1>8, <2>1, <2>2, <2>3 DEF PrepareResume
  <1> QED BY <1>5, <1>6, <1>7, <1>8 DEF Prepare

(* One step of the pipeline gets a status; the run goes to l. *)
LEMMA WorkStatus ==
  ASSUME TypeOK, WorkInv, NEW r \in Runs, NEW k \in Steps, NEW s \in StepStatus,
         NEW l \in PCs \ {"loaded"}, Unfinished(r),
         Remember(r, [mem[r] EXCEPT !.steps[k] = s]), Goto(r, l),
         \A q \in Runs \ {r} : todo'[q] = todo[q],
         l \in {"boundary", "starting", "executing"} =>
           /\ Looping(r)
           /\ s \notin {"pending", "failed"} /\ todo[r] \ {k} \subseteq todo'[r]
  PROVE  WorkInv'
  <1> DEFINE c == [mem[r] EXCEPT !.steps[k] = s]
  <1>1. mem[r] \in Checkpoint
    BY DEF TypeOK
  <1>2. c \in Checkpoint /\ c.status = mem[r].status /\ c.job = mem[r].job
          /\ \A j \in Steps : c.steps[j] = IF j = k THEN s ELSE mem[r].steps[j]
    BY <1>1, SetStep
  <1>3. c.status # "completed" \/ c.job
    BY <1>2 DEF WorkInv, WorkListed
  <1>4. /\ \A q \in Pipelines : disk'[q] = disk[q] \/ disk'[q] = c
        /\ mem'[r] = c /\ \A q \in Runs \ {r} : mem'[q] = mem[q]
    BY <1>2, RememberEffect
  <1>5. pc'[r] = l /\ \A q \in Runs \ {r} : pc'[q] = pc[q]
    BY GotoEffect
  <1>6. CompletedLeavesNothing'
    <2>1. Honest(c)
      BY <1>3 DEF Honest
    <2> HIDE DEF c
    <2> QED BY <1>4, <2>1, DiskKept
  <1>7. Looping(r)' => Resumable(mem'[r]) \subseteq todo'[r]
    BY <1>2, <1>4, <1>5 DEF WorkInv, WorkListed, Resumable, Looping
  <1>8. WorkListed'
    BY <1>3, <1>4, <1>5, <1>7, OthersKept
  <1> QED BY <1>6, <1>8 DEF WorkInv

(* The whole pipeline gets a status and the loop is left. *)
LEMMA WorkEnd ==
  ASSUME TypeOK, WorkInv, NEW r \in Runs, NEW s \in PipelineStatus,
         NEW l \in {"stopping", "reporting"},
         Remember(r, Concluded(mem[r], s)), Goto(r, l), todo' = todo,
         s = "completed" => Resumable(mem[r]) = {}
  PROVE  WorkInv'
  <1> DEFINE c == Concluded(mem[r], s)
  <1>1. mem[r] \in Checkpoint
    BY DEF TypeOK
  <1>2. c \in Checkpoint /\ c.status = s /\ c.steps = mem[r].steps
    BY <1>1, SetStatus
  <1> HIDE DEF c
  <1>3. /\ \A q \in Pipelines : disk'[q] = disk[q] \/ disk'[q] = c
        /\ \A q \in Runs \ {r} : mem'[q] = mem[q]
    BY <1>2, RememberEffect DEF c
  <1>4. pc'[r] = l /\ \A q \in Runs \ {r} : pc'[q] = pc[q]
    BY DEF Goto, TypeOK
  <1>5. CompletedLeavesNothing'
    <2>1. Honest(c)
      BY <1>2 DEF Resumable, Honest
    <2> QED BY <1>3, <2>1, DiskKept
  <1>6. WorkListed'
    BY <1>3, <1>4, OthersKept DEF Unfinished, Looping
  <1> QED BY <1>5, <1>6 DEF WorkInv

(* A step that leaves the disk, the memory and the work lists alone, and moves
   no thread into the loop. *)
LEMMA WorkIdle ==
  ASSUME WorkInv, UNCHANGED <<disk, mem, todo>>,
         \A r \in Runs : pc'[r] = pc[r]
                         \/ pc'[r] \notin {"loaded", "boundary", "starting",
                                           "executing", "broken"}
  PROVE  WorkInv'
  BY DEF WorkInv, WorkListed, CompletedLeavesNothing, Unfinished, Looping,
         Resumable, Honest

LEMMA WorkStep ==
  ASSUME TypeOK, WorkInv, [Next]_vars PROVE WorkInv'
  <1>1. ASSUME NEW r \in Runs, (\E q \in Requests : Accept(r, q)) \/ StartFails(r)
        PROVE  WorkInv'
    BY <1>1, WorkIdle DEF Accept, StartFails, Goto, TypeOK
  <1>2. ASSUME NEW r \in Runs, RecordRun(r) \/ StoreRaises(r) PROVE WorkInv'
    BY <1>2, WorkIdle DEF RecordRun, StoreRaises, Goto, TypeOK
  <1>3. ASSUME NEW r \in Runs, ClearStop(r) PROVE WorkInv'
    BY <1>3, WorkIdle DEF ClearStop, Goto, TypeOK
  <1>4. ASSUME NEW r \in Runs, Prepare(r) PROVE WorkInv'
    BY <1>4, WorkPrepare
  <1>5. ASSUME NEW r \in Runs, StepStart(r) PROVE WorkInv'
    <2>1. "running" \in StepStatus /\ "executing" \in PCs \ {"loaded"}
            /\ Unfinished(r) /\ Looping(r)
      BY <1>5 DEF StepStatus, PCs, StepStart, Unfinished, Looping
    <2> QED BY <1>5, <2>1, WorkStatus DEF StepStart
  <1>6. ASSUME NEW r \in Runs, StepPass(r) PROVE WorkInv'
    <2>1. "passed" \in StepStatus /\ "boundary" \in PCs \ {"loaded"}
            /\ Unfinished(r) /\ Looping(r)
      BY <1>6 DEF StepStatus, PCs, StepPass, Unfinished, Looping
    <2>2. PICK k \in Steps :
            /\ Remember(r, [mem[r] EXCEPT !.steps[k] = "passed"])
            /\ todo' = [todo EXCEPT ![r] = @ \ {k}]
      BY <1>6 DEF StepPass
    <2>3. todo'[r] = todo[r] \ {k} /\ \A q \in Runs \ {r} : todo'[q] = todo[q]
      BY <2>2 DEF TypeOK
    <2> QED BY <1>6, <2>1, <2>2, <2>3, WorkStatus DEF StepPass
  <1>7. ASSUME NEW r \in Runs, StepFail(r) PROVE WorkInv'
    <2>1. "failed" \in StepStatus /\ "broken" \in PCs \ {"loaded"} /\ Unfinished(r)
      BY <1>7 DEF StepStatus, PCs, StepFail, Unfinished, Looping
    <2> QED BY <1>7, <2>1, WorkStatus DEF StepFail
  <1>8. ASSUME NEW r \in Runs, StopAtBoundary(r) PROVE WorkInv'
    <2>1. "stopped" \in PipelineStatus
      BY DEF PipelineStatus
    <2> QED BY <1>8, <2>1, WorkEnd DEF StopAtBoundary
  <1>9. ASSUME NEW r \in Runs, StopClear(r) PROVE WorkInv'
    BY <1>9, WorkIdle DEF StopClear, Goto, TypeOK
  <1>10. ASSUME NEW r \in Runs, Finalize(r) PROVE WorkInv'
    <2>1. "completed" \in PipelineStatus /\ "failed" \in PipelineStatus
      BY DEF PipelineStatus
    <2>2. CASE pc[r] = "boundary" /\ todo[r] = {}
                /\ Remember(r, Concluded(mem[r], "completed"))
      <3>1. Resumable(mem[r]) = {}
        BY <2>2 DEF WorkInv, WorkListed, Looping
      <3> QED BY <1>10, <2>1, <2>2, <3>1, WorkEnd DEF Finalize
    <2>3. CASE Remember(r, Concluded(mem[r], "failed"))
      BY <1>10, <2>1, <2>3, WorkEnd DEF Finalize
    <2> QED BY <1>10, <2>2, <2>3 DEF Finalize
  <1>11. ASSUME NEW r \in Runs, Report(r) \/ ReportRaised(r) PROVE WorkInv'
    BY <1>11, WorkIdle DEF Report, ReportRaised, Goto, TypeOK
  <1>12. ASSUME NEW r \in Runs, Release(r) PROVE WorkInv'
    <2>1. /\ pc'[r] = "done"
          /\ \A s \in Runs \ {r} : pc'[s] = pc[s] /\ mem'[s] = mem[s] /\ todo'[s] = todo[s]
      BY <1>12 DEF Release, Dropped, Goto, TypeOK
    <2>2. WorkListed'
      BY <2>1, OthersKept DEF Unfinished, Looping
    <2> QED BY <1>12, <2>2 DEF Release, WorkInv, CompletedLeavesNothing, Resumable
  <1>13. ASSUME NEW p \in Pipelines, RequestStop(p) PROVE WorkInv'
    BY <1>13, WorkIdle DEF RequestStop
  <1>14. CASE Crash
    <2>1. \A r \in Runs : pc'[r] \notin {"loaded", "boundary", "starting",
                                         "executing", "broken"}
      BY <1>14 DEF Crash, Live
    <2> QED BY <1>14, <2>1 DEF Crash, WorkInv, WorkListed, CompletedLeavesNothing,
                               Unfinished, Looping, Resumable
  <1>15. CASE UNCHANGED vars
    BY <1>15, WorkIdle DEF vars
  <1>16. ASSUME NEW r \in Runs, Load(r) PROVE WorkInv'
    <2>1. /\ pc'[r] = "loaded" /\ UNCHANGED <<disk, todo>>
          /\ mem'[r] \in {disk[pipe[r]], NoCheckpoint}
          /\ \A s \in Runs \ {r} : pc'[s] = pc[s] /\ mem'[s] = mem[s]
      BY <1>16 DEF Load, Goto, TypeOK
    <2>2. Honest(disk[pipe[r]]) /\ Honest(NoCheckpoint)
      BY DEF WorkInv, CompletedLeavesNothing, Honest, NoCheckpoint, TypeOK
    <2>3. WorkListed'
      BY <2>1, <2>2, OthersKept DEF Unfinished, Looping
    <2> QED BY <2>1, <2>3 DEF WorkInv, CompletedLeavesNothing, Resumable
  <1>17. ASSUME NEW r \in Runs, CheckBoundary(r) PROVE WorkInv'
    <2>1. /\ Looping(r) /\ Unfinished(r) /\ pc'[r] = "starting"
          /\ UNCHANGED <<disk, mem, todo>> /\ \A s \in Runs \ {r} : pc'[s] = pc[s]
      BY <1>17 DEF CheckBoundary, Goto, TypeOK, Looping, Unfinished
    <2>2. /\ mem[r].status # "completed" \/ mem[r].job
          /\ Resumable(mem[r]) \subseteq todo[r]
      BY <2>1 DEF WorkInv, WorkListed
    <2>3. WorkListed'
      BY <2>1, <2>2, OthersKept DEF Resumable
    <2> QED BY <2>1, <2>3 DEF WorkInv, CompletedLeavesNothing, Resumable
  <1>18. ASSUME NEW c \in JobRows, Publish(c) PROVE WorkInv'
    <2>1. c \in Checkpoint /\ c.job
      BY JobAssumption
    <2>2. \A q \in Pipelines : disk'[q] = disk[q] \/ disk'[q] = c
      BY <1>18 DEF Publish, TypeOK
    <2>3. CompletedLeavesNothing'
      BY <2>1, <2>2, DiskKept DEF Honest
    <2> QED BY <1>18, <2>3 DEF Publish, WorkInv, WorkListed, Unfinished, Looping,
                               Resumable, Honest
  <1> QED BY <1>1, <1>2, <1>3, <1>4, <1>5, <1>6, <1>7, <1>8, <1>9, <1>10,
             <1>11, <1>12, <1>13, <1>14, <1>15, <1>16, <1>17, <1>18
          DEF Next, Thread, Works

LEMMA WorkInvariant == Spec => []WorkInv
  <1>1. Init => WorkInv
    BY DEF Init, WorkInv, WorkListed, CompletedLeavesNothing, Unfinished, Looping,
           NoCheckpoint
  <1>2. TypeOK /\ WorkInv /\ [Next]_vars => WorkInv'
    BY WorkStep
  <1> QED BY <1>1, <1>2, TypeCorrect, PTL DEF Spec

(* A checkpoint that a control operation completed has no step left that was
   never finished or failed, whatever the requests, stops, restarts, failed
   accesses and rows of the one-click job (_finalize). *)
THEOREM CompletedIsDone == Spec => []CompletedLeavesNothing
  <1>1. WorkInv => CompletedLeavesNothing
    BY DEF WorkInv
  <1> QED BY <1>1, WorkInvariant, PTL

(* No step executes while an earlier one is pending or failed: the work list
   holds every such step and is worked off from its first (_execute_steps). *)
THEOREM StepsInTurn == Spec => []NoStepBeforeItsTurn
  <1>1. WorkInv => NoStepBeforeItsTurn
    BY NAssumption DEF WorkInv, WorkListed, Looping, NoStepBeforeItsTurn, IsFirst,
                       Resumable, Steps
  <1> QED BY <1>1, WorkInvariant, PTL

-----------------------------------------------------------------------------
(* The stop flag.  With one pipeline per project nobody but the run itself
   clears the flag, so a stop it must honour is still there at the boundary;
   one that came behind the check waits for the step to begin. *)
StopSeen ==
  \A r \in Runs :
    /\ told[r] # "no" => pc[r] \notin {"idle", "accepted", "recorded"}
    /\ told[r] # "no" /\ Listening(r) => flag
    /\ told[r] = "now" => pc[r] # "starting"
    /\ told[r] = "next" => pc[r] \notin {"cleared", "loaded", "boundary", "executing"}

LEMMA StopStep ==
  ASSUME TypeOK, SlotInv, StopSeen, [Next]_vars, \A p, q \in Pipelines : p = q
  PROVE  StopSeen'
  <1> USE DEF StopSeen, TypeOK, Goto, Aside
  <1>1. \A r, s \in Runs : Live(r) /\ Live(s) => r = s
    BY DEF SlotInv, OneOpPerPipeline
  <1>2. ASSUME NEW r \in Runs, (\E q \in Requests : Accept(r, q)) \/ StartFails(r)
        PROVE  StopSeen'
    BY <1>2 DEF Accept, StartFails, Listening
  <1>3. ASSUME NEW r \in Runs, Prepare(r) PROVE StopSeen'
    <2>1. /\ pc[r] \in {"cleared", "loaded"} /\ UNCHANGED <<told, flag>>
          /\ pc' = [pc EXCEPT ![r] = pc'[r]]
          /\ pc'[r] \in {"boundary", "reporting", "raised"}
      BY <1>3 DEF Prepare, Prepared, PrepareFull, PrepareInject, PrepareSelected,
                  PrepareResume
    <2> QED BY <2>1 DEF Listening
  <1>4. ASSUME NEW r \in Runs, ClearStop(r) PROVE StopSeen'
    <2>1. told[r] = "no" /\ \A s \in Runs \ {r} : ~Live(s)
      BY <1>1, <1>4 DEF ClearStop, Live
    <2>2. told' = told /\ pc' = [pc EXCEPT ![r] = "cleared"]
      BY <1>4 DEF ClearStop
    <2>3. \A s \in Runs \ {r} : ~Listening(s)
      BY <2>1 DEF Live, Listening
    <2> QED BY <2>1, <2>2, <2>3 DEF Listening
  <1>5. ASSUME NEW r \in Runs, StopClear(r) PROVE StopSeen'
    <2>1. \A s \in Runs \ {r} : ~Live(s)
      BY <1>1, <1>5 DEF StopClear, Live
    <2>2. told' = told /\ pc' = [pc EXCEPT ![r] = "reporting"]
      BY <1>5 DEF StopClear
    <2>3. \A s \in Runs \ {r} : ~Listening(s)
      BY <2>1 DEF Live, Listening
    <2> QED BY <2>2, <2>3 DEF Listening
  <1>6. ASSUME NEW r \in Runs, RecordRun(r) \/ Report(r) \/ ReportRaised(r)
        PROVE  StopSeen'
    BY <1>6 DEF RecordRun, Report, ReportRaised, Listening
  <1>7. ASSUME NEW r \in Runs, StepPass(r) \/ StepFail(r) PROVE StopSeen'
    BY <1>7 DEF StepPass, StepFail, Listening
  <1>8. ASSUME NEW r \in Runs, StopAtBoundary(r) \/ Finalize(r) PROVE StopSeen'
    BY <1>8 DEF StopAtBoundary, Finalize, Listening
  <1>9. ASSUME NEW r \in Runs, Release(r) PROVE StopSeen'
    BY <1>9 DEF Release, Dropped, Listening
  <1>10. ASSUME NEW p \in Pipelines, RequestStop(p) PROVE StopSeen'
    BY <1>10 DEF RequestStop, Listening, Live
  <1>11. CASE Crash
    BY <1>11 DEF Crash, Listening
  <1>12. CASE UNCHANGED vars
    BY <1>12 DEF vars, Listening
  <1>13. ASSUME NEW r \in Runs, StepStart(r) PROVE StopSeen'
    <2>1. /\ pc[r] = "starting" /\ flag' = flag /\ pc' = [pc EXCEPT ![r] = "executing"]
          /\ told' = [told EXCEPT ![r] = IF @ = "next" THEN "now" ELSE @]
      BY <1>13 DEF StepStart
    <2> QED BY <2>1 DEF Listening
  <1>14. ASSUME NEW r \in Runs, Load(r) \/ StoreRaises(r) PROVE StopSeen'
    BY <1>14 DEF Load, StoreRaises, Listening
  <1>15. ASSUME NEW r \in Runs, CheckBoundary(r) PROVE StopSeen'
    <2>1. told[r] = "no"
      BY <1>15 DEF CheckBoundary, Listening
    <2>2. /\ pc' = [pc EXCEPT ![r] = "starting"] /\ UNCHANGED <<told, flag>>
      BY <1>15 DEF CheckBoundary
    <2> QED BY <2>1, <2>2 DEF Listening
  <1>16. ASSUME NEW c \in JobRows, Publish(c) PROVE StopSeen'
    BY <1>16 DEF Publish, Listening
  <1> QED BY <1>2, <1>3, <1>4, <1>5, <1>6, <1>7, <1>8, <1>9, <1>10, <1>11, <1>12,
             <1>13, <1>14, <1>15, <1>16
          DEF Next, Thread, Works

(* A thread moves only itself, and only StepStart makes a step begin. *)
LEMMA ThreadMoves ==
  ASSUME TypeOK, NEW s \in Runs,
         Thread(s) \/ StartFails(s) \/ \E q \in Requests : Accept(s, q),
         NEW r \in Runs, pc'[r] # pc[r]
  PROVE  s = r
  <1>1. CASE Thread(s) /\ ~Release(s)
    BY <1>1, ThreadKeepsSlot
  <1>2. CASE Release(s)
    BY <1>2 DEF Release, Goto, TypeOK
  <1>3. CASE StartFails(s) \/ \E q \in Requests : Accept(s, q)
    BY <1>3 DEF Accept, StartFails, Goto, TypeOK
  <1> QED BY <1>1, <1>2, <1>3

LEMMA ThreadStarts ==
  ASSUME TypeOK, NEW r \in Runs,
         Thread(r) \/ StartFails(r) \/ \E q \in Requests : Accept(r, q),
         pc[r] # "executing", pc'[r] = "executing"
  PROVE  pc[r] = "starting"
  <1> USE DEF Goto, TypeOK
  <1>1. CASE StepStart(r)
    BY <1>1 DEF StepStart
  <1>2. CASE Prepare(r)
    BY <1>2 DEF Prepare, Prepared, PrepareFull, PrepareInject, PrepareSelected,
                PrepareResume
  <1>3. CASE StepPass(r) \/ StepFail(r) \/ StopAtBoundary(r) \/ Finalize(r)
    BY <1>3 DEF StepPass, StepFail, StopAtBoundary, Finalize
  <1>4. CASE RecordRun(r) \/ ClearStop(r) \/ Load(r) \/ CheckBoundary(r)
             \/ StopClear(r) \/ StoreRaises(r)
    BY <1>4 DEF RecordRun, ClearStop, Load, CheckBoundary, StopClear, StoreRaises
  <1>5. CASE Report(r) \/ ReportRaised(r) \/ Release(r) \/ StartFails(r)
             \/ \E q \in Requests : Accept(r, q)
    BY <1>5 DEF Report, ReportRaised, Release, StartFails, Accept
  <1> QED BY <1>1, <1>2, <1>3, <1>4, <1>5 DEF Thread, Works

(* With a single pipeline per project, a stop that reaches a run past its
   clear_stop lets at most the step begin whose boundary check it missed: from
   then on the run starts no step, whatever fails and whatever else is asked. *)
THEOREM LateStop ==
  ASSUME \A p, q \in Pipelines : p = q
  PROVE  Spec => LateStopHonoured
  <1>1. Init => SlotInv /\ StopSeen
    BY DEF Init, SlotInv, OneOpPerPipeline, SlotHeld, Live, StopSeen
  <1>2. TypeOK /\ SlotInv /\ StopSeen /\ [Next]_vars => SlotInv' /\ StopSeen'
    BY SlotStep, StopStep
  <1>3. TypeOK /\ SlotInv /\ StopSeen /\ [Next]_vars
          => [\A r \in Runs : told[r] = "now" /\ pc[r] # "executing"
                => pc'[r] # "executing"]_vars
    <2> SUFFICES ASSUME TypeOK, StopSeen, Next,
                        NEW r \in Runs, told[r] = "now", pc[r] # "executing",
                        pc'[r] = "executing"
                 PROVE  FALSE
      OBVIOUS
    <2>1. PICK s \in Runs :
            Thread(s) \/ StartFails(s) \/ \E q \in Requests : Accept(s, q)
      <3>1. ~(\E p \in Pipelines : RequestStop(p)) /\ ~(\E c \in JobRows : Publish(c))
        BY DEF RequestStop, Publish
      <3>2. ~Crash
        BY DEF Crash, TypeOK
      <3> QED BY <3>1, <3>2 DEF Next
    <2>2. s = r
      BY <2>1, ThreadMoves
    <2>3. pc[r] = "starting"
      BY <2>1, <2>2, ThreadStarts
    <2> QED BY <2>3 DEF StopSeen
  <1> QED BY <1>1, <1>2, <1>3, TypeCorrect, PTL DEF Spec, LateStopHonoured

-----------------------------------------------------------------------------
(* The history row.  finish_run reads the outcome back from the row that all
   runs of a pipeline share.  It is the run's own because a run that has been
   prepared left there what it holds in memory, the slot keeps the other runs
   off, and a write of the one-click job is remembered in crossed; only the
   injection at an unregistered step reports without a write. *)
Astray(r) == req[r].mode = "inject" /\ req[r].steps = {UnknownStep}
Shown(r) == pc[r] \in {"boundary", "starting", "executing", "broken", "stopping",
                       "reporting"}
OnDisk(r) == disk[pipe[r]] = mem[r] \/ crossed[r]
OwnRow(r) ==
  /\ pc[r] \in {"idle", "accepted", "recorded", "cleared", "raised"} =>
       mem[r].status = "none"
  /\ pc[r] \in {"recorded", "cleared", "loaded", "raised"} => hist[r] # "none"
  /\ pc[r] = "loaded" => OnDisk(r)
  /\ Shown(r) => mem[r].status # "none" /\ (OnDisk(r) \/ Astray(r))
  /\ pc[r] = "releasing" =>
       \/ hist[r] = mem[r].status
       \/ hist[r] = "failed" /\ mem[r].status = "none"
       \/ Astray(r) \/ crossed[r]
Asked(r) == req[r].mode = "inject" => \E k \in Steps \cup {UnknownStep} : req[r].steps = {k}
RowInv == \A r \in Runs : Asked(r) /\ (faults = 0 => OwnRow(r))

(* A step of one run that writes to no other pipeline keeps the rows of the
   other runs: two live runs never share a pipeline. *)
LEMMA RowOfOthers ==
  ASSUME TypeOK, SlotInv, RowInv, NEW r \in Runs,
         pipe' = pipe, faults' = 0 => faults = 0,
         \A s \in Runs \ {r} : pc'[s] = pc[s] /\ mem'[s] = mem[s]
                               /\ hist'[s] = hist[s] /\ req'[s] = req[s]
                               /\ crossed'[s] = crossed[s],
         \A p \in Pipelines : disk'[p] = disk[p] \/ (Live(r) /\ p = pipe[r]),
         Asked(r)', faults' = 0 => OwnRow(r)'
  PROVE  RowInv'
  <1>1. ASSUME NEW s \in Runs \ {r}
        PROVE  Asked(s)' /\ (faults' = 0 => OwnRow(s)')
    <2>1. pipe[s] \in Pipelines /\ (Shown(s) \/ pc[s] = "loaded" => Live(s))
      BY DEF TypeOK, Shown, Live
    <2>2. Shown(s) \/ pc[s] = "loaded" => disk'[pipe[s]] = disk[pipe[s]]
      BY <2>1 DEF SlotInv, OneOpPerPipeline
    <2>3. Asked(s) /\ (faults = 0 => OwnRow(s))
      BY DEF RowInv
    <2> QED BY <2>2, <2>3 DEF Asked, OwnRow, OnDisk, Shown, Astray
  <1> QED BY <1>1 DEF RowInv

(* A write that is not lost leaves on disk what the run holds. *)
LEMMA RowWritten ==
  ASSUME TypeOK, SlotInv, RowInv, NEW r \in Runs, NEW c \in Checkpoint,
         Remember(r, c),
         NEW l \in {"boundary", "executing", "broken", "stopping", "reporting"},
         Goto(r, l), Live(r), faults = 0 => c.status # "none",
         UNCHANGED <<hist, pipe, req>>
  PROVE  RowInv'
  <1>1. pipe[r] \in Pipelines /\ l \in PCs
    BY DEF TypeOK, PCs
  <1>2. mem'[r] = c /\ \A s \in Runs \ {r} : mem'[s] = mem[s]
    BY RememberEffect
  <1>3. pc'[r] = l /\ \A s \in Runs \ {r} : pc'[s] = pc[s]
    BY <1>1, GotoEffect
  <1>4. /\ \A p \in Pipelines : disk'[p] = disk[p] \/ p = pipe[r]
        /\ faults' = 0 => faults = 0 /\ disk'[pipe[r]] = c
        /\ \A s \in Runs \ {r} : crossed'[s] = crossed[s]
    BY <1>1 DEF Remember, Save, Fault, TypeOK
  <1>5. Asked(r)' /\ (faults' = 0 => OwnRow(r)')
    <2>1. Asked(r)
      BY DEF RowInv
    <2> QED BY <1>2, <1>3, <1>4, <2>1 DEF Asked, OwnRow, OnDisk, Shown
  <1> QED BY <1>2, <1>3, <1>4, <1>5, RowOfOthers

(* A step that writes no checkpoint. *)
LEMMA RowMoved ==
  ASSUME TypeOK, SlotInv, RowInv, NEW r \in Runs, NEW l \in PCs, Goto(r, l),
         UNCHANGED <<disk, pipe>>, faults' = 0 => faults = 0,
         \A s \in Runs \ {r} : mem'[s] = mem[s] /\ hist'[s] = hist[s]
                               /\ req'[s] = req[s] /\ crossed'[s] = crossed[s],
         Asked(r)', faults' = 0 => OwnRow(r)'
  PROVE  RowInv'
  <1>1. \A s \in Runs \ {r} : pc'[s] = pc[s]
    BY GotoEffect
  <1> QED BY <1>1, RowOfOthers

LEMMA RowPrepare ==
  ASSUME TypeOK, SlotInv, RowInv, NEW r \in Runs, Prepare(r) PROVE RowInv'
  <1> USE NAssumption
  <1>1. req[r] \in RequestType /\ mem[r] \in Checkpoint
    BY DEF TypeOK
  <1>2. Live(r) /\ pc[r] \in {"cleared", "loaded"} /\ UNCHANGED <<hist, pipe, req>>
    BY DEF Prepare, Live
  <1>3. Asked(r) /\ (faults = 0 => OwnRow(r))
    BY DEF RowInv
  <1>4. "running" \in PipelineStatus /\ "pending" \in StepStatus
          /\ "failed" \in PipelineStatus /\ "failed" \in StepStatus
          /\ "reporting" \in PCs /\ "raised" \in PCs
    BY DEF PipelineStatus, StepStatus, PCs
  <1>5. ASSUME NEW S, Prepared(r, Fresh("running", S, "pending"), S) PROVE RowInv'
    <2>1. /\ Fresh("running", S, "pending") \in Checkpoint
          /\ Fresh("running", S, "pending").status = "running"
      BY <1>4, FreshType
    <2> QED BY <1>2, <1>5, <2>1, RowWritten DEF Prepared
  <1>6. ASSUME NEW c \in Checkpoint, mem' = [mem EXCEPT ![r] = c], c.status # "none",
               Goto(r, "reporting"), UNCHANGED <<disk, faults, todo, crossed>>,
               faults = 0 => (disk[pipe[r]] = c \/ crossed[r] \/ Astray(r))
        PROVE  RowInv'
    <2>1. mem'[r] = c /\ \A s \in Runs \ {r} : mem'[s] = mem[s]
      BY <1>6 DEF TypeOK
    <2>2. pc'[r] = "reporting"
      BY <1>4, <1>6, GotoEffect
    <2>3. Asked(r)' /\ (faults' = 0 => OwnRow(r)')
      BY <1>2, <1>3, <1>6, <2>1, <2>2 DEF Asked, OwnRow, OnDisk, Shown, Astray
    <2> QED BY <1>2, <1>4, <1>6, <2>1, <2>3, RowMoved
  <1>7. CASE req[r].mode = "full" /\ PrepareFull(r)
    BY <1>5, <1>7 DEF PrepareFull
  <1>8. CASE req[r].mode = "inject" /\ PrepareInject(r)
    <2>1. PICK k \in req[r].steps :
            \/ k \in Steps /\ Prepared(r, Fresh("running", k..N, "pending"), k..N)
            \/ /\ k \notin Steps
               /\ mem' = [mem EXCEPT ![r] = Fresh("failed", Steps, "failed")]
               /\ Goto(r, "reporting")
               /\ UNCHANGED <<disk, faults, todo, crossed>>
      BY <1>8 DEF PrepareInject
    <2>2. CASE k \notin Steps
      <3>1. Astray(r)
        BY <1>3, <1>8, <2>2 DEF Asked, Astray
      <3>2. /\ Fresh("failed", Steps, "failed") \in Checkpoint
            /\ Fresh("failed", Steps, "failed").status # "none"
        BY <1>4, FreshType
      <3> QED BY <1>6, <2>1, <2>2, <3>1, <3>2
    <2> QED BY <1>5, <2>1, <2>2
  <1>9. CASE pc[r] = "cleared" /\ PrepareSelected(r)
    <2>1. CASE Goto(r, "raised") /\ UNCHANGED <<disk, faults, mem, todo, crossed>>
      <3>1. pc'[r] = "raised"
        BY <1>4, <2>1, GotoEffect
      <3>2. Asked(r)' /\ (faults' = 0 => OwnRow(r)')
        BY <1>2, <1>3, <1>9, <2>1, <3>1 DEF Asked, OwnRow, OnDisk, Shown
      <3> QED BY <1>2, <1>4, <2>1, <3>2, RowMoved
    <2> QED BY <1>5, <1>9, <2>1 DEF PrepareSelected
  <1>10. CASE pc[r] = "loaded" /\ PrepareResume(r)
    <2>1. CASE PrepareFull(r)
      BY <1>5, <2>1 DEF PrepareFull
    <2>2. ASSUME mem[r].status # "none", NEW k \in Steps, Prepared(r, mem[r], k..N)
          PROVE  RowInv'
      BY <1>1, <1>2, <2>2, RowWritten DEF Prepared
    <2>3. CASE /\ mem[r].status # "none" /\ Goto(r, "reporting")
               /\ UNCHANGED <<disk, faults, mem, todo, crossed>>
      <3>1. pc'[r] = "reporting"
        BY <1>4, <2>3, GotoEffect
      <3>2. Asked(r)' /\ (faults' = 0 => OwnRow(r)')
        BY <1>2, <1>3, <1>10, <2>3, <3>1 DEF Asked, OwnRow, OnDisk, Shown, Astray
      <3> QED BY <1>2, <1>4, <2>3, <3>2, RowMoved
    <2> QED BY <1>10, <2>1, <2>2, <2>3 DEF PrepareResume
  <1> QED BY <1>7, <1>8, <1>9, <1>10 DEF Prepare

(* A failed access counts, and says no more about the history rows. *)
LEMMA RowFault ==
  ASSUME TypeOK, SlotInv, RowInv, NEW r \in Runs, Fault, UNCHANGED <<pipe, req>>
  PROVE  RowInv'
  <1>1. faults' # 0
    BY DEF Fault, TypeOK
  <1> QED BY <1>1 DEF RowInv, Asked

LEMMA RowStep ==
  ASSUME TypeOK, SlotInv, RowInv, [Next]_vars PROVE RowInv'
  <1> USE DEF Aside
  <1>0. \A r \in Runs : Asked(r) /\ (faults = 0 => OwnRow(r))
    BY DEF RowInv
  <1>a. \A l \in {"accepted", "recorded", "cleared", "loaded", "raised", "starting",
                  "executing", "boundary", "broken", "stopping", "reporting",
                  "releasing", "done"} : l \in PCs
    BY DEF PCs
  <1>1. ASSUME NEW r \in Runs, NEW q \in Requests, Accept(r, q) PROVE RowInv'
    <2>1. pc'[r] = "accepted" /\ req'[r] = q /\ mem'[r] = mem[r]
            /\ \A s \in Runs \ {r} : req'[s] = req[s]
      BY <1>1 DEF Accept, Goto, TypeOK
    <2>2. Asked(r)' /\ (faults' = 0 => OwnRow(r)')
      BY <1>0, <1>1, <2>1, RequestsAssumption DEF Accept, Asked, OwnRow, Shown
    <2> QED BY <1>1, <1>a, <2>1, <2>2, RowMoved DEF Accept
  <1>2. ASSUME NEW r \in Runs, RecordRun(r) PROVE RowInv'
    <2>1. pc'[r] = "recorded" /\ hist'[r] = "running"
            /\ \A s \in Runs \ {r} : hist'[s] = hist[s]
      BY <1>2 DEF RecordRun, Goto, TypeOK
    <2>2. Asked(r)' /\ (faults' = 0 => OwnRow(r)')
      BY <1>0, <1>2, <2>1 DEF RecordRun, Asked, OwnRow, Shown
    <2> QED BY <1>2, <1>a, <2>1, <2>2, RowMoved DEF RecordRun
  <1>3. ASSUME NEW r \in Runs, ClearStop(r) PROVE RowInv'
    <2>1. CASE Fault
      BY <1>3, <2>1, RowFault DEF ClearStop
    <2>2. CASE UNCHANGED faults
      <3>1. pc'[r] = "cleared"
        BY <1>3 DEF ClearStop, Goto, TypeOK
      <3>2. Asked(r)' /\ (faults' = 0 => OwnRow(r)')
        BY <1>0, <1>3, <2>2, <3>1 DEF ClearStop, Asked, OwnRow, Shown
      <3> QED BY <1>3, <1>a, <2>2, <3>2, RowMoved DEF ClearStop
    <2> QED BY <1>3, <2>1, <2>2 DEF ClearStop, Unflag
  <1>4. ASSUME NEW r \in Runs, Prepare(r) PROVE RowInv'
    BY <1>4, RowPrepare
  <1>5. ASSUME NEW r \in Runs, faults = 0, Shown(r) PROVE mem[r].status # "none"
    BY <1>0, <1>5 DEF OwnRow
  <1>6. ASSUME NEW r \in Runs, NEW k \in Steps, NEW s \in StepStatus,
               NEW l \in {"boundary", "executing", "broken"},
               Remember(r, [mem[r] EXCEPT !.steps[k] = s]), Goto(r, l), Shown(r), Live(r),
               UNCHANGED <<hist, pipe, req>>
        PROVE  RowInv'
    <2>1. /\ [mem[r] EXCEPT !.steps[k] = s] \in Checkpoint
          /\ [mem[r] EXCEPT !.steps[k] = s].status = mem[r].status
      BY SetStep DEF TypeOK
    <2> QED BY <1>5, <1>6, <2>1, RowWritten
  <1>7. ASSUME NEW r \in Runs, NEW s \in PipelineStatus \ {"none"},
               NEW l \in {"stopping", "reporting"},
               Remember(r, Concluded(mem[r], s)), Goto(r, l), Live(r),
               UNCHANGED <<hist, pipe, req>>
        PROVE  RowInv'
    <2>1. Concluded(mem[r], s) \in Checkpoint /\ Concluded(mem[r], s).status = s
      BY SetStatus DEF TypeOK
    <2> QED BY <1>7, <2>1, RowWritten
  <1>8. ASSUME NEW r \in Runs, StepStart(r) PROVE RowInv'
    <2>1. "running" \in StepStatus /\ Shown(r) /\ Live(r)
      BY <1>8 DEF StepStatus, StepStart, Shown, Live
    <2> QED BY <1>6, <1>8, <2>1 DEF StepStart
  <1>9. ASSUME NEW r \in Runs, StepPass(r) \/ StepFail(r) PROVE RowInv'
    <2>1. "passed" \in StepStatus /\ "failed" \in StepStatus /\ Shown(r) /\ Live(r)
      BY <1>9 DEF StepStatus, StepPass, StepFail, Shown, Live
    <2> QED BY <1>6, <1>9, <2>1 DEF StepPass, StepFail
  <1>10. ASSUME NEW r \in Runs, StopAtBoundary(r) \/ Finalize(r) PROVE RowInv'
    <2>1. {"stopped", "completed", "failed"} \subseteq PipelineStatus \ {"none"} /\ Live(r)
      BY <1>10 DEF PipelineStatus, StopAtBoundary, Finalize, Live
    <2> QED BY <1>7, <1>10, <2>1 DEF StopAtBoundary, Finalize
  <1>11. ASSUME NEW r \in Runs, StopClear(r) PROVE RowInv'
    <2>1. CASE Fault
      BY <1>11, <2>1, RowFault DEF StopClear
    <2>2. CASE UNCHANGED faults
      <3>1. pc'[r] = "reporting"
        BY <1>11 DEF StopClear, Goto, TypeOK
      <3>2. Asked(r)' /\ (faults' = 0 => OwnRow(r)')
        BY <1>0, <1>11, <2>2, <3>1 DEF StopClear, Asked, OwnRow, OnDisk, Shown, Astray
      <3> QED BY <1>11, <1>a, <2>2, <3>2, RowMoved DEF StopClear
    <2> QED BY <1>11, <2>1, <2>2 DEF StopClear, Unflag
  <1>12. ASSUME NEW r \in Runs, Report(r) PROVE RowInv'
    <2>1. CASE Fault
      BY <1>12, <2>1, RowFault DEF Report
    <2>2. CASE /\ hist' = [hist EXCEPT ![r] = IF disk[pipe[r]].status = "none"
                                              THEN "unknown" ELSE disk[pipe[r]].status]
               /\ UNCHANGED faults
      <3>1. /\ pc'[r] = "releasing"
            /\ hist'[r] = IF disk[pipe[r]].status = "none" THEN "unknown"
                          ELSE disk[pipe[r]].status
            /\ \A s \in Runs \ {r} : hist'[s] = hist[s]
        BY <1>12, <2>2 DEF Report, Goto, TypeOK
      <3>2. Asked(r)' /\ (faults' = 0 => OwnRow(r)')
        BY <1>0, <1>12, <2>2, <3>1 DEF Report, Asked, OwnRow, OnDisk, Shown, Astray
      <3> QED BY <1>12, <1>a, <2>2, <3>1, <3>2, RowMoved DEF Report
    <2> QED BY <1>12, <2>1, <2>2 DEF Report
  <1>13. ASSUME NEW r \in Runs, ReportRaised(r) PROVE RowInv'
    <2>1. CASE Fault
      BY <1>13, <2>1, RowFault DEF ReportRaised
    <2>2. CASE /\ hist' = [hist EXCEPT ![r] = IF @ = "none" THEN @ ELSE "failed"]
               /\ UNCHANGED faults
      <3>1. /\ pc'[r] = "releasing"
            /\ hist'[r] = IF hist[r] = "none" THEN "none" ELSE "failed"
            /\ \A s \in Runs \ {r} : hist'[s] = hist[s]
        BY <1>13, <2>2 DEF ReportRaised, Goto, TypeOK
      <3>2. Asked(r)' /\ (faults' = 0 => OwnRow(r)')
        BY <1>0, <1>13, <2>2, <3>1 DEF ReportRaised, Asked, OwnRow, Shown
      <3> QED BY <1>13, <1>a, <2>2, <3>1, <3>2, RowMoved DEF ReportRaised
    <2> QED BY <1>13, <2>1, <2>2 DEF ReportRaised
  <1>14. ASSUME NEW r \in Runs, Release(r) PROVE RowInv'
    <2>1. /\ pc'[r] = "done" /\ req'[r] = NoRequest
          /\ \A s \in Runs \ {r} : mem'[s] = mem[s] /\ req'[s] = req[s]
                                   /\ crossed'[s] = crossed[s]
      BY <1>14 DEF Release, Dropped, Goto, TypeOK
    <2>2. Asked(r)' /\ OwnRow(r)'
      BY <2>1 DEF Asked, OwnRow, Shown, NoRequest
    <2> QED BY <1>14, <1>a, <2>1, <2>2, RowMoved DEF Release
  <1>15. ASSUME NEW p \in Pipelines, RequestStop(p) PROVE RowInv'
    BY <1>15 DEF RequestStop, RowInv, Asked, OwnRow, OnDisk, Shown, Astray
  <1>16. CASE Crash
    <2>1. \A r \in Runs : pc'[r] \in {"idle", "done"} /\ mem'[r] = NoCheckpoint
                          /\ req'[r] = NoRequest
      BY <1>16 DEF Crash, Live, TypeOK
    <2> QED BY <2>1 DEF RowInv, Asked, OwnRow, OnDisk, Shown, NoCheckpoint, NoRequest
  <1>17. CASE UNCHANGED vars
    BY <1>17 DEF vars, RowInv, Asked, OwnRow, OnDisk, Shown, Astray
  <1>18. ASSUME NEW r \in Runs, StartFails(r) PROVE RowInv'
    <2>1. faults' # 0
      BY <1>18 DEF StartFails, Fault, TypeOK
    <2>2. \A s \in Runs : Asked(s)'
      BY <1>0, <1>18 DEF StartFails, Asked, NoRequest, TypeOK
    <2> QED BY <2>1, <2>2 DEF RowInv
  <1>19. ASSUME NEW r \in Runs, StoreRaises(r) PROVE RowInv'
    BY <1>19, RowFault DEF StoreRaises
  <1>20. ASSUME NEW r \in Runs, Load(r) PROVE RowInv'
    <2>1. CASE Fault
      BY <1>20, <2>1, RowFault DEF Load
    <2>2. CASE mem' = [mem EXCEPT ![r] = disk[pipe[r]]] /\ UNCHANGED faults
      <3>1. /\ pc'[r] = "loaded" /\ mem'[r] = disk[pipe[r]]
            /\ \A s \in Runs \ {r} : mem'[s] = mem[s] /\ crossed'[s] = crossed[s]
        BY <1>20, <2>2 DEF Load, Goto, TypeOK
      <3>2. Asked(r)' /\ (faults' = 0 => OwnRow(r)')
        BY <1>0, <1>20, <2>2, <3>1 DEF Load, Asked, OwnRow, OnDisk, Shown
      <3> QED BY <1>20, <1>a, <2>2, <3>1, <3>2, RowMoved DEF Load
    <2> QED BY <1>20, <2>1, <2>2 DEF Load
  <1>21. ASSUME NEW r \in Runs, CheckBoundary(r) PROVE RowInv'
    <2>1. pc'[r] = "starting"
      BY <1>21 DEF CheckBoundary, Goto, TypeOK
    <2>2. Asked(r)' /\ (faults' = 0 => OwnRow(r)')
      BY <1>0, <1>21, <2>1 DEF CheckBoundary, Asked, OwnRow, OnDisk, Shown, Astray
    <2> QED BY <1>21, <1>a, <2>2, RowMoved DEF CheckBoundary
  <1>22. ASSUME NEW c \in JobRows, Publish(c) PROVE RowInv'
    <2>1. ASSUME NEW r \in Runs, faults = 0 PROVE OwnRow(r)'
      <3>1. OwnRow(r) /\ UNCHANGED <<hist, pc, pipe, req, mem>> /\ pipe[r] \in Pipelines
        BY <1>0, <1>22, <2>1 DEF Publish, TypeOK
      <3>2. crossed[r] => crossed'[r]
        BY <1>22 DEF Publish
      <3>3. Shown(r) \/ pc[r] = "loaded" =>
              disk'[pipe[r]] = disk[pipe[r]] \/ crossed'[r]
        BY <1>22, <3>1 DEF Publish, Shown, Live, TypeOK
      <3> QED BY <3>1, <3>2, <3>3 DEF OwnRow, OnDisk, Shown, Astray
    <2> QED BY <1>0, <1>22, <2>1 DEF Publish, RowInv, Asked
  <1> QED BY <1>1, <1>2, <1>3, <1>4, <1>8, <1>9, <1>10, <1>11, <1>12, <1>13, <1>14,
             <1>15, <1>16, <1>17, <1>18, <1>19, <1>20, <1>21, <1>22
          DEF Next, Thread, Works

(* The history row of a run tells that run's own outcome, as long as no access
   failed, the one-click job did not write over the row the run last wrote, and
   the injection point was a registered step (finish_run). *)
THEOREM HistoryTellsOwn == Spec => []HistoryIsOwn
  <1>1. Init => SlotInv /\ RowInv
    BY DEF Init, SlotInv, OneOpPerPipeline, SlotHeld, Live, RowInv, Asked,
           OwnRow, OnDisk, Shown, NoCheckpoint, NoRequest
  <1>2. TypeOK /\ SlotInv /\ RowInv /\ [Next]_vars => SlotInv' /\ RowInv'
    BY SlotStep, RowStep
  <1>3. RowInv => HistoryIsOwn
    BY DEF RowInv, OwnRow, HistoryIsOwn, Astray
  <1> QED BY <1>1, <1>2, <1>3, TypeCorrect, PTL DEF Spec
=============================================================================
