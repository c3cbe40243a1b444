-------------------------- MODULE MCCheckpointEngine --------------------------
(* Instances of CheckpointEngine for TLC *)
EXTENDS CheckpointEngine

CONSTANTS r1, r2, agent

(* Requests with registered step ids: every mode, injections at the first and
   at a later step, selections with and without a gap *)
ValidRequests ==
  {[mode |-> m, steps |-> {}] : m \in {"full", "resume"}}
    \cup {[mode |-> "inject", steps |-> {k}] : k \in {1, 2}}
    \cup {[mode |-> "selected", steps |-> S] : S \in {{2}, {1, N}}}

(* ... and requests that name a step nobody registered *)
AllRequests ==
  ValidRequests
    \cup {[mode |-> "inject", steps |-> {UnknownStep}],
          [mode |-> "selected", steps |-> {1, UnknownStep}]}

(* Rows of the one-click job: under way, given up before the first step, and
   completed with a step that failed *)
Published(s, f) == [status |-> s, steps |-> f, job |-> TRUE]
OneClickRows ==
  {Published("running", [k \in Steps |-> IF k = 1 THEN "passed"
                                         ELSE IF k = 2 THEN "running" ELSE "pending"]),
   Published("failed", [k \in Steps |-> "pending"]),
   Published("completed", [k \in Steps |-> IF k = 2 THEN "failed" ELSE "passed"])}

TwoRuns == {r1, r2}
OnePipeline == {agent}
=============================================================================
