------------------------------ MODULE LiveFeed ------------------------------
(***************************************************************************)
(* What the dashboard shows of running pipelines.  A run started by the    *)
(* server publishes its stages on the bus (pipeline/orchestrator.py,       *)
(* api/pipeline.py) and the output of its model calls token by token       *)
(* (llm/streaming.py); a run started on the command line only leaves its   *)
(* session.json.  The browser merges the feed with a poll of the sessions  *)
(* (realtime-store.ts) and shows the model's output in a panel             *)
(* (llm-stream-bus.ts).                                                    *)
(*                                                                         *)
(* Of the store's record of a run the model keeps whether there is one.    *)
(* One run streams, in one step, through one emitter after the other.      *)
(***************************************************************************)
EXTENDS RealtimeBus

CONSTANTS
  Streaming,        \* the run whose output is streamed, or None
  MaxStages,        \* bound: stages of a run
  MaxCalls, MaxAttempts, MaxDeltas
                    \* bounds: model calls, providers tried, deltas of each

ASSUME LiveFeedAssumption ==
  /\ {MaxStages, MaxCalls, MaxDeltas} \subseteq Nat
  /\ MaxAttempts \in Nat \ {0}

Runs == Publishers

VARIABLES
  session,     \* status in session.json: none, created, terminal
  phase,       \* where a run's thread is
  stages,      \* stages begun
  emitter,     \* StepStreamEmitter and its DeltaCoalescer
  board,       \* activeRuns of the store
  previous,    \* prevPollIdsRef
  poll,        \* the answer to a poll on its way, or None
  panel,       \* the panel's StepStream
  missed,      \* history: runs whose end the feed never tells, or told before their start
  resetLost    \* history: numbers of the reset frames that did not reach the panel
               \* and were not made good by a later one

store == <<board, previous, poll>>
ghosts == <<missed, resetLost>>
vars == <<busVars, session, phase, stages, emitter, store, panel, ghosts>>

Deltas == [call: 1..MaxCalls, attempt: 1..MaxAttempts, n: 1..MaxDeltas]
Plain == {"start", "done"}
Frames == {"reset", "chunk", "close"}
PlainBody(kind) == [kind |-> kind, attempt |-> 0, seq |-> 0, text |-> <<>>]
Frame(kind, e, text) == [kind |-> kind, attempt |-> e.attempt, seq |-> e.seq, text |-> text]
FeedBodies == [kind: Plain \cup Frames, attempt: 0..MaxAttempts,
               seq: Nat, text: Seq(Deltas)]

(* kept out of the history: emit_pipeline_llm_delta publishes with ephemeral=True *)
ASSUME FramesAssumption == Frames \subseteq Ephemeral

NoEmitter == [state |-> "none", call |-> 0, attempt |-> 0, seq |-> 0, n |-> 0, buf |-> <<>>]
NoStream == [attempt |-> 0, lastSeq |-> 0, text |-> <<>>, done |-> FALSE]

Init ==
  /\ BusInit
  /\ session = [r \in Runs |-> "none"] /\ phase = [r \in Runs |-> "none"]
  /\ stages = [r \in Runs |-> 0] /\ emitter = NoEmitter
  /\ board = {} /\ previous = {} /\ poll = None
  /\ panel = NoStream
  /\ missed = {} /\ resetLost = {}

Ready(r) == pub[r].step = "idle"
Step(r, a, b) == phase[r] = a /\ phase' = [phase EXCEPT ![r] = b]
Emit(r, body) == MakeEvent(r, body) /\ UNCHANGED <<connection, got, dropped>>
Streams(r) == r = Streaming /\ phase[r] = "running" /\ Ready(r)

-----------------------------------------------------------------------------
(* A run *)

(* PipelineSession is created and saved, by the server or by the command line,
   whose process has a bus of its own that nobody listens to *)
CreateSession(r) ==
  /\ \E by \in {"created", "outside"} : Step(r, "none", by)
  /\ session' = [session EXCEPT ![r] = "created"]
  /\ UNCHANGED <<busVars, stages, emitter, store, panel, ghosts>>

(* stage_start, once for every stage; what is published in between changes
   nothing here *)
StageStart(r) ==
  /\ Step(r, "created", "running") \/ Step(r, "running", "running")
  /\ Ready(r) /\ stages[r] < MaxStages /\ (r = Streaming => emitter.state = "none")
  /\ stages' = [stages EXCEPT ![r] = @ + 1]
  /\ Emit(r, PlainBody("start"))
  /\ UNCHANGED <<session, emitter, store, panel, ghosts>>

(* run_pipeline saves the terminal status; an exception nobody expected leaves
   the session as it is *)
EndSession(r) ==
  /\ Step(r, "created", "ended") \/ Step(r, "running", "ended") \/ Step(r, "outside", "over")
  /\ Ready(r) /\ (r = Streaming => emitter.state = "none")
  /\ \/ session' = [session EXCEPT ![r] = "terminal"]
     \/ UNCHANGED session
  /\ UNCHANGED <<busVars, stages, emitter, store, panel, ghosts>>

(* _publish_orchestrator_checkpoint *)
RunDone(r) ==
  /\ Step(r, "ended", "over")
  /\ Emit(r, PlainBody("done"))
  /\ UNCHANGED <<session, stages, emitter, store, panel, ghosts>>

(* publish_state raised: run_done is not published *)
RunDoneFails(r) ==
  /\ Step(r, "ended", "over")
  /\ missed' = missed \cup {r}
  /\ UNCHANGED <<busVars, session, stages, emitter, store, panel, resetLost>>

-----------------------------------------------------------------------------
(* StepStreamEmitter: a call of the model, its providers one after the other *)

(* emitter_for_current_step, and on_stream_start of the first provider or of the next *)
StreamStart(r) ==
  /\ Streams(r)
  /\ \/ emitter.state = "none" /\ emitter.call < MaxCalls
        /\ emitter' = [NoEmitter EXCEPT !.state = "open", !.call = emitter.call + 1, !.attempt = 1]
     \/ emitter.state = "open" /\ emitter.attempt < MaxAttempts
        /\ emitter' = [emitter EXCEPT !.attempt = @ + 1, !.n = 0, !.buf = <<>>]
  /\ Emit(r, Frame("reset", emitter', <<>>))
  /\ UNCHANGED <<session, phase, stages, store, panel, ghosts>>

Delta == [call |-> emitter.call, attempt |-> emitter.attempt, n |-> emitter.n + 1]

(* on_chunk: the delta stays in the buffer, or the buffer is due *)
Buffer(r) ==
  /\ Streams(r) /\ emitter.state = "open" /\ emitter.n < MaxDeltas
  /\ emitter' = [emitter EXCEPT !.n = @ + 1, !.buf = Append(@, Delta)]
  /\ UNCHANGED <<busVars, session, phase, stages, store, panel, ghosts>>

Chunk(r) ==
  /\ Streams(r) /\ emitter.state = "open" /\ emitter.n < MaxDeltas
  /\ emitter' = [emitter EXCEPT !.n = @ + 1, !.seq = @ + 1, !.buf = <<>>]
  /\ Emit(r, Frame("chunk", emitter', Append(emitter.buf, Delta)))
  /\ UNCHANGED <<session, phase, stages, store, panel, ghosts>>

(* close: flush the buffer ... *)
CloseFlush(r) ==
  /\ Streams(r) /\ emitter.state = "open" /\ emitter.buf # <<>>
  /\ emitter' = [emitter EXCEPT !.state = "closing", !.seq = @ + 1, !.buf = <<>>]
  /\ Emit(r, Frame("chunk", emitter', emitter.buf))
  /\ UNCHANGED <<session, phase, stages, store, panel, ghosts>>

(* ... and tell the end *)
CloseDone(r) ==
  /\ Streams(r)
  /\ emitter.state # "none" /\ (emitter.state = "open" => emitter.buf = <<>>)
  /\ emitter' = [NoEmitter EXCEPT !.call = emitter.call]
  /\ Emit(r, Frame("close", emitter, <<>>))
  /\ UNCHANGED <<session, phase, stages, store, panel, ghosts>>

(* no provider of the call streams: only its end is told, of attempt 1 *)
CloseSilent(r) ==
  /\ Streams(r) /\ emitter.state = "none" /\ emitter.call < MaxCalls
  /\ emitter' = [NoEmitter EXCEPT !.call = emitter.call + 1]
  /\ Emit(r, Frame("close", [NoEmitter EXCEPT !.attempt = 1], <<>>))
  /\ UNCHANGED <<session, phase, stages, store, panel, ghosts>>

-----------------------------------------------------------------------------
(* publish, and what it means for the history variables *)

(* on the way to the browser, and lost when the connection breaks *)
OnTheWay == ToSet(queue) \cup ToSet(replay) \cup {pub[p].event : p \in {x \in Publishers : pub[x].to}}
(* the events of S will not reach the browser *)
Forget(S) ==
  /\ missed' = missed \cup {e.by : e \in {x \in S : x.body.kind \in {"start", "done"}}}
  /\ resetLost' = resetLost \cup {e.id : e \in {x \in S : x.body.kind = "reset"}}

RecordEvent(r) ==
  /\ Record(r)
  /\ Forget((ToSet(history) \cup {pub[r].event}) \
              (ToSet(history') \cup got \cup OnTheWay \cup (IF Subscribed THEN {pub[r].event} ELSE {})))
  /\ UNCHANGED <<session, phase, stages, emitter, store, panel>>

EnqueueEvent(r) ==
  /\ Enqueue(r)
  /\ IF pub[r].to /\ Full THEN Forget({pub[r].event}) ELSE UNCHANGED ghosts
  /\ UNCHANGED <<session, phase, stages, emitter, store, panel>>

-----------------------------------------------------------------------------
(* The connection *)

(* events the browser will not ask for, or that the replay drops *)
Unasked == {e \in ToSet(history) : e.id <= from /\ e \notin got}

Connect == Subscribe /\ UNCHANGED <<session, phase, stages, emitter, store, panel, ghosts>>

ReplayEvents ==
  /\ \/ ReadHistory /\ Forget(Unasked)
     \/ Replay /\ Forget(IF Full THEN ToSet(replay) ELSE {})
     \/ Open /\ UNCHANGED ghosts
  /\ UNCHANGED <<session, phase, stages, emitter, store, panel>>

(* what is in the history is sent again, the frames of the panel are not *)
LoseConnection ==
  /\ Disconnect
  /\ Forget(OnTheWay \ ToSet(history))
  /\ UNCHANGED <<session, phase, stages, emitter, store, panel>>

(* mutant of Applied: the text of another attempt is kept *)
AppliedOver(f) ==
  IF f.kind = "chunk" /\ panel.attempt = f.attempt /\ f.seq <= panel.lastSeq THEN panel
  ELSE [panel EXCEPT !.attempt = f.attempt, !.text = @ \o f.text,
                     !.done = @ \/ f.kind = "close",
                     !.lastSeq = IF f.kind # "close" /\ f.seq > @ THEN f.seq ELSE @]

(* applyDelta *)
Applied(f) ==
  LET changed == panel.attempt # f.attempt
      base == IF changed \/ f.kind = "reset" THEN [NoStream EXCEPT !.attempt = f.attempt]
              ELSE panel
  IN  IF f.kind = "chunk" /\ ~changed /\ f.seq <= panel.lastSeq THEN panel
      ELSE [base EXCEPT !.text = @ \o f.text,
                        !.done = @ \/ f.kind = "close",
                        !.lastSeq = IF f.kind # "close" /\ f.seq > @ THEN f.seq ELSE @]

(* reducer: pipeline_stage_start, pipeline_run_done; the others only change a
   run that is there *)
Reduced(b, e) ==
  CASE e.body.kind = "start" -> b \cup {e.by}
    [] e.body.kind = "done" -> b \ {e.by}
    [] OTHER -> b

HandleEvent ==
  /\ Deliver
  /\ LET e == Head(queue) IN
       /\ board' = Reduced(board, e)
       /\ panel' = IF e.body.kind \in Frames THEN Applied(e.body) ELSE panel
       /\ missed' = IF e.body.kind = "start" /\ \E d \in got : d.by = e.by /\ d.body.kind = "done"
                    THEN missed \cup {e.by} ELSE missed
       /\ resetLost' = IF e.body.kind = "reset" THEN {n \in resetLost : n > e.id} ELSE resetLost
  /\ UNCHANGED <<session, phase, stages, emitter, previous, poll>>

-----------------------------------------------------------------------------
(* The poll *)

Unfinished == {r \in Runs : session[r] = "created"}

(* GET /api/v1/pipeline/status reads the sessions one by one; one that is just
   being rewritten cannot be parsed and is left out; a poll that fails is as if
   it had not been *)
PollReads ==
  /\ poll = None
  /\ \E torn \in SUBSET {r \in Unfinished : phase[r] # "over"} : poll' = Unfinished \ torn
  /\ UNCHANGED <<busVars, session, phase, stages, emitter, board, previous, panel, ghosts>>

(* mutant of Done: only what the last poll still lists *)
DoneStill(p) == {r \in previous : r \in p}
(* the runs a poll says are over *)
Done(p) == {r \in previous : r \notin p}

(* tick: runs of the last poll that are not in this one are done *)
PollApplies ==
  /\ poll # None
  /\ board' = (board \ Done(poll)) \cup poll
  /\ previous' = poll /\ poll' = None
  /\ UNCHANGED <<busVars, session, phase, stages, emitter, panel, ghosts>>

-----------------------------------------------------------------------------
(* The server is restarted: its threads end where they are *)
Restart ==
  /\ Reboot
  /\ phase' = [r \in Runs |-> IF phase[r] \in {"none", "outside"} THEN phase[r] ELSE "over"]
  /\ emitter' = [NoEmitter EXCEPT !.call = emitter.call]
  /\ poll' = None
  /\ missed' = missed \cup {r \in Runs : phase[r] \notin {"none", "outside"} /\
                              ~\E e \in got : e.by = r /\ e.body.kind = "done"}
  /\ UNCHANGED <<session, stages, board, previous, panel, resetLost>>

-----------------------------------------------------------------------------
Stream(r) == StreamStart(r) \/ Buffer(r) \/ Chunk(r) \/ CloseFlush(r) \/ CloseDone(r)
             \/ CloseSilent(r)
Run(r) == \/ CreateSession(r) \/ StageStart(r)
          \/ EndSession(r) \/ RunDone(r) \/ RunDoneFails(r) \/ Stream(r)
PublishEvent(r) == RecordEvent(r) \/ EnqueueEvent(r)

Next ==
  \/ \E r \in Runs : Run(r)
  \/ \E r \in Publishers : PublishEvent(r)
  \/ Connect \/ ReplayEvents \/ HandleEvent \/ LoseConnection
  \/ PollReads \/ PollApplies
  \/ Restart

Spec == Init /\ [][Next]_vars

(* publish() and the handler run on, the browser reconnects, and polls, of
   which not every one fails; runs and the network do what they want *)
FairSpec ==
  /\ Spec
  /\ \A r \in Publishers : WF_vars(PublishEvent(r)) /\ WF_vars(RunDone(r) \/ RunDoneFails(r))
  /\ WF_vars(Connect) /\ WF_vars(ReplayEvents) /\ WF_vars(HandleEvent)
  /\ WF_vars(PollReads) /\ WF_vars(PollApplies)

-----------------------------------------------------------------------------
TypeOK ==
  /\ BusTypeOK
  /\ session \in [Runs -> {"none", "created", "terminal"}]
  /\ phase \in [Runs -> {"none", "created", "outside", "running", "ended", "over"}]
  /\ stages \in [Runs -> 0..MaxStages]
  /\ emitter.state \in {"none", "open", "closing"}
  /\ emitter.call \in 0..MaxCalls /\ emitter.attempt \in 0..MaxAttempts
  /\ emitter.n \in 0..MaxDeltas /\ emitter.buf \in Seq(Deltas)
  /\ board \subseteq Runs /\ previous \subseteq Runs
  /\ poll = None \/ poll \subseteq Runs
  /\ panel.attempt \in 0..MaxAttempts /\ panel.text \in Seq(Deltas) /\ panel.done \in BOOLEAN
  /\ missed \subseteq Runs /\ resetLost \subseteq 1..MaxIds

(* The panel never mixes two answers: its text is made of deltas of one attempt
   of one call, each once and in their order, whatever frames a slow or broken
   connection has lost, as long as every reset frame arrived or a later one did
   (applyDelta). *)
PanelIsOneAnswer ==
  resetLost = {} =>
    \A i, j \in DOMAIN panel.text : i < j =>
      /\ panel.text[i].call = panel.text[j].call
      /\ panel.text[i].attempt = panel.text[j].attempt
      /\ panel.text[i].n < panel.text[j].n

(* A run whose end is on disk leaves the board for good, whether its events
   overtake the poll or the poll the events, unless the feed has lost one of
   its events (realtime-store.ts: run_done of the feed and of the poll). *)
BoardSettles ==
  \A r \in Runs :
    (session[r] = "terminal") ~> ([](r \notin board) \/ r \in missed)
=============================================================================
