------------------------------- MODULE LoopBus -------------------------------
(***************************************************************************)
(* SystemEventBus and EventQueuePersistence of loop_engine/event_bus.py,   *)
(* with persistence enabled: emission, retries, dead letters, the worker   *)
(* thread of asynchronous emission, and recovery after a restart.          *)
(*                                                                         *)
(* An event is a number, its event_id; what[i] is its content, from which  *)
(* the dedup key is computed.  Each event is processed by _emit_event in   *)
(* one thread (pc), a caller's or a worker's; a failing handler gets a     *)
(* retry thread of its own (retry).  pending and processed are files; a    *)
(* read of a file that fails is taken for an empty file and a write that   *)
(* fails leaves it as it was, both without a word to the caller.           *)
(* Everything else dies with the process, the subscriptions included.      *)
(***************************************************************************)
EXTENDS Naturals, FiniteSets, FiniteSetsExt

CONSTANTS
  Keys,        \* contents of events
  Subs,        \* handlers, numbered in the order they are called
  SubsOf,      \* the handlers that subscribe to a content
  MaxRetries,  \* max_retries of an event
  None,
  MaxIds, MaxEmits, MaxFailures, MaxRecoveries, MaxFaults
               \* bounds: events, calls of emit, failing handlers, recoveries,
               \* operations on the files that fail

ASSUME BusAssumption ==
  /\ Subs \subseteq Nat \ {0} /\ IsFiniteSet(Subs)
  /\ SubsOf \in [Keys -> SUBSET Subs]
  /\ {MaxRetries, MaxIds, MaxEmits, MaxFailures, MaxRecoveries, MaxFaults} \subseteq Nat

Ids == 1..MaxIds

VARIABLES
  used,      \* number of events constructed
  emits, failures, recoveries, faults,
  built,     \* the constructor of the bus has returned
  subs,      \* _subscriptions: the handlers subscribed
  what,
  pc,        \* where _emit_event is with an event
  matched,   \* the handlers found for an event
  at,        \* the last of them called
  clean,     \* no handler result other than success so far
  tries,     \* event.retry_count, shared by all threads of the event
  retry,     \* of an event and a handler: none, asleep, granted, bump
  loaded,    \* the retry_count a thread has read and is about to increment
  queue,     \* _work_queue: how many events of each content
  working,   \* the events worker threads are emitting
  workers, starting,  \* worker threads; threads that saw _running unset
  seen,      \* _dedup_seen: contents within the dedup window
  pending, processed, \* pending_events.json, processed_events.json
  marked,    \* _processed_ids, in memory
  astray,    \* history: events a failing operation left out of the pending file
  dead,      \* history: dead letters, with the handler that failed
  handled    \* history: successful calls of a handler

emission == <<what, pc, matched, at, clean>>
retrying == <<tries, retry, loaded>>
asynchronous == <<queue, working, workers, starting>>
disk == <<pending, processed, marked, astray>>
bounds == <<used, emits, failures, recoveries>>
bus == <<built, subs>>
vars == <<emission, retrying, asynchronous, disk, bounds, faults, bus, seen, dead, handled>>

Init ==
  /\ used = 0 /\ emits = 0 /\ failures = 0 /\ recoveries = 0 /\ faults = 0
  /\ built = TRUE /\ subs = {}
  /\ what = [i \in Ids |-> None] /\ pc = [i \in Ids |-> "none"]
  /\ matched = [i \in Ids |-> {}]
  /\ at = [i \in Ids |-> 0] /\ clean = [i \in Ids |-> TRUE]
  /\ tries = [i \in Ids |-> 0] /\ loaded = [i \in Ids |-> [s \in Subs |-> 0]]
  /\ retry = [i \in Ids |-> [s \in Subs |-> "none"]]
  /\ queue = [k \in Keys |-> 0] /\ working = {} /\ workers = 0 /\ starting = 0
  /\ seen = {} /\ pending = {} /\ processed = {} /\ marked = {} /\ astray = {}
  /\ dead = {} /\ handled = {}

Left(i) == {s \in matched[i] : s > at[i]}
(* EventQueuePersistence._lock is held across the two files of mark_processed *)
DiskIsFree == \A i \in Ids : pc[i] # "unpend"
Goto(i, l) == pc' = [pc EXCEPT ![i] = l]

(* an operation on the files fails, or does not *)
Fault(b) ==
  IF b THEN faults < MaxFaults /\ faults' = faults + 1 ELSE UNCHANGED faults
(* what _load_pending may return *)
Readings == {pending, {}}
(* due is what the pending file holds if nothing fails *)
Holds(due) == astray' = astray \cup (due \ pending')

-----------------------------------------------------------------------------
(* Subscriptions: on and off *)

Subscribe(s) ==
  /\ built /\ subs' = subs \cup {s}
  /\ UNCHANGED <<built, emission, retrying, asynchronous, disk, bounds, faults, seen, dead, handled>>

Unsubscribe(s) ==
  /\ built /\ subs' = subs \ {s}
  /\ UNCHANGED <<built, emission, retrying, asynchronous, disk, bounds, faults, seen, dead, handled>>

-----------------------------------------------------------------------------
(* Sources of events *)

(* a new event of content k, its thread at the beginning of _emit_event *)
Construct(k) ==
  /\ used < MaxIds
  /\ used' = used + 1
  /\ what' = [what EXCEPT ![used + 1] = k]
  /\ Goto(used + 1, "new")

Emit(k) ==
  /\ built /\ emits < MaxEmits /\ emits' = emits + 1
  /\ Construct(k)
  /\ UNCHANGED <<matched, at, clean, retrying, asynchronous, disk, failures, recoveries, faults,
                 bus, seen, dead, handled>>

(* put, then look at _running without a lock *)
EmitAsync(k) ==
  /\ built /\ emits < MaxEmits /\ emits' = emits + 1
  /\ queue' = [queue EXCEPT ![k] = @ + 1]
  /\ starting' = IF workers = 0 THEN starting + 1 ELSE starting
  /\ UNCHANGED <<emission, retrying, working, workers, disk, used, failures, recoveries, faults,
                 bus, seen, dead, handled>>

StartWorker ==
  /\ starting > 0
  /\ starting' = starting - 1 /\ workers' = workers + 1
  /\ UNCHANGED <<emission, retrying, queue, working, disk, bounds, faults, bus, seen, dead, handled>>

(* mutant of WorkerTakes: an empty queue is not waited for *)
WorkerTakesAnyhow(k) ==
  /\ Cardinality({i \in working : pc[i] # "over"}) < workers
  /\ Construct(k)
  /\ queue' = [queue EXCEPT ![k] = @ - 1]
  /\ working' = {i \in working : pc[i] # "over"} \cup {used + 1}
  /\ UNCHANGED <<matched, at, clean, retrying, workers, starting, disk, emits, failures, recoveries,
                 faults, bus, seen, dead, handled>>

(* _worker_loop: emit() gives the content a new event *)
WorkerTakes(k) ==
  /\ Cardinality({i \in working : pc[i] # "over"}) < workers
  /\ queue[k] > 0
  /\ Construct(k)
  /\ queue' = [queue EXCEPT ![k] = @ - 1]
  /\ working' = {i \in working : pc[i] # "over"} \cup {used + 1}
  /\ UNCHANGED <<matched, at, clean, retrying, workers, starting, disk, emits, failures, recoveries,
                 faults, bus, seen, dead, handled>>

-----------------------------------------------------------------------------
(* _emit_event of event i *)

(* source validation or rate limit *)
Reject(i) ==
  /\ pc[i] = "new"
  /\ dead' = dead \cup {<<i, None>>}
  /\ Goto(i, "over")
  /\ UNCHANGED <<what, matched, at, clean, retrying, asynchronous, disk, bounds, faults, bus, seen, handled>>

(* _is_duplicate *)
Deduplicate(i) ==
  /\ pc[i] = "new"
  /\ seen' = seen \cup {what[i]}
  /\ Goto(i, IF what[i] \in seen THEN "over" ELSE "admitted")
  /\ UNCHANGED <<what, matched, at, clean, retrying, asynchronous, disk, bounds, faults, bus, dead, handled>>

(* a worker started by the constructor reaches _coalescing before it is
   assigned: the emission raises, the worker logs it and goes on *)
Founder(i) ==
  /\ pc[i] = "admitted" /\ ~built
  /\ Goto(i, "over")
  /\ UNCHANGED <<what, matched, at, clean, retrying, asynchronous, disk, bounds, faults, bus, seen, dead, handled>>

(* mutant of SaveEvent: an event with the same content stands for this one *)
SaveOncePerContent(i) ==
  /\ pc[i] = "admitted" /\ built /\ DiskIsFree
  /\ pending' = IF \E j \in pending : what[j] = what[i] THEN pending ELSE pending \cup {i}
  /\ Goto(i, "saved")
  /\ UNCHANGED <<what, matched, at, clean, retrying, asynchronous, processed, marked, astray, bounds, faults,
                 bus, seen, dead, handled>>

SaveEvent(i) ==
  /\ pc[i] = "admitted" /\ built /\ DiskIsFree
  /\ \E found \in Readings : pending' \in {found \cup {i}, pending}
  /\ Holds(pending \cup {i}) /\ Fault(pending' # pending \cup {i})
  /\ Goto(i, "saved")
  /\ UNCHANGED <<what, matched, at, clean, retrying, asynchronous, processed, marked, bounds,
                 bus, seen, dead, handled>>

(* the handlers subscribed at this moment; without any the emission is over *)
Match(i) ==
  /\ pc[i] = "saved"
  /\ matched' = [matched EXCEPT ![i] = SubsOf[what[i]] \cap subs]
  /\ Goto(i, IF SubsOf[what[i]] \cap subs = {} THEN "over" ELSE "handling")
  /\ UNCHANGED <<what, at, clean, retrying, asynchronous, disk, bounds, faults, bus, seen, dead, handled>>

CallSucceeds(i) ==
  /\ pc[i] = "handling" /\ Left(i) # {}
  /\ at' = [at EXCEPT ![i] = Min(Left(i))]
  /\ handled' = handled \cup {<<i, Min(Left(i))>>}
  /\ UNCHANGED <<what, pc, matched, clean, retrying, asynchronous, disk, bounds, faults, bus, seen, dead>>

MayRetry(i) == tries[i] < MaxRetries

(* what a thread does with a failure of handler s: go on to retry, or give up *)
Budget(i, s) ==
  /\ failures < MaxFailures /\ failures' = failures + 1
  /\ dead' = IF MayRetry(i) THEN dead ELSE dead \cup {<<i, s>>}

CallFails(i) ==
  /\ pc[i] = "handling" /\ Left(i) # {}
  /\ LET s == Min(Left(i))
     IN  at' = [at EXCEPT ![i] = s] /\ Budget(i, s)
  /\ clean' = [clean EXCEPT ![i] = FALSE]
  /\ Goto(i, IF MayRetry(i) THEN "granted" ELSE "handling")
  /\ UNCHANGED <<what, matched, retrying, asynchronous, disk, used, emits, recoveries, faults, bus, seen, handled>>

(* retry_count += 1 reads the counter again, after the test, and writes it
   after that; then a retry thread starts *)
Load(i, s) == loaded' = [loaded EXCEPT ![i][s] = tries[i]]
Bump(i, s) ==
  /\ tries' = [tries EXCEPT ![i] = loaded[i][s] + 1]
  /\ retry' = [retry EXCEPT ![i][s] = "asleep"]
  /\ loaded' = [loaded EXCEPT ![i][s] = 0]

LoadCount(i) ==
  /\ pc[i] = "granted"
  /\ Load(i, at[i])
  /\ Goto(i, "bump")
  /\ UNCHANGED <<what, matched, at, clean, tries, retry, asynchronous, disk, bounds, faults, bus, seen, dead, handled>>

ScheduleRetry(i) ==
  /\ pc[i] = "bump"
  /\ Bump(i, at[i])
  /\ Goto(i, "handling")
  /\ UNCHANGED <<what, matched, at, clean, asynchronous, disk, bounds, faults, bus, seen, dead, handled>>

(* mutant of MarkProcessed: one success is enough *)
MarkAnyhow(i) ==
  /\ pc[i] = "handling" /\ Left(i) = {} /\ DiskIsFree
  /\ IF \E s \in Subs : <<i, s>> \in handled
     THEN /\ marked' = marked \cup {i} /\ processed' = processed \cup {i}
          /\ Goto(i, "unpend")
     ELSE Goto(i, "over") /\ UNCHANGED <<marked, processed>>
  /\ UNCHANGED <<what, matched, at, clean, retrying, asynchronous, pending, astray, bounds, faults,
                 bus, seen, dead, handled>>

(* all_success: mark_processed writes the processed ids first *)
MarkProcessed(i) ==
  /\ pc[i] = "handling" /\ Left(i) = {} /\ DiskIsFree
  /\ IF clean[i]
     THEN /\ marked' = marked \cup {i}
          /\ processed' \in {marked \cup {i}, processed}
          /\ Fault(processed' # marked \cup {i})
          /\ Goto(i, "unpend")
     ELSE Goto(i, "over") /\ UNCHANGED <<marked, processed, faults>>
  /\ UNCHANGED <<what, matched, at, clean, retrying, asynchronous, pending, astray, bounds,
                 bus, seen, dead, handled>>

Unpend(i) ==
  /\ pc[i] = "unpend"
  /\ \E found \in Readings : pending' \in {found \ {i}, pending}
  /\ Holds(pending \ {i}) /\ Fault(pending' # pending \ {i})
  /\ Goto(i, "over")
  /\ UNCHANGED <<what, matched, at, clean, retrying, asynchronous, processed, marked, bounds,
                 bus, seen, dead, handled>>

-----------------------------------------------------------------------------
(* The retry thread of event i and handler s, after its second of sleep *)

RetrySucceeds(i, s) ==
  /\ retry[i][s] = "asleep"
  /\ retry' = [retry EXCEPT ![i][s] = "none"]
  /\ handled' = handled \cup {<<i, s>>}
  /\ UNCHANGED <<emission, tries, loaded, asynchronous, disk, bounds, faults, bus, seen, dead>>

(* mutant of RetryFails: the last failure is only logged *)
RetryDrops(i, s) ==
  /\ retry[i][s] = "asleep"
  /\ failures < MaxFailures /\ failures' = failures + 1
  /\ retry' = [retry EXCEPT ![i][s] = IF MayRetry(i) THEN "granted" ELSE "none"]
  /\ UNCHANGED <<emission, tries, loaded, asynchronous, disk, used, emits, recoveries, faults, bus,
                 seen, dead, handled>>

(* mutant of RetryFails: the thread goes on after the dead letter is written *)
RetryGoesOn(i, s) ==
  /\ retry[i][s] = "asleep"
  /\ Budget(i, s)
  /\ retry' = [retry EXCEPT ![i][s] = IF MayRetry(i) THEN "granted" ELSE "asleep"]
  /\ UNCHANGED <<emission, tries, loaded, asynchronous, disk, used, emits, recoveries, faults, bus,
                 seen, handled>>

RetryFails(i, s) ==
  /\ retry[i][s] = "asleep"
  /\ Budget(i, s)
  /\ retry' = [retry EXCEPT ![i][s] = IF MayRetry(i) THEN "granted" ELSE "none"]
  /\ UNCHANGED <<emission, tries, loaded, asynchronous, disk, used, emits, recoveries, faults, bus,
                 seen, handled>>

RetryLoads(i, s) ==
  /\ retry[i][s] = "granted"
  /\ Load(i, s)
  /\ retry' = [retry EXCEPT ![i][s] = "bump"]
  /\ UNCHANGED <<emission, tries, asynchronous, disk, bounds, faults, bus, seen, dead, handled>>

RetryAgain(i, s) ==
  /\ retry[i][s] = "bump"
  /\ Bump(i, s)
  /\ UNCHANGED <<emission, asynchronous, disk, bounds, faults, bus, seen, dead, handled>>

-----------------------------------------------------------------------------
(* Time, and recovery *)

(* the dedup window of a content passes *)
WindowPasses(k) ==
  /\ k \in seen
  /\ seen' = seen \ {k}
  /\ UNCHANGED <<emission, retrying, asynchronous, disk, bounds, faults, bus, dead, handled>>

(* recover_unconsumed, with the file as read and the ids in memory: what it
   returns goes to the queue and stays in the file *)
Recover(found, ids) ==
  /\ recoveries < MaxRecoveries /\ recoveries' = recoveries + 1
  /\ pending' \in {found \ ids, pending}
  /\ Holds(pending \ ids)
Requeued(q, S) == [k \in Keys |-> q[k] + Cardinality({i \in S : what[i] = k})]

(* recover_from_crash, called in the process that is still running *)
RecoverNow ==
  /\ built /\ DiskIsFree
  /\ \E found \in Readings :
       /\ Recover(found, marked)
       /\ Fault(found # pending \/ pending' # found \ marked)
       /\ queue' = Requeued(queue, found \ marked)
       /\ starting' = IF found \ marked # {} /\ workers = 0 THEN starting + 1 ELSE starting
  /\ UNCHANGED <<emission, retrying, working, workers, processed, marked, used, emits, failures,
                 bus, seen, dead, handled>>

(* what a process takes with it *)
Die ==
  /\ starting' = 0 /\ working' = {} /\ subs' = {} /\ built' = FALSE /\ seen' = {}
  /\ pc' = [i \in Ids |-> IF pc[i] = "none" THEN "none" ELSE "lost"]
  /\ retry' = [i \in Ids |-> [s \in Subs |-> "none"]]
  /\ loaded' = [i \in Ids |-> [s \in Subs |-> 0]]
  /\ tries' = [i \in Ids |-> 0] /\ clean' = [i \in Ids |-> TRUE]
  /\ UNCHANGED <<what, matched, at, processed, used, emits, failures, dead, handled>>

(* mutant of Restart: the worker thread is created but not started *)
RestartIdle ==
  /\ \E found \in Readings, ids \in {processed, {}} :
       /\ Recover(found, ids) /\ marked' = ids
       /\ Fault(found # pending \/ ids # processed \/ pending' # found \ ids)
       /\ queue' = Requeued([k \in Keys |-> 0], found \ ids)
       /\ workers' = 0
  /\ Die

(* the process dies at any point; the constructor of the next one recovers
   and starts a worker for what it found *)
Restart ==
  /\ \E found \in Readings, ids \in {processed, {}} :
       /\ Recover(found, ids) /\ marked' = ids
       /\ Fault(found # pending \/ ids # processed \/ pending' # found \ ids)
       /\ queue' = Requeued([k \in Keys |-> 0], found \ ids)
       /\ workers' = IF found \ ids = {} THEN 0 ELSE 1
  /\ Die

(* the constructor assigns _coalescing and returns *)
Build ==
  /\ ~built /\ built' = TRUE
  /\ UNCHANGED <<subs, emission, retrying, asynchronous, disk, bounds, faults, seen, dead, handled>>

-----------------------------------------------------------------------------
Emission(i) ==
  \/ Reject(i) \/ Deduplicate(i) \/ Founder(i) \/ SaveEvent(i) \/ Match(i)
  \/ CallSucceeds(i) \/ CallFails(i) \/ LoadCount(i) \/ ScheduleRetry(i)
  \/ MarkProcessed(i) \/ Unpend(i)
Retry(i, s) == RetrySucceeds(i, s) \/ RetryFails(i, s) \/ RetryLoads(i, s) \/ RetryAgain(i, s)
Worker == StartWorker \/ \E k \in Keys : WorkerTakes(k)

(* steps a thread takes by itself *)
Threads ==
  \/ Worker \/ Build
  \/ \E i \in Ids : Emission(i) \/ \E s \in Subs : Retry(i, s)

Next ==
  \/ \E k \in Keys : Emit(k) \/ EmitAsync(k) \/ WindowPasses(k)
  \/ \E s \in Subs : Subscribe(s) \/ Unsubscribe(s)
  \/ Threads \/ RecoverNow \/ Restart

Spec == Init /\ [][Next]_vars
(* some thread that can go on does; handlers return or raise *)
FairSpec == Spec /\ WF_vars(Threads)

-----------------------------------------------------------------------------
(* Every variable has its type.  retry_count has no upper bound of its own:
   the test against max_retries and the increment are two reads. *)
TypeOK ==
  /\ used \in 0..MaxIds /\ emits \in 0..MaxEmits
  /\ failures \in 0..MaxFailures /\ recoveries \in 0..MaxRecoveries /\ faults \in 0..MaxFaults
  /\ built \in BOOLEAN /\ subs \subseteq Subs
  /\ what \in [Ids -> Keys \cup {None}]
  /\ pc \in [Ids -> {"none", "new", "admitted", "saved", "handling", "granted", "bump", "unpend",
                     "over", "lost"}]
  /\ matched \in [Ids -> SUBSET Subs]
  /\ at \in [Ids -> Subs \cup {0}] /\ clean \in [Ids -> BOOLEAN]
  /\ tries \in [Ids -> Nat] /\ loaded \in [Ids -> [Subs -> Nat]]
  /\ retry \in [Ids -> [Subs -> {"none", "asleep", "granted", "bump"}]]
  /\ queue \in [Keys -> Nat] /\ workers \in Nat /\ starting \in Nat
  /\ working \subseteq Ids /\ seen \subseteq Keys
  /\ pending \subseteq Ids /\ processed \subseteq Ids /\ marked \subseteq Ids /\ astray \subseteq Ids
  /\ dead \subseteq Ids \X (Subs \cup {None}) /\ handled \subseteq Ids \X Subs

(* An event is marked processed, in memory or on disk, only when it had
   handlers, every one of them has succeeded and no thread is still retrying
   it (event_bus.py: all_success). *)
ProcessedIsHandled ==
  \A i \in marked \cup processed :
    /\ matched[i] # {}
    /\ \A s \in matched[i] : <<i, s>> \in handled /\ retry[i][s] = "none"
    /\ ~\E s \in Subs \cup {None} : <<i, s>> \in dead

(* No restart forgets an event: whatever a handler was called for is in the
   pending file until all its handlers have succeeded, unless an operation on
   that file failed without a word (EventQueuePersistence). *)
NothingForgotten ==
  \A i \in Ids : at[i] # 0 =>
    i \in pending \cup astray \/ \A s \in matched[i] : <<i, s>> \in handled

(* A failure is never silently dropped (acceptance matrix, ACC-003): while the
   process lives, a handler whose last call failed is being retried or is
   among the dead letters. *)
FailureIsKept ==
  \A i \in Ids : \A s \in matched[i] :
    /\ pc[i] # "lost" /\ s <= at[i] /\ <<i, s>> \notin handled
    => \/ retry[i][s] # "none"
       \/ pc[i] \in {"granted", "bump"} /\ s = at[i]
       \/ <<i, s>> \in dead

(* What a dead process left in the pending file, not marked, is emitted again
   by the next one, and that emission comes to an end, retries included: each
   handler it finds subscribed has handled it or has it among the dead letters.
   (It may find none, or the constructor unfinished: then the event stays in
   the file.) *)
Answered(i) == \A s \in matched[i] : <<i, s>> \in handled \cup dead
RecoveredIsEmitted ==
  \A i \in Ids, r \in 1..MaxRecoveries :
    pc[i] = "lost" /\ i \in pending \ marked /\ faults = 0 /\ recoveries = r
      ~> \/ recoveries > r
         \/ \E j \in Ids : what[j] = what[i] /\ pc[j] = "over" /\ Answered(j)

(* event_bus.py:945: idempotent, an event that has been processed is not
   delivered again.  An event counts as processed here when its emission has
   returned and every one of its handlers has succeeded. *)
Done(i) == pc[i] = "over" /\ matched[i] # {} /\ \A s \in matched[i] : <<i, s>> \in handled
NoRedelivery ==
  [][recoveries' # recoveries => ~\E i \in pending' : Done(i)]_vars

(* The bus keeps what EventDelivery promises of each event: it is owed from
   the moment it is in the pending file until every handler found for it has
   handled it, wherever the process dies, and only a failing operation on the
   files loses it (event_bus.py: _emit_event, _schedule_retry,
   EventQueuePersistence). *)
Delivery == INSTANCE EventDelivery WITH
  Events <- Ids, content <- what, audience <- matched, owed <- pending,
  lost <- astray, delivered <- handled, letters <- dead
ImplementsDelivery == Delivery!Spec
=============================================================================
