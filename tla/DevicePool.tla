------------------------------ MODULE DevicePool ------------------------------
(***************************************************************************)
(* The HIL device layer: device/registry.py (rows of one sqlite file),     *)
(* allocator.py (acquire, release, expiry), watchdog.py (probing) and      *)
(* pool.py (a task holds a device around its function).                    *)
(*                                                                         *)
(* Every registry call is a transaction of its own, so one action is one   *)
(* call that writes, or one read whose result is used by a later call.     *)
(* A task stands for one acquire ... release: a pool task, a HIL           *)
(* qualification step or a pair of CLI commands.  The allocator's lock     *)
(* belongs to an Allocator object; pool threads share one, every           *)
(* DeviceManager has its own.                                              *)
(***************************************************************************)
EXTENDS Naturals

CONSTANTS
  Devices, Tasks, Allocators, Jobs,
  None,             \* no device, no task, no job
  AllocatorOf,      \* the Allocator object a task acquires through
  JobOf,            \* job_id of a task
  Wants,            \* devices that match a task's platform or preference
  FailThreshold, FaultThreshold,
  WatchdogOn,       \* a DeviceWatchdog runs
  AdminRemoves,     \* an operator may remove devices
  MaxForced,        \* bound: releases an operator forces, and recoveries
  MaxCrashes,       \* bound: deaths of the process of an allocator
  MaxUnplugs        \* bound: boards that stop answering

ASSUME NoneAssumption == None \notin Devices \cup Tasks \cup Jobs
ASSUME TasksAssumption ==
  /\ AllocatorOf \in [Tasks -> Allocators]
  /\ JobOf \in [Tasks -> Jobs]
  /\ Wants \in [Tasks -> SUBSET Devices]
ASSUME ThresholdAssumption ==
  /\ FailThreshold \in Nat \ {0} /\ FaultThreshold \in Nat
  /\ FailThreshold <= FaultThreshold
ASSUME SwitchAssumption ==
  /\ {WatchdogOn, AdminRemoves} \subseteq BOOLEAN
  /\ {MaxForced, MaxCrashes, MaxUnplugs} \subseteq Nat

(* "new": not registered yet; "absent": the row is deleted, and its id never
   comes back; UNKNOWN devices are not allocated, probed or changed by
   anybody but recover(), so an unprobed board is one of these too *)
DeviceState == {"new", "absent", "unknown", "online", "busy", "offline", "fault"}
Device == [state: DeviceState, job: Jobs \cup {None}]
AllocationStatus == {"none", "active", "released", "expired"}
Allocation == [status: AllocationStatus, device: Devices \cup {None}]

VARIABLES
  dev,       \* table devices
  alloc,     \* table allocations: the one of each task
  late,      \* active allocations older than their TTL
  lock,      \* Allocator._lock: its owner
  pc,        \* where a task is
  held,      \* the device handle of a task
  stale,     \* get_active_allocations() as expire_stale iterates over it
  target,    \* the allocation a task is ending
  seen,      \* device state read by release()
  watch,     \* scan_once: rows left, the rows as listed, the device being marked
             \* and the allocation found on it
  fails,     \* _consecutive_failures
  alive,     \* does the board answer a probe
  removing,  \* remove_device past its check
  cli,       \* a `device add --online` or `device release` under way
  forced,    \* forced releases and recoveries so far
  recent,    \* history: failed probes since the last success
  crashes, unplugs

taskVars == <<alloc, late, lock, pc, held, stale, target, seen>>
watchVars == <<watch, fails, recent>>
adminVars == <<removing, cli, forced>>
vars == <<dev, taskVars, watchVars, alive, adminVars, crashes, unplugs>>

NoWatch == [left |-> {}, rows |-> [d \in Devices |-> "absent"],
            device |-> None, to |-> "none", found |-> None, freed |-> FALSE]
NoCommand == [pc |-> "idle", device |-> None, seen |-> "absent", target |-> None]

Active(t) == alloc[t].status = "active"
ActiveOn(d) == {t \in Tasks : Active(t) /\ alloc[t].device = d}
(* Device.is_available *)
IsAvailable(d) == dev[d] = [state |-> "online", job |-> None]
(* A thread that executes *)
Running(t) == pc[t] \notin {"wait", "done", "dead"}

Goto(t, l) == pc' = [pc EXCEPT ![t] = l]
(* update_device_state: nothing happens without a row *)
SetDevice(d, state, job) ==
  dev' = IF dev[d].state = "absent" THEN dev
         ELSE [dev EXCEPT ![d] = [state |-> state, job |-> job]]
EndAllocation(t, status) ==
  alloc' = [alloc EXCEPT ![t].status = status]
Unlock(t) == lock' = [lock EXCEPT ![AllocatorOf[t]] = None]

Init ==
  /\ dev \in [Devices -> [state: {"new", "unknown", "online"}, job: {None}]]
  /\ alloc = [t \in Tasks |-> [status |-> "none", device |-> None]]
  /\ late = {}
  /\ lock = [a \in Allocators |-> None]
  /\ pc = [t \in Tasks |-> "wait"]
  /\ held = [t \in Tasks |-> None]
  /\ stale = [t \in Tasks |-> {}]
  /\ target = [t \in Tasks |-> None]
  /\ seen = [t \in Tasks |-> "absent"]
  /\ watch = NoWatch
  /\ fails = [d \in Devices |-> 0]
  /\ alive = [d \in Devices |-> TRUE]
  /\ removing = None /\ cli = NoCommand /\ forced = 0
  /\ recent = [d \in Devices |-> 0]
  /\ crashes = 0 /\ unplugs = 0

-----------------------------------------------------------------------------
(* _try_acquire, under the allocator's lock *)

(* mutant of BeginAcquire: the lock is forgotten *)
BeginAcquireUnlocked(t) ==
  /\ pc[t] = "wait"
  /\ stale' = [stale EXCEPT ![t] = {u \in Tasks : Active(u)}]
  /\ Goto(t, "expiring")
  /\ UNCHANGED <<dev, alloc, late, lock, held, target, seen, watchVars, alive,
                 adminVars, crashes, unplugs>>

(* take the lock; expire_stale lists the active allocations *)
BeginAcquire(t) ==
  /\ pc[t] = "wait" /\ lock[AllocatorOf[t]] = None
  /\ lock' = [lock EXCEPT ![AllocatorOf[t]] = t]
  /\ stale' = [stale EXCEPT ![t] = {u \in Tasks : Active(u)}]
  /\ Goto(t, "expiring")
  /\ UNCHANGED <<dev, alloc, late, held, target, seen, watchVars, alive,
                 adminVars, crashes, unplugs>>

(* expire_allocation: written whatever the allocation has become meanwhile *)
Expire(t) ==
  /\ pc[t] = "expiring"
  /\ \E u \in stale[t] \cap late :
       /\ EndAllocation(u, "expired")
       /\ stale' = [stale EXCEPT ![t] = @ \ {u}]
       /\ target' = [target EXCEPT ![t] = u]
  /\ Goto(t, "checking")
  /\ UNCHANGED <<dev, late, lock, held, seen, watchVars, alive, adminVars,
                 crashes, unplugs>>

(* get_device, and current_job == alloc.job_id *)
CheckExpired(t) ==
  /\ pc[t] = "checking"
  /\ LET u == target[t] IN
       Goto(t, IF dev[alloc[u].device].job = JobOf[u] THEN "freeing" ELSE "expiring")
  /\ UNCHANGED <<dev, alloc, late, lock, held, stale, target, seen, watchVars,
                 alive, adminVars, crashes, unplugs>>

(* mutant of FreeExpired: the device row is not written *)
FreeNothing(t) ==
  /\ pc[t] = "freeing"
  /\ Goto(t, "expiring")
  /\ UNCHANGED <<dev, alloc, late, lock, held, stale, target, seen, watchVars,
                 alive, adminVars, crashes, unplugs>>

FreeExpired(t) ==
  /\ pc[t] = "freeing"
  /\ SetDevice(alloc[target[t]].device, "online", None)
  /\ Goto(t, "expiring")
  /\ UNCHANGED <<alloc, late, lock, held, stale, target, seen, watchVars,
                 alive, adminVars, crashes, unplugs>>

(* list_devices / get_device: an available device that matches *)
Choose(t) ==
  /\ pc[t] = "expiring" /\ stale[t] \cap late = {}
  /\ \E d \in Wants[t] : IsAvailable(d) /\ held' = [held EXCEPT ![t] = d]
  /\ stale' = [stale EXCEPT ![t] = {}]
  /\ target' = [target EXCEPT ![t] = None]
  /\ Goto(t, "assigning")
  /\ UNCHANGED <<dev, alloc, late, lock, seen, watchVars, alive, adminVars,
                 crashes, unplugs>>

(* no candidate: sleep and retry, or give up when the deadline has passed *)
NothingFree(t) ==
  /\ pc[t] = "expiring" /\ stale[t] \cap late = {}
  /\ \A d \in Wants[t] : ~IsAvailable(d)
  /\ stale' = [stale EXCEPT ![t] = {}]
  /\ target' = [target EXCEPT ![t] = None]
  /\ Unlock(t)
  /\ Goto(t, "wait") \/ Goto(t, "done")
  /\ UNCHANGED <<dev, alloc, late, held, seen, watchVars, alive, adminVars,
                 crashes, unplugs>>

(* _assign: create_allocation ... *)
CreateAllocation(t) ==
  /\ pc[t] = "assigning"
  /\ alloc' = [alloc EXCEPT ![t] = [status |-> "active", device |-> held[t]]]
  /\ Goto(t, "marking")
  /\ UNCHANGED <<dev, late, lock, held, stale, target, seen, watchVars, alive,
                 adminVars, crashes, unplugs>>

(* ... update_device_state(BUSY); leaving the with block gives the lock back *)
MarkBusy(t) ==
  /\ pc[t] = "marking"
  /\ SetDevice(held[t], "busy", JobOf[t])
  /\ Unlock(t)
  /\ Goto(t, "using")
  /\ UNCHANGED <<alloc, late, held, stale, target, seen, watchVars, alive,
                 adminVars, crashes, unplugs>>

-----------------------------------------------------------------------------
(* release, outside any lock; the finally branch of _run_single *)

(* mutant of Finish: an error path around the release *)
FinishKeeps(t) ==
  /\ pc[t] = "using"
  /\ \/ seen' = [seen EXCEPT ![t] = dev[held[t]].state] /\ Goto(t, "looking")
     \/ UNCHANGED seen /\ Goto(t, "done")
  /\ UNCHANGED <<dev, alloc, late, lock, held, stale, target, watchVars, alive,
                 adminVars, crashes, unplugs>>

(* the task's function returned or raised; get_device *)
Finish(t) ==
  /\ pc[t] = "using"
  /\ seen' = [seen EXCEPT ![t] = dev[held[t]].state]
  /\ Goto(t, IF dev[held[t]].state = "absent" THEN "done" ELSE "looking")
  /\ UNCHANGED <<dev, alloc, late, lock, held, stale, target, watchVars, alive,
                 adminVars, crashes, unplugs>>

(* get_allocation_for_device: the first active row, whoever owns it.  Without
   one only a device seen BUSY is returned; somebody else's job raises *)
FindAllocation(t) ==
  /\ pc[t] = "looking"
  /\ \/ /\ ActiveOn(held[t]) = {}
        /\ Goto(t, IF seen[t] = "busy" THEN "returning" ELSE "done")
        /\ UNCHANGED target
     \/ \E u \in ActiveOn(held[t]) :
          \/ /\ JobOf[u] = JobOf[t]
             /\ target' = [target EXCEPT ![t] = u] /\ Goto(t, "ending")
          \/ JobOf[u] # JobOf[t] /\ Goto(t, "done") /\ UNCHANGED target
  /\ seen' = [seen EXCEPT ![t] = "absent"]
  /\ UNCHANGED <<dev, alloc, late, lock, held, stale, watchVars, alive,
                 adminVars, crashes, unplugs>>

(* release_allocation looks at the status again ... *)
CheckOwn(t) ==
  /\ pc[t] = "ending"
  /\ \/ Active(target[t]) /\ Goto(t, "closing") /\ UNCHANGED target
     \/ ~Active(target[t]) /\ Goto(t, "done") /\ target' = [target EXCEPT ![t] = None]
  /\ UNCHANGED <<dev, alloc, late, lock, held, stale, seen, watchVars, alive,
                 adminVars, crashes, unplugs>>

(* ... and updates the row, whatever has become of it *)
EndOwn(t) ==
  /\ pc[t] = "closing"
  /\ EndAllocation(target[t], "released")
  /\ target' = [target EXCEPT ![t] = None]
  /\ Goto(t, "returning")
  /\ UNCHANGED <<dev, late, lock, held, stale, seen, watchVars, alive,
                 adminVars, crashes, unplugs>>

(* mutant of ReturnDevice: the device row is not written *)
ReturnNothing(t) ==
  /\ pc[t] = "returning"
  /\ Goto(t, "done")
  /\ UNCHANGED <<dev, alloc, late, lock, held, stale, target, seen, watchVars, alive,
                 adminVars, crashes, unplugs>>

(* update_device_state(ONLINE), whatever the device has become meanwhile *)
ReturnDevice(t) ==
  /\ pc[t] = "returning"
  /\ SetDevice(held[t], "online", None)
  /\ Goto(t, "done")
  /\ UNCHANGED <<alloc, late, lock, held, stale, target, seen, watchVars, alive,
                 adminVars, crashes, unplugs>>

-----------------------------------------------------------------------------
(* scan_once *)

Probed == {"online", "busy", "offline"}

(* mutant of ListDevices: FAULT devices are probed as well *)
ListAllDevices ==
  /\ WatchdogOn /\ watch.left = {} /\ watch.device = None
  /\ watch' = [NoWatch EXCEPT !.left = {d \in Devices : dev[d].state \in Probed \cup {"fault"}},
                              !.rows = [d \in Devices |-> dev[d].state]]
  /\ UNCHANGED <<dev, taskVars, fails, recent, alive, adminVars, crashes, unplugs>>

(* mutant of ListDevices: a device that is OFFLINE is given up *)
ListOnlineDevices ==
  /\ WatchdogOn /\ watch.left = {} /\ watch.device = None
  /\ watch' = [NoWatch EXCEPT !.left = {d \in Devices : dev[d].state \in {"online", "busy"}},
                              !.rows = [d \in Devices |-> dev[d].state]]
  /\ UNCHANGED <<dev, taskVars, fails, recent, alive, adminVars, crashes, unplugs>>

(* list_devices: the rows the whole scan works on *)
ListDevices ==
  /\ WatchdogOn /\ watch.left = {} /\ watch.device = None
  /\ watch' = [NoWatch EXCEPT !.left = {d \in Devices : dev[d].state \in Probed},
                              !.rows = [d \in Devices |-> dev[d].state]]
  /\ UNCHANGED <<dev, taskVars, fails, recent, alive, adminVars, crashes, unplugs>>

(* mutant of ProbeAlive: the count of consecutive failures is kept *)
ProbeAliveKeepsCount ==
  /\ watch.device = None
  /\ \E d \in watch.left :
       /\ alive[d]
       /\ watch' = [watch EXCEPT !.left = @ \ {d}]
       /\ recent' = [recent EXCEPT ![d] = 0]
       /\ SetDevice(d, IF watch.rows[d] = "offline" THEN "online" ELSE watch.rows[d], None)
  /\ UNCHANGED <<taskVars, fails, alive, adminVars, crashes, unplugs>>

(* A probe answered: the listed state is written back, OFFLINE as ONLINE; both
   calls leave current_job to its default, which clears it *)
ProbeAlive ==
  /\ watch.device = None
  /\ \E d \in watch.left :
       /\ alive[d]
       /\ watch' = [watch EXCEPT !.left = @ \ {d}]
       /\ fails' = [fails EXCEPT ![d] = 0]
       /\ recent' = [recent EXCEPT ![d] = 0]
       /\ SetDevice(d, IF watch.rows[d] = "offline" THEN "online" ELSE watch.rows[d], None)
  /\ UNCHANGED <<taskVars, alive, adminVars, crashes, unplugs>>

Capped(n) == IF n > FaultThreshold THEN FaultThreshold ELSE n

(* mutant of ProbeDead: the count is not written back *)
ProbeDeadForgets ==
  /\ watch.device = None
  /\ \E d \in watch.left :
       /\ ~alive[d]
       /\ recent' = [recent EXCEPT ![d] = Capped(@ + 1)]
       /\ watch' = [watch EXCEPT !.left = @ \ {d}]
  /\ UNCHANGED <<dev, taskVars, fails, alive, adminVars, crashes, unplugs>>

(* A probe failed: count, and decide on OFFLINE or FAULT *)
ProbeDead ==
  /\ watch.device = None
  /\ \E d \in watch.left :
       LET n == Capped(fails[d] + 1) IN
         /\ ~alive[d]
         /\ fails' = [fails EXCEPT ![d] = n]
         /\ recent' = [recent EXCEPT ![d] = Capped(@ + 1)]
         /\ watch' = IF n < FailThreshold
                     THEN [watch EXCEPT !.left = @ \ {d}]
                     ELSE [watch EXCEPT !.left = @ \ {d}, !.device = d, !.freed = FALSE,
                             !.to = IF n >= FaultThreshold THEN "fault" ELSE "offline"]
  /\ UNCHANGED <<dev, taskVars, alive, adminVars, crashes, unplugs>>

(* _release_active_allocation: the allocation found, which release_allocation
   reads again, ... *)
FindSeized ==
  /\ watch.device # None /\ watch.found = None /\ ~watch.freed
  /\ \/ \E u \in ActiveOn(watch.device) : watch' = [watch EXCEPT !.found = u]
     \/ ActiveOn(watch.device) = {} /\ watch' = [watch EXCEPT !.freed = TRUE]
  /\ UNCHANGED <<dev, taskVars, fails, recent, alive, adminVars, crashes, unplugs>>

(* ... and its update, whatever has become of the row *)
SeizeAllocation ==
  /\ watch.found # None
  /\ EndAllocation(watch.found, "released")
  /\ watch' = [watch EXCEPT !.found = None, !.freed = TRUE]
  /\ UNCHANGED <<dev, late, lock, pc, held, stale, target, seen, fails, recent,
                 alive, adminVars, crashes, unplugs>>

(* mutant of MarkDead: the pending mark is reset before it is used *)
MarkDeadResetsFirst ==
  /\ watch.device # None /\ watch.freed
  /\ watch' = [watch EXCEPT !.device = None, !.to = "none", !.freed = FALSE]
  /\ SetDevice(watch.device, watch'.to, None)
  /\ UNCHANGED <<taskVars, fails, recent, alive, adminVars, crashes, unplugs>>

(* _mark_offline / _mark_fault: update_device_state *)
MarkDead ==
  /\ watch.device # None /\ watch.freed
  /\ SetDevice(watch.device, watch.to, None)
  /\ watch' = [watch EXCEPT !.device = None, !.to = "none", !.freed = FALSE]
  /\ UNCHANGED <<taskVars, fails, recent, alive, adminVars, crashes, unplugs>>

(* recover, which an operator calls for any device that has a row: the count is
   dropped, and PutOnline follows *)
Recover(d) ==
  /\ WatchdogOn /\ cli.pc = "idle" /\ dev[d].state \notin {"new", "absent"}
  /\ forced < MaxForced /\ forced' = forced + 1
  /\ fails' = [fails EXCEPT ![d] = 0]
  /\ cli' = [NoCommand EXCEPT !.pc = "returning", !.device = d]
  /\ UNCHANGED <<dev, taskVars, watch, recent, alive, removing, crashes, unplugs>>

(* the watchdog's process dies, and the next one starts with no counts *)
WatchdogDies ==
  /\ WatchdogOn /\ crashes < MaxCrashes /\ crashes' = crashes + 1
  /\ watch' = NoWatch
  /\ fails' = [d \in Devices |-> 0]
  /\ UNCHANGED <<dev, taskVars, recent, alive, adminVars, unplugs>>

-----------------------------------------------------------------------------
(* remove_device: the check ... *)
CheckRemovable(d) ==
  /\ AdminRemoves /\ removing = None
  /\ dev[d].state \notin {"new", "absent"} /\ ActiveOn(d) = {}
  /\ removing' = d
  /\ UNCHANGED <<dev, taskVars, watchVars, alive, cli, forced, crashes, unplugs>>

(* ... and the DELETE *)
Remove ==
  /\ removing # None
  /\ dev' = [dev EXCEPT ![removing] = [state |-> "absent", job |-> None]]
  /\ removing' = None
  /\ UNCHANGED <<taskVars, watchVars, alive, cli, forced, crashes, unplugs>>

(* cmd_device_add: INSERT; with --online a second call follows *)
AddDevice(d) ==
  /\ cli.pc = "idle" /\ dev[d].state = "new"
  /\ dev' = [dev EXCEPT ![d].state = "unknown"]
  /\ \/ cli' = [NoCommand EXCEPT !.pc = "returning", !.device = d]
     \/ UNCHANGED cli
  /\ UNCHANGED <<taskVars, watchVars, alive, removing, forced, crashes, unplugs>>

(* cmd_device_release without --job, from a manager of its own: release() as a
   task runs it, except that it ends the allocation of whatever job it finds *)
BeginForced(d) ==
  /\ cli.pc = "idle" /\ dev[d].state \notin {"new", "absent"}
  /\ forced < MaxForced /\ forced' = forced + 1
  /\ cli' = [NoCommand EXCEPT !.pc = "looking", !.device = d, !.seen = dev[d].state]
  /\ UNCHANGED <<dev, taskVars, watchVars, alive, removing, crashes, unplugs>>

FindForced ==
  /\ cli.pc = "looking"
  /\ \/ \E u \in ActiveOn(cli.device) : cli' = [cli EXCEPT !.pc = "ending", !.target = u, !.seen = "absent"]
     \/ /\ ActiveOn(cli.device) = {}
        /\ cli' = IF cli.seen = "busy"
                   THEN [cli EXCEPT !.pc = "returning", !.seen = "absent"] ELSE NoCommand
  /\ UNCHANGED <<dev, taskVars, watchVars, alive, removing, forced, crashes, unplugs>>

CheckForced ==
  /\ cli.pc = "ending"
  /\ cli' = IF Active(cli.target) THEN [cli EXCEPT !.pc = "closing"] ELSE NoCommand
  /\ UNCHANGED <<dev, taskVars, watchVars, alive, removing, forced, crashes, unplugs>>

EndForced ==
  /\ cli.pc = "closing"
  /\ EndAllocation(cli.target, "released")
  /\ cli' = [cli EXCEPT !.pc = "returning", !.target = None]
  /\ UNCHANGED <<dev, late, lock, pc, held, stale, target, seen, watchVars, alive,
                 removing, forced, crashes, unplugs>>

(* update_device_state(ONLINE), the last call of add --online, of release and of
   recover *)
PutOnline ==
  /\ cli.pc = "returning"
  /\ SetDevice(cli.device, "online", None)
  /\ cli' = NoCommand
  /\ UNCHANGED <<taskVars, watchVars, alive, removing, forced, crashes, unplugs>>

-----------------------------------------------------------------------------
(* Environment *)

(* time: an allocation becomes older than its TTL, its task running or not *)
TtlPasses(t) ==
  /\ Active(t) /\ t \notin late
  /\ late' = late \cup {t}
  /\ UNCHANGED <<dev, alloc, lock, pc, held, stale, target, seen, watchVars, alive,
                 adminVars, crashes, unplugs>>

(* the process of an allocator dies with its threads, what they knew and its
   lock; the tables stay *)
Crash(a) ==
  LET dying == {t \in Tasks : AllocatorOf[t] = a /\ Running(t)}
      Lost(local, nothing) == [t \in Tasks |-> IF t \in dying THEN nothing ELSE local[t]] IN
    /\ crashes < MaxCrashes /\ crashes' = crashes + 1
    /\ pc' = Lost(pc, "dead")
    /\ held' = Lost(held, None) /\ stale' = Lost(stale, {})
    /\ target' = Lost(target, None) /\ seen' = Lost(seen, "absent")
    /\ lock' = [lock EXCEPT ![a] = None]
    /\ UNCHANGED <<dev, alloc, late, watchVars, alive, adminVars, unplugs>>

Unplug(d) ==
  /\ alive[d] /\ unplugs < MaxUnplugs /\ unplugs' = unplugs + 1
  /\ alive' = [alive EXCEPT ![d] = FALSE]
  /\ UNCHANGED <<dev, taskVars, watchVars, adminVars, crashes>>

Replug(d) ==
  /\ ~alive[d]
  /\ alive' = [alive EXCEPT ![d] = TRUE]
  /\ UNCHANGED <<dev, taskVars, watchVars, adminVars, crashes, unplugs>>

-----------------------------------------------------------------------------
Acquire(t) ==
  \/ BeginAcquire(t) \/ Expire(t) \/ CheckExpired(t) \/ FreeExpired(t)
  \/ Choose(t) \/ NothingFree(t) \/ CreateAllocation(t) \/ MarkBusy(t)
Return(t) == FindAllocation(t) \/ CheckOwn(t) \/ EndOwn(t) \/ ReturnDevice(t)
Release(t) == Finish(t) \/ Return(t)
Scan == ListDevices \/ ProbeAlive \/ ProbeDead \/ FindSeized \/ SeizeAllocation \/ MarkDead
Command == FindForced \/ CheckForced \/ EndForced \/ PutOnline
Operator ==
  \/ \E d \in Devices : CheckRemovable(d) \/ AddDevice(d) \/ BeginForced(d)
  \/ Remove \/ Command

Next ==
  \/ \E t \in Tasks : Acquire(t) \/ Release(t) \/ TtlPasses(t)
  \/ Scan \/ WatchdogDies
  \/ \E d \in Devices : Recover(d) \/ Unplug(d) \/ Replug(d)
  \/ Operator
  \/ \E a \in Allocators : Crash(a)

Spec == Init /\ [][Next]_vars

(* Threads are scheduled, the scan is repeated, a command once begun is carried
   out and time passes.  A task's function may hang; operators, crashes and
   boards do what they want *)
FairSpec ==
  /\ Spec
  /\ \A t \in Tasks : WF_vars(Acquire(t)) /\ WF_vars(Return(t)) /\ WF_vars(TtlPasses(t))
  /\ WF_vars(Scan) /\ WF_vars(Command)

-----------------------------------------------------------------------------
TypeOK ==
  /\ dev \in [Devices -> Device]
  /\ alloc \in [Tasks -> Allocation]
  /\ late \in SUBSET Tasks
  /\ lock \in [Allocators -> Tasks \cup {None}]
  /\ pc \in [Tasks -> {"wait", "expiring", "checking", "freeing", "assigning", "marking",
                       "using", "looking", "ending", "closing", "returning", "done", "dead"}]
  /\ held \in [Tasks -> Devices \cup {None}]
  /\ stale \in [Tasks -> SUBSET Tasks]
  /\ target \in [Tasks -> Tasks \cup {None}]
  /\ seen \in [Tasks -> DeviceState]
  /\ watch \in [left: SUBSET Devices, rows: [Devices -> DeviceState],
               device: Devices \cup {None}, to: {"none", "offline", "fault"},
               found: Tasks \cup {None}, freed: BOOLEAN]
  /\ fails \in [Devices -> 0..FaultThreshold]
  /\ recent \in [Devices -> 0..FaultThreshold]
  /\ alive \in [Devices -> BOOLEAN]
  /\ removing \in Devices \cup {None}
  /\ cli \in [pc: {"idle", "looking", "ending", "closing", "returning"}, device: Devices \cup {None},
             seen: DeviceState, target: Tasks \cup {None}]
  /\ forced \in 0..MaxForced
  /\ crashes \in 0..MaxCrashes /\ unplugs \in 0..MaxUnplugs

(* No task has kept its device longer than the TTL it asked for *)
OnTime == \A t \in late : pc[t] = "dead"

(* Two tasks whose allocations are both in force never use the same device,
   unless some task has overrun its TTL: check, allocation and BUSY are one
   critical section, and what a dead task left behind is reclaimed without
   disturbing the device's next user (Allocator._lock, expire_stale).  A forced
   release takes the device from a task that does not know. *)
ExclusiveUse ==
  OnTime /\ forced = 0 =>
    \A t, u \in Tasks :
      /\ pc[t] = "using" /\ pc[u] = "using"
      /\ Active(t) /\ Active(u) /\ held[t] = held[u]
      => t = u

(* Somebody is about to put the device back ONLINE *)
Returning(d) ==
  \/ cli.pc = "returning" /\ cli.device = d
  \/ \E t \in Tasks :
       \/ pc[t] \in {"checking", "freeing"} /\ alloc[target[t]].device = d
       \/ pc[t] = "returning" /\ held[t] = d

(* A task that returns it, whatever the allocation table says *)
Kept(d) ==
  \E t \in Tasks :
    held[t] = d /\ (pc[t] = "using" \/ (pc[t] = "looking" /\ seen[t] = "busy"))

(* A BUSY device is covered by an allocation in force, or on its way back, or
   (its allocation ended by an operator) still with a task that will return
   it: the two tables never agree to forget it, not when an expiry meets a late
   release, and not when a forced release meets the release of the task.  The
   death of a process between two writes can do that, and a forced release
   together with an expiry. *)
BusyIsHeld ==
  crashes = 0 /\ (forced = 0 \/ OnTime) =>
    \A d \in Devices :
      dev[d].state = "busy" =>
        ActiveOn(d) # {} \/ Returning(d) \/ (forced > 0 /\ Kept(d))

(* A device is taken out of service only after the threshold of probes failed
   in a row, whatever tasks, operators and stale listings do (scan_once). *)
SeizedAfterFailures ==
  [][\A d \in Devices :
       /\ dev[d].state \notin {"offline", "fault"}
       /\ dev'[d].state \in {"offline", "fault"}
       => recent[d] >= FailThreshold]_vars

(* A FAULT device stays out of the pool until an operator recovers it; the
   only others to change it are an assignment, a release or an expiry that was
   already past its last read. *)
FaultStays ==
  [][\A d \in Devices : dev[d].state = "fault" /\ dev'[d].state # "fault" =>
       \/ dev'[d].state = "absent"
       \/ Returning(d)
       \/ \E t \in Tasks : held[t] = d /\ pc[t] = "marking"]_vars

(* Every device a task takes comes back when its function returns or raises
   (the finally branch of the pool): in every behaviour in which no process
   dies, no operator forces a release and no task is still at work when its TTL
   passes.  A task that ends without giving its device back breaks it. *)
TakenComesBack ==
  []/\ crashes = 0 /\ forced = 0
    /\ \A t \in late : pc[t] = "done"
  => \A d \in Devices : dev[d].state = "busy" ~> dev[d].state # "busy"

(* Nobody asks for a device any more: tasks hang, died or are done *)
NobodyAsks == \A t \in Tasks : pc[t] \in {"using", "done", "dead"}
Hangs(d) == \E t \in Tasks : pc[t] = "using" /\ held[t] = d

(* And if its task hangs, its process dies or its release is refused, a device
   is reclaimed by the expiry of the TTL as long as anybody asks for one
   (expire_stale runs in acquire only).  It may be lost only if a death, or a
   forced release together with an overrun or a task that hangs, left it BUSY
   with no allocation to expire. *)
LeaseEnds ==
  \A d \in Devices :
    dev[d].state = "busy" ~>
      \/ dev[d].state # "busy"
      \/ NobodyAsks /\ (Hangs(d) \/ ActiveOn(d) # {})
      \/ /\ ActiveOn(d) = {}
         /\ crashes > 0 \/ (forced > 0 /\ (~OnTime \/ Hangs(d)))

(* A board that stops answering leaves the pool, unless it answers again. *)
DeadIsNoticed ==
  \A d \in Devices :
    (~alive[d] /\ dev[d].state = "online") ~> (alive[d] \/ dev[d].state # "online")

(* A board that keeps answering does not stay OFFLINE. *)
OfflineHeals ==
  \A d \in Devices : []<>(dev[d].state # "offline") \/ []<>(~alive[d])

=============================================================================
