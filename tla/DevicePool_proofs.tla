--------------------------- MODULE DevicePool_proofs ---------------------------
(***************************************************************************)
(* Theorems about DevicePool for every set of devices, tasks and           *)
(* allocators and every bound.                                             *)
(*                                                                         *)
(* The invariant is in layers: types and the handles that point into the   *)
(* tables; the watchdog's counts; and, for tasks that share one allocator  *)
(* without a watchdog, who a device belongs to and what covers a BUSY one. *)
(***************************************************************************)
EXTENDS DevicePool, TLAPS

Allocated == {t \in Tasks : alloc[t].status # "none"}
HoldingPc == {"assigning", "marking", "using", "looking", "ending", "closing", "returning"}
Holding(t) == pc[t] \in HoldingPc

(* What a handle points to is there. *)
TaskHandles ==
  \A t \in Tasks :
    /\ Holding(t) => held[t] \in Devices
    /\ alloc[t].status # "none" => alloc[t].device \in Devices
    /\ stale[t] \subseteq Allocated
    /\ pc[t] \in {"checking", "freeing"} => target[t] \in late
    /\ pc[t] \in {"ending", "closing"} => target[t] \in Allocated
    /\ t \in late => t \in Allocated
OtherHandles ==
  /\ cli.pc # "idle" => cli.device \in Devices
  /\ cli.pc \in {"ending", "closing"} => cli.target \in Allocated
  /\ watch.found # None => watch.found \in Allocated
  /\ watch.device # None => watch.to \in {"offline", "fault"}
TypeInv == TypeOK /\ TaskHandles /\ OtherHandles

-----------------------------------------------------------------------------
(* Types *)

(* TypeOK, in parts *)
DevTyped == dev \in [Devices -> Device]
AllocTyped == alloc \in [Tasks -> Allocation] /\ late \in SUBSET Tasks
TaskTyped ==
  /\ lock \in [Allocators -> Tasks \cup {None}]
  /\ pc \in [Tasks -> {"wait", "expiring", "checking", "freeing", "assigning", "marking",
                       "using", "looking", "ending", "closing", "returning", "done", "dead"}]
  /\ held \in [Tasks -> Devices \cup {None}]
  /\ stale \in [Tasks -> SUBSET Tasks]
  /\ target \in [Tasks -> Tasks \cup {None}]
  /\ seen \in [Tasks -> DeviceState]
WatchTyped ==
  /\ watch \in [left: SUBSET Devices, rows: [Devices -> DeviceState],
               device: Devices \cup {None}, to: {"none", "offline", "fault"},
               found: Tasks \cup {None}, freed: BOOLEAN]
  /\ fails \in [Devices -> 0..FaultThreshold]
  /\ recent \in [Devices -> 0..FaultThreshold]
AdminTyped ==
  /\ removing \in Devices \cup {None}
  /\ cli \in [pc: {"idle", "looking", "ending", "closing", "returning"}, device: Devices \cup {None},
             seen: DeviceState, target: Tasks \cup {None}]
  /\ forced \in 0..MaxForced
WorldTyped ==
  /\ alive \in [Devices -> BOOLEAN]
  /\ crashes \in 0..MaxCrashes /\ unplugs \in 0..MaxUnplugs

(* What update_device_state writes. *)
LEMMA SetDeviceWrites ==
  ASSUME dev \in [Devices -> Device], NEW d, NEW state \in DeviceState,
         NEW job \in Jobs \cup {None}, SetDevice(d, state, job)
  PROVE  /\ dev' \in [Devices -> Device]
         /\ \A e \in Devices :
              dev'[e] = IF e = d /\ dev[d].state # "absent"
                        THEN [state |-> state, job |-> job] ELSE dev[e]
  BY DEF SetDevice, Device

(* Ending an allocation leaves it in the table. *)
LEMMA EndKeepsHandles ==
  ASSUME AllocTyped, TaskTyped, TaskHandles, NEW t \in Allocated,
         NEW status \in AllocationStatus \ {"none"}, EndAllocation(t, status)
  PROVE  /\ alloc' \in [Tasks -> Allocation]
         /\ Allocated' = Allocated
         /\ \A u \in Tasks : alloc'[u].device = alloc[u].device
  BY DEF EndAllocation, Allocation, AllocationStatus, AllocTyped, TaskHandles, Allocated

LEMMA EndAllocationWrites ==
  ASSUME alloc \in [Tasks -> Allocation], NEW t \in Tasks,
         NEW status \in AllocationStatus, EndAllocation(t, status)
  PROVE  /\ alloc' \in [Tasks -> Allocation]
         /\ \A u \in Tasks : /\ alloc'[u].device = alloc[u].device
                             /\ alloc'[u].status = IF u = t THEN status ELSE alloc[u].status
  BY DEF EndAllocation, Allocation

(* The fields of a command, and a command made of typed ones. *)
LEMMA CommandIs ==
  ASSUME AdminTyped
  PROVE  /\ cli = [pc |-> cli.pc, device |-> cli.device, seen |-> cli.seen, target |-> cli.target]
         /\ cli.device \in Devices \cup {None} /\ cli.seen \in DeviceState
         /\ cli.target \in Tasks \cup {None}
  BY DEF AdminTyped

LEMMA CommandTyped ==
  ASSUME AdminTyped, UNCHANGED <<removing, forced>>,
         NEW l \in {"idle", "looking", "ending", "closing", "returning"}, NEW d \in Devices \cup {None},
         NEW s \in DeviceState, NEW t \in Tasks \cup {None},
         cli' = [pc |-> l, device |-> d, seen |-> s, target |-> t]
  PROVE  AdminTyped'
  BY DEF AdminTyped

LEMMA InitTypes == Init => TypeInv
  <1> SUFFICES ASSUME Init PROVE TypeInv
    OBVIOUS
  <1> USE DEF Init, TypeInv
  <1>1. TypeOK
    BY ThresholdAssumption, SwitchAssumption
       DEF TypeOK, NoWatch, NoCommand, Device, DeviceState, Allocation, AllocationStatus,
           ThresholdAssumption, SwitchAssumption
  <1>2. TaskHandles
    BY DEF TaskHandles, Holding, HoldingPc, Allocated
  <1>3. OtherHandles
    BY DEF OtherHandles, NoWatch, NoCommand
  <1> QED BY <1>1, <1>2, <1>3

LEMMA TypeParts ==
  TypeOK <=> DevTyped /\ AllocTyped /\ TaskTyped /\ WatchTyped /\ AdminTyped /\ WorldTyped
  BY DEF TypeOK, DevTyped, AllocTyped, TaskTyped, WatchTyped, AdminTyped, WorldTyped

LEMMA StepTypes == TypeInv /\ [Next]_vars => TypeInv'
  <1> SUFFICES ASSUME TypeInv, [Next]_vars PROVE TypeInv'
    OBVIOUS
  <1>0. DevTyped /\ AllocTyped /\ TaskTyped /\ WatchTyped /\ AdminTyped /\ WorldTyped
    BY TypeParts DEF TypeInv
  <1> DEFINE Goal ==
        /\ DevTyped' /\ AllocTyped' /\ TaskTyped' /\ WatchTyped' /\ AdminTyped' /\ WorldTyped'
        /\ TaskHandles' /\ OtherHandles'
  <1> SUFFICES Goal
    BY TypeParts, PTL DEF TypeInv
  <1> USE SwitchAssumption, ThresholdAssumption, TasksAssumption
      DEF SwitchAssumption, ThresholdAssumption, TasksAssumption, taskVars, watchVars, adminVars
  <1>1. ASSUME NEW t \in Tasks, BeginAcquire(t) PROVE Goal
    <2>1. DevTyped' /\ AllocTyped' /\ WatchTyped' /\ AdminTyped' /\ WorldTyped'
      BY <1>0, <1>1 DEF BeginAcquire, DevTyped, AllocTyped, WatchTyped, AdminTyped, WorldTyped
    <2>2. TaskTyped'
      BY <1>0, <1>1 DEF BeginAcquire, Goto, TaskTyped
    <2>3. TaskHandles'
      BY <1>0, <1>1 DEF TypeInv, TaskHandles, Holding, HoldingPc, Allocated, BeginAcquire, Goto,
         Active
    <2>4. OtherHandles'
      BY <1>0, <1>1 DEF TypeInv, OtherHandles, Allocated, BeginAcquire
    <2> QED BY <2>1, <2>2, <2>3, <2>4
  <1>2. ASSUME NEW t \in Tasks, Expire(t) PROVE Goal
    <2>1. DevTyped' /\ WatchTyped' /\ AdminTyped' /\ WorldTyped'
      BY <1>0, <1>2 DEF Expire, DevTyped, WatchTyped, AdminTyped, WorldTyped
    <2>2. AllocTyped'
      BY <1>0, <1>2, EndAllocationWrites DEF Expire, AllocTyped, AllocationStatus
    <2>3. TaskTyped'
      BY <1>0, <1>2 DEF Expire, Goto, TaskTyped
    <2>4. TaskHandles'
      <3>1. PICK u \in stale[t] \cap late :
              /\ EndAllocation(u, "expired")
              /\ stale' = [stale EXCEPT ![t] = @ \ {u}] /\ target' = [target EXCEPT ![t] = u]
        BY <1>2 DEF Expire
      <3>2. u \in Allocated
        BY <1>0, <3>1 DEF TypeInv, TaskHandles
      <3>3. Allocated' = Allocated /\ \A v \in Tasks : alloc'[v].device = alloc[v].device
        BY <1>0, <3>1, <3>2, EndKeepsHandles DEF TypeInv, AllocationStatus
      <3> QED
        BY <1>0, <1>2, <3>1, <3>2, <3>3 DEF TypeInv, TaskHandles, Holding, HoldingPc, Allocated,
           TaskTyped, Expire, Goto
    <2>5. OtherHandles'
      BY <1>0, <1>2, EndAllocationWrites DEF TypeInv, OtherHandles, Allocated, AllocTyped, Expire,
         AllocationStatus
    <2> QED BY <2>1, <2>2, <2>3, <2>4, <2>5
  <1>3. ASSUME NEW t \in Tasks, CheckExpired(t) PROVE Goal
    <2>1. DevTyped' /\ AllocTyped' /\ WatchTyped' /\ AdminTyped' /\ WorldTyped'
      BY <1>0, <1>3 DEF CheckExpired, DevTyped, AllocTyped, WatchTyped, AdminTyped, WorldTyped
    <2>2. TaskTyped'
      BY <1>0, <1>3 DEF CheckExpired, Goto, TaskTyped
    <2>3. TaskHandles'
      BY <1>0, <1>3 DEF TypeInv, TaskHandles, Holding, HoldingPc, Allocated, CheckExpired, Goto
    <2>4. OtherHandles'
      BY <1>0, <1>3 DEF TypeInv, OtherHandles, Allocated, CheckExpired
    <2> QED BY <2>1, <2>2, <2>3, <2>4
  <1>4. ASSUME NEW t \in Tasks, FreeExpired(t) PROVE Goal
    <2>1. AllocTyped' /\ WatchTyped' /\ AdminTyped' /\ WorldTyped'
      BY <1>0, <1>4 DEF FreeExpired, AllocTyped, WatchTyped, AdminTyped, WorldTyped
    <2>2. DevTyped'
      BY <1>0, <1>4, SetDeviceWrites DEF FreeExpired, DevTyped, DeviceState
    <2>3. TaskTyped'
      BY <1>0, <1>4 DEF FreeExpired, Goto, TaskTyped
    <2>4. TaskHandles'
      BY <1>0, <1>4 DEF TypeInv, TaskHandles, Holding, HoldingPc, Allocated, FreeExpired, Goto
    <2>5. OtherHandles'
      BY <1>0, <1>4 DEF TypeInv, OtherHandles, Allocated, FreeExpired
    <2> QED BY <2>1, <2>2, <2>3, <2>4, <2>5
  <1>5. ASSUME NEW t \in Tasks, Choose(t) PROVE Goal
    <2>1. DevTyped' /\ AllocTyped' /\ WatchTyped' /\ AdminTyped' /\ WorldTyped'
      BY <1>0, <1>5 DEF Choose, DevTyped, AllocTyped, WatchTyped, AdminTyped, WorldTyped
    <2>2. TaskTyped'
      BY <1>0, <1>5 DEF Choose, Goto, TaskTyped
    <2>3. TaskHandles'
      BY <1>0, <1>5 DEF TypeInv, TaskHandles, Holding, Allocated, TaskTyped, Choose, Goto
    <2>4. OtherHandles'
      BY <1>0, <1>5 DEF TypeInv, OtherHandles, Allocated, Choose
    <2> QED BY <2>1, <2>2, <2>3, <2>4
  <1>6. ASSUME NEW t \in Tasks, NothingFree(t) PROVE Goal
    <2>1. DevTyped' /\ AllocTyped' /\ WatchTyped' /\ AdminTyped' /\ WorldTyped'
      BY <1>0, <1>6 DEF NothingFree, DevTyped, AllocTyped, WatchTyped, AdminTyped, WorldTyped
    <2>2. TaskTyped'
      BY <1>0, <1>6 DEF NothingFree, Goto, Unlock, TaskTyped
    <2>3. TaskHandles'
      BY <1>0, <1>6 DEF TypeInv, TaskHandles, Holding, HoldingPc, Allocated, TaskTyped, NothingFree,
         Goto
    <2>4. OtherHandles'
      BY <1>0, <1>6 DEF TypeInv, OtherHandles, Allocated, NothingFree
    <2> QED BY <2>1, <2>2, <2>3, <2>4
  <1>7. ASSUME NEW t \in Tasks, CreateAllocation(t) PROVE Goal
    <2>1. DevTyped' /\ WatchTyped' /\ AdminTyped' /\ WorldTyped'
      BY <1>0, <1>7 DEF CreateAllocation, DevTyped, WatchTyped, AdminTyped, WorldTyped
    <2>2. AllocTyped'
      BY <1>0, <1>7, EndAllocationWrites DEF CreateAllocation, AllocTyped, Allocation,
         AllocationStatus, TypeInv, TaskHandles, Holding, HoldingPc
    <2>3. TaskTyped'
      BY <1>0, <1>7 DEF CreateAllocation, Goto, TaskTyped
    <2>4. TaskHandles'
      BY <1>0, <1>7, EndAllocationWrites DEF TypeInv, TaskHandles, Holding, HoldingPc, Allocated,
         CreateAllocation, Goto
    <2>5. OtherHandles'
      BY <1>0, <1>7, EndAllocationWrites DEF TypeInv, OtherHandles, Allocated, CreateAllocation
    <2> QED BY <2>1, <2>2, <2>3, <2>4, <2>5
  <1>8. ASSUME NEW t \in Tasks, MarkBusy(t) PROVE Goal
    <2>1. AllocTyped' /\ WatchTyped' /\ AdminTyped' /\ WorldTyped'
      BY <1>0, <1>8 DEF MarkBusy, AllocTyped, WatchTyped, AdminTyped, WorldTyped
    <2>2. DevTyped'
      BY <1>0, <1>8, SetDeviceWrites DEF MarkBusy, DevTyped, DeviceState
    <2>3. TaskTyped'
      BY <1>0, <1>8 DEF MarkBusy, Goto, Unlock, TaskTyped
    <2>4. TaskHandles'
      BY <1>0, <1>8 DEF TypeInv, TaskHandles, Holding, HoldingPc, Allocated, MarkBusy, Goto
    <2>5. OtherHandles'
      BY <1>0, <1>8 DEF TypeInv, OtherHandles, Allocated, MarkBusy
    <2> QED BY <2>1, <2>2, <2>3, <2>4, <2>5
  <1>9. ASSUME NEW t \in Tasks, Finish(t) PROVE Goal
    <2>1. DevTyped' /\ AllocTyped' /\ WatchTyped' /\ AdminTyped' /\ WorldTyped'
      BY <1>0, <1>9 DEF Finish, DevTyped, AllocTyped, WatchTyped, AdminTyped, WorldTyped
    <2>2. TaskTyped'
      BY <1>0, <1>9 DEF Finish, Goto, TaskTyped, DevTyped, Device, TypeInv, TaskHandles, Holding,
         HoldingPc
    <2>3. TaskHandles'
      BY <1>0, <1>9 DEF TypeInv, TaskHandles, Holding, HoldingPc, Allocated, Finish, Goto
    <2>4. OtherHandles'
      BY <1>0, <1>9 DEF TypeInv, OtherHandles, Allocated, Finish
    <2> QED BY <2>1, <2>2, <2>3, <2>4
  <1>10. ASSUME NEW t \in Tasks, FindAllocation(t) PROVE Goal
    <2>1. DevTyped' /\ AllocTyped' /\ WatchTyped' /\ AdminTyped' /\ WorldTyped'
      BY <1>0, <1>10 DEF FindAllocation, DevTyped, AllocTyped, WatchTyped, AdminTyped, WorldTyped
    <2>2. TaskTyped'
      <3>1. pc' \in [Tasks -> {"wait", "expiring", "checking", "freeing", "assigning", "marking",
                              "using", "looking", "ending", "closing", "returning", "done", "dead"}]
        <4>1. PICK l \in {"returning", "done", "ending"} : Goto(t, l)
          BY <1>10 DEF FindAllocation
        <4> QED BY <1>0, <4>1 DEF Goto, TaskTyped
      <3>2. target' \in [Tasks -> Tasks \cup {None}]
        <4>1. target' = target \/ \E u \in Tasks : target' = [target EXCEPT ![t] = u]
          BY <1>10 DEF FindAllocation, ActiveOn
        <4> QED BY <1>0, <4>1 DEF TaskTyped
      <3>3. seen' \in [Tasks -> DeviceState]
        BY <1>0, <1>10 DEF FindAllocation, TaskTyped, DeviceState
      <3> QED BY <1>0, <1>10, <3>1, <3>2, <3>3 DEF FindAllocation, TaskTyped
    <2>3. TaskHandles'
      BY <1>0, <1>10 DEF TypeInv, TaskHandles, Holding, HoldingPc, Allocated, TaskTyped,
         FindAllocation, Goto, ActiveOn, Active
    <2>4. OtherHandles'
      BY <1>0, <1>10 DEF TypeInv, OtherHandles, Allocated, FindAllocation
    <2> QED BY <2>1, <2>2, <2>3, <2>4
  <1>31. ASSUME NEW t \in Tasks, CheckOwn(t) PROVE Goal
    <2>1. DevTyped' /\ AllocTyped' /\ WatchTyped' /\ AdminTyped' /\ WorldTyped'
      BY <1>0, <1>31 DEF CheckOwn, DevTyped, AllocTyped, WatchTyped, AdminTyped, WorldTyped
    <2>2. TaskTyped'
      BY <1>0, <1>31 DEF CheckOwn, Goto, TaskTyped
    <2>3. TaskHandles'
      BY <1>0, <1>31 DEF TypeInv, TaskHandles, Holding, HoldingPc, Allocated, TaskTyped, CheckOwn, Goto
    <2>4. OtherHandles'
      BY <1>0, <1>31 DEF TypeInv, OtherHandles, Allocated, CheckOwn
    <2> QED BY <2>1, <2>2, <2>3, <2>4
  <1>11. ASSUME NEW t \in Tasks, EndOwn(t) PROVE Goal
    <2>1. DevTyped' /\ WatchTyped' /\ AdminTyped' /\ WorldTyped'
      BY <1>0, <1>11 DEF EndOwn, DevTyped, WatchTyped, AdminTyped, WorldTyped
    <2>9. /\ alloc' \in [Tasks -> Allocation] /\ Allocated' = Allocated
         /\ \A v \in Tasks : alloc'[v].device = alloc[v].device
      BY <1>0, <1>11, EndKeepsHandles DEF TypeInv, TaskHandles, AllocationStatus, EndOwn
    <2>2. AllocTyped'
      BY <1>0, <1>11, <2>9 DEF EndOwn, AllocTyped
    <2>3. TaskTyped'
      BY <1>0, <1>11 DEF EndOwn, Goto, TaskTyped
    <2>4. TaskHandles'
      BY <1>0, <1>11, <2>9 DEF TypeInv, TaskHandles, Holding, HoldingPc, Allocated, TaskTyped,
         EndOwn, Goto
    <2>5. OtherHandles'
      BY <1>0, <1>11, <2>9 DEF TypeInv, OtherHandles, EndOwn
    <2> QED BY <2>1, <2>2, <2>3, <2>4, <2>5
  <1>12. ASSUME NEW t \in Tasks, ReturnDevice(t) PROVE Goal
    <2>1. AllocTyped' /\ WatchTyped' /\ AdminTyped' /\ WorldTyped'
      BY <1>0, <1>12 DEF ReturnDevice, AllocTyped, WatchTyped, AdminTyped, WorldTyped
    <2>2. DevTyped'
      BY <1>0, <1>12, SetDeviceWrites DEF ReturnDevice, DevTyped, DeviceState
    <2>3. TaskTyped'
      BY <1>0, <1>12 DEF ReturnDevice, Goto, TaskTyped
    <2>4. TaskHandles'
      BY <1>0, <1>12 DEF TypeInv, TaskHandles, Holding, HoldingPc, Allocated, ReturnDevice, Goto
    <2>5. OtherHandles'
      BY <1>0, <1>12 DEF TypeInv, OtherHandles, Allocated, ReturnDevice
    <2> QED BY <2>1, <2>2, <2>3, <2>4, <2>5
  <1>13. ASSUME NEW t \in Tasks, TtlPasses(t) PROVE Goal
    <2>1. DevTyped' /\ TaskTyped' /\ WatchTyped' /\ AdminTyped' /\ WorldTyped'
      BY <1>0, <1>13 DEF TtlPasses, DevTyped, TaskTyped, WatchTyped, AdminTyped, WorldTyped
    <2>2. AllocTyped'
      BY <1>0, <1>13, EndAllocationWrites DEF TtlPasses, AllocTyped
    <2>3. TaskHandles'
      BY <1>0, <1>13, EndAllocationWrites DEF TypeInv, TaskHandles, Holding, Allocated, TtlPasses,
         Active
    <2>4. OtherHandles'
      BY <1>0, <1>13, EndAllocationWrites DEF TypeInv, OtherHandles, Allocated, TtlPasses
    <2> QED BY <2>1, <2>2, <2>3, <2>4
  <1>14. ASSUME ListDevices PROVE Goal
    <2>1. DevTyped' /\ AllocTyped' /\ TaskTyped' /\ AdminTyped' /\ WorldTyped'
      BY <1>0, <1>14 DEF ListDevices, DevTyped, AllocTyped, TaskTyped, AdminTyped, WorldTyped
    <2>2. WatchTyped'
      BY <1>0, <1>14 DEF ListDevices, NoWatch, WatchTyped, DevTyped, Device
    <2>3. TaskHandles'
      BY <1>0, <1>14 DEF TypeInv, TaskHandles, Holding, Allocated, ListDevices
    <2>4. OtherHandles'
      BY <1>0, <1>14 DEF TypeInv, OtherHandles, Allocated, ListDevices, NoWatch
    <2> QED BY <2>1, <2>2, <2>3, <2>4
  <1>15. ASSUME ProbeAlive PROVE Goal
    <2>1. AllocTyped' /\ TaskTyped' /\ AdminTyped' /\ WorldTyped'
      BY <1>0, <1>15 DEF ProbeAlive, AllocTyped, TaskTyped, AdminTyped, WorldTyped
    <2>2. DevTyped'
      <3>1. PICK d \in watch.left :
              SetDevice(d, IF watch.rows[d] = "offline" THEN "online" ELSE watch.rows[d], None)
        BY <1>15 DEF ProbeAlive
      <3>2. watch.rows[d] \in DeviceState /\ "online" \in DeviceState
        BY <1>0, <3>1 DEF WatchTyped, DeviceState
      <3> QED BY <1>0, <3>1, <3>2, SetDeviceWrites DEF DevTyped
    <2>3. WatchTyped'
      BY <1>0, <1>15 DEF ProbeAlive, WatchTyped
    <2>4. TaskHandles'
      BY <1>0, <1>15 DEF TypeInv, TaskHandles, Holding, Allocated, ProbeAlive
    <2>5. OtherHandles'
      BY <1>0, <1>15 DEF TypeInv, OtherHandles, Allocated, ProbeAlive
    <2> QED BY <2>1, <2>2, <2>3, <2>4, <2>5
  <1>16. ASSUME ProbeDead PROVE Goal
    <2>1. DevTyped' /\ AllocTyped' /\ TaskTyped' /\ AdminTyped' /\ WorldTyped'
      BY <1>0, <1>16 DEF ProbeDead, DevTyped, AllocTyped, TaskTyped, AdminTyped, WorldTyped
    <2>2. WatchTyped'
      <3> USE DEF WatchTyped
      <3>1. PICK d \in watch.left :
              /\ fails' = [fails EXCEPT ![d] = Capped(fails[d] + 1)]
              /\ recent' = [recent EXCEPT ![d] = Capped(@ + 1)]
              /\ watch' = IF Capped(fails[d] + 1) < FailThreshold
                          THEN [watch EXCEPT !.left = @ \ {d}]
                          ELSE [watch EXCEPT !.left = @ \ {d}, !.device = d, !.freed = FALSE,
                                  !.to = IF Capped(fails[d] + 1) >= FaultThreshold THEN "fault" ELSE "offline"]
        BY <1>16 DEF ProbeDead
      <3>2. d \in Devices /\ fails[d] \in 0..FaultThreshold /\ recent[d] \in 0..FaultThreshold
        BY <1>0, <3>1
      <3>3. \A n \in 0..FaultThreshold : Capped(n + 1) \in 0..FaultThreshold
        BY DEF Capped
      <3>4. fails' \in [Devices -> 0..FaultThreshold] /\ recent' \in [Devices -> 0..FaultThreshold]
        BY <1>0, <3>1, <3>2, <3>3
      <3>5. watch' \in [left: SUBSET Devices, rows: [Devices -> DeviceState],
                        device: Devices \cup {None}, to: {"none", "offline", "fault"},
                        found: Tasks \cup {None}, freed: BOOLEAN]
        BY <1>0, <3>1, <3>2
      <3> QED BY <3>4, <3>5
    <2>3. TaskHandles'
      BY <1>0, <1>16 DEF TypeInv, TaskHandles, Holding, Allocated, ProbeDead
    <2>4. OtherHandles'
      BY <1>0, <1>16 DEF TypeInv, OtherHandles, Allocated, ProbeDead
    <2> QED BY <2>1, <2>2, <2>3, <2>4
  <1>32. ASSUME FindSeized PROVE Goal
    <2>1. DevTyped' /\ AllocTyped' /\ TaskTyped' /\ AdminTyped' /\ WorldTyped'
      BY <1>0, <1>32 DEF FindSeized, DevTyped, AllocTyped, TaskTyped, AdminTyped, WorldTyped
    <2>2. WatchTyped'
      BY <1>0, <1>32 DEF FindSeized, ActiveOn, WatchTyped
    <2>3. TaskHandles'
      BY <1>0, <1>32 DEF TypeInv, TaskHandles, Holding, Allocated, FindSeized
    <2>4. OtherHandles'
      BY <1>0, <1>32 DEF TypeInv, OtherHandles, Allocated, FindSeized, ActiveOn, Active, WatchTyped
    <2> QED BY <2>1, <2>2, <2>3, <2>4
  <1>17. ASSUME SeizeAllocation PROVE Goal
    <2>1. DevTyped' /\ TaskTyped' /\ AdminTyped' /\ WorldTyped'
      BY <1>0, <1>17 DEF SeizeAllocation, DevTyped, TaskTyped, AdminTyped, WorldTyped
    <2>9. /\ alloc' \in [Tasks -> Allocation] /\ Allocated' = Allocated
         /\ \A v \in Tasks : alloc'[v].device = alloc[v].device
      BY <1>0, <1>17, EndKeepsHandles DEF TypeInv, OtherHandles, AllocationStatus, SeizeAllocation
    <2>2. AllocTyped'
      BY <1>0, <1>17, <2>9 DEF SeizeAllocation, AllocTyped
    <2>3. WatchTyped'
      BY <1>0, <1>17 DEF SeizeAllocation, WatchTyped
    <2>4. TaskHandles'
      BY <1>0, <1>17, <2>9 DEF TypeInv, TaskHandles, Holding, Allocated, SeizeAllocation
    <2>5. OtherHandles'
      BY <1>0, <1>17, <2>9 DEF TypeInv, OtherHandles, SeizeAllocation, WatchTyped
    <2> QED BY <2>1, <2>2, <2>3, <2>4, <2>5
  <1>18. ASSUME MarkDead PROVE Goal
    <2>1. AllocTyped' /\ TaskTyped' /\ AdminTyped' /\ WorldTyped'
      BY <1>0, <1>18 DEF MarkDead, AllocTyped, TaskTyped, AdminTyped, WorldTyped
    <2>2. DevTyped'
      <3>1. watch.to \in DeviceState /\ SetDevice(watch.device, watch.to, None)
        BY <1>0, <1>18 DEF TypeInv, OtherHandles, DeviceState, MarkDead
      <3> QED BY <1>0, <3>1, SetDeviceWrites DEF DevTyped
    <2>3. WatchTyped'
      BY <1>0, <1>18 DEF MarkDead, WatchTyped
    <2>4. TaskHandles'
      BY <1>0, <1>18 DEF TypeInv, TaskHandles, Holding, Allocated, MarkDead
    <2>5. OtherHandles'
      BY <1>0, <1>18 DEF TypeInv, OtherHandles, Allocated, MarkDead
    <2> QED BY <2>1, <2>2, <2>3, <2>4, <2>5
  <1>19. ASSUME NEW d \in Devices, Recover(d) PROVE Goal
    <2>1. DevTyped' /\ AllocTyped' /\ TaskTyped' /\ WorldTyped'
      BY <1>0, <1>19 DEF Recover, DevTyped, AllocTyped, TaskTyped, WorldTyped
    <2>2. AdminTyped'
      <3>1. cli' = [pc |-> "returning", device |-> d, seen |-> "absent", target |-> None]
        BY <1>19 DEF Recover, NoCommand
      <3>2. forced' \in 0..MaxForced /\ removing' = removing /\ "absent" \in DeviceState
        BY <1>0, <1>19 DEF Recover, AdminTyped, DeviceState
      <3> HIDE SwitchAssumption, ThresholdAssumption, TasksAssumption
      <3> QED BY <1>0, <3>1, <3>2 DEF AdminTyped
    <2>3. WatchTyped'
      BY <1>0, <1>19 DEF Recover, WatchTyped
    <2>4. TaskHandles'
      BY <1>0, <1>19 DEF TypeInv, TaskHandles, Holding, Allocated, Recover
    <2>5. OtherHandles'
      BY <1>0, <1>19 DEF TypeInv, OtherHandles, Allocated, Recover, NoCommand
    <2> QED BY <2>1, <2>2, <2>3, <2>4, <2>5
  <1>33. ASSUME WatchdogDies PROVE Goal
    <2>1. DevTyped' /\ AllocTyped' /\ TaskTyped' /\ AdminTyped'
      BY <1>0, <1>33 DEF WatchdogDies, DevTyped, AllocTyped, TaskTyped, AdminTyped
    <2>2. WatchTyped'
      BY <1>0, <1>33 DEF WatchdogDies, NoWatch, WatchTyped, DeviceState
    <2>3. WorldTyped'
      BY <1>0, <1>33 DEF WatchdogDies, WorldTyped
    <2>4. TaskHandles'
      BY <1>0, <1>33 DEF TypeInv, TaskHandles, Holding, Allocated, WatchdogDies
    <2>5. OtherHandles'
      BY <1>0, <1>33 DEF TypeInv, OtherHandles, Allocated, WatchdogDies, NoWatch
    <2> QED BY <2>1, <2>2, <2>3, <2>4, <2>5
  <1>20. ASSUME NEW d \in Devices, CheckRemovable(d) PROVE Goal
    <2>1. DevTyped' /\ AllocTyped' /\ TaskTyped' /\ WatchTyped' /\ WorldTyped'
      BY <1>0, <1>20 DEF CheckRemovable, DevTyped, AllocTyped, TaskTyped, WatchTyped, WorldTyped
    <2>2. AdminTyped'
      BY <1>0, <1>20 DEF CheckRemovable, AdminTyped
    <2>3. TaskHandles'
      BY <1>0, <1>20 DEF TypeInv, TaskHandles, Holding, Allocated, CheckRemovable
    <2>4. OtherHandles'
      BY <1>0, <1>20 DEF TypeInv, OtherHandles, Allocated, CheckRemovable
    <2> QED BY <2>1, <2>2, <2>3, <2>4
  <1>21. ASSUME Remove PROVE Goal
    <2>1. AllocTyped' /\ TaskTyped' /\ WatchTyped' /\ WorldTyped'
      BY <1>0, <1>21 DEF Remove, AllocTyped, TaskTyped, WatchTyped, WorldTyped
    <2>2. DevTyped'
      BY <1>0, <1>21, SetDeviceWrites DEF Remove, DevTyped, Device, DeviceState
    <2>3. AdminTyped'
      BY <1>0, <1>21 DEF Remove, AdminTyped
    <2>4. TaskHandles'
      BY <1>0, <1>21 DEF TypeInv, TaskHandles, Holding, Allocated, Remove
    <2>5. OtherHandles'
      BY <1>0, <1>21 DEF TypeInv, OtherHandles, Allocated, Remove
    <2> QED BY <2>1, <2>2, <2>3, <2>4, <2>5
  <1>22. ASSUME NEW d \in Devices, AddDevice(d) PROVE Goal
    <2>1. AllocTyped' /\ TaskTyped' /\ WatchTyped' /\ WorldTyped'
      BY <1>0, <1>22 DEF AddDevice, AllocTyped, TaskTyped, WatchTyped, WorldTyped
    <2>2. DevTyped'
      BY <1>0, <1>22 DEF AddDevice, DevTyped, Device, DeviceState
    <2>3. AdminTyped'
      BY <1>0, <1>22 DEF AddDevice, NoCommand, AdminTyped, DeviceState
    <2>4. TaskHandles'
      BY <1>0, <1>22 DEF TypeInv, TaskHandles, Holding, Allocated, AddDevice
    <2>5. OtherHandles'
      BY <1>0, <1>22 DEF TypeInv, OtherHandles, Allocated, AddDevice, NoCommand
    <2> QED BY <2>1, <2>2, <2>3, <2>4, <2>5
  <1>23. ASSUME NEW d \in Devices, BeginForced(d) PROVE Goal
    <2>1. DevTyped' /\ AllocTyped' /\ TaskTyped' /\ WatchTyped' /\ WorldTyped'
      BY <1>0, <1>23 DEF BeginForced, DevTyped, AllocTyped, TaskTyped, WatchTyped, WorldTyped
    <2>2. AdminTyped'
      <3>1. dev[d].state \in DeviceState
        BY <1>0 DEF DevTyped, Device
      <3>2. cli' = [pc |-> "looking", device |-> d, seen |-> dev[d].state, target |-> None]
        BY <1>23 DEF BeginForced, NoCommand
      <3>3. forced' \in 0..MaxForced /\ removing' = removing
        BY <1>0, <1>23 DEF BeginForced, AdminTyped
      <3> HIDE SwitchAssumption, ThresholdAssumption, TasksAssumption
      <3> QED BY <1>0, <3>1, <3>2, <3>3 DEF AdminTyped
    <2>3. TaskHandles'
      BY <1>0, <1>23 DEF TypeInv, TaskHandles, Holding, Allocated, BeginForced
    <2>4. OtherHandles'
      BY <1>0, <1>23 DEF TypeInv, OtherHandles, Allocated, BeginForced
    <2> QED BY <2>1, <2>2, <2>3, <2>4
  <1>24. ASSUME FindForced PROVE Goal
    <2>9. /\ cli.pc = "looking"
          /\ \/ \E u \in Allocated :
                   cli' = [pc |-> "ending", device |-> cli.device, seen |-> "absent", target |-> u]
             \/ cli' = [pc |-> "returning", device |-> cli.device, seen |-> "absent", target |-> cli.target]
             \/ cli' = [pc |-> "idle", device |-> None, seen |-> "absent", target |-> None]
          /\ UNCHANGED <<alloc, watch, removing, forced>>
      BY <1>0, <1>24, CommandIs DEF FindForced, ActiveOn, Active, Allocated, NoCommand
    <2>1. DevTyped' /\ AllocTyped' /\ TaskTyped' /\ WatchTyped' /\ WorldTyped'
      BY <1>0, <1>24 DEF FindForced, DevTyped, AllocTyped, TaskTyped, WatchTyped, WorldTyped
    <2>2. AdminTyped'
      BY <1>0, <2>9, CommandIs, CommandTyped DEF Allocated, DeviceState
    <2>3. TaskHandles'
      BY <1>0, <1>24 DEF TypeInv, TaskHandles, Holding, Allocated, FindForced
    <2>4. OtherHandles'
      BY <2>9 DEF TypeInv, OtherHandles, Allocated
    <2> QED BY <2>1, <2>2, <2>3, <2>4
  <1>34. ASSUME CheckForced PROVE Goal
    <2>9. /\ cli.pc = "ending"
          /\ \/ cli' = [pc |-> "closing", device |-> cli.device, seen |-> cli.seen, target |-> cli.target]
             \/ cli' = [pc |-> "idle", device |-> None, seen |-> "absent", target |-> None]
          /\ UNCHANGED <<alloc, watch, removing, forced>>
      BY <1>0, <1>34, CommandIs DEF CheckForced, NoCommand
    <2>1. DevTyped' /\ AllocTyped' /\ TaskTyped' /\ WatchTyped' /\ WorldTyped'
      BY <1>0, <1>34 DEF CheckForced, DevTyped, AllocTyped, TaskTyped, WatchTyped, WorldTyped
    <2>2. AdminTyped'
      BY <1>0, <2>9, CommandIs, CommandTyped DEF DeviceState
    <2>3. TaskHandles'
      BY <1>0, <1>34 DEF TypeInv, TaskHandles, Holding, Allocated, CheckForced
    <2>4. OtherHandles'
      BY <2>9 DEF TypeInv, OtherHandles, Allocated
    <2> QED BY <2>1, <2>2, <2>3, <2>4
  <1>25. ASSUME EndForced PROVE Goal
    <2>8. /\ cli.pc = "closing"
          /\ cli' = [pc |-> "returning", device |-> cli.device, seen |-> cli.seen, target |-> None]
          /\ UNCHANGED <<dev, watch, removing, forced>>
      BY <1>0, <1>25, CommandIs DEF EndForced
    <2>1. DevTyped' /\ TaskTyped' /\ WatchTyped' /\ WorldTyped'
      BY <1>0, <1>25 DEF EndForced, DevTyped, TaskTyped, WatchTyped, WorldTyped
    <2>9. /\ alloc' \in [Tasks -> Allocation] /\ Allocated' = Allocated
         /\ \A v \in Tasks : alloc'[v].device = alloc[v].device
      BY <1>0, <1>25, EndKeepsHandles DEF TypeInv, OtherHandles, AllocationStatus, EndForced
    <2>2. AllocTyped'
      BY <1>0, <1>25, <2>9 DEF EndForced, AllocTyped
    <2>3. AdminTyped'
      BY <1>0, <2>8, CommandIs, CommandTyped DEF DeviceState
    <2>4. TaskHandles'
      BY <1>0, <1>25, <2>9 DEF TypeInv, TaskHandles, Holding, Allocated, EndForced
    <2>5. OtherHandles'
      BY <2>8, <2>9 DEF TypeInv, OtherHandles
    <2> QED BY <2>1, <2>2, <2>3, <2>4, <2>5
  <1>26. ASSUME PutOnline PROVE Goal
    <2>1. AllocTyped' /\ TaskTyped' /\ WatchTyped' /\ WorldTyped'
      BY <1>0, <1>26 DEF PutOnline, AllocTyped, TaskTyped, WatchTyped, WorldTyped
    <2>2. DevTyped'
      BY <1>0, <1>26, SetDeviceWrites DEF PutOnline, DevTyped, DeviceState
    <2>3. AdminTyped'
      BY <1>0, <1>26 DEF PutOnline, NoCommand, AdminTyped, DeviceState
    <2>4. TaskHandles'
      BY <1>0, <1>26 DEF TypeInv, TaskHandles, Holding, Allocated, PutOnline
    <2>5. OtherHandles'
      BY <1>0, <1>26 DEF TypeInv, OtherHandles, Allocated, PutOnline, NoCommand
    <2> QED BY <2>1, <2>2, <2>3, <2>4, <2>5
  <1>27. ASSUME NEW a \in Allocators, Crash(a) PROVE Goal
    <2>1. DevTyped' /\ AllocTyped' /\ WatchTyped' /\ AdminTyped'
      BY <1>0, <1>27 DEF Crash, DevTyped, AllocTyped, WatchTyped, AdminTyped
    <2>2. TaskTyped'
      BY <1>0, <1>27 DEF Crash, TaskTyped, DeviceState
    <2>3. WorldTyped'
      BY <1>0, <1>27 DEF Crash, WorldTyped
    <2>4. TaskHandles'
      BY <1>0, <1>27 DEF TypeInv, TaskHandles, Holding, HoldingPc, Allocated, Crash
    <2>5. OtherHandles'
      BY <1>0, <1>27 DEF TypeInv, OtherHandles, Allocated, Crash
    <2> QED BY <2>1, <2>2, <2>3, <2>4, <2>5
  <1>28. ASSUME NEW d \in Devices, Unplug(d) PROVE Goal
    <2>1. DevTyped' /\ AllocTyped' /\ TaskTyped' /\ WatchTyped' /\ AdminTyped'
      BY <1>0, <1>28 DEF Unplug, DevTyped, AllocTyped, TaskTyped, WatchTyped, AdminTyped
    <2>2. WorldTyped'
      BY <1>0, <1>28 DEF Unplug, WorldTyped
    <2>3. TaskHandles'
      BY <1>0, <1>28 DEF TypeInv, TaskHandles, Holding, Allocated, Unplug
    <2>4. OtherHandles'
      BY <1>0, <1>28 DEF TypeInv, OtherHandles, Allocated, Unplug
    <2> QED BY <2>1, <2>2, <2>3, <2>4
  <1>29. ASSUME NEW d \in Devices, Replug(d) PROVE Goal
    <2>1. DevTyped' /\ AllocTyped' /\ TaskTyped' /\ WatchTyped' /\ AdminTyped'
      BY <1>0, <1>29 DEF Replug, DevTyped, AllocTyped, TaskTyped, WatchTyped, AdminTyped
    <2>2. WorldTyped'
      BY <1>0, <1>29 DEF Replug, WorldTyped
    <2>3. TaskHandles'
      BY <1>0, <1>29 DEF TypeInv, TaskHandles, Holding, Allocated, Replug
    <2>4. OtherHandles'
      BY <1>0, <1>29 DEF TypeInv, OtherHandles, Allocated, Replug
    <2> QED BY <2>1, <2>2, <2>3, <2>4
  <1>30. CASE UNCHANGED vars
    BY <1>0, <1>30 DEF TypeInv, vars, DevTyped, AllocTyped, TaskTyped, WatchTyped, AdminTyped,
       WorldTyped, TaskHandles, OtherHandles, Holding, Allocated
  <1> QED
    BY <1>1, <1>2, <1>3, <1>4, <1>5, <1>6, <1>7, <1>8, <1>9, <1>10, <1>11, <1>12, <1>13, <1>14,
       <1>15, <1>16, <1>17, <1>18, <1>19, <1>20, <1>21, <1>22, <1>23, <1>24, <1>25, <1>26, <1>27,
       <1>28, <1>29, <1>30, <1>31, <1>32, <1>33, <1>34
       DEF Next, Acquire, Release, Return, Scan, Operator, Command

(* Every value stays in its range, and what a handle points to is there: an
   allocation that is ended, a device that is marked or returned. *)
THEOREM TypeCorrect == Spec => []TypeOK
  <1>1. Spec => []TypeInv
    BY InitTypes, StepTypes, PTL DEF Spec
  <1> QED BY <1>1, PTL DEF TypeInv

-----------------------------------------------------------------------------
(* The watchdog *)

(* The counter of the watchdog never exceeds the failures in a row. *)
FailsAreRecent == \A d \in Devices : fails[d] <= recent[d]
(* What is left of a scan was listed in a state that is written back. *)
ListedAreProbed ==
  \A d \in watch.left : watch.rows[d] \in Probed /\ dev[d].state # "fault"
(* A device about to be marked has failed often enough. *)
MarkIsEarned ==
  watch.device # None =>
    /\ recent[watch.device] >= FailThreshold
    /\ watch.device \notin watch.left /\ dev[watch.device].state # "fault"
WatchInv == FailsAreRecent /\ ListedAreProbed /\ MarkIsEarned

(* Who may write a FAULT device. *)
MayTakeBack(d) ==
  \/ dev'[d].state = "absent"
  \/ Returning(d)
  \/ \E t \in Tasks : held[t] = d /\ pc[t] = "marking"

(* What a step that is not the watchdog's does to a device. *)
PoolWrites ==
  \A d \in Devices :
    \/ dev'[d] = dev[d]
    \/ /\ dev'[d].state \notin {"offline", "fault"}
       /\ dev[d].state = "fault" => MayTakeBack(d)

(* The same of one update_device_state. *)
LEMMA OneWrite ==
  ASSUME DevTyped, NEW d, NEW state \in DeviceState \ {"offline", "fault"},
         NEW job \in Jobs \cup {None}, SetDevice(d, state, job),
         d \in Devices => MayTakeBack(d)
  PROVE  PoolWrites
  <1> SUFFICES ASSUME NEW e \in Devices
               PROVE  \/ dev'[e] = dev[e]
                      \/ /\ dev'[e].state \notin {"offline", "fault"}
                         /\ dev[e].state = "fault" => MayTakeBack(e)
    BY DEF PoolWrites
  <1>1. CASE e # d
    BY <1>1 DEF DevTyped, SetDevice
  <1>2. CASE e = d
    <2>1. MayTakeBack(e)
      BY <1>2 DEF MayTakeBack
    <2>2. dev'[e] = dev[e] \/ dev'[e].state = state
      BY <1>2 DEF DevTyped, SetDevice
    <2> QED BY <2>1, <2>2
  <1> QED BY <1>1, <1>2

LEMMA StepWrites ==
  ASSUME TypeInv, Next
  PROVE  \/ PoolWrites /\ UNCHANGED watchVars
         \/ ListDevices \/ ProbeAlive \/ ProbeDead \/ FindSeized \/ SeizeAllocation \/ MarkDead
         \/ PoolWrites /\ (WatchdogDies \/ \E d \in Devices : Recover(d))
  <1>0. DevTyped /\ TaskTyped /\ AllocTyped /\ AdminTyped
    BY TypeParts DEF TypeInv
  <1> DEFINE Goal == PoolWrites /\ UNCHANGED watchVars
  <1> USE DEF taskVars, watchVars, adminVars
  <1>1. ASSUME dev' = dev PROVE PoolWrites
    BY <1>1 DEF PoolWrites
  <1>2. ASSUME NEW t \in Tasks, FreeExpired(t) PROVE Goal
    <2>1. alloc[target[t]].device \in Devices => MayTakeBack(alloc[target[t]].device)
      BY <1>2 DEF FreeExpired, MayTakeBack, Returning
    <2> QED BY <1>0, <1>2, <2>1, OneWrite DEF FreeExpired, DeviceState
  <1>3. ASSUME NEW t \in Tasks, MarkBusy(t) PROVE Goal
    <2>1. MayTakeBack(held[t])
      BY <1>3 DEF MarkBusy, MayTakeBack
    <2> QED BY <1>0, <1>3, <2>1, OneWrite, TasksAssumption DEF MarkBusy, DeviceState, TasksAssumption
  <1>4. ASSUME NEW t \in Tasks, ReturnDevice(t) PROVE Goal
    <2>1. MayTakeBack(held[t])
      BY <1>4 DEF ReturnDevice, MayTakeBack, Returning
    <2> QED BY <1>0, <1>4, <2>1, OneWrite DEF ReturnDevice, DeviceState
  <1>5. WatchdogDies \/ (\E d \in Devices : Recover(d)) => PoolWrites
    BY <1>1 DEF WatchdogDies, Recover
  <1>6. ASSUME PutOnline PROVE Goal
    <2>1. MayTakeBack(cli.device)
      BY <1>6 DEF PutOnline, MayTakeBack, Returning
    <2> QED BY <1>0, <1>6, <2>1, OneWrite DEF PutOnline, DeviceState
  <1>7. ASSUME Remove PROVE Goal
    BY <1>0, <1>7 DEF Remove, PoolWrites, MayTakeBack, DevTyped, AdminTyped
  <1>8. ASSUME NEW d \in Devices, AddDevice(d) PROVE Goal
    BY <1>0, <1>8 DEF AddDevice, PoolWrites, DevTyped, Device
  <1>9. ASSUME NEW t \in Tasks,
               \/ BeginAcquire(t) \/ Expire(t) \/ CheckExpired(t) \/ Choose(t) \/ NothingFree(t)
               \/ CreateAllocation(t) \/ Finish(t) \/ FindAllocation(t) \/ CheckOwn(t) \/ EndOwn(t)
               \/ TtlPasses(t)
        PROVE dev' = dev /\ UNCHANGED watchVars
    BY <1>9 DEF BeginAcquire, Expire, CheckExpired, Choose, NothingFree, CreateAllocation,
                Finish, FindAllocation, CheckOwn, EndOwn, TtlPasses
  <1>10. ASSUME NEW d \in Devices, CheckRemovable(d) \/ BeginForced(d) \/ Unplug(d) \/ Replug(d)
         PROVE dev' = dev /\ UNCHANGED watchVars
    BY <1>10 DEF CheckRemovable, BeginForced, Unplug, Replug
  <1>11. ASSUME FindForced \/ CheckForced \/ EndForced \/ \E a \in Allocators : Crash(a)
         PROVE dev' = dev /\ UNCHANGED watchVars
    BY <1>11 DEF FindForced, CheckForced, EndForced, Crash
  <1> QED
    BY <1>1, <1>2, <1>3, <1>4, <1>5, <1>6, <1>7, <1>8, <1>9, <1>10, <1>11
       DEF Next, Acquire, Release, Return, Scan, Operator, Command

LEMMA InitWatch == Init => WatchInv
  BY NoneAssumption DEF Init, WatchInv, FailsAreRecent, ListedAreProbed, MarkIsEarned, NoWatch

LEMMA StepWatch == TypeInv /\ WatchInv /\ [Next]_vars => WatchInv'
  <1> SUFFICES ASSUME TypeInv, WatchInv, [Next]_vars PROVE WatchInv'
    OBVIOUS
  <1>0. DevTyped /\ WatchTyped /\ ThresholdAssumption /\ NoneAssumption
    BY TypeParts, ThresholdAssumption, NoneAssumption DEF TypeInv
  <1> USE DEF WatchInv, FailsAreRecent, ListedAreProbed, MarkIsEarned
  <1>1. CASE PoolWrites /\ UNCHANGED watchVars
    BY <1>0, <1>1 DEF PoolWrites, watchVars, WatchTyped
  <1>2. CASE ListDevices
    BY <1>0, <1>2 DEF ListDevices, WatchTyped, NoWatch, Probed
  <1>3. CASE ProbeAlive
    <2>1. PICK d \in watch.left :
            /\ watch' = [watch EXCEPT !.left = @ \ {d}]
            /\ fails' = [fails EXCEPT ![d] = 0] /\ recent' = [recent EXCEPT ![d] = 0]
            /\ SetDevice(d, IF watch.rows[d] = "offline" THEN "online" ELSE watch.rows[d], None)
      BY <1>3 DEF ProbeAlive
    <2>2. watch.device = None
      BY <1>3 DEF ProbeAlive
    <2>3. FailsAreRecent'
      BY <1>0, <2>1 DEF WatchTyped
    <2>4. watch'.left = watch.left \ {d} /\ watch'.rows = watch.rows /\ watch'.device = None
      BY <1>0, <2>1, <2>2 DEF WatchTyped
    <2>5. ASSUME NEW e \in watch.left, e # d PROVE dev'[e] = dev[e]
      BY <1>0, <2>1, <2>5 DEF SetDevice, DevTyped, WatchTyped
    <2> QED BY <2>3, <2>4, <2>5
  <1>4. CASE ProbeDead
    <2>1. PICK d \in watch.left :
            LET n == Capped(fails[d] + 1) IN
              /\ fails' = [fails EXCEPT ![d] = n]
              /\ recent' = [recent EXCEPT ![d] = Capped(@ + 1)]
              /\ watch' = IF n < FailThreshold
                          THEN [watch EXCEPT !.left = @ \ {d}]
                          ELSE [watch EXCEPT !.left = @ \ {d}, !.device = d, !.freed = FALSE,
                                  !.to = IF n >= FaultThreshold THEN "fault" ELSE "offline"]
      BY <1>4 DEF ProbeDead
    <2>2. watch.device = None /\ dev' = dev
      BY <1>4 DEF ProbeDead
    <2>3. d \in Devices /\ fails[d] \in Nat /\ recent[d] \in Nat
      BY <1>0, <2>1 DEF WatchTyped, ThresholdAssumption
    <2>4. Capped(fails[d] + 1) \in Nat /\ Capped(recent[d] + 1) \in Nat
          /\ Capped(fails[d] + 1) <= Capped(recent[d] + 1)
      BY <1>0, <2>3 DEF Capped, ThresholdAssumption
    <2>5. FailsAreRecent'
      BY <1>0, <2>1, <2>3, <2>4 DEF WatchTyped
    <2>6. watch'.left = watch.left \ {d} /\ watch'.rows = watch.rows
      BY <1>0, <2>1 DEF WatchTyped
    <2>7. watch'.device = None \/ (watch'.device = d /\ Capped(fails[d] + 1) >= FailThreshold)
      <3>1. CASE Capped(fails[d] + 1) < FailThreshold
        <4>1. watch' = [watch EXCEPT !.left = @ \ {d}]
          BY <2>1, <3>1
        <4>2. watch'.device = watch.device
          <5> HIDE DEF WatchInv, FailsAreRecent, ListedAreProbed, MarkIsEarned
          <5> QED BY <1>0, <4>1 DEF WatchTyped
        <4> QED BY <2>2, <4>2
      <3>2. CASE ~(Capped(fails[d] + 1) < FailThreshold)
        <4>1. watch'.device = d
          BY <1>0, <2>1, <3>2 DEF WatchTyped
        <4> QED BY <1>0, <2>4, <3>2, <4>1 DEF ThresholdAssumption
      <3> QED BY <3>1, <3>2
    <2>8. recent'[d] = Capped(recent[d] + 1)
      BY <1>0, <2>1, <2>3 DEF WatchTyped
    <2>9. ASSUME watch'.device = d, Capped(fails[d] + 1) >= FailThreshold
          PROVE  recent'[d] >= FailThreshold
      BY <1>0, <2>4, <2>8, <2>9 DEF ThresholdAssumption
    <2> QED BY <2>1, <2>2, <2>5, <2>6, <2>7, <2>9
  <1>5. CASE FindSeized \/ SeizeAllocation
    BY <1>0, <1>5 DEF FindSeized, SeizeAllocation, WatchTyped
  <1>6. CASE MarkDead
    <2>1. watch.device # None /\ SetDevice(watch.device, watch.to, None)
      BY <1>6 DEF MarkDead
    <2>2. watch'.left = watch.left /\ watch'.rows = watch.rows /\ watch'.device = None
      BY <1>0, <1>6 DEF MarkDead, WatchTyped
    <2>3. ASSUME NEW e \in watch.left PROVE dev'[e] = dev[e]
      BY <1>0, <2>1 DEF SetDevice, DevTyped, WatchTyped
    <2> QED BY <1>6, <2>2, <2>3 DEF MarkDead
  <1>7. CASE \E d \in Devices : Recover(d)
    BY <1>0, <1>7 DEF Recover, WatchTyped, ThresholdAssumption
  <1>9. CASE WatchdogDies
    BY <1>0, <1>9 DEF WatchdogDies, NoWatch, WatchTyped, ThresholdAssumption
  <1>8. CASE UNCHANGED vars
    BY <1>8 DEF vars, watchVars
  <1> QED BY <1>1, <1>2, <1>3, <1>4, <1>5, <1>6, <1>7, <1>8, <1>9, StepWrites

LEMMA WatchInvariant == Spec => []WatchInv
  <1>1. TypeInv /\ WatchInv /\ [Next]_vars => (TypeInv /\ WatchInv)'
    BY StepTypes, StepWatch
  <1> QED BY <1>1, InitTypes, InitWatch, PTL DEF Spec

(* A device goes out of service only after FailThreshold failed probes in a
   row: the scan writes back states that are in service, and a mark is decided
   on a count that no other step can raise. *)
THEOREM SeizedOnlyAfterFailures == Spec => SeizedAfterFailures
  <1>1. ASSUME TypeInv, WatchInv, [Next]_vars
        PROVE  \A d \in Devices :
                 /\ dev[d].state \notin {"offline", "fault"}
                 /\ dev'[d].state \in {"offline", "fault"}
                 => recent[d] >= FailThreshold
    <2> SUFFICES ASSUME NEW d \in Devices, dev[d].state \notin {"offline", "fault"},
                        dev'[d].state \in {"offline", "fault"}
                 PROVE  recent[d] >= FailThreshold
      OBVIOUS
    <2>0. DevTyped /\ WatchTyped
      BY <1>1, TypeParts DEF TypeInv
    <2>1. ~PoolWrites /\ dev' # dev /\ ~UNCHANGED vars
      BY DEF PoolWrites, vars
    <2>2. CASE ProbeAlive
      <3>1. PICK e \in watch.left :
              SetDevice(e, IF watch.rows[e] = "offline" THEN "online" ELSE watch.rows[e], None)
        BY <2>2 DEF ProbeAlive
      <3>2. watch.rows[e] \in Probed
        BY <1>1 DEF WatchInv, ListedAreProbed
      <3> QED BY <2>0, <2>1, <3>1, <3>2 DEF SetDevice, DevTyped, Probed
    <2>3. CASE MarkDead
      <3>1. watch.device # None /\ SetDevice(watch.device, watch.to, None)
        BY <2>3 DEF MarkDead
      <3>2. d = watch.device
        BY <2>0, <3>1 DEF SetDevice, DevTyped
      <3> QED BY <1>1, <3>1, <3>2 DEF WatchInv, MarkIsEarned
    <2>4. ~ListDevices /\ ~ProbeDead /\ ~FindSeized /\ ~SeizeAllocation
      BY <2>1 DEF ListDevices, ProbeDead, FindSeized, SeizeAllocation
    <2> QED BY <1>1, <2>1, <2>2, <2>3, <2>4, StepWrites
  <1>2. Spec => [](TypeInv /\ WatchInv)
    BY InitTypes, StepTypes, WatchInvariant, PTL DEF Spec
  <1> QED BY <1>1, <1>2, PTL DEF Spec, SeizedAfterFailures

(* A FAULT device leaves that state by its removal, by the last write of a
   command (recover() is one), or by a write of a task that was decided on
   before the fault: the watchdog, which lists and writes without a lock, never touches it. *)
THEOREM FaultIsKept == Spec => FaultStays
  <1>1. ASSUME TypeInv, WatchInv, [Next]_vars
        PROVE  \A d \in Devices : dev[d].state = "fault" /\ dev'[d].state # "fault" =>
                 \/ dev'[d].state = "absent"
                 \/ Returning(d)
                 \/ \E t \in Tasks : held[t] = d /\ pc[t] = "marking"
    <2> SUFFICES ASSUME NEW d \in Devices, dev[d].state = "fault", dev'[d].state # "fault"
                 PROVE  MayTakeBack(d)
      BY DEF MayTakeBack
    <2>0. DevTyped /\ WatchTyped
      BY <1>1, TypeParts DEF TypeInv
    <2>1. dev' # dev /\ ~UNCHANGED vars
      BY DEF vars
    <2>2. PoolWrites => MayTakeBack(d)
      BY DEF PoolWrites
    <2>3. ~ProbeAlive
      <3>1. ASSUME NEW e \in watch.left, NEW state, SetDevice(e, state, None) PROVE FALSE
        BY <1>1, <2>0, <3>1 DEF SetDevice, DevTyped, WatchInv, ListedAreProbed
      <3> QED BY <3>1 DEF ProbeAlive
    <2>4. ~MarkDead
      BY <1>1, <2>0 DEF MarkDead, SetDevice, DevTyped, WatchInv, MarkIsEarned
    <2>5. ~ListDevices /\ ~ProbeDead /\ ~FindSeized /\ ~SeizeAllocation
      BY <2>1 DEF ListDevices, ProbeDead, FindSeized, SeizeAllocation
    <2> QED BY <1>1, <2>1, <2>2, <2>3, <2>4, <2>5, StepWrites
  <1>2. Spec => [](TypeInv /\ WatchInv)
    BY InitTypes, StepTypes, WatchInvariant, PTL DEF Spec
  <1> QED BY <1>1, <1>2, PTL DEF Spec, FaultStays

-----------------------------------------------------------------------------
(* Who a device belongs to *)

(* The deployment the exclusion is claimed for: the threads of a pool share an
   allocator, jobs have ids of their own, and no watchdog seizes devices (the
   runs show what happens otherwise). *)
OnePool ==
  /\ \A t, u \in Tasks : AllocatorOf[t] = AllocatorOf[u]
  /\ \A t, u \in Tasks : JobOf[t] = JobOf[u] => t = u
  /\ ~WatchdogOn

Critical == {"expiring", "checking", "freeing", "assigning", "marking"}
After == {"using", "looking", "ending", "closing", "returning"}
Unwatched == ~WatchdogOn => watch = NoWatch
(* The critical section of an allocator has one task. *)
LockHeld == \A t \in Tasks : pc[t] \in Critical => lock[AllocatorOf[t]] = t
(* A device that was never online belongs to nobody. *)
Registered ==
  \A d \in Devices : dev[d].state \in {"new", "unknown"} =>
    \A t \in Tasks : (Holding(t) => held[t] # d) /\ alloc[t].device # d
(* The handle of a task is the device of its allocation. *)
UsesOwn ==
  \A t \in Tasks : pc[t] \in HoldingPc \ {"assigning"} =>
    alloc[t].device = held[t] /\ alloc[t].status # "none"
NotYetAllocated ==
  \A t \in Tasks : pc[t] \in {"wait", "expiring", "checking", "freeing", "assigning"} =>
    alloc[t].status = "none"
AbsentHasNoJob == \A d \in Devices : dev[d].state = "absent" => dev[d].job = None
CommandEnds == cli.pc \in {"ending", "closing"} => alloc[cli.target].device = cli.device
NoDeath == crashes = 0 => \A t \in Tasks : pc[t] # "dead"
(* release() ends the allocation of its own job. *)
OwnEnd == \A t \in Tasks : pc[t] \in {"ending", "closing"} => target[t] = t
(* Without a forced release the only command is `device add --online`. *)
CommandAdds ==
  forced = 0 => /\ cli.pc \in {"idle", "returning"}
                /\ cli.pc = "returning" => dev[cli.device].state \in {"unknown", "absent"}
PoolInv ==
  /\ Unwatched /\ LockHeld /\ Registered /\ UsesOwn /\ NotYetAllocated
  /\ AbsentHasNoJob /\ CommandEnds /\ NoDeath /\ OwnEnd /\ CommandAdds

(* What the invariants of this part are about. *)
poolVars == <<dev, taskVars, cli, forced, crashes, watch>>

LEMMA PoolSteps ==
  ASSUME OnePool, Unwatched, [Next]_vars
  PROVE  \/ \E t \in Tasks : Acquire(t) \/ Release(t) \/ TtlPasses(t)
         \/ \E d \in Devices : AddDevice(d) \/ BeginForced(d)
         \/ Remove \/ FindForced \/ CheckForced \/ EndForced \/ PutOnline
         \/ \E a \in Allocators : Crash(a)
         \/ UNCHANGED poolVars
  <1>1. ~Scan /\ ~WatchdogDies /\ \A d \in Devices : ~Recover(d)
    <2>1. watch.left = {} /\ watch.device = None /\ watch.found = None
      BY DEF OnePool, Unwatched, NoWatch
    <2> QED
      BY <2>1 DEF OnePool, Scan, ListDevices, ProbeAlive, ProbeDead, FindSeized,
             SeizeAllocation, MarkDead, Recover, WatchdogDies
  <1>2. ASSUME NEW d \in Devices, CheckRemovable(d) \/ Unplug(d) \/ Replug(d)
        PROVE  UNCHANGED poolVars
    BY <1>2 DEF CheckRemovable, Unplug, Replug, poolVars, taskVars, watchVars, adminVars
  <1>3. UNCHANGED vars => UNCHANGED poolVars
    BY DEF vars, poolVars, taskVars, watchVars, adminVars
  <1> QED BY <1>1, <1>2, <1>3 DEF Next, Operator, Command

LEMMA InitPool == Init => PoolInv
  BY NoneAssumption
  DEF Init, PoolInv, Unwatched, LockHeld, Registered, UsesOwn, NotYetAllocated, AbsentHasNoJob,
      CommandEnds, NoDeath, OwnEnd, CommandAdds, NoWatch, NoCommand, Critical, Holding, HoldingPc

LEMMA StepPool ==
  ASSUME OnePool, TypeInv, PoolInv, [Next]_vars
  PROVE  PoolInv'
  <1>0. DevTyped /\ AllocTyped /\ TaskTyped /\ AdminTyped /\ WorldTyped /\ TaskHandles /\ OtherHandles
    BY TypeParts DEF TypeInv
  <1> USE DEF PoolInv, taskVars, watchVars, adminVars
  <1>1. ASSUME NEW t \in Tasks, BeginAcquire(t) PROVE PoolInv'
    <2>1. Unwatched' /\ AbsentHasNoJob' /\ CommandEnds' /\ CommandAdds'
      BY <1>1 DEF BeginAcquire, Unwatched, AbsentHasNoJob, CommandEnds, CommandAdds
    <2>2. LockHeld'
      BY <1>0, <1>1, NoneAssumption, TasksAssumption
      DEF BeginAcquire, Goto, LockHeld, Critical, TaskTyped, TasksAssumption
    <2>3. Registered'
      BY <1>0, <1>1 DEF BeginAcquire, Goto, Registered, Holding, HoldingPc, TaskTyped
    <2>4. UsesOwn'
      BY <1>0, <1>1 DEF BeginAcquire, Goto, UsesOwn, HoldingPc, TaskTyped
    <2>5. NotYetAllocated'
      BY <1>0, <1>1 DEF BeginAcquire, Goto, NotYetAllocated, TaskTyped
    <2>6. NoDeath'
      BY <1>0, <1>1 DEF BeginAcquire, Goto, NoDeath, TaskTyped
    <2>7. OwnEnd'
      BY <1>0, <1>1 DEF BeginAcquire, Goto, OwnEnd, TaskTyped
    <2> QED BY <2>1, <2>2, <2>3, <2>4, <2>5, <2>6, <2>7
  <1>2. ASSUME NEW t \in Tasks, Expire(t) PROVE PoolInv'
    <2>0. /\ Allocated' = Allocated
          /\ \A v \in Tasks : alloc'[v].device = alloc[v].device
      BY <1>0, <1>2, EndKeepsHandles DEF Expire, AllocationStatus, TaskHandles
    <2>1. Unwatched' /\ AbsentHasNoJob' /\ CommandAdds'
      BY <1>2 DEF Expire, Unwatched, AbsentHasNoJob, CommandAdds
    <2>2. LockHeld'
      BY <1>0, <1>2 DEF Expire, Goto, LockHeld, Critical, TaskTyped
    <2>3. Registered'
      BY <1>0, <1>2, <2>0 DEF Expire, Goto, Registered, Holding, HoldingPc, TaskTyped
    <2>4. UsesOwn'
      BY <1>0, <1>2, <2>0 DEF Expire, Goto, UsesOwn, HoldingPc, TaskTyped, Allocated
    <2>5. NotYetAllocated'
      BY <1>0, <1>2, <2>0 DEF Expire, Goto, NotYetAllocated, TaskTyped, Allocated
    <2>6. CommandEnds'
      BY <1>0, <1>2, <2>0 DEF Expire, CommandEnds, OtherHandles, Allocated
    <2>7. NoDeath'
      BY <1>0, <1>2 DEF Expire, Goto, NoDeath, TaskTyped
    <2>18. OwnEnd'
      BY <1>0, <1>2 DEF Expire, Goto, OwnEnd, TaskTyped
    <2> QED BY <2>1, <2>2, <2>3, <2>4, <2>5, <2>6, <2>7, <2>18
  <1>3. ASSUME NEW t \in Tasks, CheckExpired(t) PROVE PoolInv'
    <2>1. Unwatched' /\ AbsentHasNoJob' /\ CommandEnds' /\ CommandAdds'
      BY <1>3 DEF CheckExpired, Unwatched, AbsentHasNoJob, CommandEnds, CommandAdds
    <2>2. LockHeld'
      BY <1>0, <1>3 DEF CheckExpired, Goto, LockHeld, Critical, TaskTyped
    <2>3. Registered'
      BY <1>0, <1>3 DEF CheckExpired, Goto, Registered, Holding, HoldingPc, TaskTyped
    <2>4. UsesOwn'
      BY <1>0, <1>3 DEF CheckExpired, Goto, UsesOwn, HoldingPc, TaskTyped
    <2>5. NotYetAllocated'
      BY <1>0, <1>3 DEF CheckExpired, Goto, NotYetAllocated, TaskTyped
    <2>6. NoDeath'
      BY <1>0, <1>3 DEF CheckExpired, Goto, NoDeath, TaskTyped
    <2>7. OwnEnd'
      BY <1>0, <1>3 DEF CheckExpired, Goto, OwnEnd, TaskTyped
    <2> QED BY <2>1, <2>2, <2>3, <2>4, <2>5, <2>6, <2>7
  <1>4. ASSUME NEW t \in Tasks, FreeExpired(t) PROVE PoolInv'
    <2>1. Unwatched' /\ CommandEnds'
      BY <1>4 DEF FreeExpired, Unwatched, CommandEnds
    <2>2. LockHeld'
      BY <1>0, <1>4 DEF FreeExpired, Goto, SetDevice, LockHeld, Critical, TaskTyped
    <2>3. Registered'
      BY <1>0, <1>4 DEF FreeExpired, Goto, SetDevice, Registered, Holding, HoldingPc, TaskTyped,
         DevTyped, Device
    <2>4. UsesOwn'
      BY <1>0, <1>4 DEF FreeExpired, Goto, SetDevice, UsesOwn, HoldingPc, TaskTyped
    <2>5. NotYetAllocated'
      BY <1>0, <1>4 DEF FreeExpired, Goto, SetDevice, NotYetAllocated, TaskTyped
    <2>6. AbsentHasNoJob'
      BY <1>0, <1>4 DEF FreeExpired, Goto, SetDevice, AbsentHasNoJob, DevTyped, Device
    <2>7. NoDeath'
      BY <1>0, <1>4 DEF FreeExpired, Goto, SetDevice, NoDeath, TaskTyped
    <2>18. OwnEnd'
      BY <1>0, <1>4 DEF FreeExpired, Goto, SetDevice, OwnEnd, TaskTyped
    <2>9. CommandAdds'
      BY <1>0, <1>4 DEF FreeExpired, Goto, SetDevice, CommandAdds, DevTyped, Device, Registered,
         OtherHandles, TaskHandles, AllocTyped
    <2> QED BY <2>1, <2>2, <2>3, <2>4, <2>5, <2>6, <2>7, <2>18, <2>9
  <1>5. ASSUME NEW t \in Tasks, Choose(t) PROVE PoolInv'
    <2>1. Unwatched' /\ AbsentHasNoJob' /\ CommandEnds' /\ CommandAdds'
      BY <1>5 DEF Choose, Unwatched, AbsentHasNoJob, CommandEnds, CommandAdds
    <2>2. LockHeld'
      BY <1>0, <1>5 DEF Choose, Goto, IsAvailable, LockHeld, Critical, TaskTyped
    <2>3. Registered'
      BY <1>0, <1>5 DEF Choose, Goto, IsAvailable, Registered, Holding, HoldingPc, TaskTyped
    <2>4. UsesOwn'
      BY <1>0, <1>5 DEF Choose, Goto, IsAvailable, UsesOwn, HoldingPc, TaskTyped
    <2>5. NotYetAllocated'
      BY <1>0, <1>5 DEF Choose, Goto, IsAvailable, NotYetAllocated, TaskTyped
    <2>6. NoDeath'
      BY <1>0, <1>5 DEF Choose, Goto, IsAvailable, NoDeath, TaskTyped
    <2>7. OwnEnd'
      BY <1>0, <1>5 DEF Choose, Goto, IsAvailable, OwnEnd, TaskTyped
    <2> QED BY <2>1, <2>2, <2>3, <2>4, <2>5, <2>6, <2>7
  <1>6. ASSUME NEW t \in Tasks, NothingFree(t) PROVE PoolInv'
    <2>1. Unwatched' /\ AbsentHasNoJob' /\ CommandEnds' /\ CommandAdds'
      BY <1>6 DEF NothingFree, Unwatched, AbsentHasNoJob, CommandEnds, CommandAdds
    <2>2. LockHeld'
      BY <1>0, <1>6, NoneAssumption DEF NothingFree, Goto, Unlock, LockHeld, Critical, TaskTyped
    <2>3. Registered'
      BY <1>0, <1>6 DEF NothingFree, Goto, Unlock, Registered, Holding, HoldingPc, TaskTyped
    <2>4. UsesOwn'
      BY <1>0, <1>6 DEF NothingFree, Goto, Unlock, UsesOwn, HoldingPc, TaskTyped
    <2>5. NotYetAllocated'
      BY <1>0, <1>6 DEF NothingFree, Goto, Unlock, NotYetAllocated, TaskTyped
    <2>6. NoDeath'
      BY <1>0, <1>6 DEF NothingFree, Goto, Unlock, NoDeath, TaskTyped
    <2>7. OwnEnd'
      BY <1>0, <1>6 DEF NothingFree, Goto, Unlock, OwnEnd, TaskTyped
    <2> QED BY <2>1, <2>2, <2>3, <2>4, <2>5, <2>6, <2>7
  <1>7. ASSUME NEW t \in Tasks, CreateAllocation(t) PROVE PoolInv'
    <2>1. Unwatched' /\ AbsentHasNoJob' /\ CommandAdds'
      BY <1>7 DEF CreateAllocation, Unwatched, AbsentHasNoJob, CommandAdds
    <2>2. LockHeld'
      BY <1>0, <1>7 DEF CreateAllocation, Goto, LockHeld, Critical, TaskTyped
    <2>3. Registered'
      BY <1>0, <1>7 DEF CreateAllocation, Goto, Registered, Holding, HoldingPc, TaskTyped,
         AllocTyped
    <2>4. UsesOwn'
      BY <1>0, <1>7 DEF CreateAllocation, Goto, UsesOwn, HoldingPc, TaskTyped, AllocTyped
    <2>5. NotYetAllocated'
      BY <1>0, <1>7 DEF CreateAllocation, Goto, NotYetAllocated, TaskTyped, AllocTyped
    <2>6. CommandEnds'
      BY <1>0, <1>7 DEF CreateAllocation, Goto, CommandEnds, AllocTyped, NotYetAllocated,
         OtherHandles, Allocated
    <2>7. NoDeath'
      BY <1>0, <1>7 DEF CreateAllocation, Goto, NoDeath, TaskTyped
    <2>18. OwnEnd'
      BY <1>0, <1>7 DEF CreateAllocation, Goto, OwnEnd, TaskTyped
    <2> QED BY <2>1, <2>2, <2>3, <2>4, <2>5, <2>6, <2>7, <2>18
  <1>8. ASSUME NEW t \in Tasks, MarkBusy(t) PROVE PoolInv'
    <2>1. Unwatched' /\ CommandEnds'
      BY <1>8 DEF MarkBusy, Unwatched, CommandEnds
    <2>2. LockHeld'
      BY <1>0, <1>8, NoneAssumption DEF MarkBusy, Goto, SetDevice, Unlock, LockHeld, Critical,
         TaskTyped
    <2>3. Registered'
      BY <1>0, <1>8 DEF MarkBusy, Goto, SetDevice, Unlock, Registered, Holding, HoldingPc,
         TaskTyped, DevTyped, Device
    <2>4. UsesOwn'
      BY <1>0, <1>8 DEF MarkBusy, Goto, SetDevice, Unlock, UsesOwn, HoldingPc, TaskTyped
    <2>5. NotYetAllocated'
      BY <1>0, <1>8 DEF MarkBusy, Goto, SetDevice, Unlock, NotYetAllocated, TaskTyped
    <2>6. AbsentHasNoJob'
      BY <1>0, <1>8 DEF MarkBusy, Goto, SetDevice, Unlock, AbsentHasNoJob, DevTyped, Device
    <2>7. NoDeath'
      BY <1>0, <1>8 DEF MarkBusy, Goto, SetDevice, Unlock, NoDeath, TaskTyped
    <2>18. OwnEnd'
      BY <1>0, <1>8 DEF MarkBusy, Goto, SetDevice, Unlock, OwnEnd, TaskTyped
    <2>9. CommandAdds'
      BY <1>0, <1>8 DEF MarkBusy, Goto, SetDevice, Unlock, CommandAdds, DevTyped, Device,
         Registered, Holding, HoldingPc, OtherHandles
    <2> QED BY <2>1, <2>2, <2>3, <2>4, <2>5, <2>6, <2>7, <2>18, <2>9
  <1>9. ASSUME NEW t \in Tasks, Finish(t) PROVE PoolInv'
    <2>1. Unwatched' /\ AbsentHasNoJob' /\ CommandEnds' /\ CommandAdds'
      BY <1>9 DEF Finish, Unwatched, AbsentHasNoJob, CommandEnds, CommandAdds
    <2>2. LockHeld'
      BY <1>0, <1>9 DEF Finish, Goto, LockHeld, Critical, TaskTyped
    <2>3. Registered'
      BY <1>0, <1>9 DEF Finish, Goto, Registered, Holding, HoldingPc, TaskTyped
    <2>4. UsesOwn'
      BY <1>0, <1>9 DEF Finish, Goto, UsesOwn, HoldingPc, TaskTyped
    <2>5. NotYetAllocated'
      BY <1>0, <1>9 DEF Finish, Goto, NotYetAllocated, TaskTyped
    <2>6. NoDeath'
      BY <1>0, <1>9 DEF Finish, Goto, NoDeath, TaskTyped
    <2>7. OwnEnd'
      BY <1>0, <1>9 DEF Finish, Goto, OwnEnd, TaskTyped
    <2> QED BY <2>1, <2>2, <2>3, <2>4, <2>5, <2>6, <2>7
  <1>10. ASSUME NEW t \in Tasks, FindAllocation(t) PROVE PoolInv'
    <2>1. Unwatched' /\ AbsentHasNoJob' /\ CommandEnds' /\ CommandAdds'
      BY <1>10 DEF FindAllocation, Unwatched, AbsentHasNoJob, CommandEnds, CommandAdds
    <2>2. LockHeld'
      BY <1>0, <1>10 DEF FindAllocation, Goto, ActiveOn, Active, LockHeld, Critical, TaskTyped
    <2>3. Registered'
      BY <1>0, <1>10 DEF FindAllocation, Goto, ActiveOn, Active, Registered, Holding, HoldingPc,
         TaskTyped
    <2>4. UsesOwn'
      BY <1>0, <1>10 DEF FindAllocation, Goto, ActiveOn, Active, UsesOwn, HoldingPc, TaskTyped
    <2>5. NotYetAllocated'
      BY <1>0, <1>10 DEF FindAllocation, Goto, ActiveOn, Active, NotYetAllocated, TaskTyped
    <2>6. NoDeath'
      BY <1>0, <1>10 DEF FindAllocation, Goto, ActiveOn, Active, NoDeath, TaskTyped
    <2>7. OwnEnd'
      BY <1>0, <1>10 DEF FindAllocation, Goto, ActiveOn, Active, OwnEnd, TaskTyped, OnePool
    <2> QED BY <2>1, <2>2, <2>3, <2>4, <2>5, <2>6, <2>7
  <1>22. ASSUME NEW t \in Tasks, CheckOwn(t) PROVE PoolInv'
    <2>1. Unwatched' /\ AbsentHasNoJob' /\ CommandEnds' /\ CommandAdds'
      BY <1>22 DEF CheckOwn, Unwatched, AbsentHasNoJob, CommandEnds, CommandAdds
    <2>2. LockHeld'
      BY <1>0, <1>22 DEF CheckOwn, Goto, LockHeld, Critical, TaskTyped
    <2>3. Registered'
      BY <1>0, <1>22 DEF CheckOwn, Goto, Registered, Holding, HoldingPc, TaskTyped
    <2>4. UsesOwn'
      BY <1>0, <1>22 DEF CheckOwn, Goto, UsesOwn, HoldingPc, TaskTyped
    <2>5. NotYetAllocated'
      BY <1>0, <1>22 DEF CheckOwn, Goto, NotYetAllocated, TaskTyped
    <2>6. NoDeath'
      BY <1>0, <1>22 DEF CheckOwn, Goto, NoDeath, TaskTyped
    <2>7. OwnEnd'
      BY <1>0, <1>22 DEF CheckOwn, Goto, OwnEnd, TaskTyped
    <2> QED BY <2>1, <2>2, <2>3, <2>4, <2>5, <2>6, <2>7
  <1>11. ASSUME NEW t \in Tasks, EndOwn(t) PROVE PoolInv'
    <2>0. /\ Allocated' = Allocated
          /\ \A v \in Tasks : alloc'[v].device = alloc[v].device
      BY <1>0, <1>11, EndKeepsHandles DEF EndOwn, TaskHandles, AllocationStatus
    <2>1. Unwatched' /\ AbsentHasNoJob' /\ CommandAdds'
      BY <1>11 DEF EndOwn, Unwatched, AbsentHasNoJob, CommandAdds
    <2>2. LockHeld'
      BY <1>0, <1>11 DEF EndOwn, Goto, LockHeld, Critical, TaskTyped
    <2>3. Registered'
      BY <1>0, <1>11, <2>0 DEF EndOwn, Goto, Registered, Holding, HoldingPc, TaskTyped
    <2>4. UsesOwn'
      BY <1>0, <1>11, <2>0 DEF EndOwn, Goto, UsesOwn, HoldingPc, TaskTyped, Allocated
    <2>5. NotYetAllocated'
      BY <1>0, <1>11, <2>0 DEF EndOwn, Goto, NotYetAllocated, TaskTyped, Allocated
    <2>6. CommandEnds'
      BY <1>0, <1>11, <2>0 DEF EndOwn, CommandEnds, OtherHandles, Allocated
    <2>7. NoDeath'
      BY <1>0, <1>11 DEF EndOwn, Goto, NoDeath, TaskTyped
    <2>18. OwnEnd'
      BY <1>0, <1>11 DEF EndOwn, Goto, OwnEnd, TaskTyped
    <2> QED BY <2>1, <2>2, <2>3, <2>4, <2>5, <2>6, <2>7, <2>18
  <1>12. ASSUME NEW t \in Tasks, ReturnDevice(t) PROVE PoolInv'
    <2>1. Unwatched' /\ CommandEnds'
      BY <1>12 DEF ReturnDevice, Unwatched, CommandEnds
    <2>2. LockHeld'
      BY <1>0, <1>12 DEF ReturnDevice, Goto, SetDevice, LockHeld, Critical, TaskTyped
    <2>3. Registered'
      BY <1>0, <1>12 DEF ReturnDevice, Goto, SetDevice, Registered, Holding, HoldingPc, TaskTyped,
         DevTyped, Device
    <2>4. UsesOwn'
      BY <1>0, <1>12 DEF ReturnDevice, Goto, SetDevice, UsesOwn, HoldingPc, TaskTyped
    <2>5. NotYetAllocated'
      BY <1>0, <1>12 DEF ReturnDevice, Goto, SetDevice, NotYetAllocated, TaskTyped
    <2>6. AbsentHasNoJob'
      BY <1>0, <1>12 DEF ReturnDevice, Goto, SetDevice, AbsentHasNoJob, DevTyped, Device
    <2>7. NoDeath'
      BY <1>0, <1>12 DEF ReturnDevice, Goto, SetDevice, NoDeath, TaskTyped
    <2>18. OwnEnd'
      BY <1>0, <1>12 DEF ReturnDevice, Goto, SetDevice, OwnEnd, TaskTyped
    <2>9. CommandAdds'
      BY <1>0, <1>12 DEF ReturnDevice, Goto, SetDevice, CommandAdds, DevTyped, Device, Registered,
         OtherHandles, Holding, HoldingPc
    <2> QED BY <2>1, <2>2, <2>3, <2>4, <2>5, <2>6, <2>7, <2>18, <2>9
  <1>13. ASSUME NEW t \in Tasks, TtlPasses(t) PROVE PoolInv'
    <2>1. Unwatched' /\ LockHeld' /\ Registered' /\ UsesOwn' /\ NotYetAllocated' /\ AbsentHasNoJob' /\ CommandEnds' /\ NoDeath' /\ OwnEnd' /\ CommandAdds'
      BY <1>13 DEF TtlPasses, Unwatched, LockHeld, Registered, UsesOwn, NotYetAllocated,
         AbsentHasNoJob, CommandEnds, NoDeath, OwnEnd, CommandAdds, Critical, Holding, HoldingPc
    <2> QED BY <2>1
  <1>14. ASSUME NEW d \in Devices, AddDevice(d) PROVE PoolInv'
    <2>8. \/ cli'.pc = "returning" /\ cli'.device = d
          \/ cli' = cli /\ cli.pc = "idle"
      BY <1>14 DEF AddDevice, NoCommand
    <2>1. Unwatched' /\ LockHeld' /\ UsesOwn' /\ NotYetAllocated' /\ NoDeath' /\ OwnEnd'
      BY <1>14 DEF AddDevice, Unwatched, LockHeld, UsesOwn, NotYetAllocated, NoDeath, OwnEnd,
         Critical, HoldingPc
    <2>2. Registered'
      BY <1>0, <1>14 DEF AddDevice, Registered, Holding, HoldingPc, TaskTyped, DevTyped, Device
    <2>3. AbsentHasNoJob'
      BY <1>0, <1>14 DEF AddDevice, AbsentHasNoJob, DevTyped, Device
    <2>4. CommandEnds'
      BY <1>0, <1>14, <2>8 DEF AddDevice, CommandEnds
    <2>5. CommandAdds'
      BY <1>0, <1>14, <2>8 DEF AddDevice, CommandAdds, DevTyped, Device
    <2> QED BY <2>1, <2>2, <2>3, <2>4, <2>5
  <1>15. ASSUME NEW d \in Devices, BeginForced(d) PROVE PoolInv'
    <2>8. forced' > 0 /\ cli'.pc = "looking"
      BY <1>0, <1>15, SwitchAssumption DEF BeginForced, NoCommand, AdminTyped, SwitchAssumption
    <2>1. Unwatched' /\ LockHeld' /\ Registered' /\ UsesOwn' /\ NotYetAllocated' /\ AbsentHasNoJob' /\ NoDeath' /\ OwnEnd'
      BY <1>15 DEF BeginForced, Unwatched, LockHeld, Registered, UsesOwn, NotYetAllocated,
         AbsentHasNoJob, NoDeath, OwnEnd, Critical, Holding, HoldingPc
    <2>2. CommandEnds'
      BY <1>0, <1>15, <2>8 DEF BeginForced, NoCommand, CommandEnds
    <2>3. CommandAdds'
      BY <1>0, <1>15, <2>8 DEF BeginForced, NoCommand, CommandAdds
    <2> QED BY <2>1, <2>2, <2>3
  <1>16. ASSUME Remove PROVE PoolInv'
    <2>1. Unwatched' /\ LockHeld' /\ UsesOwn' /\ NotYetAllocated' /\ CommandEnds' /\ NoDeath' /\ OwnEnd'
      BY <1>16 DEF Remove, Unwatched, LockHeld, UsesOwn, NotYetAllocated, CommandEnds, NoDeath,
         OwnEnd, Critical, HoldingPc
    <2>2. Registered'
      BY <1>0, <1>16 DEF Remove, Registered, Holding, HoldingPc, TaskTyped, DevTyped, Device
    <2>3. AbsentHasNoJob'
      BY <1>0, <1>16 DEF Remove, AbsentHasNoJob, DevTyped, Device
    <2>4. CommandAdds'
      BY <1>0, <1>16 DEF Remove, CommandAdds, DevTyped, Device
    <2> QED BY <2>1, <2>2, <2>3, <2>4
  <1>17. ASSUME FindForced PROVE PoolInv'
    <2>8. /\ cli.pc = "looking" /\ forced' = forced
          /\ cli'.pc = "ending" => cli'.target \in ActiveOn(cli.device) /\ cli'.device = cli.device
          /\ cli'.pc # "closing"
      <3>1. \/ \E u \in ActiveOn(cli.device) :
                  cli' = [pc |-> "ending", device |-> cli.device, seen |-> "absent", target |-> u]
            \/ cli' = [pc |-> "returning", device |-> cli.device, seen |-> "absent", target |-> cli.target]
            \/ cli' = [pc |-> "idle", device |-> None, seen |-> "absent", target |-> None]
        BY <1>0, <1>17, CommandIs DEF FindForced, NoCommand
      <3>2. /\ cli'.pc = "ending" => cli'.target \in ActiveOn(cli.device) /\ cli'.device = cli.device
            /\ cli'.pc # "closing"
        BY <3>1
      <3> QED BY <1>17, <3>2 DEF FindForced
    <2>1. Unwatched' /\ LockHeld' /\ Registered' /\ UsesOwn' /\ NotYetAllocated' /\ AbsentHasNoJob' /\ NoDeath' /\ OwnEnd'
      BY <1>17 DEF FindForced, Unwatched, LockHeld, Registered, UsesOwn, NotYetAllocated,
         AbsentHasNoJob, NoDeath, OwnEnd, Critical, Holding, HoldingPc
    <2>2. CommandEnds'
      BY <1>17, <2>8 DEF FindForced, ActiveOn, CommandEnds
    <2>3. CommandAdds'
      BY <1>0, <1>17, <2>8 DEF FindForced, ActiveOn, Active, NoCommand, CommandAdds
    <2> QED BY <2>1, <2>2, <2>3
  <1>23. ASSUME CheckForced PROVE PoolInv'
    <2>8. /\ cli.pc = "ending" /\ forced' = forced /\ alloc' = alloc
          /\ \/ cli'.pc = "idle"
             \/ cli'.pc = "closing" /\ cli'.device = cli.device /\ cli'.target = cli.target
      <3>1. \/ cli' = [pc |-> "closing", device |-> cli.device, seen |-> cli.seen, target |-> cli.target]
            \/ cli' = [pc |-> "idle", device |-> None, seen |-> "absent", target |-> None]
        BY <1>0, <1>23, CommandIs DEF CheckForced, NoCommand
      <3>2. \/ cli'.pc = "idle"
            \/ cli'.pc = "closing" /\ cli'.device = cli.device /\ cli'.target = cli.target
        BY <3>1
      <3> QED BY <1>23, <3>2 DEF CheckForced
    <2>1. Unwatched' /\ LockHeld' /\ Registered' /\ UsesOwn' /\ NotYetAllocated' /\ AbsentHasNoJob' /\ NoDeath' /\ OwnEnd'
      BY <1>23 DEF CheckForced, Unwatched, LockHeld, Registered, UsesOwn, NotYetAllocated,
         AbsentHasNoJob, NoDeath, OwnEnd, Critical, Holding, HoldingPc
    <2>2. CommandEnds'
      BY <2>8 DEF CommandEnds
    <2>3. CommandAdds'
      BY <2>8 DEF CommandAdds
    <2> QED BY <2>1, <2>2, <2>3
  <1>18. ASSUME EndForced PROVE PoolInv'
    <2>0. /\ Allocated' = Allocated
          /\ \A v \in Tasks : alloc'[v].device = alloc[v].device
      BY <1>0, <1>18, EndKeepsHandles DEF EndForced, OtherHandles, AllocationStatus
    <2>8. cli.pc = "closing" /\ cli'.pc = "returning" /\ forced' = forced
      <3>1. cli' = [pc |-> "returning", device |-> cli.device, seen |-> cli.seen, target |-> None]
        BY <1>0, <1>18, CommandIs DEF EndForced
      <3>2. cli'.pc = "returning"
        BY <3>1
      <3> QED BY <1>18, <3>2 DEF EndForced
    <2>1. Unwatched' /\ LockHeld' /\ AbsentHasNoJob' /\ NoDeath' /\ OwnEnd'
      BY <1>18 DEF EndForced, Unwatched, LockHeld, AbsentHasNoJob, NoDeath, OwnEnd, Critical
    <2>2. Registered'
      BY <1>0, <1>18, <2>0 DEF EndForced, NoCommand, Registered, Holding, HoldingPc, TaskTyped
    <2>3. UsesOwn'
      BY <1>0, <1>18, <2>0 DEF EndForced, NoCommand, UsesOwn, HoldingPc, TaskTyped, Allocated
    <2>4. NotYetAllocated'
      BY <1>0, <1>18, <2>0 DEF EndForced, NoCommand, NotYetAllocated, TaskTyped, Allocated
    <2>5. CommandEnds'
      BY <1>0, <1>18, <2>8 DEF EndForced, NoCommand, CommandEnds
    <2>6. CommandAdds'
      BY <1>0, <1>18, <2>8 DEF EndForced, NoCommand, CommandAdds
    <2> QED BY <2>1, <2>2, <2>3, <2>4, <2>5, <2>6
  <1>19. ASSUME PutOnline PROVE PoolInv'
    <2>1. Unwatched' /\ LockHeld' /\ UsesOwn' /\ NotYetAllocated' /\ NoDeath' /\ OwnEnd'
      BY <1>19 DEF PutOnline, Unwatched, LockHeld, UsesOwn, NotYetAllocated, NoDeath, OwnEnd,
         Critical, HoldingPc
    <2>2. Registered'
      BY <1>0, <1>19 DEF PutOnline, SetDevice, NoCommand, Registered, Holding, HoldingPc, TaskTyped,
         DevTyped, Device
    <2>3. AbsentHasNoJob'
      BY <1>0, <1>19 DEF PutOnline, SetDevice, NoCommand, AbsentHasNoJob, DevTyped, Device
    <2>4. CommandEnds'
      BY <1>0, <1>19 DEF PutOnline, SetDevice, NoCommand, CommandEnds
    <2>5. CommandAdds'
      BY <1>0, <1>19 DEF PutOnline, SetDevice, NoCommand, CommandAdds, DevTyped, Device
    <2> QED BY <2>1, <2>2, <2>3, <2>4, <2>5
  <1>20. ASSUME NEW a \in Allocators, Crash(a) PROVE PoolInv'
    <2>8. crashes' # 0
      BY <1>0, <1>20, SwitchAssumption DEF Crash, WorldTyped, SwitchAssumption
    <2>1. Unwatched' /\ AbsentHasNoJob' /\ CommandEnds' /\ CommandAdds'
      BY <1>20 DEF Crash, Unwatched, AbsentHasNoJob, CommandEnds, CommandAdds
    <2>2. LockHeld'
      BY <1>0, <1>20 DEF Crash, Running, LockHeld, Critical, TaskTyped
    <2>3. Registered'
      BY <1>0, <1>20 DEF Crash, Running, Registered, Holding, HoldingPc, TaskTyped
    <2>4. UsesOwn'
      BY <1>0, <1>20 DEF Crash, Running, UsesOwn, HoldingPc, TaskTyped
    <2>5. NotYetAllocated'
      BY <1>0, <1>20 DEF Crash, Running, NotYetAllocated, TaskTyped
    <2>6. NoDeath'
      BY <1>0, <1>20, <2>8 DEF Crash, Running, NoDeath, TaskTyped
    <2>7. OwnEnd'
      BY <1>0, <1>20 DEF Crash, Running, OwnEnd, TaskTyped
    <2> QED BY <2>1, <2>2, <2>3, <2>4, <2>5, <2>6, <2>7
  <1>21. CASE UNCHANGED poolVars
    BY <1>21 DEF poolVars, Unwatched, LockHeld, Registered, UsesOwn, NotYetAllocated,
       AbsentHasNoJob, CommandEnds, NoDeath, OwnEnd, CommandAdds, Critical, Holding, HoldingPc
  <1> QED
    BY PoolSteps, <1>1, <1>2, <1>3, <1>4, <1>5, <1>6, <1>7, <1>8, <1>9, <1>10, <1>11, <1>12, <1>13,
       <1>14, <1>15, <1>16, <1>17, <1>18, <1>19, <1>20, <1>21, <1>22, <1>23
       DEF Acquire, Release, Return

-----------------------------------------------------------------------------
(* Exclusive use *)

Undisturbed == OnTime /\ forced = 0
(* The handles of two tasks differ, from the choice to the return. *)
Apart == \A t, u \in Tasks : Holding(t) /\ Holding(u) /\ held[t] = held[u] => t = u
(* The row of a device in use names the job. *)
Owned ==
  \A t \in Tasks : pc[t] \in After =>
    (dev[held[t]].state = "busy" /\ dev[held[t]].job = JobOf[t]) \/ dev[held[t]].state = "absent"
(* A device that an expiry frees is nobody's. *)
Freeable == \A t, u \in Tasks : pc[t] = "freeing" /\ Holding(u) => alloc[target[t]].device # held[u]
ExclusiveInv == Undisturbed => Apart /\ Owned /\ Freeable

(* The bounded counters do not come back to zero. *)
LEMMA CountersGrow ==
  ASSUME TypeInv, [Next]_vars
  PROVE  /\ crashes' = 0 => crashes = 0 /\ \A a \in Allocators : ~Crash(a)
         /\ forced' = 0 => forced = 0 /\ \A d \in Devices : ~BeginForced(d) /\ ~Recover(d)
  <1>0. AdminTyped /\ WorldTyped
    BY TypeParts DEF TypeInv
  <1>1. ASSUME NEW a \in Allocators, Crash(a) PROVE crashes' # 0 /\ forced' = forced
    BY <1>0, <1>1, SwitchAssumption DEF Crash, WorldTyped, SwitchAssumption, adminVars
  <1>4. ASSUME WatchdogDies PROVE crashes' # 0 /\ forced' = forced
    BY <1>0, <1>4, SwitchAssumption DEF WatchdogDies, WorldTyped, SwitchAssumption, adminVars
  <1>2. ASSUME NEW d \in Devices, BeginForced(d) \/ Recover(d) PROVE forced' # 0 /\ crashes' = crashes
    BY <1>0, <1>2, SwitchAssumption DEF BeginForced, Recover, AdminTyped, SwitchAssumption
  <1>3. ASSUME ~WatchdogDies, ~ \E a \in Allocators : Crash(a),
               ~ \E d \in Devices : BeginForced(d) \/ Recover(d)
        PROVE  crashes' = crashes /\ forced' = forced
    <2>1. ASSUME NEW t \in Tasks, Acquire(t) PROVE crashes' = crashes /\ forced' = forced
      BY <2>1 DEF Acquire, BeginAcquire, Expire, CheckExpired, FreeExpired, Choose,
         NothingFree, CreateAllocation, MarkBusy, adminVars
    <2>2. ASSUME NEW t \in Tasks, Release(t) \/ TtlPasses(t) PROVE crashes' = crashes /\ forced' = forced
      BY <2>2 DEF Release, Return, Finish, FindAllocation, CheckOwn, EndOwn, ReturnDevice, TtlPasses, adminVars
    <2>3. CASE Scan
      BY <2>3 DEF Scan, ListDevices, ProbeAlive, ProbeDead, FindSeized, SeizeAllocation, MarkDead, adminVars
    <2>4. ASSUME NEW d \in Devices,
                 Unplug(d) \/ Replug(d) \/ CheckRemovable(d) \/ AddDevice(d)
          PROVE  crashes' = crashes /\ forced' = forced
      BY <2>4 DEF Unplug, Replug, CheckRemovable, AddDevice, adminVars
    <2>5. CASE Remove \/ Command
      BY <2>5 DEF Remove, Command, FindForced, CheckForced, EndForced, PutOnline, adminVars
    <2>6. CASE UNCHANGED vars
      BY <2>6 DEF vars, adminVars
    <2> QED BY <1>3, <2>1, <2>2, <2>3, <2>4, <2>5, <2>6 DEF Next, Operator
  <1> QED BY <1>1, <1>2, <1>3, <1>4

(* Once a task is late it stays so, as long as the process of the tasks lives. *)
LEMMA StaysLate ==
  ASSUME OnePool, TypeInv, PoolInv, [Next]_vars, OnTime', \A a \in Allocators : ~Crash(a)
  PROVE  OnTime
  <1>0. TaskTyped /\ AllocTyped
    BY TypeParts DEF TypeInv
  <1> USE DEF taskVars, watchVars, adminVars
  <1>1. late \subseteq late' /\ \A t \in Tasks : pc'[t] = "dead" => pc[t] = "dead"
    <2>1. ASSUME NEW t \in Tasks, Acquire(t) PROVE <1>1!:
      BY <1>0, <2>1 DEF Acquire, BeginAcquire, Expire, CheckExpired, FreeExpired, Choose,
         NothingFree, CreateAllocation, MarkBusy, Goto, TaskTyped
    <2>2. ASSUME NEW t \in Tasks, Release(t) PROVE <1>1!:
      BY <1>0, <2>2 DEF Release, Return, Finish, FindAllocation, CheckOwn, EndOwn, ReturnDevice, Goto, TaskTyped
    <2>3. ASSUME NEW t \in Tasks, TtlPasses(t) PROVE <1>1!:
      BY <2>3 DEF TtlPasses
    <2>4. ASSUME NEW d \in Devices, AddDevice(d) \/ BeginForced(d) PROVE <1>1!:
      BY <2>4 DEF AddDevice, BeginForced
    <2>5. CASE Remove \/ FindForced \/ CheckForced \/ EndForced \/ PutOnline \/ UNCHANGED poolVars
      BY <2>5 DEF Remove, FindForced, CheckForced, EndForced, PutOnline, poolVars
    <2> QED BY <2>1, <2>2, <2>3, <2>4, <2>5, PoolSteps DEF PoolInv
  <1> QED BY <1>0, <1>1 DEF OnTime, AllocTyped

LEMMA InitExclusive == Init => ExclusiveInv
  BY DEF Init, ExclusiveInv, Apart, Owned, Freeable, Holding, HoldingPc, After

(* A task in its critical section is alone there. *)
LEMMA Alone ==
  ASSUME OnePool, PoolInv, NEW t \in Tasks, NEW u \in Tasks,
         pc[t] \in Critical, pc[u] \in Critical
  PROVE  t = u
  BY DEF OnePool, PoolInv, LockHeld

LEMMA StepExclusive ==
  ASSUME OnePool, TypeInv, PoolInv, ExclusiveInv, [Next]_vars
  PROVE  ExclusiveInv'
  <1> SUFFICES ASSUME Undisturbed' PROVE (Apart /\ Owned /\ Freeable)'
    BY DEF ExclusiveInv
  <1>0. DevTyped /\ AllocTyped /\ TaskTyped /\ AdminTyped /\ TaskHandles /\ OtherHandles
    BY TypeParts DEF TypeInv
  <1> DEFINE Goal == (Apart /\ Owned /\ Freeable)'
  <1> USE DEF taskVars, watchVars, adminVars
  <1>1. ASSUME NEW a \in Allocators, Crash(a) PROVE Goal
    <2>1. CASE \A t \in Tasks : AllocatorOf[t] = a
      <3>1. \A t \in Tasks : pc'[t] \in {"wait", "done", "dead"}
        BY <1>0, <1>1, <2>1 DEF Crash, Running, TaskTyped
      <3> QED BY <3>1 DEF Apart, Owned, Freeable, Holding, HoldingPc, After
    <2>2. CASE \A t \in Tasks : AllocatorOf[t] # a
      <3>1. pc' = pc /\ held' = held /\ target' = target
        BY <1>0, <1>1, <2>2 DEF Crash, TaskTyped
      <3>2. late' = late /\ forced' = forced /\ dev' = dev /\ alloc' = alloc
        BY <1>1 DEF Crash
      <3> QED
        BY <3>1, <3>2 DEF ExclusiveInv, Undisturbed, OnTime, Apart, Owned, Freeable, Holding
    <2> QED BY <2>1, <2>2 DEF OnePool
  <1>2. CASE ~ \E a \in Allocators : Crash(a)
    <2>0. /\ Undisturbed /\ Apart /\ Owned /\ Freeable
          /\ forced' = 0 /\ cli.pc \in {"idle", "returning"}
      BY <1>2, StaysLate, CountersGrow DEF ExclusiveInv, Undisturbed, PoolInv, CommandAdds
    <2>1. ASSUME NEW t \in Tasks, BeginAcquire(t) \/ Expire(t) \/ NothingFree(t) PROVE Goal
      <3>1. /\ dev' = dev /\ held' = held
            /\ \A u \in Tasks : pc'[u] \in HoldingPc => pc'[u] = pc[u]
            /\ \A u \in Tasks : pc'[u] = "freeing" => pc'[u] = pc[u] /\ target'[u] = target[u]
        BY <1>0, <2>1 DEF BeginAcquire, Expire, NothingFree, Goto, TaskTyped, HoldingPc
      <3>2. \A u \in Tasks : alloc'[u].device = alloc[u].device
        BY <1>0, <2>1 DEF BeginAcquire, Expire, NothingFree, EndAllocation, AllocTyped, Allocation
      <3>3. \A u \in Tasks : pc'[u] = "freeing" => target[u] \in Tasks
        BY <1>0, <3>1 DEF TaskHandles, AllocTyped
      <3> QED
        BY <2>0, <3>1, <3>2, <3>3 DEF Apart, Owned, Freeable, Holding, HoldingPc, After
    <2>2. ASSUME NEW t \in Tasks, CheckExpired(t) PROVE Goal
      <3>1. /\ dev' = dev /\ held' = held /\ target' = target /\ alloc' = alloc
            /\ \A u \in Tasks : pc'[u] \in HoldingPc => pc'[u] = pc[u]
            /\ \A u \in Tasks : pc'[u] = "freeing" => pc'[u] = pc[u] \/ u = t
        BY <1>0, <2>2 DEF CheckExpired, Goto, TaskTyped, HoldingPc
      <3>2. ASSUME pc'[t] = "freeing", NEW u \in Tasks, Holding(u), alloc[target[t]].device = held[u]
            PROVE  FALSE
        <4>1. /\ target[t] \in Tasks /\ target[t] \in late /\ pc[t] = "checking"
              /\ dev[held[u]].job = JobOf[target[t]] /\ held[u] \in Devices
          BY <1>0, <2>2, <3>2 DEF CheckExpired, Goto, TaskTyped, TaskHandles, AllocTyped
        <4>2. pc[target[t]] = "dead"
          BY <2>0, <4>1 DEF Undisturbed, OnTime
        <4>3. pc[u] \in After
          BY <3>2, <4>1, Alone DEF Holding, HoldingPc, Critical, After
        <4>4. dev[held[u]].job = JobOf[u] \/ dev[held[u]].job = None
          BY <2>0, <4>1, <4>3 DEF Owned, PoolInv, AbsentHasNoJob
        <4>5. target[t] = u
          BY <4>1, <4>4, NoneAssumption, TasksAssumption DEF OnePool, TasksAssumption
        <4> QED BY <4>2, <4>3, <4>5 DEF After
      <3> QED
        BY <2>0, <3>1, <3>2 DEF Apart, Owned, Freeable, Holding, HoldingPc, After
    <2>3. ASSUME NEW t \in Tasks, FreeExpired(t) PROVE Goal
      <3>1. /\ held' = held /\ target' = target /\ alloc' = alloc
            /\ \A u \in Tasks : pc'[u] \in HoldingPc \cup {"freeing"} => pc'[u] = pc[u]
        BY <1>0, <2>3 DEF FreeExpired, Goto, TaskTyped, HoldingPc
      <3>2. \A u \in Tasks : Holding(u) => dev'[held[u]] = dev[held[u]]
        BY <1>0, <2>0, <2>3 DEF FreeExpired, SetDevice, DevTyped, Freeable, TaskHandles
      <3> QED
        BY <2>0, <3>1, <3>2 DEF Apart, Owned, Freeable, Holding, HoldingPc, After
    <2>4. ASSUME NEW t \in Tasks, Choose(t) PROVE Goal
      <3>1. PICK d \in Devices : IsAvailable(d) /\ held' = [held EXCEPT ![t] = d]
        BY <2>4, TasksAssumption DEF Choose, TasksAssumption
      <3>2. /\ dev' = dev /\ alloc' = alloc /\ pc[t] = "expiring" /\ pc'[t] = "assigning"
            /\ \A u \in Tasks : u # t => pc'[u] = pc[u] /\ target'[u] = target[u] /\ held'[u] = held[u]
            /\ held'[t] = d
        BY <1>0, <2>4, <3>1 DEF Choose, Goto, TaskTyped
      <3>3. ASSUME NEW u \in Tasks, u # t PROVE pc[u] \notin Critical
        BY <3>2, <3>3, Alone DEF Critical
      <3>4. ASSUME NEW u \in Tasks, u # t, Holding(u) PROVE held[u] # d
        <4>1. pc[u] \in After
          BY <3>3, <3>4 DEF Holding, HoldingPc, Critical, After
        <4>2. dev[d].state = "online"
          BY <3>1 DEF IsAvailable
        <4> QED BY <2>0, <4>1, <4>2 DEF Owned
      <3>5. Apart'
        BY <2>0, <3>2, <3>4 DEF Apart, Holding
      <3>6. Owned'
        BY <2>0, <3>2 DEF Owned, After
      <3>7. Freeable'
        BY <3>2, <3>3 DEF Freeable, Critical
      <3> QED BY <3>5, <3>6, <3>7
    <2>5. ASSUME NEW t \in Tasks, CreateAllocation(t) PROVE Goal
      <3>1. /\ dev' = dev /\ held' = held /\ target' = target
            /\ pc[t] = "assigning" /\ pc'[t] = "marking"
            /\ \A u \in Tasks : u # t => pc'[u] = pc[u] /\ alloc'[u] = alloc[u]
        BY <1>0, <2>5 DEF CreateAllocation, Goto, TaskTyped, AllocTyped
      <3>2. \A u \in Tasks : pc'[u] # "freeing"
        BY <3>1, Alone DEF Critical
      <3> QED
        BY <2>0, <3>1, <3>2 DEF Apart, Owned, Freeable, Holding, HoldingPc, After
    <2>6. ASSUME NEW t \in Tasks, MarkBusy(t) PROVE Goal
      <3>1. /\ held' = held /\ target' = target /\ alloc' = alloc
            /\ pc[t] = "marking" /\ pc'[t] = "using" /\ \A u \in Tasks : u # t => pc'[u] = pc[u]
        BY <1>0, <2>6 DEF MarkBusy, Goto, TaskTyped
      <3>2. /\ \/ dev'[held[t]].state = "busy" /\ dev'[held[t]].job = JobOf[t]
               \/ dev'[held[t]].state = "absent"
            /\ \A d \in Devices : d # held[t] => dev'[d] = dev[d]
        BY <1>0, <2>6 DEF MarkBusy, SetDevice, DevTyped, TaskHandles, Holding, HoldingPc
      <3>3. Owned'
        BY <1>0, <2>0, <3>1, <3>2 DEF Owned, Apart, Holding, HoldingPc, After, TaskHandles
      <3> QED
        BY <2>0, <3>1, <3>3 DEF Apart, Freeable, Holding, HoldingPc
    <2>7. ASSUME NEW t \in Tasks, Finish(t) \/ FindAllocation(t) \/ CheckOwn(t) \/ EndOwn(t) PROVE Goal
      <3>1. /\ dev' = dev /\ held' = held
            /\ pc[t] \in After /\ pc'[t] \in After \cup {"done"}
            /\ \A u \in Tasks : u # t => pc'[u] = pc[u] /\ target'[u] = target[u]
        BY <1>0, <2>7 DEF Finish, FindAllocation, CheckOwn, EndOwn, Goto, TaskTyped, After
      <3>2. \A u \in Tasks : alloc'[u].device = alloc[u].device
        BY <1>0, <2>7 DEF Finish, FindAllocation, CheckOwn, EndOwn, EndAllocation, AllocTyped, Allocation
      <3>3. \A u \in Tasks : pc[u] = "freeing" => target[u] \in Tasks
        BY <1>0 DEF TaskHandles, AllocTyped
      <3>4. \A u \in Tasks : /\ pc'[u] \in HoldingPc => pc[u] \in HoldingPc
                             /\ pc'[u] \in After => pc[u] \in After
                             /\ pc'[u] = "freeing" => u # t
        BY <3>1 DEF After, HoldingPc
      <3> QED
        BY <2>0, <3>1, <3>2, <3>3, <3>4 DEF Apart, Owned, Freeable, Holding
    <2>8. ASSUME NEW t \in Tasks, ReturnDevice(t) PROVE Goal
      <3>1. /\ held' = held /\ target' = target /\ alloc' = alloc
            /\ pc[t] = "returning" /\ pc'[t] = "done" /\ \A u \in Tasks : u # t => pc'[u] = pc[u]
        BY <1>0, <2>8 DEF ReturnDevice, Goto, TaskTyped
      <3>2. \A d \in Devices : d # held[t] => dev'[d] = dev[d]
        BY <1>0, <2>8 DEF ReturnDevice, SetDevice, DevTyped
      <3>3. Owned'
        BY <1>0, <2>0, <3>1, <3>2 DEF Owned, Apart, Holding, HoldingPc, After, TaskHandles
      <3> QED
        BY <2>0, <3>1, <3>3 DEF Apart, Freeable, Holding, HoldingPc
    <2>9. ASSUME NEW t \in Tasks, TtlPasses(t) PROVE Goal
      BY <2>0, <2>9 DEF TtlPasses, Apart, Owned, Freeable, Holding
    <2>10. ASSUME dev' # dev, Remove \/ PutOnline \/ \E d \in Devices : AddDevice(d) PROVE Goal
      <3>1. UNCHANGED <<held, target, alloc, pc>>
        BY <2>10 DEF Remove, PutOnline, AddDevice
      <3>2. \A d \in Devices : \/ dev'[d] = dev[d] \/ dev'[d].state = "absent"
                              \/ dev[d].state \in {"new", "unknown"}
        <4>1. CASE Remove
          BY <1>0, <4>1 DEF Remove, DevTyped, AdminTyped
        <4>2. CASE PutOnline
          <5>1. dev[cli.device].state \in {"unknown", "absent"}
            BY <2>0, <4>2 DEF PutOnline, PoolInv, CommandAdds, Undisturbed
          <5> QED BY <1>0, <4>2, <5>1 DEF PutOnline, SetDevice, DevTyped
        <4>3. ASSUME NEW e \in Devices, AddDevice(e) PROVE <3>2
          BY <1>0, <4>3 DEF AddDevice, DevTyped
        <4> QED BY <2>10, <4>1, <4>2, <4>3
      <3>3. \A u \in Tasks : pc[u] \in After =>
              /\ held[u] \in Devices /\ dev[held[u]].state \notin {"new", "unknown"}
        BY <1>0 DEF PoolInv, Registered, TaskHandles, Holding, HoldingPc, After
      <3> QED
        BY <2>0, <3>1, <3>2, <3>3 DEF Apart, Owned, Freeable, Holding
    <2>11. CASE dev' = dev /\ UNCHANGED <<held, target, alloc, pc>>
      BY <2>0, <2>11 DEF Apart, Owned, Freeable, Holding
    <2>12. ~FindForced /\ ~CheckForced /\ ~EndForced
      BY <2>0 DEF FindForced, CheckForced, EndForced
    <2>13. ASSUME NEW d \in Devices, BeginForced(d) PROVE Goal
      BY <2>11, <2>13 DEF BeginForced
    <2>14. UNCHANGED poolVars => Goal
      BY <2>11 DEF poolVars
    <2>15. dev' = dev /\ (Remove \/ PutOnline \/ \E d \in Devices : AddDevice(d)) => Goal
      BY <2>11 DEF Remove, PutOnline, AddDevice
    <2> QED
      BY <1>2, <2>1, <2>2, <2>3, <2>4, <2>5, <2>6, <2>7, <2>8, <2>9, <2>10, <2>12, <2>13,
         <2>14, <2>15, PoolSteps DEF Acquire, Release, Return, PoolInv
  <1> QED BY <1>1, <1>2

(* Two tasks of a pool never use the same device: from the choice of a device
   to its return no other task holds it, unless a task overran its TTL or an
   operator forced a release; dead tasks do not count. *)
THEOREM DevicesAreExclusive == ASSUME OnePool PROVE Spec => []ExclusiveUse
  <1>1. TypeInv /\ PoolInv /\ ExclusiveInv /\ [Next]_vars => (TypeInv /\ PoolInv /\ ExclusiveInv)'
    BY StepTypes, StepPool, StepExclusive
  <1>2. Init => TypeInv /\ PoolInv /\ ExclusiveInv
    BY InitTypes, InitPool, InitExclusive
  <1>3. ExclusiveInv => ExclusiveUse
    BY DEF ExclusiveInv, Undisturbed, ExclusiveUse, Apart, Holding, HoldingPc
  <1> QED BY <1>1, <1>2, <1>3, PTL DEF Spec

-----------------------------------------------------------------------------
(* A BUSY device *)

(* Without forced releases: the job its row names has the allocation, or
   somebody past the end of that allocation is about to return the device. *)
Covered(d) ==
  \/ \E t \in Tasks : /\ alloc[t].device = d /\ dev[d].job = JobOf[t]
                      /\ \/ Active(t)
                         \/ \E u \in Tasks : pc[u] = "checking" /\ target[u] = t
  \/ \E t \in Tasks : pc[t] = "freeing" /\ alloc[target[t]].device = d
  \/ \E t \in Tasks : pc[t] = "returning" /\ held[t] = d
CoveredInv ==
  crashes = 0 /\ forced = 0 =>
    /\ \A t \in Tasks : pc[t] = "marking" => Active(t)
    /\ \A d \in Devices : dev[d].state = "busy" => Covered(d)
(* With forced releases, but nobody late: a task that lost its allocation still
   returns the device. *)
KeptInv ==
  crashes = 0 /\ OnTime =>
    \A d \in Devices : dev[d].state = "busy" => ActiveOn(d) # {} \/ Returning(d) \/ Kept(d)

(* Only an assignment makes a device BUSY. *)
LEMMA BusyWrites ==
  ASSUME OnePool, TypeInv, PoolInv, [Next]_vars, NEW d \in Devices, dev'[d].state = "busy"
  PROVE  \/ dev'[d] = dev[d] /\ dev[d].state = "busy"
         \/ \E t \in Tasks : MarkBusy(t) /\ held[t] = d /\ dev'[d].job = JobOf[t]
  <1>0. DevTyped /\ AdminTyped
    BY TypeParts DEF TypeInv
  <1> USE DEF taskVars, watchVars, adminVars
  <1>1. ASSUME dev' = dev PROVE dev'[d] = dev[d] /\ dev[d].state = "busy"
    BY <1>1
  <1>2. ASSUME NEW e, SetDevice(e, "online", None) PROVE dev'[d] = dev[d] /\ dev[d].state = "busy"
    BY <1>0, <1>2 DEF SetDevice, DevTyped
  <1>3. ASSUME NEW t \in Tasks, FreeExpired(t) \/ ReturnDevice(t)
        PROVE  dev'[d] = dev[d] /\ dev[d].state = "busy"
    BY <1>2, <1>3 DEF FreeExpired, ReturnDevice
  <1>4. CASE PutOnline
    BY <1>2, <1>4 DEF PutOnline
  <1>5. CASE Remove
    BY <1>0, <1>5 DEF Remove, DevTyped
  <1>9. ASSUME NEW e \in Devices, AddDevice(e)
        PROVE  dev'[d] = dev[d] /\ dev[d].state = "busy"
    <2>1. dev' = [dev EXCEPT ![e].state = "unknown"] /\ dev \in [Devices -> Device]
      BY <1>0, <1>9 DEF AddDevice, DevTyped
    <2>2. dev'[e].state = "unknown"
      BY <2>1 DEF Device
    <2> QED BY <2>1, <2>2
  <1>6. ASSUME NEW t \in Tasks, MarkBusy(t)
        PROVE  \/ dev'[d] = dev[d] /\ dev[d].state = "busy"
               \/ MarkBusy(t) /\ held[t] = d /\ dev'[d].job = JobOf[t]
    BY <1>0, <1>6 DEF MarkBusy, SetDevice, DevTyped
  <1>7. ASSUME NEW t \in Tasks,
               \/ BeginAcquire(t) \/ Expire(t) \/ CheckExpired(t) \/ Choose(t) \/ NothingFree(t)
               \/ CreateAllocation(t) \/ Finish(t) \/ FindAllocation(t) \/ CheckOwn(t) \/ EndOwn(t)
               \/ TtlPasses(t)
        PROVE  dev' = dev
    BY <1>7 DEF BeginAcquire, Expire, CheckExpired, Choose, NothingFree, CreateAllocation,
                Finish, FindAllocation, CheckOwn, EndOwn, TtlPasses
  <1>8. ASSUME \/ FindForced \/ CheckForced \/ EndForced \/ UNCHANGED poolVars
               \/ \E e \in Devices : BeginForced(e)
               \/ \E a \in Allocators : Crash(a)
        PROVE  dev' = dev
    BY <1>8 DEF FindForced, CheckForced, EndForced, BeginForced, Crash, poolVars
  <1> QED
    BY <1>1, <1>3, <1>4, <1>5, <1>6, <1>7, <1>8, <1>9, PoolSteps DEF Acquire, Release, Return, PoolInv

LEMMA InitBusy == Init => CoveredInv /\ KeptInv
  BY DEF Init, CoveredInv, KeptInv

(* A step that is not a crash moves at most one task, ... *)
LEMMA OneMoves ==
  ASSUME OnePool, TypeInv, PoolInv, [Next]_vars, \A a \in Allocators : ~Crash(a)
  PROVE  \/ UNCHANGED <<pc, held, target, seen>>
         \/ \E t \in Tasks : /\ Acquire(t) \/ Release(t)
                             /\ \A u \in Tasks \ {t} :
                                  /\ pc'[u] = pc[u] /\ held'[u] = held[u]
                                  /\ target'[u] = target[u] /\ seen'[u] = seen[u]
  <1>0. TaskTyped
    BY TypeParts DEF TypeInv
  <1>1. ASSUME NEW t \in Tasks, Acquire(t) \/ Release(t), NEW u \in Tasks \ {t}
        PROVE  /\ pc'[u] = pc[u] /\ held'[u] = held[u]
               /\ target'[u] = target[u] /\ seen'[u] = seen[u]
    <2>1. CASE Acquire(t)
      BY <1>0, <2>1 DEF Acquire, BeginAcquire, Expire, CheckExpired, FreeExpired, Choose,
         NothingFree, CreateAllocation, MarkBusy, Goto, TaskTyped
    <2>2. CASE Release(t)
      BY <1>0, <2>2 DEF Release, Return, Finish, FindAllocation, CheckOwn, EndOwn, ReturnDevice, Goto, TaskTyped
    <2> QED BY <1>1, <2>1, <2>2
  <1>2. ASSUME \/ Remove \/ FindForced \/ CheckForced \/ EndForced \/ PutOnline \/ UNCHANGED poolVars
               \/ \E d \in Devices : AddDevice(d) \/ BeginForced(d)
               \/ \E t \in Tasks : TtlPasses(t)
        PROVE  UNCHANGED <<pc, held, target, seen>>
    BY <1>2 DEF Remove, FindForced, CheckForced, EndForced, PutOnline, AddDevice, BeginForced, TtlPasses,
       poolVars, taskVars
  <1> QED BY <1>1, <1>2, PoolSteps DEF PoolInv

(* ... keeps the device of every allocation, and ends one in three ways. *)
LEMMA AllocationSteps ==
  ASSUME OnePool, TypeInv, PoolInv, [Next]_vars, \A a \in Allocators : ~Crash(a),
         NEW t \in Tasks, alloc[t].status # "none"
  PROVE  /\ alloc'[t].device = alloc[t].device
         /\ \/ alloc'[t].status = alloc[t].status
            \/ \E v \in Tasks : /\ Expire(v) /\ pc[v] = "expiring" /\ t \in late
                                /\ pc'[v] = "checking" /\ target'[v] = t
            \/ EndOwn(t) /\ pc[t] = "closing" /\ pc'[t] = "returning" /\ held'[t] = held[t]
            \/ /\ EndForced /\ cli.pc = "closing" /\ cli.target = t
               /\ cli'.pc = "returning" /\ cli'.device = cli.device
  <1>0. TaskTyped /\ AllocTyped /\ AdminTyped /\ TaskHandles /\ OtherHandles
    BY TypeParts DEF TypeInv
  <1> USE DEF taskVars
  <1>1. ASSUME NEW v \in Tasks, Expire(v)
        PROVE  /\ alloc'[t].device = alloc[t].device
               /\ \/ alloc'[t].status = alloc[t].status
                  \/ pc[v] = "expiring" /\ t \in late /\ pc'[v] = "checking" /\ target'[v] = t
    <2>1. PICK u \in stale[v] \cap late :
            EndAllocation(u, "expired") /\ target' = [target EXCEPT ![v] = u]
      BY <1>1 DEF Expire
    <2>2. pc[v] = "expiring" /\ pc'[v] = "checking" /\ u \in Tasks /\ target'[v] = u
      BY <1>0, <1>1, <2>1 DEF Expire, Goto, TaskTyped, AllocTyped
    <2> QED
      BY <1>0, <2>1, <2>2, EndAllocationWrites DEF AllocTyped, AllocationStatus
  <1>2. ASSUME NEW v \in Tasks, EndOwn(v)
        PROVE  /\ alloc'[t].device = alloc[t].device
               /\ \/ alloc'[t].status = alloc[t].status
                  \/ v = t /\ pc[t] = "closing" /\ pc'[t] = "returning" /\ held'[t] = held[t]
    <2>1. /\ pc[v] = "closing" /\ target[v] = v /\ held' = held /\ pc'[v] = "returning"
          /\ EndAllocation(v, "released")
      BY <1>0, <1>2 DEF EndOwn, PoolInv, OwnEnd, Goto, TaskTyped
    <2> QED BY <1>0, <2>1, EndAllocationWrites DEF AllocTyped, AllocationStatus
  <1>3. ASSUME EndForced
        PROVE  /\ alloc'[t].device = alloc[t].device
               /\ \/ alloc'[t].status = alloc[t].status
                  \/ /\ cli.pc = "closing" /\ cli.target = t
                     /\ cli'.pc = "returning" /\ cli'.device = cli.device
    <2>1. cli'.pc = "returning" /\ cli'.device = cli.device
      BY <1>0, <1>3 DEF EndForced, AdminTyped
    <2>2. cli.pc = "closing" /\ cli.target \in Tasks /\ EndAllocation(cli.target, "released")
      BY <1>0, <1>3 DEF EndForced, OtherHandles, Allocated
    <2> QED BY <1>0, <2>1, <2>2, EndAllocationWrites DEF AllocTyped, AllocationStatus
  <1>4. ASSUME NEW v \in Tasks, CreateAllocation(v) PROVE alloc'[t] = alloc[t]
    BY <1>0, <1>4 DEF CreateAllocation, PoolInv, NotYetAllocated, AllocTyped
  <1>5. ASSUME NEW v \in Tasks,
               \/ BeginAcquire(v) \/ CheckExpired(v) \/ FreeExpired(v) \/ Choose(v) \/ NothingFree(v)
               \/ MarkBusy(v) \/ Finish(v) \/ FindAllocation(v) \/ CheckOwn(v) \/ ReturnDevice(v)
               \/ TtlPasses(v)
        PROVE  alloc' = alloc
    BY <1>5 DEF BeginAcquire, CheckExpired, FreeExpired, Choose, NothingFree, MarkBusy,
                Finish, FindAllocation, CheckOwn, ReturnDevice, TtlPasses
  <1>6. ASSUME \/ Remove \/ FindForced \/ CheckForced \/ PutOnline \/ UNCHANGED poolVars
               \/ \E d \in Devices : AddDevice(d) \/ BeginForced(d)
        PROVE  alloc' = alloc
    BY <1>6 DEF Remove, FindForced, CheckForced, PutOnline, AddDevice, BeginForced, poolVars
  <1> QED
    BY <1>1, <1>2, <1>3, <1>4, <1>5, <1>6, PoolSteps DEF Acquire, Release, Return, PoolInv

LEMMA StepCovered ==
  ASSUME OnePool, TypeInv, PoolInv, CoveredInv, [Next]_vars
  PROVE  CoveredInv'
  <1> SUFFICES ASSUME crashes' = 0, forced' = 0
               PROVE  /\ \A t \in Tasks : pc'[t] = "marking" => Active(t)'
                      /\ \A d \in Devices : dev'[d].state = "busy" => Covered(d)'
    BY DEF CoveredInv
  <1>0. DevTyped /\ TaskTyped /\ AllocTyped /\ AdminTyped /\ TaskHandles /\ OtherHandles
    BY TypeParts DEF TypeInv
  <1>1. /\ \A a \in Allocators : ~Crash(a)
        /\ \A t \in Tasks : pc[t] = "marking" => Active(t)
        /\ \A d \in Devices : dev[d].state = "busy" => Covered(d)
        /\ ~EndForced
    BY CountersGrow DEF CoveredInv, PoolInv, CommandAdds, EndForced
  <1> USE DEF taskVars
  <1>2. ASSUME NEW t \in Tasks, pc'[t] = "marking" PROVE Active(t)'
    <2>1. CASE pc[t] = "marking"
      <3>1. alloc[t].status = "active"
        BY <1>1, <2>1 DEF Active
      <3>2. \A v \in Tasks : pc[v] # "expiring"
        BY <2>1, Alone DEF Critical
      <3> QED BY <1>1, <2>1, <3>1, <3>2, AllocationSteps DEF Active
    <2>2. CASE pc[t] # "marking"
      <3>1. PICK v \in Tasks : /\ Acquire(v) \/ Release(v)
                               /\ \A u \in Tasks \ {v} : pc'[u] = pc[u]
        BY <1>1, <1>2, <2>2, OneMoves
      <3>2. v = t
        BY <1>2, <2>2, <3>1
      <3>3. CreateAllocation(t)
        BY <1>0, <1>2, <2>2, <3>1, <3>2
        DEF Acquire, Release, Return, BeginAcquire, Expire, CheckExpired, FreeExpired, Choose, NothingFree,
            MarkBusy, Finish, FindAllocation, CheckOwn, EndOwn, ReturnDevice, Goto, TaskTyped
      <3> QED BY <1>0, <3>3 DEF CreateAllocation, Active, AllocTyped
    <2> QED BY <2>1, <2>2
  <1>3. ASSUME NEW d \in Devices, dev'[d] = dev[d], dev[d].state = "busy" PROVE Covered(d)'
    <2>1. ASSUME NEW t \in Tasks, alloc[t].device = d, dev[d].job = JobOf[t], Active(t)
          PROVE  Covered(d)'
      <3>1. alloc[t].status = "active"
        BY <2>1 DEF Active
      <3>2. alloc'[t].device = d
        BY <1>1, <2>1, <3>1, AllocationSteps
      <3>3. CASE alloc'[t].status = "active"
        BY <1>3, <2>1, <3>2, <3>3 DEF Covered, Active
      <3>4. CASE \E v \in Tasks : pc'[v] = "checking" /\ target'[v] = t
        BY <1>3, <2>1, <3>2, <3>4 DEF Covered
      <3>5. CASE pc[t] = "closing" /\ pc'[t] = "returning" /\ held'[t] = held[t]
        <4>1. held[t] = d
          BY <2>1, <3>5 DEF PoolInv, UsesOwn, HoldingPc
        <4> QED BY <3>5, <4>1 DEF Covered
      <3> QED BY <1>1, <3>1, <3>3, <3>4, <3>5, AllocationSteps
    <2>2. ASSUME NEW t \in Tasks, NEW u \in Tasks, alloc[t].device = d, dev[d].job = JobOf[t],
                 pc[u] = "checking", target[u] = t
          PROVE  Covered(d)'
      <3>1. alloc'[t].device = d
        BY <1>0, <1>1, <2>2, AllocationSteps DEF TaskHandles, Allocated
      <3>2. CASE pc'[u] = pc[u] /\ target'[u] = target[u]
        BY <1>3, <2>2, <3>1, <3>2 DEF Covered
      <3>3. CASE Acquire(u) \/ Release(u)
        <4>1. CheckExpired(u)
          BY <2>2, <3>3
          DEF Acquire, Release, Return, BeginAcquire, Expire, FreeExpired, Choose, NothingFree,
              CreateAllocation, MarkBusy, Finish, FindAllocation, CheckOwn, EndOwn, ReturnDevice
        <4>2. pc'[u] = "freeing" /\ target'[u] = t
          BY <1>0, <2>2, <4>1 DEF CheckExpired, Goto, TaskTyped
        <4> QED BY <3>1, <4>2 DEF Covered
      <3> QED BY <1>1, <3>2, <3>3, OneMoves
    <2>3. ASSUME NEW u \in Tasks, pc[u] = "freeing", alloc[target[u]].device = d
          PROVE  Covered(d)'
      <3>1. alloc'[target[u]].device = d
        <4>1. target[u] \in Tasks /\ alloc[target[u]].status # "none"
          BY <1>0, <2>3 DEF TaskHandles, Allocated, AllocTyped
        <4> QED BY <1>1, <2>3, <4>1, AllocationSteps
      <3>2. CASE pc'[u] = pc[u] /\ target'[u] = target[u]
        BY <2>3, <3>1, <3>2 DEF Covered
      <3>3. CASE Acquire(u) \/ Release(u)
        <4>1. FreeExpired(u)
          BY <2>3, <3>3
          DEF Acquire, Release, Return, BeginAcquire, Expire, CheckExpired, Choose, NothingFree,
              CreateAllocation, MarkBusy, Finish, FindAllocation, CheckOwn, EndOwn, ReturnDevice
        <4>2. SetDevice(d, "online", None)
          BY <2>3, <4>1 DEF FreeExpired
        <4> QED BY <1>0, <1>3, <4>2 DEF SetDevice, DevTyped
      <3> QED BY <1>1, <3>2, <3>3, OneMoves
    <2>4. ASSUME NEW u \in Tasks, pc[u] = "returning", held[u] = d PROVE Covered(d)'
      <3>2. CASE pc'[u] = pc[u] /\ held'[u] = held[u]
        BY <2>4, <3>2 DEF Covered
      <3>3. CASE Acquire(u) \/ Release(u)
        <4>1. ReturnDevice(u)
          BY <2>4, <3>3
          DEF Acquire, Release, Return, BeginAcquire, Expire, CheckExpired, FreeExpired, Choose, NothingFree,
              CreateAllocation, MarkBusy, Finish, FindAllocation, CheckOwn, EndOwn
        <4>2. SetDevice(d, "online", None)
          BY <2>4, <4>1 DEF ReturnDevice
        <4> QED BY <1>0, <1>3, <4>2 DEF SetDevice, DevTyped
      <3> QED BY <1>1, <3>2, <3>3, OneMoves
    <2> QED BY <1>1, <1>3, <2>1, <2>2, <2>3, <2>4 DEF Covered
  <1>4. ASSUME NEW t \in Tasks, NEW d \in Devices, MarkBusy(t), held[t] = d, dev'[d].job = JobOf[t]
        PROVE  Covered(d)'
    <2>1. pc[t] = "marking" /\ alloc' = alloc
      BY <1>4 DEF MarkBusy
    <2>2. alloc[t].device = d /\ alloc[t].status = "active"
      BY <1>1, <1>4, <2>1 DEF PoolInv, UsesOwn, HoldingPc, Active
    <2> QED BY <1>4, <2>1, <2>2 DEF Covered, Active
  <1> QED BY <1>2, <1>3, <1>4, BusyWrites

LEMMA StepKept ==
  ASSUME OnePool, TypeInv, PoolInv, KeptInv, [Next]_vars
  PROVE  KeptInv'
  <1> SUFFICES ASSUME crashes' = 0, OnTime', NEW d \in Devices, dev'[d].state = "busy"
               PROVE  (ActiveOn(d) # {} \/ Returning(d) \/ Kept(d))'
    BY DEF KeptInv
  <1>0. DevTyped /\ TaskTyped /\ AllocTyped /\ AdminTyped /\ TaskHandles /\ OtherHandles
    BY TypeParts DEF TypeInv
  <1> USE DEF taskVars
  <1>1. (\A a \in Allocators : ~Crash(a)) /\ OnTime /\ crashes = 0
    BY CountersGrow, StaysLate
  <1>2. late = {}
    BY <1>0, <1>1 DEF OnTime, PoolInv, NoDeath, AllocTyped
  <1>3. \A t \in Tasks : pc[t] \notin {"checking", "freeing"}
    BY <1>0, <1>2 DEF TaskHandles
  <1>4. ASSUME NEW t \in Tasks, MarkBusy(t), held[t] = d PROVE Kept(d)'
    BY <1>0, <1>4 DEF MarkBusy, Goto, Kept, TaskTyped
  <1>5. ASSUME dev'[d] = dev[d], dev[d].state = "busy"
        PROVE  (ActiveOn(d) # {} \/ Returning(d) \/ Kept(d))'
    <2>1. ASSUME NEW t \in Tasks, Active(t), alloc[t].device = d PROVE (ActiveOn(d) # {} \/ Returning(d))'
      <3>1. alloc[t].status = "active"
        BY <2>1 DEF Active
      <3>2. alloc'[t].device = d
        BY <1>1, <2>1, <3>1, AllocationSteps
      <3>3. CASE alloc'[t].status = "active"
        BY <3>2, <3>3 DEF ActiveOn, Active
      <3>4. CASE pc[t] = "closing" /\ pc'[t] = "returning" /\ held'[t] = held[t]
        <4>1. held[t] = d
          BY <2>1, <3>4 DEF PoolInv, UsesOwn, HoldingPc
        <4> QED BY <3>4, <4>1 DEF Returning
      <3>5. CASE cli.pc = "closing" /\ cli.target = t /\ cli'.pc = "returning" /\ cli'.device = cli.device
        <4>1. cli.device = d
          BY <2>1, <3>5 DEF PoolInv, CommandEnds
        <4> QED BY <3>5, <4>1 DEF Returning
      <3> QED BY <1>1, <1>2, <3>1, <3>3, <3>4, <3>5, AllocationSteps
    <2>2. ASSUME cli.pc = "returning", cli.device = d PROVE Returning(d)'
      <3>1. ~PutOnline
        BY <1>0, <1>5, <2>2 DEF PutOnline, SetDevice, DevTyped
      <3>2. cli' = cli
        <4>1. ASSUME NEW t \in Tasks, Acquire(t) \/ Release(t) \/ TtlPasses(t) PROVE cli' = cli
          BY <4>1 DEF Acquire, BeginAcquire, Expire, CheckExpired, FreeExpired, Choose, NothingFree,
             CreateAllocation, MarkBusy, Release, Return, Finish, FindAllocation, CheckOwn, EndOwn, ReturnDevice,
             TtlPasses, adminVars
        <4>2. ~FindForced /\ ~CheckForced /\ ~EndForced /\ \A e \in Devices : ~AddDevice(e) /\ ~BeginForced(e)
          BY <2>2 DEF FindForced, CheckForced, EndForced, AddDevice, BeginForced
        <4>3. CASE Remove \/ UNCHANGED poolVars
          BY <4>3 DEF Remove, poolVars
        <4> QED BY <1>1, <3>1, <4>1, <4>2, <4>3, PoolSteps DEF PoolInv
      <3> QED BY <2>2, <3>2 DEF Returning
    <2>3. ASSUME NEW u \in Tasks, pc[u] = "returning", held[u] = d PROVE Returning(d)'
      <3>1. CASE pc'[u] = pc[u] /\ held'[u] = held[u]
        BY <2>3, <3>1 DEF Returning
      <3>2. CASE Acquire(u) \/ Release(u)
        <4>1. ReturnDevice(u)
          BY <2>3, <3>2
          DEF Acquire, Release, Return, BeginAcquire, Expire, CheckExpired, FreeExpired, Choose, NothingFree,
              CreateAllocation, MarkBusy, Finish, FindAllocation, CheckOwn, EndOwn
        <4>2. SetDevice(d, "online", None)
          BY <2>3, <4>1 DEF ReturnDevice
        <4> QED BY <1>0, <1>5, <4>2 DEF SetDevice, DevTyped
      <3> QED BY <1>1, <3>1, <3>2, OneMoves
    <2>4. ASSUME NEW u \in Tasks, held[u] = d, pc[u] = "using" PROVE Kept(d)'
      <3>1. CASE pc'[u] = pc[u] /\ held'[u] = held[u]
        BY <2>4, <3>1 DEF Kept
      <3>2. CASE Acquire(u) \/ Release(u)
        <4>1. Finish(u)
          BY <2>4, <3>2
          DEF Acquire, Release, Return, BeginAcquire, Expire, CheckExpired, FreeExpired, Choose, NothingFree,
              CreateAllocation, MarkBusy, FindAllocation, CheckOwn, EndOwn, ReturnDevice
        <4>2. held'[u] = d /\ pc'[u] = "looking" /\ seen'[u] = "busy"
          BY <1>0, <1>5, <2>4, <4>1 DEF Finish, Goto, TaskTyped
        <4> QED BY <4>2 DEF Kept
      <3> QED BY <1>1, <3>1, <3>2, OneMoves
    <2>5. ASSUME NEW u \in Tasks, held[u] = d, pc[u] = "looking", seen[u] = "busy", ActiveOn(d) = {}
          PROVE  (Returning(d) \/ Kept(d))'
      <3>1. CASE pc'[u] = pc[u] /\ held'[u] = held[u] /\ seen'[u] = seen[u]
        BY <2>5, <3>1 DEF Kept
      <3>2. CASE Acquire(u) \/ Release(u)
        <4>1. FindAllocation(u)
          BY <2>5, <3>2
          DEF Acquire, Release, Return, BeginAcquire, Expire, CheckExpired, FreeExpired, Choose, NothingFree,
              CreateAllocation, MarkBusy, Finish, CheckOwn, EndOwn, ReturnDevice
        <4>2. held'[u] = d /\ pc'[u] = "returning"
          BY <1>0, <2>5, <4>1 DEF FindAllocation, Goto, TaskTyped
        <4> QED BY <4>2 DEF Returning
      <3> QED BY <1>1, <3>1, <3>2, OneMoves
    <2> QED
      BY <1>1, <1>3, <1>5, <2>1, <2>2, <2>3, <2>4, <2>5 DEF KeptInv, ActiveOn, Returning, Kept
  <1> QED BY <1>4, <1>5, BusyWrites

(* The two tables never forget a BUSY device: while no process died, and no
   forced release met an overrun, an allocation covers it or somebody is about
   to return it, in every order of expiry, release and commands. *)
THEOREM BusyIsNeverForgotten == ASSUME OnePool PROVE Spec => []BusyIsHeld
  <1>1. TypeInv /\ PoolInv /\ CoveredInv /\ KeptInv /\ [Next]_vars
          => (TypeInv /\ PoolInv /\ CoveredInv /\ KeptInv)'
    BY StepTypes, StepPool, StepCovered, StepKept
  <1>2. Init => TypeInv /\ PoolInv /\ CoveredInv /\ KeptInv
    BY InitTypes, InitPool, InitBusy
  <1>3. TypeInv /\ CoveredInv /\ KeptInv => BusyIsHeld
    <2> SUFFICES ASSUME TypeInv, CoveredInv, KeptInv, crashes = 0, forced = 0 \/ OnTime,
                        NEW d \in Devices, dev[d].state = "busy"
                 PROVE  ActiveOn(d) # {} \/ Returning(d) \/ (forced > 0 /\ Kept(d))
      BY DEF BusyIsHeld
    <2>1. CASE forced = 0
      <3>1. Covered(d)
        BY <2>1 DEF CoveredInv
      <3> QED BY <3>1 DEF Covered, ActiveOn, Returning
    <2>2. CASE forced # 0
      <3>1. forced > 0
        BY <2>2, TypeParts, SwitchAssumption DEF TypeInv, AdminTyped, SwitchAssumption
      <3> QED BY <2>2, <3>1 DEF KeptInv
    <2> QED BY <2>1, <2>2
  <1> QED BY <1>1, <1>2, <1>3, PTL DEF Spec

=============================================================================
