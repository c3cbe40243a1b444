----------------------------- MODULE MCDevicePool -----------------------------
(* Instances of DevicePool for TLC *)
EXTENDS DevicePool, TLC

CONSTANTS t1, t2, t3, d1, d2, a1, a2

NoTasks == {}
OneTask == {t1}
TwoTasks == {t1, t2}
ThreeTasks == {t1, t2, t3}
OneDevice == {d1}
TwoDevices == {d1, d2}
OneAllocator == {a1}
TwoAllocators == {a1, a2}

(* Pool threads share an Allocator; the others have a manager of their own *)
Shared == [t \in Tasks |-> a1]
Separate == [t \in Tasks |-> IF t = t1 THEN a1 ELSE a2]

(* Every task has a job id of its own *)
OwnJobs == [t \in Tasks |-> t]

(* Any device will do, or one task insists on a preferred one *)
AnyDevice == [t \in Tasks |-> Devices]
OnePicky == [t \in Tasks |-> IF t = t1 THEN {d1} ELSE Devices]

TaskSymmetry == Permutations(Tasks)
=============================================================================
