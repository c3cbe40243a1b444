---------------------------- MODULE LoopBus_proofs ----------------------------
(***************************************************************************)
(* Theorems about LoopBus for every set of contents and subscriptions and  *)
(* every bound: types, the three safety invariants of an event, and that   *)
(* the bus implements EventDelivery.  One invariant carries them all: what *)
(* the disk, the dead letters and the handlers' history say of an event at *)
(* each place its threads can be.                                          *)
(***************************************************************************)
EXTENDS LoopBus, FiniteSetTheorems, WellFoundedInduction, TLAPS

LEMMA Antisymmetry == \A m, n \in Nat : m <= n /\ n <= m => m = n
  OBVIOUS

(* Handlers are called in order: the next one is the least of those left. *)
LEMMA MinIsLeast ==
  ASSUME NEW S, S \subseteq Nat, S # {}
  PROVE  Min(S) \in S /\ \A y \in S : Min(S) <= y
  <1> DEFINE Less == OpToRel(<, Nat)
  <1> HIDE DEF Less
  <1>1. PICK x \in S : \A y \in S : ~(<<y, x>> \in Less)
    <2>1. IsWellFoundedOn(Less, Nat)
      BY NatLessThanWellFounded DEF Less
    <2> QED BY <2>1, WFMin
  <1>2. \A y \in S : x <= y
    <2> SUFFICES ASSUME NEW y \in S PROVE x <= y
      OBVIOUS
    <2>1. x \in Nat /\ y \in Nat /\ ~(<<y, x>> \in Less)
      BY <1>1
    <2>2. y < x => <<y, x>> \in Less
      BY <2>1 DEF OpToRel, Less
    <2> QED
      BY <2>1, <2>2
  <1>3. \E z \in S : \A y \in S : z <= y
    BY <1>2
  <1> QED BY <1>3 DEF Min

-----------------------------------------------------------------------------
(* Types *)

Places == {"none", "new", "admitted", "saved", "handling", "granted", "bump", "unpend",
           "over", "lost"}
(* the thread that schedules a retry has called somebody *)
Scheduling(i) == pc[i] \in {"granted", "bump"} => at[i] \in Subs
TypeInv == TypeOK /\ \A i \in Ids : Scheduling(i)

LEMMA CountsAreNaturals ==
  ASSUME NEW S \in SUBSET Ids, NEW P, NEW n \in Nat
  PROVE  n + Cardinality({i \in S : what[i] = P}) \in Nat
  <1>1. IsFiniteSet(Ids)
    BY FS_Interval, BusAssumption DEF BusAssumption, Ids
  <1>2. IsFiniteSet({i \in S : what[i] = P})
    BY <1>1, FS_Subset
  <1>3. Cardinality({i \in S : what[i] = P}) \in Nat
    BY <1>2, FS_CardinalityType
  <1> QED BY <1>3

LEMMA RequeuedTyped ==
  ASSUME TypeOK, NEW q \in [Keys -> Nat], NEW S \in SUBSET Ids
  PROVE  Requeued(q, S) \in [Keys -> Nat]
  <1>1. \A k \in Keys : q[k] \in Nat
    OBVIOUS
  <1>2. \A k \in Keys : q[k] + Cardinality({i \in S : what[i] = k}) \in Nat
    BY <1>1, CountsAreNaturals
  <1> QED BY <1>2 DEF Requeued

LEMMA NextHandler ==
  ASSUME TypeOK, NEW i \in Ids, Left(i) # {}
  PROVE  /\ Min(Left(i)) \in Left(i) /\ Min(Left(i)) \in Subs
         /\ \A s \in Left(i) : Min(Left(i)) <= s
  <1>1. matched[i] \in SUBSET Subs
    BY DEF TypeOK
  <1>2. Left(i) \subseteq Nat /\ Left(i) \subseteq Subs
    BY <1>1, BusAssumption DEF BusAssumption, Left
  <1> QED BY <1>2, MinIsLeast

(* Which events exist *)
Known ==
  \A i \in Ids : IF i <= used THEN what[i] \in Keys /\ pc[i] # "none"
                              ELSE what[i] = None /\ pc[i] = "none"

LEMMA InitTyped == Init => TypeInv /\ Known
  BY BusAssumption DEF Init, TypeInv, TypeOK, Scheduling, Places, Known, BusAssumption, Ids

LEMMA FaultTyped ==
  ASSUME TypeOK, NEW b, Fault(b)
  PROVE  faults' \in 0..MaxFaults
  BY BusAssumption DEF BusAssumption, TypeOK, Fault

(* Every step keeps the types and the numbering of events. *)
LEMMA ConstructTyped ==
  ASSUME TypeInv, Known, NEW k \in Keys, Construct(k),
         UNCHANGED <<at, clean, matched>>
  PROVE  /\ used + 1 \in Ids /\ used' \in 0..MaxIds
         /\ what' \in [Ids -> Keys \cup {None}] /\ pc' \in [Ids -> Places]
         /\ Known' /\ \A i \in Ids : Scheduling(i)'
  <1> USE BusAssumption DEF BusAssumption, TypeInv, TypeOK, Scheduling, Places
  <1>1. used + 1 \in Ids /\ used' \in 0..MaxIds
    BY DEF Construct, Ids
  <1>2. what' \in [Ids -> Keys \cup {None}] /\ pc' = [pc EXCEPT ![used + 1] = "new"]
    BY <1>1 DEF Construct, Goto
  <1>3. Known'
    <2>1. what' = [what EXCEPT ![used + 1] = k] /\ used' = used + 1 /\ used \in Nat
      BY DEF Construct
    <2>2. \A i \in Ids : i \in Nat /\ (i <= used + 1 <=> i <= used \/ i = used + 1)
      BY <2>1 DEF Ids
    <2>3. \A i \in Ids : i # used + 1 => what'[i] = what[i] /\ pc'[i] = pc[i]
      BY <1>2, <2>1
    <2>4. what'[used + 1] = k /\ pc'[used + 1] = "new"
      BY <1>1, <1>2, <2>1
    <2> QED
      BY <1>1, <2>1, <2>2, <2>3, <2>4 DEF Known
  <1> QED
    BY <1>1, <1>2, <1>3

LEMMA StepTyped ==
  ASSUME TypeInv, Known, [Next]_vars
  PROVE  TypeInv' /\ Known'
  <1> USE BusAssumption DEF BusAssumption, TypeInv, TypeOK, Scheduling, Places, Known
  <1>1. ASSUME NEW k \in Keys, Emit(k) PROVE TypeInv' /\ Known'
    BY <1>1, ConstructTyped DEF Emit, retrying, asynchronous, disk, bus
  <1>2. ASSUME NEW k \in Keys, EmitAsync(k) PROVE TypeInv' /\ Known'
    BY <1>2 DEF EmitAsync, emission, retrying, disk, bus
  <1>3. ASSUME NEW k \in Keys, WindowPasses(k) PROVE TypeInv' /\ Known'
    BY <1>3 DEF WindowPasses, emission, retrying, asynchronous, disk, bounds, bus
  <1>4. ASSUME StartWorker PROVE TypeInv' /\ Known'
    BY <1>4 DEF StartWorker, emission, retrying, disk, bounds, bus
  <1>5. ASSUME NEW k \in Keys, WorkerTakes(k) PROVE TypeInv' /\ Known'
    <2>1. queue' \in [Keys -> Nat]
      BY <1>5 DEF WorkerTakes
    <2>2. used + 1 \in Ids /\ Known' /\ \A i \in Ids : Scheduling(i)'
      BY <1>5, ConstructTyped DEF WorkerTakes
    <2>3. working' \subseteq Ids
      BY <1>5, <2>2 DEF WorkerTakes
    <2> QED
      BY <1>5, <2>1, <2>2, <2>3, ConstructTyped DEF WorkerTakes, retrying, disk, bus
  <1>6. ASSUME NEW i \in Ids, Reject(i) PROVE TypeInv' /\ Known'
    BY <1>6 DEF Reject, Goto, retrying, asynchronous, disk, bounds, bus
  <1>7. ASSUME NEW i \in Ids, Deduplicate(i) \/ Founder(i) \/ Match(i) PROVE TypeInv' /\ Known'
    <2>1. CASE Deduplicate(i)
      BY <2>1 DEF Deduplicate, Goto, retrying, asynchronous, disk, bounds, bus
    <2>2. CASE Founder(i)
      BY <2>2 DEF Founder, Goto, retrying, asynchronous, disk, bounds, bus
    <2>3. CASE Match(i)
      BY <2>3 DEF Match, Goto, retrying, asynchronous, disk, bounds, bus
    <2> QED
      BY <1>7, <2>1, <2>2, <2>3
  <1>8. ASSUME NEW i \in Ids, SaveEvent(i) \/ Unpend(i) PROVE TypeInv' /\ Known'
    <2>1. pending' \subseteq Ids /\ astray' \subseteq Ids
      BY <1>8 DEF SaveEvent, Unpend, Readings, Holds
    <2>2. faults' \in 0..MaxFaults
      BY <1>8, FaultTyped DEF SaveEvent, Unpend
    <2>3. CASE SaveEvent(i)
      BY <2>1, <2>2, <2>3 DEF SaveEvent, Goto, retrying, asynchronous, bounds, bus
    <2>4. CASE Unpend(i)
      BY <2>1, <2>2, <2>4 DEF Unpend, Goto, retrying, asynchronous, bounds, bus
    <2> QED
      BY <1>8, <2>3, <2>4
  <1>9. ASSUME NEW i \in Ids, CallSucceeds(i) PROVE TypeInv' /\ Known'
    BY <1>9, NextHandler DEF CallSucceeds, retrying, asynchronous, disk, bounds, bus
  <1>10. ASSUME NEW i \in Ids, CallFails(i) PROVE TypeInv' /\ Known'
    <2>1. Min(Left(i)) \in Subs
      BY <1>10, NextHandler DEF CallFails
    <2>2. pc' \in [Ids -> Places] /\ failures' \in 0..MaxFailures
      BY <1>10 DEF CallFails, Goto, Budget
    <2>3. dead' \subseteq Ids \X (Subs \cup {None})
      BY <1>10, <2>1 DEF CallFails, Budget
    <2>4. at' = [at EXCEPT ![i] = Min(Left(i))] /\ \A j \in Ids : j # i => pc'[j] = pc[j]
      BY <1>10 DEF CallFails, Goto
    <2>5. \A j \in Ids : Scheduling(j)'
      BY <2>1, <2>4
    <2> QED
      BY <1>10, <2>1, <2>2, <2>3, <2>4, <2>5 DEF CallFails, Goto, retrying, asynchronous, disk, bus
  <1>11. ASSUME NEW i \in Ids, LoadCount(i) PROVE TypeInv' /\ Known'
    BY <1>11 DEF LoadCount, Load, Goto, asynchronous, disk, bounds, bus
  <1>12. ASSUME NEW i \in Ids, ScheduleRetry(i) PROVE TypeInv' /\ Known'
    <2>1. at[i] \in Subs
      BY <1>12 DEF ScheduleRetry
    <2>2. loaded[i][at[i]] + 1 \in Nat
      <3>1. loaded[i] \in [Subs -> Nat]
        OBVIOUS
      <3>2. \A f \in [Subs -> Nat], x \in Subs : f[x] + 1 \in Nat
        OBVIOUS
      <3> QED
        BY <2>1, <3>1, <3>2
    <2>3. tries' \in [Ids -> Nat] /\ loaded' \in [Ids -> [Subs -> Nat]]
      BY <1>12, <2>1, <2>2 DEF ScheduleRetry, Bump
    <2>4. retry' \in [Ids -> [Subs -> {"none", "asleep", "granted", "bump"}]]
      BY <1>12 DEF ScheduleRetry, Bump
    <2>5. pc' \in [Ids -> Places]
      BY <1>12 DEF ScheduleRetry, Goto
    <2> QED
      BY <1>12, <2>3, <2>4, <2>5 DEF ScheduleRetry, Goto, asynchronous, disk, bounds, bus
  <1>13. ASSUME NEW i \in Ids, MarkProcessed(i) PROVE TypeInv' /\ Known'
    <2>1. faults' \in 0..MaxFaults
      BY <1>13, FaultTyped DEF MarkProcessed
    <2>2. marked' \subseteq Ids /\ processed' \subseteq Ids
      BY <1>13 DEF MarkProcessed
    <2>3. pc' \in [Ids -> Places] /\ \A j \in Ids : pc'[j] = pc[j] \/ pc'[j] \in {"unpend", "over"}
      BY <1>13 DEF MarkProcessed, Goto
    <2>4. \A j \in Ids : pc[j] = "none" <=> pc'[j] = "none"
      BY <1>13 DEF MarkProcessed, Goto
    <2> QED
      BY <1>13, <2>1, <2>2, <2>3, <2>4 DEF MarkProcessed, retrying, asynchronous, bounds, bus
  <1>14. ASSUME NEW i \in Ids, NEW s \in Subs, RetrySucceeds(i, s) PROVE TypeInv' /\ Known'
    BY <1>14 DEF RetrySucceeds, emission, asynchronous, disk, bounds, bus
  <1>15. ASSUME NEW i \in Ids, NEW s \in Subs, RetryFails(i, s) PROVE TypeInv' /\ Known'
    <2>1. dead' \subseteq Ids \X (Subs \cup {None}) /\ failures' \in 0..MaxFailures
      BY <1>15 DEF RetryFails, Budget
    <2> QED
      BY <1>15, <2>1 DEF RetryFails, emission, asynchronous, disk, bus
  <1>16. ASSUME NEW i \in Ids, NEW s \in Subs, RetryLoads(i, s) \/ RetryAgain(i, s)
         PROVE  TypeInv' /\ Known'
    <2>1. CASE RetryLoads(i, s)
      BY <2>1 DEF RetryLoads, Load, emission, asynchronous, disk, bounds, bus
    <2>2. CASE RetryAgain(i, s)
      BY <2>2 DEF RetryAgain, Bump, emission, asynchronous, disk, bounds, bus
    <2> QED
      BY <1>16, <2>1, <2>2
  <1>17. ASSUME NEW s \in Subs, Subscribe(s) \/ Unsubscribe(s) PROVE TypeInv' /\ Known'
    BY <1>17 DEF Subscribe, Unsubscribe, emission, retrying, asynchronous, disk, bounds
  <1>18. CASE Build
    BY <1>18 DEF Build, emission, retrying, asynchronous, disk, bounds
  <1>19. CASE RecoverNow
    <2>1. PICK found \in Readings :
            /\ Recover(found, marked)
            /\ Fault(found # pending \/ pending' # found \ marked)
            /\ queue' = Requeued(queue, found \ marked)
            /\ starting' = IF found \ marked # {} /\ workers = 0 THEN starting + 1 ELSE starting
      BY <1>19 DEF RecoverNow
    <2>2. found \ marked \in SUBSET Ids
      BY DEF Readings
    <2>3. queue' \in [Keys -> Nat] /\ faults' \in 0..MaxFaults
      BY <2>1, <2>2, RequeuedTyped, FaultTyped
    <2>4. pending' \subseteq Ids /\ astray' \subseteq Ids /\ recoveries' \in 0..MaxRecoveries
      BY <2>1, <2>2 DEF Recover, Holds
    <2>5. starting' \in Nat
      BY <2>1
    <2> QED
      BY <1>19, <2>3, <2>4, <2>5 DEF RecoverNow, emission, retrying, bus
  <1>20. CASE Restart
    <2>1. PICK found \in Readings, ids \in {processed, {}} :
            /\ Recover(found, ids) /\ marked' = ids
            /\ Fault(found # pending \/ ids # processed \/ pending' # found \ ids)
            /\ queue' = Requeued([k \in Keys |-> 0], found \ ids)
            /\ workers' = IF found \ ids = {} THEN 0 ELSE 1
      BY <1>20 DEF Restart
    <2>2. found \ ids \in SUBSET Ids /\ [k \in Keys |-> 0] \in [Keys -> Nat]
      BY DEF Readings
    <2>3. queue' \in [Keys -> Nat] /\ faults' \in 0..MaxFaults
      BY <2>1, <2>2, RequeuedTyped, FaultTyped
    <2>4. pending' \subseteq Ids /\ astray' \subseteq Ids /\ recoveries' \in 0..MaxRecoveries
          /\ marked' \subseteq Ids
      BY <2>1, <2>2 DEF Recover, Holds
    <2>5. pc' \in [Ids -> Places] /\ \A i \in Ids : pc'[i] \in {"none", "lost"}
      BY <1>20 DEF Restart, Die
    <2> QED
      BY <1>20, <2>1, <2>3, <2>4, <2>5 DEF Restart, Die
  <1>21. CASE UNCHANGED vars
    BY <1>21 DEF vars, emission, retrying, asynchronous, disk, bounds, bus
  <1> QED
    BY <1>1, <1>2, <1>3, <1>4, <1>5, <1>6, <1>7, <1>8, <1>9, <1>10, <1>11, <1>12, <1>13, <1>14,
       <1>15, <1>16, <1>17, <1>18, <1>19, <1>20, <1>21 DEF Next, Threads, Worker, Emission, Retry

-----------------------------------------------------------------------------
(* What is true of an event wherever its threads are *)

Answers == Subs \cup {None}
Fresh(i) == pc[i] \in {"none", "new", "admitted"}
Failing(i) == pc[i] \in {"granted", "bump"}
Calling(i) == pc[i] = "handling" \/ Failing(i)
Retrying(i) == \E s \in Subs : retry[i][s] # "none"
Buried(i) == \E x \in Answers : <<i, x>> \in dead
Kept(i) == i \in pending \cup astray
Marked(i) == i \in marked \cup processed
IsOpen(i, s) == retry[i][s] = "none" /\ <<i, s>> \notin dead /\ <<i, s>> \notin handled

(* nobody has heard of an event that has not been matched *)
UnheardIsUntouched(i) ==
  Fresh(i) \/ pc[i] = "saved" =>
    /\ matched[i] = {} /\ at[i] = 0 /\ clean[i] /\ ~Marked(i)
    /\ ~Retrying(i) /\ ~Buried(i) /\ \A s \in Subs : <<i, s>> \notin handled
FreshIsUnsaved(i) == Fresh(i) => i \notin pending
(* whatever has a thread is on disk, or lost by a fault, and not marked *)
ActiveIsOwed(i) == pc[i] = "saved" \/ Calling(i) \/ Retrying(i) => Kept(i) /\ ~Marked(i)
CalledHasHandlers(i) == Calling(i) => matched[i] # {}
CalledIsOnDisk(i) == at[i] # 0 => Kept(i) \/ \A s \in matched[i] : <<i, s>> \in handled
(* the handlers still to come, the one about to be retried, the ones being retried *)
AheadIsOpen(i) == Calling(i) => \A s \in Subs : s > at[i] => IsOpen(i, s)
BumpIsOpen(i) == Failing(i) => at[i] \in matched[i] /\ IsOpen(i, at[i]) /\ ~clean[i]
RetryIsOpen(i) ==
  \A s \in Subs : retry[i][s] # "none" =>
    s \in matched[i] /\ <<i, s>> \notin dead /\ <<i, s>> \notin handled
CleanIsHandled(i) ==
  pc[i] = "handling" /\ clean[i] =>
    ~Retrying(i) /\ ~Buried(i) /\ \A s \in matched[i] : s <= at[i] => <<i, s>> \in handled
UnpendIsMarked(i) == pc[i] = "unpend" => i \in marked
MarkedIsHandled(i) ==
  Marked(i) => /\ matched[i] # {} /\ ~Retrying(i) /\ ~Buried(i)
               /\ \A s \in matched[i] : <<i, s>> \in handled
FailedIsKept(i) ==
  pc[i] # "lost" =>
    \A s \in matched[i] : s <= at[i] /\ <<i, s>> \notin handled =>
      retry[i][s] # "none" \/ (Failing(i) /\ s = at[i]) \/ <<i, s>> \in dead

EventInv(i) ==
  /\ UnheardIsUntouched(i) /\ FreshIsUnsaved(i) /\ ActiveIsOwed(i) /\ CalledHasHandlers(i)
  /\ CalledIsOnDisk(i) /\ AheadIsOpen(i) /\ BumpIsOpen(i) /\ RetryIsOpen(i)
  /\ CleanIsHandled(i) /\ UnpendIsMarked(i) /\ MarkedIsHandled(i) /\ FailedIsKept(i)
Inv == TypeInv /\ Known /\ \A i \in Ids : EventInv(i)

(* An action that leaves an event alone keeps its invariant. *)
Same(i) ==
  /\ pc'[i] = pc[i] /\ at'[i] = at[i] /\ clean'[i] = clean[i]
  /\ retry'[i] = retry[i] /\ matched'[i] = matched[i]
  /\ (i \in pending' => i \in pending) /\ (Kept(i) => Kept(i)')
  /\ (i \in marked') = (i \in marked) /\ (Marked(i)' => Marked(i))
  /\ \A x : /\ (<<i, x>> \in dead') = (<<i, x>> \in dead)
            /\ (<<i, x>> \in handled') = (<<i, x>> \in handled)

LEMMA MatchedIsSubs ==
  ASSUME TypeOK, NEW i \in Ids
  PROVE  matched[i] \subseteq Subs /\ at[i] \in Nat /\ \A s \in Subs : s \in Nat /\ s # 0
  <1>1. \A s \in Subs : s \in Nat /\ s # 0
    BY BusAssumption DEF BusAssumption
  <1>2. matched[i] \in SUBSET Subs /\ at[i] \in Subs \cup {0}
    BY DEF TypeOK
  <1> QED
    BY <1>1, <1>2

LEMMA InitInv == Init => Inv
  <1>1. Init => \A i \in Ids : EventInv(i)
    BY DEF Init, EventInv, Fresh, Failing, Calling, Retrying, Buried, Kept, Marked, UnheardIsUntouched, FreshIsUnsaved, ActiveIsOwed, CalledHasHandlers, CalledIsOnDisk, AheadIsOpen, BumpIsOpen, RetryIsOpen, CleanIsHandled, UnpendIsMarked, MarkedIsHandled, FailedIsKept
  <1> QED
    BY <1>1, InitTyped DEF Inv

LEMMA SameKeeps ==
  ASSUME NEW i \in Ids, EventInv(i), Same(i)
  PROVE  EventInv(i)'
  <1> USE DEF EventInv, Same, Fresh, Failing, Calling, Retrying, Buried, Kept, Marked, IsOpen, Answers
  <1>1. UnheardIsUntouched(i)'
    BY DEF UnheardIsUntouched
  <1>2. FreshIsUnsaved(i)'
    BY DEF FreshIsUnsaved
  <1>3. ActiveIsOwed(i)'
    BY DEF ActiveIsOwed
  <1>4. CalledHasHandlers(i)'
    BY DEF CalledHasHandlers
  <1>5. CalledIsOnDisk(i)'
    BY DEF CalledIsOnDisk
  <1>6. AheadIsOpen(i)'
    BY DEF AheadIsOpen
  <1>7. BumpIsOpen(i)'
    BY DEF BumpIsOpen
  <1>8. RetryIsOpen(i)'
    BY DEF RetryIsOpen
  <1>9. CleanIsHandled(i)'
    BY DEF CleanIsHandled
  <1>10. UnpendIsMarked(i)'
    BY DEF UnpendIsMarked
  <1>11. MarkedIsHandled(i)'
    BY DEF MarkedIsHandled
  <1>12. FailedIsKept(i)'
    BY DEF FailedIsKept
  <1> QED
    BY <1>1, <1>2, <1>3, <1>4, <1>5, <1>6, <1>7, <1>8, <1>9, <1>10, <1>11, <1>12

(* The pending file loses nothing that is not put down to a fault. *)
LEMMA StoreKeeps ==
  ASSUME NEW i, NEW due, Holds(due), i \in pending => i \in due
  PROVE  Kept(i) => Kept(i)'
  BY DEF Holds, Kept

(* A thread of one event leaves every other event alone. *)
LEMMA OthersSame ==
  ASSUME TypeOK, NEW i \in Ids, NEW j \in Ids, i # j,
         Emission(j) \/ \E s \in Subs : Retry(j, s)
  PROVE  Same(i)
  <1> USE DEF TypeOK, Same, Answers, Goto, Marked
  <1>1. CASE Reject(j)
    BY <1>1 DEF Reject, retrying, disk, Kept
  <1>2. CASE Deduplicate(j) \/ Founder(j) \/ Match(j)
    BY <1>2 DEF Deduplicate, Founder, Match, retrying, disk, Kept
  <1>3. CASE SaveEvent(j)
    <2>1. Holds(pending \cup {j}) /\ (i \in pending' => i \in pending)
      BY <1>3 DEF SaveEvent, Readings
    <2> QED
      BY <1>3, <2>1, StoreKeeps DEF SaveEvent, retrying
  <1>4. CASE CallSucceeds(j)
    BY <1>4 DEF CallSucceeds, retrying, disk, Kept
  <1>5. CASE CallFails(j)
    BY <1>5 DEF CallFails, Budget, retrying, disk, Kept
  <1>6. CASE LoadCount(j)
    BY <1>6 DEF LoadCount, Load, disk, Kept
  <1>7. CASE ScheduleRetry(j)
    <2>1. retry' = [retry EXCEPT ![j][at[j]] = "asleep"] /\ pc' = [pc EXCEPT ![j] = "handling"]
      BY <1>7 DEF ScheduleRetry, Bump
    <2>2. retry'[i] = retry[i] /\ pc'[i] = pc[i]
      BY <2>1
    <2> QED
      BY <1>7, <2>2 DEF ScheduleRetry, disk, Kept
  <1>8. CASE MarkProcessed(j)
    BY <1>8 DEF MarkProcessed, retrying, Kept
  <1>9. CASE Unpend(j)
    <2>1. Holds(pending \ {j}) /\ (i \in pending' => i \in pending)
      BY <1>9 DEF Unpend, Readings
    <2> QED
      BY <1>9, <2>1, StoreKeeps DEF Unpend, retrying
  <1>10. ASSUME NEW s \in Subs, RetrySucceeds(j, s) PROVE Same(i)
    BY <1>10 DEF RetrySucceeds, emission, disk, Kept
  <1>11. ASSUME NEW s \in Subs, RetryFails(j, s) PROVE Same(i)
    BY <1>11 DEF RetryFails, Budget, emission, disk, Kept
  <1>12. ASSUME NEW s \in Subs, RetryLoads(j, s) PROVE Same(i)
    BY <1>12 DEF RetryLoads, Load, emission, disk, Kept
  <1>13. ASSUME NEW s \in Subs, RetryAgain(j, s) PROVE Same(i)
    BY <1>13 DEF RetryAgain, Bump, emission, disk, Kept
  <1> QED
    BY <1>1, <1>2, <1>3, <1>4, <1>5, <1>6, <1>7, <1>8, <1>9, <1>10, <1>11, <1>12, <1>13
       DEF Emission, Retry

(* The handler about to be called comes right after the last one called. *)
LEMMA NextInLine ==
  ASSUME TypeOK, NEW i \in Ids, Left(i) # {}
  PROVE  \E next \in matched[i] :
           /\ next = Min(Left(i)) /\ next > at[i]
           /\ \A s \in matched[i] : s <= next => s <= at[i] \/ s = next
  <1>0. matched[i] \subseteq Subs /\ at[i] \in Nat /\ \A s \in Subs : s \in Nat
    BY MatchedIsSubs
  <1>1. Min(Left(i)) \in Left(i) /\ \A s \in Left(i) : Min(Left(i)) <= s
    BY NextHandler
  <1>2. \A s \in matched[i] : s \in Left(i) <=> s > at[i]
    BY DEF Left
  <1>3. Min(Left(i)) \in matched[i] /\ Min(Left(i)) \in Nat /\ Min(Left(i)) > at[i]
    BY <1>0, <1>1 DEF Left
  <1>4. ASSUME NEW s \in matched[i], s <= Min(Left(i)), ~(s <= at[i])
        PROVE  s = Min(Left(i))
    <2>1. s \in Nat /\ s > at[i]
      BY <1>0, <1>4
    <2>2. Min(Left(i)) <= s
      BY <2>1, <1>1, <1>2
    <2> QED
      BY ONLY <2>1, <2>2, <1>3, <1>4, Antisymmetry, Zenon
  <1> QED
    BY <1>3, <1>4

(* A thread of an event keeps the event's invariant. *)
LEMMA OwnStep ==
  ASSUME TypeInv, NEW i \in Ids, EventInv(i),
         Emission(i) \/ \E s \in Subs : Retry(i, s)
  PROVE  EventInv(i)'
  <1> USE DEF EventInv, Answers, Goto, Fresh, Failing, Calling, Retrying, Buried, Marked, IsOpen
  <1>0. /\ TypeOK /\ matched[i] \subseteq Subs /\ at[i] \in Nat
        /\ \A s \in Subs : s \in Nat /\ s # 0
    BY MatchedIsSubs DEF TypeInv
  <1> USE <1>0 DEF TypeOK
  <1>1. CASE Reject(i)
    BY <1>1 DEF Reject, retrying, disk, Kept,
       UnheardIsUntouched, FreshIsUnsaved, ActiveIsOwed, CalledHasHandlers, CalledIsOnDisk, AheadIsOpen,
       BumpIsOpen, RetryIsOpen, CleanIsHandled, UnpendIsMarked, MarkedIsHandled, FailedIsKept
  <1>2. CASE Deduplicate(i)
    BY <1>2 DEF Deduplicate, retrying, disk, Kept,
       UnheardIsUntouched, FreshIsUnsaved, ActiveIsOwed, CalledHasHandlers, CalledIsOnDisk, AheadIsOpen,
       BumpIsOpen, RetryIsOpen, CleanIsHandled, UnpendIsMarked, MarkedIsHandled, FailedIsKept
  <1>3. CASE Founder(i)
    BY <1>3 DEF Founder, retrying, disk, Kept,
       UnheardIsUntouched, FreshIsUnsaved, ActiveIsOwed, CalledHasHandlers, CalledIsOnDisk, AheadIsOpen,
       BumpIsOpen, RetryIsOpen, CleanIsHandled, UnpendIsMarked, MarkedIsHandled, FailedIsKept
  <1>4. CASE SaveEvent(i)
    <2>0. Kept(i)'
      BY <1>4 DEF SaveEvent, Holds, Kept
    <2> QED
      BY <1>4, <2>0 DEF SaveEvent, retrying,
         UnheardIsUntouched, FreshIsUnsaved, ActiveIsOwed, CalledHasHandlers, CalledIsOnDisk, AheadIsOpen,
         BumpIsOpen, RetryIsOpen, CleanIsHandled, UnpendIsMarked, MarkedIsHandled, FailedIsKept
  <1>5. CASE Match(i)
    <2>1. UnheardIsUntouched(i)'
      BY <1>5 DEF Match, retrying, disk, Kept, UnheardIsUntouched, ActiveIsOwed
    <2>2. FreshIsUnsaved(i)'
      BY <1>5 DEF Match, retrying, disk, Kept, UnheardIsUntouched, ActiveIsOwed, FreshIsUnsaved
    <2>3. ActiveIsOwed(i)'
      BY <1>5 DEF Match, retrying, disk, Kept, UnheardIsUntouched, ActiveIsOwed
    <2>4. CalledHasHandlers(i)'
      BY <1>5 DEF Match, retrying, disk, Kept, UnheardIsUntouched, ActiveIsOwed, CalledHasHandlers
    <2>5. CalledIsOnDisk(i)'
      BY <1>5 DEF Match, retrying, disk, Kept, UnheardIsUntouched, ActiveIsOwed, CalledIsOnDisk
    <2>6. AheadIsOpen(i)'
      BY <1>5 DEF Match, retrying, disk, Kept, UnheardIsUntouched, ActiveIsOwed, AheadIsOpen
    <2>7. BumpIsOpen(i)'
      BY <1>5 DEF Match, retrying, disk, Kept, UnheardIsUntouched, ActiveIsOwed, BumpIsOpen
    <2>8. RetryIsOpen(i)'
      BY <1>5 DEF Match, retrying, disk, Kept, UnheardIsUntouched, ActiveIsOwed, RetryIsOpen
    <2>9. CleanIsHandled(i)'
      <3>1. at[i] = 0 /\ at'[i] = 0 /\ ~Retrying(i)' /\ ~Buried(i)'
        BY <1>5 DEF Match, retrying, UnheardIsUntouched
      <3>2. matched'[i] \subseteq Subs
        BY <1>5 DEF Match
      <3>3. \A s \in matched'[i] : ~(s <= at'[i])
        BY <3>1, <3>2
      <3> QED
        BY <3>1, <3>3 DEF CleanIsHandled
    <2>10. UnpendIsMarked(i)'
      BY <1>5 DEF Match, retrying, disk, Kept, UnheardIsUntouched, ActiveIsOwed, UnpendIsMarked
    <2>11. MarkedIsHandled(i)'
      BY <1>5 DEF Match, retrying, disk, Kept, UnheardIsUntouched, ActiveIsOwed, MarkedIsHandled
    <2>12. FailedIsKept(i)'
      BY <1>5 DEF Match, retrying, disk, Kept, UnheardIsUntouched, ActiveIsOwed, FailedIsKept
    <2> QED
      BY <2>1, <2>2, <2>3, <2>4, <2>5, <2>6, <2>7, <2>8, <2>9, <2>10, <2>11, <2>12
  <1>6. CASE CallSucceeds(i)
    <2>1. PICK next \in matched[i] :
             /\ next = Min(Left(i)) /\ next > at[i]
             /\ \A s \in matched[i] : s <= next => s <= at[i] \/ s = next
      BY <1>6, NextInLine DEF CallSucceeds
    <2>2. UnheardIsUntouched(i)'
      BY <1>6, <2>1 DEF CallSucceeds, retrying, disk, Kept, ActiveIsOwed, UnheardIsUntouched
    <2>3. FreshIsUnsaved(i)'
      BY <1>6, <2>1 DEF CallSucceeds, retrying, disk, Kept, ActiveIsOwed, FreshIsUnsaved
    <2>4. ActiveIsOwed(i)'
      BY <1>6, <2>1 DEF CallSucceeds, retrying, disk, Kept, ActiveIsOwed
    <2>5. CalledHasHandlers(i)'
      BY <1>6, <2>1 DEF CallSucceeds, retrying, disk, Kept, ActiveIsOwed, CalledHasHandlers
    <2>6. CalledIsOnDisk(i)'
      BY <1>6, <2>1 DEF CallSucceeds, retrying, disk, Kept, ActiveIsOwed, CalledIsOnDisk
    <2>7. AheadIsOpen(i)'
      BY <1>6, <2>1 DEF CallSucceeds, retrying, disk, Kept, ActiveIsOwed, AheadIsOpen
    <2>8. BumpIsOpen(i)'
      BY <1>6, <2>1 DEF CallSucceeds, retrying, disk, Kept, ActiveIsOwed, AheadIsOpen, BumpIsOpen
    <2>9. RetryIsOpen(i)'
      BY <1>6, <2>1 DEF CallSucceeds, retrying, disk, Kept, ActiveIsOwed, AheadIsOpen, RetryIsOpen
    <2>10. CleanIsHandled(i)'
      BY <1>6, <2>1 DEF CallSucceeds, retrying, disk, Kept, ActiveIsOwed, CleanIsHandled
    <2>11. UnpendIsMarked(i)'
      BY <1>6, <2>1 DEF CallSucceeds, retrying, disk, Kept, ActiveIsOwed, UnpendIsMarked
    <2>12. MarkedIsHandled(i)'
      BY <1>6, <2>1 DEF CallSucceeds, retrying, disk, Kept, ActiveIsOwed, MarkedIsHandled
    <2>13. FailedIsKept(i)'
      BY <1>6, <2>1 DEF CallSucceeds, retrying, disk, Kept, ActiveIsOwed, FailedIsKept
    <2> QED
      BY <2>2, <2>3, <2>4, <2>5, <2>6, <2>7, <2>8, <2>9, <2>10, <2>11, <2>12, <2>13
  <1>7. CASE CallFails(i)
    <2>1. PICK next \in matched[i] :
             /\ next = Min(Left(i)) /\ next > at[i]
             /\ \A s \in matched[i] : s <= next => s <= at[i] \/ s = next
      BY <1>7, NextInLine DEF CallFails
    <2>2. UnheardIsUntouched(i)'
      BY <1>7, <2>1 DEF CallFails, Budget, retrying, disk, Kept, ActiveIsOwed, UnheardIsUntouched
    <2>3. FreshIsUnsaved(i)'
      BY <1>7, <2>1 DEF CallFails, Budget, retrying, disk, Kept, ActiveIsOwed, FreshIsUnsaved
    <2>4. ActiveIsOwed(i)'
      BY <1>7, <2>1 DEF CallFails, Budget, retrying, disk, Kept, ActiveIsOwed
    <2>5. CalledHasHandlers(i)'
      BY <1>7, <2>1 DEF CallFails, Budget, retrying, disk, Kept, ActiveIsOwed, CalledHasHandlers
    <2>6. CalledIsOnDisk(i)'
      BY <1>7, <2>1 DEF CallFails, Budget, retrying, disk, Kept, ActiveIsOwed, CalledIsOnDisk
    <2>7. AheadIsOpen(i)'
      BY <1>7, <2>1 DEF CallFails, Budget, retrying, disk, Kept, ActiveIsOwed, AheadIsOpen
    <2>8. BumpIsOpen(i)'
      BY <1>7, <2>1 DEF CallFails, Budget, retrying, disk, Kept, ActiveIsOwed, AheadIsOpen, BumpIsOpen
    <2>9. RetryIsOpen(i)'
      BY <1>7, <2>1 DEF CallFails, Budget, retrying, disk, Kept, ActiveIsOwed, AheadIsOpen, RetryIsOpen
    <2>10. CleanIsHandled(i)'
      BY <1>7, <2>1 DEF CallFails, Budget, retrying, disk, Kept, ActiveIsOwed, CleanIsHandled
    <2>11. UnpendIsMarked(i)'
      BY <1>7, <2>1 DEF CallFails, Budget, retrying, disk, Kept, ActiveIsOwed, UnpendIsMarked
    <2>12. MarkedIsHandled(i)'
      BY <1>7, <2>1 DEF CallFails, Budget, retrying, disk, Kept, ActiveIsOwed, MarkedIsHandled
    <2>13. FailedIsKept(i)'
      BY <1>7, <2>1 DEF CallFails, Budget, retrying, disk, Kept, ActiveIsOwed, FailedIsKept
    <2> QED
      BY <2>2, <2>3, <2>4, <2>5, <2>6, <2>7, <2>8, <2>9, <2>10, <2>11, <2>12, <2>13
  <1>8. CASE LoadCount(i)
    BY <1>8 DEF LoadCount, Load, disk, Kept,
       UnheardIsUntouched, FreshIsUnsaved, ActiveIsOwed, CalledHasHandlers, CalledIsOnDisk, AheadIsOpen,
       BumpIsOpen, RetryIsOpen, CleanIsHandled, UnpendIsMarked, MarkedIsHandled, FailedIsKept
  <1>9. CASE ScheduleRetry(i)
    <2>1. UnheardIsUntouched(i)'
      BY <1>9 DEF ScheduleRetry, Bump, disk, Kept, BumpIsOpen, ActiveIsOwed, UnheardIsUntouched
    <2>2. FreshIsUnsaved(i)'
      BY <1>9 DEF ScheduleRetry, Bump, disk, Kept, BumpIsOpen, ActiveIsOwed, FreshIsUnsaved
    <2>3. ActiveIsOwed(i)'
      BY <1>9 DEF ScheduleRetry, Bump, disk, Kept, BumpIsOpen, ActiveIsOwed
    <2>4. CalledHasHandlers(i)'
      BY <1>9 DEF ScheduleRetry, Bump, disk, Kept, BumpIsOpen, ActiveIsOwed, CalledHasHandlers
    <2>5. CalledIsOnDisk(i)'
      BY <1>9 DEF ScheduleRetry, Bump, disk, Kept, BumpIsOpen, ActiveIsOwed, CalledIsOnDisk
    <2>6. AheadIsOpen(i)'
      BY <1>9 DEF ScheduleRetry, Bump, disk, Kept, BumpIsOpen, ActiveIsOwed, AheadIsOpen
    <2>7. BumpIsOpen(i)'
      BY <1>9 DEF ScheduleRetry, Bump, disk, Kept, BumpIsOpen, ActiveIsOwed
    <2>8. RetryIsOpen(i)'
      BY <1>9 DEF ScheduleRetry, Bump, disk, Kept, BumpIsOpen, ActiveIsOwed, RetryIsOpen
    <2>9. CleanIsHandled(i)'
      BY <1>9 DEF ScheduleRetry, Bump, disk, Kept, BumpIsOpen, ActiveIsOwed, CleanIsHandled
    <2>10. UnpendIsMarked(i)'
      BY <1>9 DEF ScheduleRetry, Bump, disk, Kept, BumpIsOpen, ActiveIsOwed, UnpendIsMarked
    <2>11. MarkedIsHandled(i)'
      BY <1>9 DEF ScheduleRetry, Bump, disk, Kept, BumpIsOpen, ActiveIsOwed, MarkedIsHandled
    <2>12. FailedIsKept(i)'
      BY <1>9 DEF ScheduleRetry, Bump, disk, Kept, BumpIsOpen, ActiveIsOwed, FailedIsKept
    <2> QED
      BY <2>1, <2>2, <2>3, <2>4, <2>5, <2>6, <2>7, <2>8, <2>9, <2>10, <2>11, <2>12
  <1>10. CASE MarkProcessed(i)
    <2>0. \A s \in matched[i] : s <= at[i]
      <3>1. \A s \in matched[i] : s \in Nat /\ ~(s > at[i])
        BY <1>10 DEF MarkProcessed, Left
      <3> QED
        BY <3>1
    <2>1. UnheardIsUntouched(i)'
      BY <1>10, <2>0 DEF MarkProcessed, retrying, Kept, CleanIsHandled, ActiveIsOwed, CalledHasHandlers, UnheardIsUntouched
    <2>2. FreshIsUnsaved(i)'
      BY <1>10, <2>0 DEF MarkProcessed, retrying, Kept, CleanIsHandled, ActiveIsOwed, CalledHasHandlers, FreshIsUnsaved
    <2>3. ActiveIsOwed(i)'
      BY <1>10, <2>0 DEF MarkProcessed, retrying, Kept, CleanIsHandled, ActiveIsOwed, CalledHasHandlers
    <2>4. CalledHasHandlers(i)'
      BY <1>10, <2>0 DEF MarkProcessed, retrying, Kept, CleanIsHandled, ActiveIsOwed, CalledHasHandlers
    <2>5. CalledIsOnDisk(i)'
      BY <1>10, <2>0 DEF MarkProcessed, retrying, Kept, CleanIsHandled, ActiveIsOwed, CalledHasHandlers, CalledIsOnDisk
    <2>6. AheadIsOpen(i)'
      BY <1>10, <2>0 DEF MarkProcessed, retrying, Kept, CleanIsHandled, ActiveIsOwed, CalledHasHandlers, AheadIsOpen
    <2>7. BumpIsOpen(i)'
      BY <1>10, <2>0 DEF MarkProcessed, retrying, Kept, CleanIsHandled, ActiveIsOwed, CalledHasHandlers, BumpIsOpen
    <2>8. RetryIsOpen(i)'
      BY <1>10, <2>0 DEF MarkProcessed, retrying, Kept, CleanIsHandled, ActiveIsOwed, CalledHasHandlers, RetryIsOpen
    <2>9. CleanIsHandled(i)'
      BY <1>10, <2>0 DEF MarkProcessed, retrying, Kept, CleanIsHandled, ActiveIsOwed, CalledHasHandlers
    <2>10. UnpendIsMarked(i)'
      BY <1>10, <2>0 DEF MarkProcessed, retrying, Kept, CleanIsHandled, ActiveIsOwed, CalledHasHandlers, UnpendIsMarked
    <2>11. MarkedIsHandled(i)'
      BY <1>10, <2>0 DEF MarkProcessed, retrying, Kept, CleanIsHandled, ActiveIsOwed, CalledHasHandlers, MarkedIsHandled
    <2>12. FailedIsKept(i)'
      BY <1>10, <2>0 DEF MarkProcessed, retrying, Kept, CleanIsHandled, ActiveIsOwed, CalledHasHandlers, FailedIsKept
    <2> QED
      BY <2>1, <2>2, <2>3, <2>4, <2>5, <2>6, <2>7, <2>8, <2>9, <2>10, <2>11, <2>12
  <1>11. CASE Unpend(i)
    <2>0. (i \in pending' => i \in pending) /\ \A s \in matched[i] : <<i, s>> \in handled
      BY <1>11 DEF Unpend, Readings, UnpendIsMarked, MarkedIsHandled
    <2> QED
      BY <1>11, <2>0 DEF Unpend, retrying,
         UnheardIsUntouched, FreshIsUnsaved, ActiveIsOwed, CalledHasHandlers, CalledIsOnDisk, AheadIsOpen,
         BumpIsOpen, RetryIsOpen, CleanIsHandled, UnpendIsMarked, MarkedIsHandled, FailedIsKept
  <1>12. ASSUME NEW s \in Subs, RetrySucceeds(i, s) PROVE EventInv(i)'
    BY <1>12 DEF RetrySucceeds, emission, disk, Kept,
       UnheardIsUntouched, FreshIsUnsaved, ActiveIsOwed, CalledHasHandlers, CalledIsOnDisk, AheadIsOpen,
       BumpIsOpen, RetryIsOpen, CleanIsHandled, UnpendIsMarked, MarkedIsHandled, FailedIsKept
  <1>13. ASSUME NEW s \in Subs, RetryFails(i, s) PROVE EventInv(i)'
    BY <1>13 DEF RetryFails, Budget, emission, disk, Kept,
       UnheardIsUntouched, FreshIsUnsaved, ActiveIsOwed, CalledHasHandlers, CalledIsOnDisk, AheadIsOpen,
       BumpIsOpen, RetryIsOpen, CleanIsHandled, UnpendIsMarked, MarkedIsHandled, FailedIsKept
  <1>14. ASSUME NEW s \in Subs, RetryLoads(i, s) PROVE EventInv(i)'
    BY <1>14 DEF RetryLoads, Load, emission, disk, Kept,
       UnheardIsUntouched, FreshIsUnsaved, ActiveIsOwed, CalledHasHandlers, CalledIsOnDisk, AheadIsOpen,
       BumpIsOpen, RetryIsOpen, CleanIsHandled, UnpendIsMarked, MarkedIsHandled, FailedIsKept
  <1>15. ASSUME NEW s \in Subs, RetryAgain(i, s) PROVE EventInv(i)'
    BY <1>15 DEF RetryAgain, Bump, emission, disk, Kept,
       UnheardIsUntouched, FreshIsUnsaved, ActiveIsOwed, CalledHasHandlers, CalledIsOnDisk, AheadIsOpen,
       BumpIsOpen, RetryIsOpen, CleanIsHandled, UnpendIsMarked, MarkedIsHandled, FailedIsKept
  <1> QED
    BY <1>1, <1>2, <1>3, <1>4, <1>5, <1>6, <1>7, <1>8, <1>9, <1>10, <1>11, <1>12, <1>13, <1>14,
       <1>15 DEF Emission, Retry

(* Emission gives an event its content and its first thread. *)
LEMMA ConstructStep ==
  ASSUME TypeOK, Known, NEW i \in Ids, EventInv(i), NEW k \in Keys, Emit(k) \/ WorkerTakes(k)
  PROVE  EventInv(i)'
  <1>1. Construct(k) /\ UNCHANGED <<matched, at, clean, retry, disk, dead, handled>>
    BY DEF Emit, WorkerTakes, retrying
  <1>2. CASE i # used + 1
    <2>1. Same(i)
      BY <1>1, <1>2 DEF Construct, Goto, TypeOK, Same, disk, Kept, Marked
    <2> QED
      BY <2>1, SameKeeps
  <1>3. CASE i = used + 1
    <2>1. pc[i] = "none" /\ pc'[i] = "new"
      BY <1>1, <1>3 DEF Construct, Goto, TypeOK, Known, Ids
    <2> QED
      BY <1>1, <2>1
         DEF EventInv, Fresh, Failing, Calling, Retrying, Buried, Kept, Marked, IsOpen, disk,
           UnheardIsUntouched, FreshIsUnsaved, ActiveIsOwed, CalledHasHandlers, CalledIsOnDisk, AheadIsOpen,
           BumpIsOpen, RetryIsOpen, CleanIsHandled, UnpendIsMarked, MarkedIsHandled, FailedIsKept
  <1> QED
    BY <1>2, <1>3

(* A restart ends every thread; what it takes for marked was. *)
LEMMA RestartStep ==
  ASSUME TypeOK, NEW i \in Ids, EventInv(i), Restart
  PROVE  EventInv(i)'
  <1> USE DEF TypeOK, Fresh, Failing, Calling, Retrying, Buried, IsOpen, Answers
  <1>1. PICK found \in Readings, ids \in {processed, {}} : Recover(found, ids) /\ marked' = ids
    BY DEF Restart
  <1>2. UNCHANGED <<matched, at, processed, dead, handled>> /\ (Marked(i)' => Marked(i))
    BY <1>1 DEF Restart, Die, Marked
  <1>3. /\ pc'[i] = IF pc[i] = "none" THEN "none" ELSE "lost"
        /\ ~Retrying(i)' /\ clean'[i]
    BY DEF Restart, Die
  <1>4. (i \in pending' => i \in pending) /\ (Kept(i) /\ ~Marked(i) => Kept(i)')
    BY <1>1 DEF Recover, Holds, Kept, Marked, Readings
  <1>5. UnheardIsUntouched(i)' /\ FreshIsUnsaved(i)' /\ ActiveIsOwed(i)' /\ CalledHasHandlers(i)'
    BY <1>2, <1>3, <1>4 DEF EventInv, UnheardIsUntouched, FreshIsUnsaved, ActiveIsOwed, CalledHasHandlers
  <1>6. CalledIsOnDisk(i)' /\ MarkedIsHandled(i)'
    BY <1>2, <1>3, <1>4 DEF EventInv, CalledIsOnDisk, MarkedIsHandled
  <1>7. AheadIsOpen(i)' /\ BumpIsOpen(i)' /\ RetryIsOpen(i)' /\ CleanIsHandled(i)' /\ UnpendIsMarked(i)'
    BY <1>3 DEF AheadIsOpen, BumpIsOpen, RetryIsOpen, CleanIsHandled, UnpendIsMarked
  <1>8. FailedIsKept(i)'
    BY <1>2, <1>3 DEF EventInv, FailedIsKept, UnheardIsUntouched
  <1> QED
    BY <1>5, <1>6, <1>7, <1>8 DEF EventInv

(* A recovery drops from the file what is marked. *)
LEMMA RecoverStep ==
  ASSUME TypeOK, NEW i \in Ids, EventInv(i), RecoverNow
  PROVE  EventInv(i)'
  <1>1. PICK found \in Readings : Recover(found, marked)
    BY DEF RecoverNow
  <1>2. (i \in pending' => i \in pending) /\ (Kept(i) /\ ~Marked(i) => Kept(i)')
    BY <1>1 DEF Recover, Holds, Kept, Marked, Readings
  <1>3. UNCHANGED <<pc, matched, at, clean, retry, processed, marked, dead, handled>>
    BY DEF RecoverNow, emission, retrying
  <1> QED
    BY <1>2, <1>3 DEF EventInv, Fresh, Failing, Calling, Retrying, Buried, Marked, IsOpen, Answers,
           UnheardIsUntouched, FreshIsUnsaved, ActiveIsOwed, CalledHasHandlers, CalledIsOnDisk, AheadIsOpen,
           BumpIsOpen, RetryIsOpen, CleanIsHandled, UnpendIsMarked, MarkedIsHandled, FailedIsKept

LEMMA StepInv ==
  ASSUME Inv, [Next]_vars
  PROVE  Inv'
  <1>1. TypeInv' /\ Known'
    BY StepTyped DEF Inv
  <1>2. ASSUME NEW i \in Ids PROVE EventInv(i)'
    <2>0. TypeInv /\ TypeOK /\ Known /\ EventInv(i)
      BY DEF Inv, TypeInv
    <2>1. ASSUME NEW k \in Keys, Emit(k) \/ WorkerTakes(k) PROVE EventInv(i)'
      BY <2>0, <2>1, ConstructStep
    <2>2. CASE \/ \E k \in Keys : EmitAsync(k) \/ WindowPasses(k)
               \/ \E s \in Subs : Subscribe(s) \/ Unsubscribe(s)
               \/ StartWorker \/ Build \/ UNCHANGED vars
      <3>1. UNCHANGED <<emission, retry, disk, dead, handled>>
        BY <2>2 DEF EmitAsync, WindowPasses, Subscribe, Unsubscribe, StartWorker, Build, vars, retrying
      <3>2. Same(i)
        BY <3>1 DEF Same, emission, disk, Kept, Marked
      <3> QED
        BY <2>0, <3>2, SameKeeps
    <2>3. ASSUME NEW j \in Ids, Emission(j) \/ \E s \in Subs : Retry(j, s)
          PROVE  EventInv(i)'
      <3>1. CASE i # j
        BY <2>0, <2>3, <3>1, OthersSame, SameKeeps
      <3>2. CASE i = j
        BY <2>0, <2>3, <3>2, OwnStep
      <3> QED
        BY <3>1, <3>2
    <2>4. CASE RecoverNow
      BY <2>0, <2>4, RecoverStep
    <2>5. CASE Restart
      BY <2>0, <2>5, RestartStep
    <2> QED
      BY <2>1, <2>2, <2>3, <2>4, <2>5 DEF Next, Threads, Worker
  <1> QED
    BY <1>1, <1>2 DEF Inv

THEOREM Invariance == Spec => []Inv
  BY InitInv, StepInv, PTL DEF Spec

-----------------------------------------------------------------------------
(* Every variable has its type. *)
THEOREM TypeCorrect == Spec => []TypeOK
  <1>1. Inv => TypeOK
    BY DEF Inv, TypeInv
  <1> QED
    BY <1>1, Invariance, PTL

(* An event is marked processed only when it had handlers, all of them have
   succeeded, no thread retries it and none of its calls is among the dead
   letters (event_bus.py: all_success). *)
THEOREM ProcessedSafety == Spec => []ProcessedIsHandled
  <1>1. Inv => ProcessedIsHandled
    <2> SUFFICES ASSUME Inv, NEW i \in marked \cup processed
                 PROVE  /\ matched[i] # {} /\ ~Buried(i)
                        /\ \A s \in matched[i] : <<i, s>> \in handled /\ retry[i][s] = "none"
      BY DEF ProcessedIsHandled, Buried, Answers
    <2>1. i \in Ids /\ EventInv(i) /\ Marked(i) /\ matched[i] \subseteq Subs
      BY MatchedIsSubs DEF Inv, TypeInv, TypeOK, Marked
    <2> QED
      BY <2>1 DEF EventInv, MarkedIsHandled, Retrying
  <1> QED
    BY <1>1, Invariance, PTL

(* An event that was called for is in the pending file until all its handlers
   have succeeded, whatever dies, unless an operation on the file failed
   (EventQueuePersistence). *)
THEOREM NothingForgottenSafety == Spec => []NothingForgotten
  <1>1. Inv => NothingForgotten
    BY DEF Inv, EventInv, CalledIsOnDisk, Kept, NothingForgotten
  <1> QED
    BY <1>1, Invariance, PTL

(* While the process lives, a call that failed last is being retried or is
   among the dead letters (_schedule_retry, DeadLetterQueue). *)
THEOREM FailureSafety == Spec => []FailureIsKept
  <1>1. Inv => FailureIsKept
    BY DEF Inv, EventInv, FailedIsKept, Failing, FailureIsKept
  <1> QED
    BY <1>1, Invariance, PTL

-----------------------------------------------------------------------------
(* The bus implements EventDelivery: every step is a step of the promise or
   leaves it alone. *)

LEMMA InitDelivers == Init => Delivery!Init
  BY DEF Init, Delivery!Init

LEMMA EmitDelivers ==
  ASSUME TypeOK, Known, NEW k \in Keys, Emit(k) \/ WorkerTakes(k)
  PROVE  Delivery!Next
  <1>1. /\ used + 1 \in Ids /\ what' = [what EXCEPT ![used + 1] = k]
        /\ UNCHANGED <<matched, pending, astray, faults, handled, dead>>
    <2>1. used < MaxIds /\ used \in Nat /\ MaxIds \in Nat
      BY BusAssumption DEF Emit, WorkerTakes, Construct, TypeOK, BusAssumption
    <2> QED
      BY <2>1 DEF Emit, WorkerTakes, Construct, Ids, disk
  <1>2. what[used + 1] = None
    BY <1>1 DEF Known, TypeOK
  <1>3. Delivery!Emit(used + 1)
    BY <1>1, <1>2 DEF Delivery!Emit
  <1> QED
    BY <1>1, <1>3 DEF Delivery!Next

(* The pending file is the store of the promise. *)
LEMMA StoreDelivers ==
  ASSUME TypeOK, NEW due, NEW b, Holds(due), Fault(b), pending' # due => b,
         pending' \subseteq pending \cup due
  PROVE  Delivery!Store(due)
  <1>1. CASE pending' = due
    <2>1. astray' = astray
      BY <1>1 DEF Holds, TypeOK
    <2>2. CASE b
      BY <1>1, <2>1, <2>2 DEF Fault, Holds, Delivery!Store
    <2>3. CASE ~b
      BY <1>1, <2>1, <2>3 DEF Fault, Delivery!Store
    <2> QED
      BY <2>2, <2>3
  <1>2. CASE pending' # due
    BY <1>2 DEF Fault, Holds, Delivery!Store
  <1> QED
    BY <1>1, <1>2

LEMMA ThreadDelivers ==
  ASSUME Inv, NEW i \in Ids, Emission(i) \/ \E s \in Subs : Retry(i, s)
  PROVE  Delivery!Next \/ UNCHANGED Delivery!deliveryVars
  <1>0. TypeOK /\ EventInv(i)
    BY DEF Inv, TypeInv
  <1>00. pc[i] = "new" \/ pc[i] = "admitted" => what[i] \in Keys
    BY DEF Inv, Known
  <1> USE DEF Delivery!deliveryVars
  <1>1. CASE Reject(i)
    <2>1. Delivery!Refuse(i)
      BY <1>0, <1>00, <1>1
         DEF Reject, Delivery!Refuse, EventInv, FreshIsUnsaved, UnheardIsUntouched, Fresh, disk
    <2> QED BY <2>1 DEF Delivery!Next
  <1>2. CASE Deduplicate(i) \/ Founder(i)
    BY <1>2 DEF Deduplicate, Founder, disk
  <1>3. CASE SaveEvent(i)
    <2>1. i \notin pending /\ matched[i] = {} /\ <<i, None>> \notin dead
      BY <1>0, <1>3 DEF SaveEvent, EventInv, FreshIsUnsaved, UnheardIsUntouched, Fresh, Buried, Answers
    <2>2. pending' \subseteq pending \cup (pending \cup {i})
      BY <1>3 DEF SaveEvent, Readings
    <2>3. Delivery!Store(pending \cup {i})
      <3> DEFINE due == pending \cup {i}
      <3>1. Holds(due) /\ Fault(pending' # due)
        BY <1>3 DEF SaveEvent
      <3> HIDE DEF due
      <3>2. pending' \subseteq pending \cup due
        BY <2>2 DEF due
      <3>3. Delivery!Store(due)
        BY <1>0, <3>1, <3>2, StoreDelivers
      <3> QED
        BY <3>3 DEF due
    <2>4. Delivery!Accept(i)
      BY <1>00, <1>3, <2>1, <2>3 DEF SaveEvent, Delivery!Accept
    <2> QED BY <2>4 DEF Delivery!Next
  <1>4. CASE Match(i)
    <2>1. Kept(i) /\ matched[i] = {}
      BY <1>0, <1>4 DEF Match, EventInv, ActiveIsOwed, UnheardIsUntouched
    <2>2. SubsOf[what[i]] \cap subs \in SUBSET Subs
      BY <1>0 DEF TypeOK
    <2>3. Delivery!Address(i)
      BY <1>4, <2>1, <2>2 DEF Match, Delivery!Address, Kept, disk
    <2> QED BY <2>3 DEF Delivery!Next
  <1>5. CASE CallSucceeds(i)
    <2>1. PICK s \in Subs : s = Min(Left(i)) /\ s \in matched[i] /\ s > at[i]
      BY <1>0, <1>5, NextHandler DEF CallSucceeds, Left
    <2>2. Kept(i) /\ <<i, s>> \notin dead /\ <<i, s>> \notin handled
      BY <1>0, <1>5, <2>1 DEF CallSucceeds, EventInv, ActiveIsOwed, AheadIsOpen, Calling, IsOpen
    <2>3. Delivery!Deliver(i, s)
      BY <1>5, <2>1, <2>2 DEF CallSucceeds, Delivery!Deliver, Delivery!Open, Kept, disk
    <2> QED BY <2>3 DEF Delivery!Next
  <1>6. CASE CallFails(i)
    <2>1. PICK s \in Subs : s = Min(Left(i)) /\ s \in matched[i] /\ s > at[i]
      BY <1>0, <1>6, NextHandler DEF CallFails, Left
    <2>2. Kept(i) /\ <<i, s>> \notin dead /\ <<i, s>> \notin handled
      BY <1>0, <1>6, <2>1 DEF CallFails, EventInv, ActiveIsOwed, AheadIsOpen, Calling, IsOpen
    <2>3. CASE MayRetry(i)
      BY <1>6, <2>3 DEF CallFails, Budget, disk
    <2>4. CASE ~MayRetry(i)
      <3>1. Delivery!Bury(i, s)
        BY <1>6, <2>1, <2>2, <2>4 DEF CallFails, Budget, Delivery!Bury, Delivery!Open, Kept, disk
      <3> QED BY <3>1 DEF Delivery!Next
    <2> QED
      BY <2>3, <2>4
  <1>7. CASE LoadCount(i) \/ ScheduleRetry(i)
    BY <1>7 DEF LoadCount, ScheduleRetry, disk
  <1>8. CASE MarkProcessed(i)
    <2>1. CASE clean[i] /\ processed' # marked \cup {i}
      <3>1. faults' = faults + 1
        BY <1>8, <2>1 DEF MarkProcessed, Fault
      <3>2. Delivery!Settle({})
        BY <1>8, <3>1 DEF MarkProcessed, Delivery!Settle, Delivery!Store
      <3> QED BY <3>2 DEF Delivery!Next
    <2>2. CASE ~(clean[i] /\ processed' # marked \cup {i})
      BY <1>8, <2>2 DEF MarkProcessed, Fault
    <2> QED
      BY <2>1, <2>2
  <1>9. CASE Unpend(i)
    <2>1. i \in marked /\ matched[i] # {} /\ ~Buried(i) /\ \A s \in matched[i] : <<i, s>> \in handled
      BY <1>0, <1>9 DEF Unpend, EventInv, UnpendIsMarked, MarkedIsHandled, Marked
    <2>2. \A s \in matched[i] : <<i, s>> \in handled \ dead
      BY <1>0, <2>1, MatchedIsSubs DEF Buried, Answers
    <2>3. Delivery!Store(pending \ {i})
      <3> DEFINE due == pending \ {i}
      <3>1. Holds(due) /\ Fault(pending' # due)
        BY <1>9 DEF Unpend
      <3>2. pending' \subseteq pending \cup due
        BY <1>9 DEF Unpend, Readings
      <3> HIDE DEF due
      <3>3. Delivery!Store(due)
        BY <1>0, <3>1, <3>2, StoreDelivers
      <3> QED
        BY <3>3 DEF due
    <2>4. pending \ {i} = pending \ (pending \cap {i})
      OBVIOUS
    <2>5. Delivery!Settle(pending \cap {i})
      BY <1>9, <2>1, <2>2, <2>3, <2>4 DEF Unpend, Delivery!Settle
    <2>6. pending \cap {i} \in SUBSET Ids
      OBVIOUS
    <2> QED BY <2>5, <2>6 DEF Delivery!Next
  <1>10. ASSUME NEW s \in Subs, Retry(i, s)
         PROVE  Delivery!Next \/ UNCHANGED Delivery!deliveryVars
    <2>1. Kept(i) /\ s \in matched[i] /\ <<i, s>> \notin dead /\ <<i, s>> \notin handled
      BY <1>0, <1>10 DEF Retry, RetrySucceeds, RetryFails, RetryLoads, RetryAgain, EventInv,
             ActiveIsOwed, RetryIsOpen, Retrying
    <2>2. CASE RetrySucceeds(i, s)
      <3>1. Delivery!Deliver(i, s)
        BY <2>1, <2>2 DEF RetrySucceeds, Delivery!Deliver, Delivery!Open, Kept, emission, disk
      <3> QED BY <3>1 DEF Delivery!Next
    <2>3. CASE RetryFails(i, s) /\ MayRetry(i)
      BY <2>3 DEF RetryFails, Budget, emission, disk
    <2>4. CASE RetryFails(i, s) /\ ~MayRetry(i)
      <3>1. Delivery!Bury(i, s)
        BY <2>1, <2>4 DEF RetryFails, Budget, Delivery!Bury, Delivery!Open, Kept, emission, disk
      <3> QED BY <3>1 DEF Delivery!Next
    <2>5. CASE RetryLoads(i, s) \/ RetryAgain(i, s)
      BY <2>5 DEF RetryLoads, RetryAgain, emission, disk
    <2> QED
      BY <1>10, <2>2, <2>3, <2>4, <2>5 DEF Retry
  <1> QED
    BY <1>1, <1>2, <1>3, <1>4, <1>5, <1>6, <1>7, <1>8, <1>9, <1>10 DEF Emission

(* A recovery settles what is marked, or is a fault of the store. *)
LEMMA RecoveryDelivers ==
  ASSUME Inv, NEW found \in Readings, NEW ids, ids \subseteq marked \cup processed, NEW b,
         Recover(found, ids), Fault(b), pending' # found \ ids \/ found # pending => b,
         UNCHANGED <<what, matched, handled, dead>>
  PROVE  Delivery!Next
  <1>0. TypeOK /\ \A i \in Ids : EventInv(i)
    BY DEF Inv, TypeInv
  <1> DEFINE due == pending \ ids
  <1>1. Holds(due) /\ pending' \subseteq pending \cup due /\ (pending' # due => b)
    BY DEF Recover, Readings
  <1>2. Delivery!Store(due)
    <2> HIDE DEF due
    <2> QED
      BY <1>0, <1>1, StoreDelivers
  <1>3. \A i \in pending \cap ids :
          matched[i] # {} /\ \A s \in matched[i] : <<i, s>> \in handled \ dead
    <2> SUFFICES ASSUME NEW i \in pending \cap ids
                 PROVE  matched[i] # {} /\ \A s \in matched[i] : <<i, s>> \in handled \ dead
      OBVIOUS
    <2>1. i \in Ids /\ EventInv(i) /\ Marked(i)
      BY <1>0 DEF TypeOK, Marked
    <2>2. matched[i] \subseteq Subs
      BY <1>0, <2>1, MatchedIsSubs
    <2> QED
      BY <2>1, <2>2 DEF EventInv, MarkedIsHandled, Buried, Answers
  <1>4. due = pending \ (pending \cap ids) /\ pending \cap ids \in SUBSET Ids
    BY <1>0 DEF TypeOK
  <1>5. Delivery!Settle(pending \cap ids)
    BY <1>2, <1>3, <1>4 DEF Delivery!Settle
  <1> QED
    BY <1>4, <1>5 DEF Delivery!Next

LEMMA StepDelivers ==
  ASSUME Inv, [Next]_vars
  PROVE  Delivery!Next \/ UNCHANGED Delivery!deliveryVars
  <1>1. TypeOK /\ Known
    BY DEF Inv, TypeInv
  <1>2. ASSUME NEW k \in Keys, Emit(k) \/ WorkerTakes(k) PROVE Delivery!Next
    BY <1>1, <1>2, EmitDelivers
  <1>3. CASE \/ \E k \in Keys : EmitAsync(k) \/ WindowPasses(k)
             \/ \E s \in Subs : Subscribe(s) \/ Unsubscribe(s)
             \/ StartWorker \/ Build \/ UNCHANGED vars
    BY <1>3 DEF EmitAsync, WindowPasses, Subscribe, Unsubscribe, StartWorker, Build, vars, emission,
           disk, Delivery!deliveryVars
  <1>4. ASSUME NEW i \in Ids, Emission(i) \/ \E s \in Subs : Retry(i, s)
        PROVE  Delivery!Next \/ UNCHANGED Delivery!deliveryVars
    BY <1>4, ThreadDelivers
  <1>5. CASE RecoverNow
    <2>1. PICK found \in Readings :
            Recover(found, marked) /\ Fault(found # pending \/ pending' # found \ marked)
      BY <1>5 DEF RecoverNow
    <2>2. UNCHANGED <<what, matched, handled, dead>> /\ marked \subseteq marked \cup processed
      BY <1>5 DEF RecoverNow, emission
    <2> QED
      BY <2>1, <2>2, RecoveryDelivers
  <1>6. CASE Restart
    <2>1. PICK found \in Readings, ids \in {processed, {}} :
            /\ Recover(found, ids)
            /\ Fault(found # pending \/ ids # processed \/ pending' # found \ ids)
      BY <1>6 DEF Restart
    <2>2. UNCHANGED <<what, matched, handled, dead>> /\ ids \subseteq marked \cup processed
      BY <1>6 DEF Restart, Die
    <2> QED
      BY <2>1, <2>2, RecoveryDelivers
  <1> QED
    BY <1>2, <1>3, <1>4, <1>5, <1>6 DEF Next, Threads, Worker

(* The bus keeps the promise of EventDelivery, wherever threads are, whenever
   the process restarts and whichever operation on its files fails. *)
THEOREM Implementation == Spec => ImplementsDelivery
  BY InitDelivers, StepDelivers, Invariance, PTL DEF Spec, ImplementsDelivery, Delivery!Spec
=============================================================================
