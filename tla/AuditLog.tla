------------------------------ MODULE AuditLog ------------------------------
(***************************************************************************)
(* The audit log (audit/model.py): a file of JSON lines per tenant and     *)
(* day, each line carrying the hash of the line before it.  record()       *)
(* chooses the file of today, takes its flock, reads the newest hash and   *)
(* appends; an event of a tenant is then copied to the global file of the  *)
(* day, hash included.                                                     *)
(*                                                                         *)
(* Hashes do not collide: the hash of an event is the event's number.  A   *)
(* line is written whole or not at all.                                    *)
(***************************************************************************)
EXTENDS Naturals, Sequences, SequencesExt

CONSTANTS
  Writers,      \* threads that record, in any process of the machine
  Tenants,
  Global,       \* tenant = ""
  Bodies,       \* what an event says
  None,
  MaxDays       \* bound: days

ASSUME AuditAssumption ==
  /\ MaxDays \in Nat \ {0}
  /\ Global \notin Tenants /\ None \notin Writers

VARIABLES
  files,        \* <<tenant, day>> -> lines
  lock,         \* holder of the flock of a file, or None
  today,
  writer,       \* a call of record
  records,      \* calls of record so far
  crossed,      \* history: logs with a line written into the file of a day gone by
  mirrored,     \* history: an event of a tenant was copied to the global log
  misread       \* history: logs whose newest line could not be read for the next one

auditVars == <<files, lock, today, writer, records, crossed, mirrored, misread>>

Logs == Tenants \cup {Global}
Days == 1..MaxDays
Files == Logs \X Days
Lines == [id: Nat, prev: Nat, body: Bodies]

NoRecord == [step |-> "idle", log |-> Global, day |-> 1, id |-> 0, prev |-> 0, body |-> None]

AuditInit ==
  /\ files = [f \in Files |-> <<>>]
  /\ lock = [f \in Files |-> None]
  /\ today = 1 /\ records = 0
  /\ writer = [w \in Writers |-> NoRecord]
  /\ crossed = {} /\ mirrored = FALSE /\ misread = {}

FileOf(w) == <<writer[w].log, writer[w].day>>
At(w, step) == writer[w].step = step
Goto(w, step) == writer' = [writer EXCEPT ![w].step = step]
Line(w) == [id |-> writer[w].id, prev |-> writer[w].prev, body |-> writer[w].body]
(* mutant of IsFree: the lock is not waited for *)
Ignored(f) == f \in Files
IsFree(f) == lock[f] = None
Released(w) == [f \in Files |-> IF lock[f] = w THEN None ELSE lock[f]]

(* the last line of the newest file that has one, among the files of some days *)
Written(log, days) == {d \in days : files[<<log, d>>] # <<>>}
Newest(days) == CHOOSE d \in days : \A x \in days : x <= d
HashOf(log, days) ==
  IF Written(log, days) = {} THEN 0 ELSE Last(files[<<log, Newest(Written(log, days))>>]).id
(* _last_hash *)
LastHash(log) == HashOf(log, Days)

-----------------------------------------------------------------------------
(* record *)
Record(w, log, body) ==
  /\ At(w, "idle")
  /\ records' = records + 1
  /\ writer' = [writer EXCEPT ![w] =
       [step |-> "opened", log |-> log, day |-> today, id |-> records + 1, prev |-> 0, body |-> body]]
  /\ UNCHANGED <<files, lock, today, crossed, mirrored, misread>>

(* _append_locked *)
TakeLock(w) ==
  /\ At(w, "opened") /\ IsFree(FileOf(w))
  /\ lock' = [lock EXCEPT ![FileOf(w)] = w]
  /\ Goto(w, "locked")
  /\ UNCHANGED <<files, today, records, crossed, mirrored, misread>>

(* a file that cannot be read is passed over for an older one *)
ReadAnchor(w) ==
  /\ At(w, "locked")
  /\ \E days \in SUBSET Days :
       writer' = [writer EXCEPT ![w] =
         [@ EXCEPT !.step = "anchored", !.prev = HashOf(writer[w].log, days)]]
  /\ misread' = IF writer'[w].prev = LastHash(writer[w].log) THEN misread
                ELSE misread \cup {writer[w].log}
  /\ UNCHANGED <<files, lock, today, records, crossed, mirrored>>

(* the line is written and the lock released; the copy goes to the file of the
   day it is by now *)
WriteLine(w) ==
  /\ At(w, "anchored")
  /\ files' = [files EXCEPT ![FileOf(w)] = Append(@, Line(w))]
  /\ lock' = Released(w)
  /\ crossed' = IF writer[w].day < today THEN crossed \cup {writer[w].log} ELSE crossed
  /\ writer' = [writer EXCEPT ![w] =
       IF @.log = Global THEN NoRecord ELSE [@ EXCEPT !.step = "mirror", !.day = today]]
  /\ UNCHANGED <<today, records, mirrored, misread>>

(* _append_locked_raw *)
Mirror(w) ==
  LET f == <<Global, writer[w].day>> IN
    /\ At(w, "mirror") /\ lock[f] = None
    /\ files' = [files EXCEPT ![f] = Append(@, Line(w))]
    /\ mirrored' = TRUE
    /\ writer' = [writer EXCEPT ![w] = NoRecord]
    /\ UNCHANGED <<lock, today, records, crossed, misread>>

(* an exception, which every caller of record swallows, or the end of the
   process: the lock is free again *)
Abandon(w) ==
  /\ ~At(w, "idle")
  /\ lock' = Released(w)
  /\ writer' = [writer EXCEPT ![w] = NoRecord]
  /\ UNCHANGED <<files, today, records, crossed, mirrored, misread>>

Midnight ==
  /\ today < MaxDays /\ today' = today + 1
  /\ UNCHANGED <<files, lock, writer, records, crossed, mirrored, misread>>

Recording(w) == TakeLock(w) \/ ReadAnchor(w) \/ WriteLine(w) \/ Mirror(w)

-----------------------------------------------------------------------------
AuditTypeOK ==
  /\ files \in [Files -> Seq(Lines)]
  /\ lock \in [Files -> Writers \cup {None}]
  /\ today \in Days /\ records \in Nat
  /\ writer \in [Writers -> [step: {"idle", "opened", "locked", "anchored", "mirror"},
                             log: Logs, day: Days, id: Nat, prev: Nat,
                             body: Bodies \cup {None}]]
  /\ {crossed, misread} \subseteq SUBSET Logs /\ mirrored \in BOOLEAN

(* verify() from the first day *)
Verifies(log) ==
  \A d \in Days : LET lines == files[<<log, d>>] IN
    \A i \in DOMAIN lines :
      lines[i].prev = IF i = 1 THEN HashOf(log, 1..(d - 1)) ELSE lines[i - 1].id

(* Writers in any number of threads and processes, each of which may fail or
   die at any step, never fork the chain of a log (the lock covers the anchor
   and the append, model.py: _append_locked).  Left out, because the code does
   fork them: a log with a line of yesterday's file written after midnight, one
   whose newest line could not be read for the anchor, and the global log once
   a tenant's event was copied to it. *)
ChainVerifies ==
  \A log \in Logs :
    log \in crossed \cup misread \/ (log = Global /\ mirrored) \/ Verifies(log)
=============================================================================
