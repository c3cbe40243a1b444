---------------------------- MODULE EventDelivery ----------------------------
(***************************************************************************)
(* What the event bus promises about an event, without threads, retries,   *)
(* time, queues or processes: an accepted event is owed to the handlers    *)
(* found for it, across restarts, until each of them has handled it; each  *)
(* handles it once or has it among the dead letters, never both.  Only a   *)
(* fault of the store loses an event that is owed, and the loss is then    *)
(* on the account of that fault.                                           *)
(***************************************************************************)
EXTENDS Naturals

CONSTANTS
  Events, Keys, Subs,
  None

VARIABLES
  content,      \* of an event that was emitted
  audience,     \* the handlers found for an event
  owed,         \* accepted and not settled
  lost,         \* accepted and not in the store because of a fault
  faults,       \* how many there were
  delivered,    \* event and handler
  letters       \* dead letters: event and handler, or None if it was refused

deliveryVars == <<content, audience, owed, lost, faults, delivered, letters>>

Init ==
  /\ content = [e \in Events |-> None] /\ audience = [e \in Events |-> {}]
  /\ owed = {} /\ lost = {} /\ faults = 0 /\ delivered = {} /\ letters = {}

(* the store is to hold what is due, and does unless there is a fault *)
Store(due) ==
  \/ owed' = due /\ UNCHANGED <<lost, faults>>
  \/ /\ faults' = faults + 1
     /\ owed' \subseteq owed \cup due
     /\ lost' = lost \cup (due \ owed')

Open(e, s) ==
  e \in owed \cup lost /\ s \in audience[e] /\ <<e, s>> \notin delivered \cup letters

Emit(e) ==
  /\ content[e] = None
  /\ \E k \in Keys : content' = [content EXCEPT ![e] = k]
  /\ UNCHANGED <<audience, owed, lost, faults, delivered, letters>>

Accept(e) ==
  /\ content[e] \in Keys
  /\ e \notin owed /\ audience[e] = {} /\ <<e, None>> \notin letters
  /\ Store(owed \cup {e})
  /\ UNCHANGED <<content, audience, delivered, letters>>

Refuse(e) ==
  /\ content[e] \in Keys /\ e \notin owed /\ audience[e] = {}
  /\ letters' = letters \cup {<<e, None>>}
  /\ UNCHANGED <<content, audience, owed, lost, faults, delivered>>

Address(e) ==
  /\ e \in owed \cup lost /\ audience[e] = {}
  /\ \E S \in SUBSET Subs : audience' = [audience EXCEPT ![e] = S]
  /\ UNCHANGED <<content, owed, lost, faults, delivered, letters>>

Deliver(e, s) ==
  /\ Open(e, s)
  /\ delivered' = delivered \cup {<<e, s>>}
  /\ UNCHANGED <<content, audience, owed, lost, faults, letters>>

Bury(e, s) ==
  /\ Open(e, s)
  /\ letters' = letters \cup {<<e, s>>}
  /\ UNCHANGED <<content, audience, owed, lost, faults, delivered>>

(* events every handler has handled leave the store; without any, this is a
   fault that strikes at rest *)
Settle(S) ==
  /\ S \subseteq owed
  /\ \A e \in S : audience[e] # {} /\ \A s \in audience[e] : <<e, s>> \in delivered \ letters
  /\ Store(owed \ S)
  /\ UNCHANGED <<content, audience, delivered, letters>>

Next ==
  \/ \E e \in Events :
       \/ Emit(e) \/ Accept(e) \/ Refuse(e) \/ Address(e)
       \/ \E s \in Subs : Deliver(e, s) \/ Bury(e, s)
  \/ \E S \in SUBSET Events : Settle(S)

Spec == Init /\ [][Next]_deliveryVars
=============================================================================
