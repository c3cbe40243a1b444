----------------------------- MODULE RealtimeBus -----------------------------
(***************************************************************************)
(* The in-process event bus (realtime.py), the handler of                  *)
(* GET /api/v1/events/stream (api/events.py) and the browser's end of the  *)
(* stream (use-realtime-feed.ts).                                          *)
(*                                                                         *)
(* One browser: it holds at most one connection, and every connection is a *)
(* subscription of its own.  What the server wrote and the browser has not *)
(* yet handled counts as still queued.  publish() is three steps: the      *)
(* number, then history and the list of subscribers, then the queue.       *)
(***************************************************************************)
EXTENDS Naturals, Sequences, SequencesExt

CONSTANTS
  Publishers,
  Bodies,          \* what an event may carry, a set of records with a field kind
  Ephemeral,       \* kinds that are kept out of the history
  QueueSize,       \* queue_maxsize of a subscription
  HistorySize,     \* maxlen of _history
  None,
  MaxIds, MaxLosses        \* bounds: events, broken connections and restarts

ASSUME BusAssumption ==
  /\ {QueueSize, HistorySize} \subseteq Nat \ {0}
  /\ {MaxIds, MaxLosses} \subseteq Nat
  /\ None \notin Publishers

VARIABLES
  nextId,      \* number of the last event
  history,     \* _history
  pub,         \* a call of publish: where it is, its event, does it know the subscription
  conn,        \* the connection: down, replay (before the loop), open
  queue,       \* queue of the subscription
  replay,      \* what replay_history has still to put
  since,       \* sinceIdRef: the largest number the browser has seen
  from,        \* since_id of the connection
  losses,      \* connections that broke, restarts of the server
  got, dropped \* history: events of the history handled by the browser, numbers of those dropped at a full queue

publishing == <<nextId, history, pub>>
connection == <<conn, queue, replay, since, from, losses>>
busVars == <<publishing, connection, got, dropped>>

Events == [id: 1..MaxIds, by: Publishers, body: Bodies]
Idle == [step |-> "idle", event |-> None, to |-> FALSE]

BusInit ==
  /\ nextId = 0 /\ history = <<>>
  /\ pub = [p \in Publishers |-> Idle]
  /\ conn = "down" /\ queue = <<>> /\ replay = <<>>
  /\ since = 0 /\ from = 0 /\ losses = 0
  /\ got = {} /\ dropped = {}

Persistent(e) == e.body.kind \notin Ephemeral
Latest(s) == IF Len(s) > HistorySize THEN Tail(s) ELSE s
(* mutant of Subscribed: the history is replayed before subscribe() *)
SubscribedLate == conn = "open"
(* the subscription is in _subs *)
Subscribed == conn # "down"
(* mutant of Full: one event too many *)
FullLate == Len(queue) > QueueSize
Full == Len(queue) >= QueueSize
Later(s, n) ==
  LET part[i \in 0..Len(s)] ==
        IF i = 0 THEN <<>>
        ELSE IF s[i].id > n THEN Append(part[i - 1], s[i]) ELSE part[i - 1]
  IN  part[Len(s)]

-----------------------------------------------------------------------------
(* publish *)

(* _make_event *)
MakeEvent(p, body) ==
  /\ pub[p].step = "idle" /\ nextId < MaxIds
  /\ nextId' = nextId + 1
  /\ pub' = [pub EXCEPT ![p] = [step |-> "made", to |-> FALSE,
               event |-> [id |-> nextId + 1, by |-> p, body |-> body]]]
  /\ UNCHANGED history

(* one critical section: the event joins the history, the subscribers are listed *)
Record(p) ==
  /\ pub[p].step = "made"
  /\ history' = IF Persistent(pub[p].event) THEN Latest(Append(history, pub[p].event)) ELSE history
  /\ pub' = [pub EXCEPT ![p] = IF Subscribed THEN [@ EXCEPT !.step = "listed", !.to = TRUE] ELSE Idle]
  /\ UNCHANGED <<nextId, connection, got, dropped>>

(* _enqueue, outside the lock: a full queue drops the new event *)
Enqueue(p) ==
  LET reaches == pub[p].to /\ ~Full IN
    /\ pub[p].step = "listed"
    /\ pub' = [pub EXCEPT ![p] = Idle]
    /\ queue' = IF reaches THEN Append(queue, pub[p].event) ELSE queue
    /\ dropped' = IF pub[p].to /\ Full /\ Persistent(pub[p].event) THEN dropped \cup {pub[p].event.id} ELSE dropped
    /\ UNCHANGED <<nextId, history, conn, replay, since, from, losses, got>>

-----------------------------------------------------------------------------
(* A connection *)

(* connect() of the browser and handle_events up to subscribe() *)
Subscribe ==
  /\ conn = "down" /\ conn' = "subscribed"
  /\ queue' = <<>> /\ replay' = <<>> /\ from' = since /\ dropped' = {}
  /\ UNCHANGED <<publishing, since, losses, got>>

(* replay_history takes the part of the history the browser has not seen *)
ReadHistory ==
  /\ conn = "subscribed"
  /\ conn' = "replay" /\ replay' = Later(history, from)
  /\ UNCHANGED <<publishing, queue, since, from, losses, got, dropped>>

(* put until the queue is full; nobody empties it yet *)
Replay ==
  /\ conn = "replay" /\ replay # <<>>
  /\ IF Full
     THEN /\ dropped' = dropped \cup {e.id : e \in ToSet(replay)}
          /\ replay' = <<>> /\ UNCHANGED queue
     ELSE /\ queue' = Append(queue, Head(replay))
          /\ replay' = Tail(replay) /\ UNCHANGED dropped
  /\ UNCHANGED <<publishing, conn, since, from, losses, got>>

(* the hello frame *)
Open ==
  /\ conn = "replay" /\ replay = <<>>
  /\ conn' = "open"
  /\ UNCHANGED <<publishing, queue, replay, since, from, losses, got, dropped>>

(* one turn of the handler's loop, and onmessage: the handlers of the
   composing module run in the same step *)
Deliver ==
  /\ conn = "open" /\ queue # <<>>
  /\ queue' = Tail(queue)
  /\ since' = IF Head(queue).id > since THEN Head(queue).id ELSE since
  /\ got' = got \cup {e \in {Head(queue)} : Persistent(e)}
  /\ UNCHANGED <<publishing, conn, replay, from, losses, dropped>>

(* a write fails, the handler reaches its 30 minutes, or the network is lost:
   unsubscribe(), and onerror, which waits for its timer *)
Disconnect ==
  /\ conn # "down" /\ losses < MaxLosses /\ losses' = losses + 1
  /\ conn' = "down" /\ queue' = <<>> /\ replay' = <<>> /\ from' = 0
  /\ dropped' = {}
  /\ pub' = [p \in Publishers |-> [pub[p] EXCEPT !.to = FALSE]]
  /\ UNCHANGED <<nextId, history, since, got>>

(* the server's process is replaced: numbers begin again, the browser keeps its own *)
Reboot ==
  /\ losses < MaxLosses /\ losses' = losses + 1
  /\ nextId' = 0 /\ history' = <<>>
  /\ pub' = [p \in Publishers |-> Idle]
  /\ conn' = "down" /\ queue' = <<>> /\ replay' = <<>>
  /\ got' = {} /\ dropped' = {}
  /\ from' = 0 /\ UNCHANGED since

Publish(p) == Record(p) \/ Enqueue(p)
Serve == ReadHistory \/ Replay \/ Open

-----------------------------------------------------------------------------
BusTypeOK ==
  /\ nextId \in 0..MaxIds
  /\ history \in Seq(Events) /\ Len(history) <= HistorySize
  /\ pub \in [Publishers -> [step: {"idle", "made", "listed"}, event: Events \cup {None},
                             to: BOOLEAN]]
  /\ conn \in {"down", "subscribed", "replay", "open"}
  /\ queue \in Seq(Events) /\ Len(queue) <= QueueSize
  /\ replay \in Seq(Events)
  /\ since \in 0..MaxIds /\ from \in 0..MaxIds
  /\ losses \in 0..MaxLosses
  /\ got \subseteq Events /\ dropped \subseteq 1..MaxIds

(* Nothing falls between the replay and the live stream: an event of the
   history that the browser asked for has been handled, is queued, is about to
   be queued by its publisher, or met a full queue (events.py: subscribe comes
   before replay_history; a publisher lists the subscribers together with
   joining the history). *)
NoGap ==
  conn = "open" =>
    \A e \in ToSet(history) : e.id > from =>
      \/ e \in got \/ e \in ToSet(queue) \/ e.id \in dropped
      \/ \E p \in Publishers : pub[p].to /\ pub[p].event = e
=============================================================================
