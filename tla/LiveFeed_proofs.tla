---------------------------- MODULE LiveFeed_proofs ----------------------------
(***************************************************************************)
(* Theorems about LiveFeed for every number of runs, every size of queue   *)
(* and history and every bound: the types, that nothing falls between the  *)
(* replay and the live stream, and that the panel never mixes two answers. *)
(*                                                                         *)
(* The invariant is in layers: the types (TypeInv), where an event of the  *)
(* history is (GapInv), the order of the panel's frames and what each of   *)
(* them continues (OrderInv, AnswerInv).                                   *)
(***************************************************************************)
EXTENDS LiveFeed, WellFoundedInduction, TLAPS

FeedEvents == [id: 1..MaxIds, by: Publishers, body: FeedBodies]

(* The bus carries events of its publishers; to a publisher that has not made
   its event, or not listed the subscribers, nobody is known. *)
BusTypes ==
  /\ nextId \in 0..MaxIds
  /\ history \in Seq(FeedEvents) /\ Len(history) <= HistorySize
  /\ pub \in [Publishers -> [step: {"idle", "made", "listed"}, event: FeedEvents \cup {None},
                             to: BOOLEAN]]
  /\ \A p \in Publishers :
       /\ pub[p].step # "idle" => pub[p].event \in FeedEvents /\ pub[p].event.by = p
       /\ pub[p].to => pub[p].step = "listed"
  /\ conn \in {"down", "subscribed", "replay", "open"}
  /\ queue \in Seq(FeedEvents) /\ Len(queue) <= QueueSize
  /\ replay \in Seq(FeedEvents)
  /\ since \in 0..MaxIds /\ from \in 0..MaxIds
  /\ losses \in 0..MaxLosses
  /\ got \subseteq FeedEvents /\ dropped \subseteq 1..MaxIds

FeedTypes ==
  /\ session \in [Runs -> {"none", "created", "terminal"}]
  /\ phase \in [Runs -> {"none", "created", "outside", "running", "ended", "over"}]
  /\ stages \in [Runs -> 0..MaxStages]
  /\ board \subseteq Runs /\ previous \subseteq Runs
  /\ poll = None \/ poll \subseteq Runs

PanelTypes ==
  /\ emitter \in [state: {"none", "open", "closing"}, call: 0..MaxCalls,
                  attempt: 0..MaxAttempts, seq: Nat, n: 0..MaxDeltas, buf: Seq(Deltas)]
  /\ emitter.state # "none" => emitter.call >= 1 /\ emitter.attempt >= 1
  /\ panel \in [attempt: 0..MaxAttempts, lastSeq: Nat, text: Seq(Deltas), done: BOOLEAN]
  /\ missed \subseteq Runs /\ resetLost \subseteq 1..MaxIds

TypeInv == BusTypes /\ FeedTypes /\ PanelTypes

(* What is sent again is exactly the history; an event of it that was asked for
   is always somewhere. *)
GapInv ==
  /\ \A e \in ToSet(history) : Persistent(e)
  /\ conn \in {"down", "subscribed", "open"} => replay = <<>>
  /\ conn = "down" => queue = <<>> /\ \A p \in Publishers : ~pub[p].to
  /\ \A e \in ToSet(replay) \cup got : Persistent(e)
  /\ conn \in {"replay", "open"} =>
       \A e \in ToSet(history) : e.id > from =>
         \/ e \in got \/ e \in ToSet(queue) \/ e \in ToSet(replay) \/ e.id \in dropped
         \/ \E p \in Publishers : pub[p].to /\ pub[p].event = e

-----------------------------------------------------------------------------
(* A frame on its way to the panel: in the queue, or its publisher will put it
   there. *)
Pending(p) == pub[p].step = "made" \/ pub[p].to
Flying(e) ==
  /\ e.body.kind \in Frames
  /\ \/ e \in ToSet(queue)
     \/ \E p \in Publishers : Pending(p) /\ e = pub[p].event

(* The frames of s are in the order of their numbers; those of s are below n. *)
InOrder(s) ==
  \A i, j \in DOMAIN s :
    (i < j /\ s[i].body.kind \in Frames /\ s[j].body.kind \in Frames) => s[i].id < s[j].id
Below(s, n) == \A e \in ToSet(s) : e.body.kind \in Frames => e.id < n

(* Frames fly in the order of their numbers, and one run alone sends them. *)
OrderInv ==
  /\ InOrder(queue)
  /\ \A e \in FeedEvents : Flying(e) =>
       /\ e.id <= nextId /\ e.by = Streaming
       /\ e.body.kind # "chunk" => e.body.text = <<>>
  /\ \A p \in Publishers : Pending(p) /\ pub[p].event.body.kind \in Frames =>
       Below(queue, pub[p].event.id)

(* t is of one answer; t goes on where s ended; s is of the answer that the
   emitter is in, and before what it still has to send. *)
OneAnswer(t) ==
  \A i, j \in DOMAIN t : i < j =>
    t[i].call = t[j].call /\ t[i].attempt = t[j].attempt /\ t[i].n < t[j].n
Continues(s, t) ==
  \A i \in DOMAIN s, j \in DOMAIN t :
    s[i].call = t[j].call /\ s[i].attempt = t[j].attempt /\ s[i].n < t[j].n
Present(s) ==
  \A i \in DOMAIN s :
    s[i].call = emitter.call /\ s[i].attempt = emitter.attempt /\ s[i].n <= emitter.n

(* Between two texts that are not of one answer there is a reset frame, on its
   way or lost. *)
Between(a, b) ==
  \/ \E r \in FeedEvents : Flying(r) /\ r.body.kind = "reset" /\ a < r.id /\ r.id < b
  \/ \E m \in resetLost : a < m
After(a) ==
  \/ \E r \in FeedEvents : Flying(r) /\ r.body.kind = "reset" /\ a < r.id
  \/ \E m \in resetLost : a < m

AnswerInv ==
  /\ resetLost = {} => OneAnswer(panel.text)
  /\ \A e \in FeedEvents : Flying(e) =>
       /\ OneAnswer(e.body.text)
       /\ Continues(panel.text, e.body.text) \/ Between(0, e.id)
  /\ \A d, e \in FeedEvents : Flying(d) /\ Flying(e) /\ d.id < e.id =>
       Continues(d.body.text, e.body.text) \/ Between(d.id, e.id)
  /\ emitter.state = "open" =>
       /\ OneAnswer(emitter.buf) /\ Present(emitter.buf)
       /\ (Continues(panel.text, emitter.buf) /\ Present(panel.text)) \/ After(0)
       /\ \A e \in FeedEvents : Flying(e) =>
            (Continues(e.body.text, emitter.buf) /\ Present(e.body.text)) \/ After(e.id)

-----------------------------------------------------------------------------
(* Sequences *)

LEMMA ToSetOfAppend ==
  ASSUME NEW S, NEW s \in Seq(S), NEW e \in S
  PROVE  ToSet(Append(s, e)) = ToSet(s) \cup {e}
  <1> DEFINE t == Append(s, e)
  <1>1. /\ Len(s) \in Nat /\ DOMAIN s = 1..Len(s)
        /\ DOMAIN t = 1..(Len(s) + 1) /\ t[Len(s) + 1] = e
        /\ \A i \in 1..Len(s) : t[i] = s[i]
    OBVIOUS
  <1> HIDE DEF t
  <1>2. 1..(Len(s) + 1) = 1..Len(s) \cup {Len(s) + 1}
    BY <1>1
  <1>3. ToSet(t) = ToSet(s) \cup {e}
    BY <1>1, <1>2 DEF ToSet
  <1> QED BY <1>3 DEF t

LEMMA ToSetOfTail ==
  ASSUME NEW S, NEW s \in Seq(S), s # <<>>
  PROVE  ToSet(s) = {Head(s)} \cup ToSet(Tail(s))
  <1> DEFINE t == Tail(s)
  <1>1. /\ Len(s) \in Nat \ {0} /\ DOMAIN s = 1..Len(s) /\ Head(s) = s[1]
        /\ DOMAIN t = 1..(Len(s) - 1)
        /\ \A i \in 1..(Len(s) - 1) : t[i] = s[i + 1]
    OBVIOUS
  <1> HIDE DEF t
  <1>2. ToSet(s) \subseteq {Head(s)} \cup ToSet(t)
    <2> SUFFICES ASSUME NEW i \in 1..Len(s), i # 1 PROVE s[i] \in ToSet(t)
      BY <1>1 DEF ToSet
    <2>1. i - 1 \in 1..(Len(s) - 1) /\ (i - 1) + 1 = i
      BY <1>1
    <2> QED BY <1>1, <2>1 DEF ToSet
  <1>3. {Head(s)} \cup ToSet(t) \subseteq ToSet(s)
    <2>1. 1 \in 1..Len(s)
      BY <1>1
    <2>2. ASSUME NEW i \in 1..(Len(s) - 1) PROVE t[i] \in ToSet(s)
      <3>1. i + 1 \in 1..Len(s)
        BY <1>1
      <3> QED BY <1>1, <3>1 DEF ToSet
    <2> QED BY <1>1, <2>1, <2>2 DEF ToSet
  <1> QED BY <1>2, <1>3 DEF t

LEMMA ToSetInside ==
  ASSUME NEW S, NEW s \in Seq(S)
  PROVE  ToSet(s) \subseteq S /\ ToSet(<<>>) = {}
  <1>1. \A i \in DOMAIN s : s[i] \in S
    OBVIOUS
  <1>2. DOMAIN <<>> = {}
    OBVIOUS
  <1> QED BY <1>1, <1>2 DEF ToSet

LEMMA ToSetOfEmpty == ToSet(<<>>) = {}
  BY ToSetInside, <<>> \in Seq({})

(* A nonempty set of numbers has a least one. *)
LEMMA LeastIsThere ==
  ASSUME NEW S, S \subseteq Nat, S # {}
  PROVE  \E m \in S : \A x \in S : m <= x
  <1> DEFINE Less == OpToRel(<, Nat)
  <1> HIDE DEF Less
  <1>1. PICK m \in S : \A x \in S : ~(<<x, m>> \in Less)
    <2>1. IsWellFoundedOn(Less, Nat)
      BY NatLessThanWellFounded DEF Less
    <2> QED BY <2>1, WFMin
  <1>2. \A x \in S : m <= x
    <2> SUFFICES ASSUME NEW x \in S PROVE m <= x
      OBVIOUS
    <2>1. x \in Nat /\ m \in Nat /\ ~(<<x, m>> \in Less)
      BY <1>1
    <2>2. x < m => <<x, m>> \in Less
      BY <2>1 DEF OpToRel, Less
    <2> QED BY <2>1, <2>2
  <1> QED BY <1>2

(* The recursion of Later, up to m. *)
Kept(p, e, n) == IF e.id > n THEN Append(p, e) ELSE p
Parts(s, n, e, f, m) == f = [i \in 0..m |-> IF i = 0 THEN e ELSE Kept(f[i - 1], s[i], n)]

(* What the recursion says, with nothing known of s: the SMT backend's axioms
   about Len take every function for a sequence, so a leaf that sees a function
   on 0..m must not see a sequence. *)
LEMMA PartsUnfold ==
  ASSUME NEW s, NEW n, NEW e, NEW f, NEW m \in Nat, Parts(s, n, e, f, m)
  PROVE  f[0] = e /\ \A i \in 1..m : f[i] = Kept(f[i - 1], s[i], n)
  <1>1. \A i \in 0..m : f[i] = IF i = 0 THEN e ELSE Kept(f[i - 1], s[i], n)
    BY DEF Parts
  <1>2. 0 \in 0..m /\ \A i \in 1..m : i \in 0..m /\ i # 0
    OBVIOUS
  <1> QED BY <1>1, <1>2

LEMMA PartsBegin ==
  ASSUME NEW s, NEW n, NEW e
  PROVE  \E f : Parts(s, n, e, f, 0)
  <1>1. Parts(s, n, e, [i \in 0..0 |-> e], 0)
    BY DEF Parts
  <1> QED BY <1>1

LEMMA PartsExtend ==
  ASSUME NEW s, NEW n, NEW e, NEW f, NEW m \in Nat, m # 0, Parts(s, n, e, f, m - 1)
  PROVE  \E g : Parts(s, n, e, g, m)
  <1> DEFINE g == [i \in 0..m |-> IF i = m THEN Kept(f[m - 1], s[m], n) ELSE f[i]]
  <1>0. m - 1 \in Nat
    OBVIOUS
  <1>1. f[0] = e /\ \A i \in 1..(m - 1) : f[i] = Kept(f[i - 1], s[i], n)
    BY <1>0, PartsUnfold
  <1>2. m \in 0..m /\ g[m] = Kept(f[m - 1], s[m], n) /\ \A i \in 0..m : i # m => g[i] = f[i]
    OBVIOUS
  <1> HIDE DEF g
  <1>3. ASSUME NEW i \in 0..m
        PROVE  g[i] = IF i = 0 THEN e ELSE Kept(g[i - 1], s[i], n)
    <2>1. CASE i = 0
      BY <1>1, <1>2, <2>1
    <2>2. CASE i # 0
      <3>1. i - 1 \in 0..m /\ i - 1 # m /\ g[i - 1] = f[i - 1]
        BY <1>2, <2>2
      <3>2. i = m \/ i \in 1..(m - 1)
        BY <2>2
      <3> QED BY <1>1, <1>2, <2>2, <3>1, <3>2
    <2> QED BY <2>1, <2>2
  <1>4. Parts(s, n, e, g, m)
    <2>1. g = [i \in 0..m |-> g[i]]
      BY DEF g
    <2>2. [i \in 0..m |-> g[i]] = [i \in 0..m |-> IF i = 0 THEN e ELSE Kept(g[i - 1], s[i], n)]
      BY <1>3
    <2> QED BY <2>1, <2>2 DEF Parts
  <1> QED BY <1>4

LEMMA PartsExist ==
  ASSUME NEW s \in Seq(FeedEvents), NEW n
  PROVE  \E f : Parts(s, n, <<>>, f, Len(s))
  <1> DEFINE Bad == {m \in 0..Len(s) : ~\E f : Parts(s, n, <<>>, f, m)}
  <1>1. SUFFICES ASSUME Bad # {} PROVE FALSE
    <2>1. Len(s) \in 0..Len(s)
      OBVIOUS
    <2> QED BY <2>1
  <1>2. PICK m \in Bad : \A x \in Bad : m <= x
    <2>1. Bad \subseteq Nat
      OBVIOUS
    <2> HIDE DEF Bad
    <2> QED BY <1>1, <2>1, LeastIsThere
  <1>3. m # 0
    BY PartsBegin
  <1>4. m - 1 \in 0..Len(s) /\ m - 1 \notin Bad
    <2>1. m \in Nat /\ m - 1 \in 0..Len(s) /\ ~(m <= m - 1)
      BY <1>3
    <2> HIDE DEF Bad
    <2> QED BY <1>2, <2>1
  <1>5. PICK f : Parts(s, n, <<>>, f, m - 1)
    BY <1>4
  <1> QED BY <1>3, <1>5, PartsExtend

(* Of the first m events, t holds those with a number above n. *)
Selects(t, s, m, n) ==
  /\ t \in Seq(FeedEvents)
  /\ \A e \in FeedEvents : e \in ToSet(t) <=> (e.id > n /\ \E i \in 1..m : s[i] = e)

LEMMA KeptSelects ==
  ASSUME NEW s \in Seq(FeedEvents), NEW n \in Nat, NEW m \in 1..Len(s), NEW t,
         Selects(t, s, m - 1, n)
  PROVE  Selects(Kept(t, s[m], n), s, m, n)
  <1>1. s[m] \in FeedEvents /\ m \in Nat /\ 1..m = 1..(m - 1) \cup {m}
    OBVIOUS
  <1>2. t \in Seq(FeedEvents)
    BY DEF Selects
  <1>3. ToSet(Append(t, s[m])) = ToSet(t) \cup {s[m]}
    BY <1>1, <1>2, ToSetOfAppend
  <1>4. Append(t, s[m]) \in Seq(FeedEvents)
    BY <1>1, <1>2
  <1>5. CASE s[m].id > n
    BY <1>1, <1>3, <1>4, <1>5 DEF Selects, Kept
  <1>6. CASE ~(s[m].id > n)
    BY <1>1, <1>6 DEF Selects, Kept
  <1> QED BY <1>5, <1>6

LEMMA PartsSelect ==
  ASSUME NEW s \in Seq(FeedEvents), NEW n \in Nat, NEW f, Parts(s, n, <<>>, f, Len(s)),
         NEW k \in 0..Len(s)
  PROVE  Selects(f[k], s, k, n)
  <1> DEFINE Bad == {i \in 0..Len(s) : ~Selects(f[i], s, i, n)}
  <1>1. SUFFICES ASSUME Bad # {} PROVE FALSE
    OBVIOUS
  <1>2. PICK m \in Bad : \A x \in Bad : m <= x
    <2>1. Bad \subseteq Nat
      OBVIOUS
    <2> HIDE DEF Bad
    <2> QED BY <1>1, <2>1, LeastIsThere
  <1>3. m # 0
    <2>1. 0 \in 0..Len(s) /\ f[0] = <<>>
      BY PartsUnfold
    <2>2. <<>> \in Seq(FeedEvents) /\ ToSet(<<>>) = {} /\ 1..0 = {}
      BY ToSetInside
    <2>3. Selects(f[0], s, 0, n)
      BY <2>1, <2>2 DEF Selects
    <2> QED BY <2>3
  <1>4. m \in 1..Len(s) /\ m \in 0..Len(s) /\ m - 1 \in 0..Len(s) /\ ~(m <= m - 1)
    <2>1. m \in 0..Len(s)
      OBVIOUS
    <2> QED BY <1>3, <2>1
  <1>5. m - 1 \notin Bad
    <2> HIDE DEF Bad
    <2> QED BY <1>2, <1>4
  <1>6. Selects(f[m - 1], s, m - 1, n)
    BY <1>4, <1>5
  <1>7. f[m] = Kept(f[m - 1], s[m], n)
    BY <1>4, PartsUnfold
  <1>8. Selects(f[m], s, m, n)
    BY <1>4, <1>6, <1>7, KeptSelects
  <1> QED BY <1>8

(* What replay_history takes: the events of s with a number above n. *)
LEMMA LaterIs ==
  ASSUME NEW s \in Seq(FeedEvents), NEW n \in Nat
  PROVE  /\ Later(s, n) \in Seq(FeedEvents)
         /\ \A e \in FeedEvents : e \in ToSet(Later(s, n)) <=> (e \in ToSet(s) /\ e.id > n)
  <1> DEFINE f == CHOOSE g : Parts(s, n, <<>>, g, Len(s))
  <1>1. Later(s, n) = f[Len(s)]
    BY DEF Later, Parts, Kept
  <1>2. Parts(s, n, <<>>, f, Len(s))
    BY PartsExist
  <1> HIDE DEF f
  <1>3. Len(s) \in 0..Len(s) /\ DOMAIN s = 1..Len(s)
    OBVIOUS
  <1>4. Selects(Later(s, n), s, Len(s), n)
    BY <1>1, <1>2, <1>3, PartsSelect
  <1> QED BY <1>3, <1>4 DEF Selects, ToSet

-----------------------------------------------------------------------------
(* The types *)

LEMMA Kinds ==
  /\ Frames = {"reset", "chunk", "close"} /\ Plain = {"start", "done"}
  /\ MaxAttempts \in Nat /\ MaxAttempts >= 1 /\ MaxCalls \in Nat /\ MaxDeltas \in Nat
  /\ MaxStages \in Nat /\ MaxIds \in Nat /\ MaxLosses \in Nat
  /\ QueueSize \in Nat /\ QueueSize >= 1 /\ HistorySize \in Nat /\ HistorySize >= 1
  BY LiveFeedAssumption, BusAssumption
     DEF LiveFeedAssumption, BusAssumption, Frames, Plain

LEMMA InitTypes == Init => TypeInv
  <1> SUFFICES ASSUME Init PROVE TypeInv
    OBVIOUS
  <1>1. BusTypes
    BY Kinds DEF Init, BusInit, BusTypes, Idle
  <1>2. FeedTypes
    BY Kinds DEF Init, FeedTypes
  <1>3. PanelTypes
    BY Kinds DEF Init, PanelTypes, NoEmitter, NoStream
  <1> QED BY <1>1, <1>2, <1>3 DEF TypeInv

(* What a run says, and what it leaves its emitter in. *)
Spoken(r, b) ==
  \/ b.kind \in Plain /\ UNCHANGED emitter
  \/ /\ r = Streaming /\ b.kind = "reset" /\ b.text = <<>>
     /\ emitter'.state = "open" /\ emitter'.buf = <<>>
  \/ /\ r = Streaming /\ b.kind = "chunk" /\ emitter.state = "open"
     /\ emitter.n < MaxDeltas /\ b.text = Append(emitter.buf, Delta)
     /\ emitter'.call = emitter.call /\ emitter'.attempt = emitter.attempt
     /\ emitter'.n = emitter.n + 1 /\ emitter'.buf = <<>>
  \/ /\ r = Streaming /\ b.kind = "chunk" /\ emitter.state = "open"
     /\ b.text = emitter.buf /\ emitter'.state = "closing"
  \/ r = Streaming /\ b.kind = "close" /\ b.text = <<>> /\ emitter'.state = "none"

(* A delta that the model's answer adds. *)
LEMMA DeltaTyped ==
  ASSUME PanelTypes, emitter.state = "open", emitter.n < MaxDeltas
  PROVE  /\ Delta \in Deltas /\ Append(emitter.buf, Delta) \in Seq(Deltas)
         /\ Delta = [call |-> emitter.call, attempt |-> emitter.attempt, n |-> emitter.n + 1]
  <1>1. /\ emitter.call \in 0..MaxCalls /\ emitter.attempt \in 0..MaxAttempts
        /\ emitter.n \in 0..MaxDeltas /\ emitter.buf \in Seq(Deltas)
        /\ emitter.call >= 1 /\ emitter.attempt >= 1
    BY DEF PanelTypes
  <1>2. Delta \in Deltas
    BY <1>1, Kinds DEF Delta, Deltas
  <1> QED BY <1>1, <1>2 DEF Delta

LEMMA FrameTyped ==
  ASSUME NEW k \in Plain \cup Frames, NEW a \in 0..MaxAttempts, NEW q \in Nat,
         NEW t \in Seq(Deltas)
  PROVE  [kind |-> k, attempt |-> a, seq |-> q, text |-> t] \in FeedBodies
  BY DEF FeedBodies

LEMMA PlainTyped ==
  ASSUME NEW k \in Plain
  PROVE  PlainBody(k) \in FeedBodies /\ PlainBody(k).kind = k
  <1>1. 0 \in 0..MaxAttempts /\ 0 \in Nat /\ <<>> \in Seq(Deltas)
    BY Kinds
  <1> QED BY <1>1, FrameTyped DEF PlainBody

RunTypes(r) ==
  /\ FeedTypes' /\ PanelTypes'
  /\ UNCHANGED <<panel, resetLost>>
  /\ \/ UNCHANGED busVars /\ UNCHANGED emitter
     \/ UNCHANGED busVars /\ Buffer(r)
     \/ \E b \in FeedBodies : Emit(r, b) /\ Spoken(r, b)

LEMMA EmitterTyped ==
  ASSUME NEW e, NEW s \in {"none", "open", "closing"}, NEW c \in 0..MaxCalls,
         NEW a \in 0..MaxAttempts, NEW q \in Nat, NEW n \in 0..MaxDeltas, NEW b \in Seq(Deltas),
         e = [state |-> s, call |-> c, attempt |-> a, seq |-> q, n |-> n, buf |-> b]
  PROVE  e \in [state: {"none", "open", "closing"}, call: 0..MaxCalls,
                attempt: 0..MaxAttempts, seq: Nat, n: 0..MaxDeltas, buf: Seq(Deltas)]
  OBVIOUS

LEMMA PlainRun ==
  ASSUME TypeInv, NEW r \in Publishers,
         CreateSession(r) \/ StageStart(r) \/ EndSession(r) \/ RunDone(r) \/ RunDoneFails(r)
  PROVE  RunTypes(r)
  <1>t. FeedTypes /\ PanelTypes
    BY DEF TypeInv
  <1>k. "start" \in Plain /\ "done" \in Plain
    BY DEF Plain
  <1>1. CASE CreateSession(r)
    BY <1>t, <1>1 DEF CreateSession, Step, RunTypes, FeedTypes, PanelTypes, Runs, store, ghosts
  <1>2. CASE StageStart(r)
    <2>1. FeedTypes'
      <3>1. stages[r] + 1 \in 0..MaxStages
        BY <1>t, <1>2, Kinds DEF StageStart, FeedTypes, Runs
      <3> QED BY <1>t, <1>2, <3>1 DEF StageStart, Step, FeedTypes, Runs, store
    <2>2. PanelTypes' /\ UNCHANGED <<panel, resetLost, emitter>>
      BY <1>t, <1>2 DEF StageStart, PanelTypes, ghosts
    <2>3. Emit(r, PlainBody("start")) /\ PlainBody("start") \in FeedBodies
          /\ Spoken(r, PlainBody("start"))
      BY <1>2, <1>k, <2>2, PlainTyped DEF StageStart, Spoken
    <2> QED BY <2>1, <2>2, <2>3 DEF RunTypes
  <1>3. CASE EndSession(r)
    BY <1>t, <1>3 DEF EndSession, Step, RunTypes, FeedTypes, PanelTypes, Runs, store, ghosts
  <1>4. CASE RunDone(r)
    <2>1. FeedTypes'
      BY <1>t, <1>4 DEF RunDone, Step, FeedTypes, Runs, store
    <2>2. PanelTypes' /\ UNCHANGED <<panel, resetLost, emitter>>
      BY <1>t, <1>4 DEF RunDone, PanelTypes, ghosts
    <2>3. Emit(r, PlainBody("done")) /\ PlainBody("done") \in FeedBodies
          /\ Spoken(r, PlainBody("done"))
      BY <1>4, <1>k, <2>2, PlainTyped DEF RunDone, Spoken
    <2> QED BY <2>1, <2>2, <2>3 DEF RunTypes
  <1>5. CASE RunDoneFails(r)
    BY <1>t, <1>5 DEF RunDoneFails, Step, RunTypes, FeedTypes, PanelTypes, Runs, store
  <1> QED BY <1>1, <1>2, <1>3, <1>4, <1>5

LEMMA StreamRun ==
  ASSUME TypeInv, NEW r \in Publishers, Stream(r)
  PROVE  RunTypes(r)
  <1>t. FeedTypes /\ PanelTypes
    BY DEF TypeInv
  <1>e. /\ emitter \in [state: {"none", "open", "closing"}, call: 0..MaxCalls,
                        attempt: 0..MaxAttempts, seq: Nat, n: 0..MaxDeltas, buf: Seq(Deltas)]
        /\ emitter.state # "none" => emitter.call >= 1 /\ emitter.attempt >= 1
    BY <1>t DEF PanelTypes
  <1>f. FeedTypes' /\ UNCHANGED <<panel, missed, resetLost>>
    BY <1>t DEF Stream, StreamStart, Buffer, Chunk, CloseFlush, CloseDone, CloseSilent,
                FeedTypes, store, ghosts
  <1>s. "reset" \in Frames /\ "chunk" \in Frames /\ "close" \in Frames /\ <<>> \in Seq(Deltas)
    BY Kinds
  <1>1. CASE StreamStart(r)
    <2>1. /\ emitter' \in [state: {"none", "open", "closing"}, call: 0..MaxCalls,
                           attempt: 0..MaxAttempts, seq: Nat, n: 0..MaxDeltas, buf: Seq(Deltas)]
          /\ emitter'.state = "open" /\ emitter'.call >= 1 /\ emitter'.attempt >= 1
          /\ emitter'.buf = <<>>
      <3>1. CASE /\ emitter.state = "none" /\ emitter.call < MaxCalls
                 /\ emitter' = [NoEmitter EXCEPT !.state = "open", !.call = emitter.call + 1,
                                                 !.attempt = 1]
        <4>1. emitter' = [state |-> "open", call |-> emitter.call + 1, attempt |-> 1,
                          seq |-> 0, n |-> 0, buf |-> <<>>]
          BY <3>1 DEF NoEmitter
        <4>2. /\ emitter.call + 1 \in 0..MaxCalls /\ 1 \in 0..MaxAttempts /\ 0 \in Nat
              /\ 0 \in 0..MaxDeltas /\ emitter.call + 1 >= 1
          BY <1>e, <3>1, Kinds
        <4>3. emitter' \in [state: {"none", "open", "closing"}, call: 0..MaxCalls,
                            attempt: 0..MaxAttempts, seq: Nat, n: 0..MaxDeltas, buf: Seq(Deltas)]
          BY <1>s, <4>1, <4>2, EmitterTyped
        <4> QED BY <4>1, <4>2, <4>3
      <3>2. CASE /\ emitter.state = "open" /\ emitter.attempt < MaxAttempts
                 /\ emitter' = [emitter EXCEPT !.attempt = @ + 1, !.n = 0, !.buf = <<>>]
        <4>1. /\ emitter.attempt + 1 \in 0..MaxAttempts /\ 0 \in 0..MaxDeltas
              /\ emitter.attempt + 1 >= 1 /\ emitter.call >= 1
          BY <1>e, <3>2, Kinds
        <4> QED BY <1>e, <1>s, <3>2, <4>1
      <3> QED BY <1>1, <3>1, <3>2 DEF StreamStart
    <2>2. PanelTypes'
      BY <1>t, <1>f, <2>1 DEF PanelTypes
    <2> DEFINE b == [kind |-> "reset", attempt |-> emitter'.attempt, seq |-> emitter'.seq,
                     text |-> <<>>]
    <2>3. b \in FeedBodies
      <3>1. emitter'.attempt \in 0..MaxAttempts /\ emitter'.seq \in Nat
        BY <2>1
      <3> QED BY <1>s, <3>1, FrameTyped
    <2>4. Emit(r, b)
      BY <1>1 DEF StreamStart, Emit, MakeEvent, Frame
    <2>5. Spoken(r, b)
      BY <1>1, <2>1 DEF Spoken, StreamStart, Streams
    <2> QED BY <1>f, <2>2, <2>3, <2>4, <2>5 DEF RunTypes
  <1>2. CASE Buffer(r)
    <2>1. /\ emitter.n + 1 \in 0..MaxDeltas /\ Append(emitter.buf, Delta) \in Seq(Deltas)
          /\ emitter.state = "open"
          /\ emitter' = [emitter EXCEPT !.n = @ + 1, !.buf = Append(@, Delta)]
      BY <1>t, <1>e, <1>2, Kinds, DeltaTyped DEF Buffer
    <2>2. /\ emitter' \in [state: {"none", "open", "closing"}, call: 0..MaxCalls,
                           attempt: 0..MaxAttempts, seq: Nat, n: 0..MaxDeltas, buf: Seq(Deltas)]
          /\ emitter'.call = emitter.call /\ emitter'.attempt = emitter.attempt
      BY <1>e, <2>1
    <2>3. PanelTypes'
      BY <1>e, <1>t, <1>f, <2>1, <2>2 DEF PanelTypes
    <2> QED BY <1>2, <1>f, <2>3 DEF RunTypes, Buffer
  <1>3. CASE Chunk(r)
    <2>1. /\ emitter.n + 1 \in 0..MaxDeltas /\ emitter.seq + 1 \in Nat
          /\ Append(emitter.buf, Delta) \in Seq(Deltas) /\ emitter.state = "open"
          /\ emitter' = [emitter EXCEPT !.n = @ + 1, !.seq = @ + 1, !.buf = <<>>]
      BY <1>t, <1>e, <1>3, Kinds, DeltaTyped DEF Chunk
    <2>2. /\ emitter' \in [state: {"none", "open", "closing"}, call: 0..MaxCalls,
                           attempt: 0..MaxAttempts, seq: Nat, n: 0..MaxDeltas, buf: Seq(Deltas)]
          /\ emitter'.call = emitter.call /\ emitter'.attempt = emitter.attempt
          /\ emitter'.n = emitter.n + 1 /\ emitter'.buf = <<>>
      BY <1>e, <1>s, <2>1
    <2>3. PanelTypes'
      BY <1>e, <1>t, <1>f, <2>1, <2>2 DEF PanelTypes
    <2> DEFINE b == [kind |-> "chunk", attempt |-> emitter'.attempt, seq |-> emitter'.seq,
                     text |-> Append(emitter.buf, Delta)]
    <2>4. b \in FeedBodies
      <3>1. emitter'.attempt \in 0..MaxAttempts /\ emitter'.seq \in Nat
        BY <2>2
      <3> QED BY <1>s, <2>1, <3>1, FrameTyped
    <2>5. Emit(r, b)
      BY <1>3 DEF Chunk, Emit, MakeEvent, Frame
    <2>6. Spoken(r, b)
      BY <1>3, <2>1, <2>2 DEF Spoken, Chunk, Streams
    <2> QED BY <1>f, <2>3, <2>4, <2>5, <2>6 DEF RunTypes
  <1>4. CASE CloseFlush(r)
    <2>1. /\ emitter.seq + 1 \in Nat /\ emitter.buf \in Seq(Deltas) /\ emitter.state = "open"
          /\ emitter' = [emitter EXCEPT !.state = "closing", !.seq = @ + 1, !.buf = <<>>]
      BY <1>e, <1>4 DEF CloseFlush
    <2>2. /\ emitter' \in [state: {"none", "open", "closing"}, call: 0..MaxCalls,
                           attempt: 0..MaxAttempts, seq: Nat, n: 0..MaxDeltas, buf: Seq(Deltas)]
          /\ emitter'.call = emitter.call /\ emitter'.attempt = emitter.attempt
          /\ emitter'.state = "closing"
      BY <1>e, <1>s, <2>1
    <2>3. PanelTypes'
      BY <1>e, <1>t, <1>f, <2>1, <2>2 DEF PanelTypes
    <2> DEFINE b == [kind |-> "chunk", attempt |-> emitter'.attempt, seq |-> emitter'.seq,
                     text |-> emitter.buf]
    <2>4. b \in FeedBodies
      <3>1. emitter'.attempt \in 0..MaxAttempts /\ emitter'.seq \in Nat
        BY <2>2
      <3> QED BY <1>s, <2>1, <3>1, FrameTyped
    <2>5. Emit(r, b)
      BY <1>4 DEF CloseFlush, Emit, MakeEvent, Frame
    <2>6. Spoken(r, b)
      BY <1>4, <2>1, <2>2 DEF Spoken, CloseFlush, Streams
    <2> QED BY <1>f, <2>3, <2>4, <2>5, <2>6 DEF RunTypes
  <1>5. CASE CloseDone(r)
    <2>1. emitter' = [state |-> "none", call |-> emitter.call, attempt |-> 0, seq |-> 0, n |-> 0,
                      buf |-> <<>>]
      BY <1>5 DEF CloseDone, NoEmitter
    <2>2. 0 \in 0..MaxAttempts /\ 0 \in Nat /\ 0 \in 0..MaxDeltas /\ emitter.call \in 0..MaxCalls
      BY <1>e, Kinds
    <2>3. PanelTypes'
      <3>1. emitter' \in [state: {"none", "open", "closing"}, call: 0..MaxCalls,
                          attempt: 0..MaxAttempts, seq: Nat, n: 0..MaxDeltas, buf: Seq(Deltas)]
        BY <1>s, <2>1, <2>2, EmitterTyped
      <3> QED BY <1>t, <1>f, <2>1, <3>1 DEF PanelTypes
    <2> DEFINE b == [kind |-> "close", attempt |-> emitter.attempt, seq |-> emitter.seq,
                     text |-> <<>>]
    <2>4. b \in FeedBodies
      <3>1. emitter.attempt \in 0..MaxAttempts /\ emitter.seq \in Nat
        BY <1>e
      <3> QED BY <1>s, <3>1, FrameTyped
    <2>5. Emit(r, b)
      BY <1>5 DEF CloseDone, Emit, MakeEvent, Frame
    <2>6. Spoken(r, b)
      BY <1>5, <2>1 DEF Spoken, CloseDone, Streams
    <2> QED BY <1>f, <2>3, <2>4, <2>5, <2>6 DEF RunTypes
  <1>6. CASE CloseSilent(r)
    <2>1. emitter' = [state |-> "none", call |-> emitter.call + 1, attempt |-> 0, seq |-> 0,
                      n |-> 0, buf |-> <<>>]
      BY <1>6 DEF CloseSilent, NoEmitter
    <2>2. /\ 0 \in 0..MaxAttempts /\ 1 \in 0..MaxAttempts /\ 0 \in Nat /\ 0 \in 0..MaxDeltas
          /\ emitter.call + 1 \in 0..MaxCalls
      BY <1>e, <1>6, Kinds DEF CloseSilent
    <2>3. PanelTypes'
      <3>1. emitter' \in [state: {"none", "open", "closing"}, call: 0..MaxCalls,
                          attempt: 0..MaxAttempts, seq: Nat, n: 0..MaxDeltas, buf: Seq(Deltas)]
        BY <1>s, <2>1, <2>2, EmitterTyped
      <3> QED BY <1>t, <1>f, <2>1, <3>1 DEF PanelTypes
    <2> DEFINE b == [kind |-> "close", attempt |-> 1, seq |-> 0, text |-> <<>>]
    <2>4. b \in FeedBodies
      BY <1>s, <2>2, FrameTyped
    <2>5. Emit(r, b)
      BY <1>6 DEF CloseSilent, Emit, MakeEvent, Frame, NoEmitter
    <2>6. Spoken(r, b)
      BY <1>6, <2>1 DEF Spoken, CloseSilent, Streams
    <2> QED BY <1>f, <2>3, <2>4, <2>5, <2>6 DEF RunTypes
  <1> QED BY <1>1, <1>2, <1>3, <1>4, <1>5, <1>6 DEF Stream

LEMMA EmitBus ==
  ASSUME BusTypes, NEW p \in Publishers, NEW b \in FeedBodies, Emit(p, b)
  PROVE  BusTypes'
  <1> DEFINE e == [id |-> nextId + 1, by |-> p, body |-> b]
  <1>1. /\ nextId + 1 \in 1..MaxIds /\ nextId' = nextId + 1
        /\ pub' = [pub EXCEPT ![p] = [step |-> "made", to |-> FALSE, event |-> e]]
        /\ UNCHANGED <<history, conn, queue, replay, since, from, losses, got, dropped>>
    BY Kinds DEF Emit, MakeEvent, connection, BusTypes
  <1>2. e \in FeedEvents /\ e.by = p
    BY <1>1 DEF FeedEvents
  <1>3. /\ pub' \in [Publishers -> [step: {"idle", "made", "listed"},
                                    event: FeedEvents \cup {None}, to: BOOLEAN]]
        /\ \A q \in Publishers :
             /\ pub'[q].step # "idle" => pub'[q].event \in FeedEvents /\ pub'[q].event.by = q
             /\ pub'[q].to => pub'[q].step = "listed"
    <2> HIDE DEF e
    <2> QED BY <1>1, <1>2 DEF BusTypes
  <1> QED BY <1>1, <1>3, Kinds DEF BusTypes

LEMMA IdleTyped ==
  /\ Idle \in [step: {"idle", "made", "listed"}, event: FeedEvents \cup {None}, to: BOOLEAN]
  /\ Idle.step = "idle" /\ Idle.to = FALSE
  BY DEF Idle

LEMMA RecordBus ==
  ASSUME BusTypes, NEW p \in Publishers, Record(p)
  PROVE  /\ BusTypes'
         /\ pub[p].event \in FeedEvents
  <1> DEFINE e == pub[p].event
  <1>1. e \in FeedEvents /\ pub[p].step = "made" /\ pub[p].to = FALSE
    BY DEF Record, BusTypes
  <1>2. history' \in Seq(FeedEvents) /\ Len(history') <= HistorySize
    <2>1. history \in Seq(FeedEvents) /\ Len(history) <= HistorySize /\ Len(history) \in Nat
      BY DEF BusTypes
    <2>2. Append(history, e) \in Seq(FeedEvents) /\ Len(Append(history, e)) = Len(history) + 1
      BY <1>1, <2>1
    <2>3. /\ Tail(Append(history, e)) \in Seq(FeedEvents)
          /\ Len(Tail(Append(history, e))) = Len(history)
      BY <2>1, <2>2
    <2>4. history' = history \/ history' = Latest(Append(history, e))
      BY DEF Record
    <2> HIDE DEF e
    <2> QED BY <2>1, <2>2, <2>3, <2>4, Kinds DEF Latest
  <1>3. /\ pub' \in [Publishers -> [step: {"idle", "made", "listed"},
                                    event: FeedEvents \cup {None}, to: BOOLEAN]]
        /\ \A q \in Publishers :
             /\ pub'[q].step # "idle" => pub'[q].event \in FeedEvents /\ pub'[q].event.by = q
             /\ pub'[q].to => pub'[q].step = "listed"
    <2>1. CASE Subscribed
      <3>1. pub' = [pub EXCEPT ![p] = [@ EXCEPT !.step = "listed", !.to = TRUE]]
        BY <2>1 DEF Record
      <3>2. pub[p] \in [step: {"idle", "made", "listed"}, event: FeedEvents \cup {None}, to: BOOLEAN]
        BY DEF BusTypes
      <3>3. /\ pub' = [pub EXCEPT ![p] = pub'[p]]
            /\ pub'[p] \in [step: {"idle", "made", "listed"}, event: FeedEvents \cup {None},
                            to: BOOLEAN]
            /\ pub'[p].event = e /\ pub'[p].step = "listed"
        BY <3>1, <3>2 DEF BusTypes
      <3>4. e.by = p
        BY <1>1 DEF BusTypes
      <3> DEFINE new == pub'[p]
      <3> HIDE DEF e, new
      <3>5. /\ pub' = [pub EXCEPT ![p] = new] /\ new.event = e /\ new.step = "listed"
            /\ new \in [step: {"idle", "made", "listed"}, event: FeedEvents \cup {None}, to: BOOLEAN]
        BY <3>3 DEF new
      <3> QED BY <1>1, <3>4, <3>5 DEF BusTypes
    <2>2. CASE ~Subscribed
      <3>1. pub' = [pub EXCEPT ![p] = Idle]
        BY <2>2 DEF Record
      <3> QED BY <3>1, IdleTyped DEF BusTypes
    <2> QED BY <2>1, <2>2
  <1>4. UNCHANGED <<nextId, conn, queue, replay, since, from, losses, got, dropped>>
    BY DEF Record, connection
  <1> QED BY <1>1, <1>2, <1>3, <1>4 DEF BusTypes

LEMMA EnqueueBus ==
  ASSUME BusTypes, NEW p \in Publishers, Enqueue(p)
  PROVE  /\ BusTypes'
         /\ pub[p].event \in FeedEvents
  <1> DEFINE e == pub[p].event
  <1>1. e \in FeedEvents /\ e.id \in 1..MaxIds
    BY DEF Enqueue, BusTypes, FeedEvents
  <1>2. queue' \in Seq(FeedEvents) /\ Len(queue') <= QueueSize
    <2>1. queue \in Seq(FeedEvents) /\ Len(queue) <= QueueSize /\ Len(queue) \in Nat
      BY DEF BusTypes
    <2>2. Append(queue, e) \in Seq(FeedEvents) /\ Len(Append(queue, e)) = Len(queue) + 1
      BY <1>1, <2>1
    <2>3. queue' = queue \/ (~Full /\ queue' = Append(queue, e))
      BY DEF Enqueue
    <2> HIDE DEF e
    <2> QED BY <2>1, <2>2, <2>3, Kinds DEF Full
  <1>3. dropped' \subseteq 1..MaxIds
    BY <1>1 DEF Enqueue, BusTypes
  <1>4. /\ pub' \in [Publishers -> [step: {"idle", "made", "listed"},
                                    event: FeedEvents \cup {None}, to: BOOLEAN]]
        /\ \A q \in Publishers :
             /\ pub'[q].step # "idle" => pub'[q].event \in FeedEvents /\ pub'[q].event.by = q
             /\ pub'[q].to => pub'[q].step = "listed"
    BY IdleTyped DEF Enqueue, BusTypes
  <1>5. UNCHANGED <<nextId, history, conn, replay, since, from, losses, got>>
    BY DEF Enqueue
  <1> QED BY <1>1, <1>2, <1>3, <1>4, <1>5 DEF BusTypes

LEMMA ServeBus ==
  ASSUME BusTypes, Subscribe \/ Serve
  PROVE  BusTypes'
  <1>0. UNCHANGED <<nextId, history, pub, since, losses, got>>
    BY DEF Subscribe, Serve, ReadHistory, Replay, Open, publishing
  <1>1. CASE Subscribe
    BY <1>0, <1>1, Kinds DEF Subscribe, BusTypes
  <1>2. CASE ReadHistory
    <2>1. Later(history, from) \in Seq(FeedEvents)
      BY LaterIs DEF BusTypes
    <2> QED BY <1>0, <1>2, <2>1 DEF ReadHistory, BusTypes
  <1>3. CASE Replay
    <2>1. /\ replay \in Seq(FeedEvents) /\ replay # <<>>
          /\ queue \in Seq(FeedEvents) /\ Len(queue) <= QueueSize /\ Len(queue) \in Nat
      BY <1>3 DEF Replay, BusTypes
    <2>2. Head(replay) \in FeedEvents /\ Tail(replay) \in Seq(FeedEvents)
      BY <2>1
    <2>3. /\ Append(queue, Head(replay)) \in Seq(FeedEvents)
          /\ Len(Append(queue, Head(replay))) = Len(queue) + 1
      BY <2>1, <2>2
    <2>4. {e.id : e \in ToSet(replay)} \subseteq 1..MaxIds
      <3>1. ToSet(replay) \subseteq FeedEvents
        BY <2>1, ToSetInside
      <3> QED BY <3>1 DEF FeedEvents
    <2>5. CASE Full
      <3>1. /\ dropped' = dropped \cup {e.id : e \in ToSet(replay)}
            /\ replay' = <<>> /\ UNCHANGED <<conn, from, queue>>
        BY <1>3, <2>5 DEF Replay
      <3> DEFINE ids == {e.id : e \in ToSet(replay)}
      <3>2. replay' \in Seq(FeedEvents)
        BY <3>1
      <3>3. ids \subseteq 1..MaxIds /\ dropped' = dropped \cup ids
        BY <2>4, <3>1
      <3> HIDE DEF ids
      <3> QED BY <1>0, <3>1, <3>2, <3>3 DEF BusTypes
    <2>6. CASE ~Full
      <3>1. Len(queue) + 1 <= QueueSize
        BY <2>1, <2>6, Kinds DEF Full
      <3>2. queue' = Append(queue, Head(replay)) /\ replay' = Tail(replay)
            /\ UNCHANGED <<conn, from, dropped>>
        BY <1>3, <2>6 DEF Replay
      <3> QED BY <1>0, <2>2, <2>3, <3>1, <3>2 DEF BusTypes
    <2> QED BY <2>5, <2>6
  <1>4. CASE Open
    BY <1>0, <1>4 DEF Open, BusTypes
  <1> QED BY <1>1, <1>2, <1>3, <1>4 DEF Serve

LEMMA DeliverBus ==
  ASSUME BusTypes, Deliver
  PROVE  /\ BusTypes'
         /\ Head(queue) \in FeedEvents
  <1>1. queue \in Seq(FeedEvents) /\ queue # <<>> /\ Len(queue) <= QueueSize /\ Len(queue) \in Nat
    BY DEF Deliver, BusTypes
  <1>2. /\ Head(queue) \in FeedEvents /\ Tail(queue) \in Seq(FeedEvents)
        /\ Len(Tail(queue)) = Len(queue) - 1
    BY <1>1
  <1>3. Head(queue).id \in 0..MaxIds
    BY <1>2, Kinds DEF FeedEvents
  <1>4. since' \in 0..MaxIds
    BY <1>3 DEF Deliver, BusTypes
  <1>5. got' \subseteq FeedEvents
    BY <1>2 DEF Deliver, BusTypes
  <1>6. queue' \in Seq(FeedEvents) /\ Len(queue') <= QueueSize
    BY <1>1, <1>2, Kinds DEF Deliver
  <1>7. UNCHANGED <<nextId, history, pub, conn, replay, from, losses, dropped>>
    BY DEF Deliver, publishing
  <1> QED BY <1>2, <1>4, <1>5, <1>6, <1>7 DEF BusTypes

LEMMA LostBus ==
  ASSUME BusTypes, Disconnect \/ Reboot
  PROVE  BusTypes'
  <1>1. losses' \in 0..MaxLosses
    <2>1. losses \in 0..MaxLosses /\ losses < MaxLosses /\ losses' = losses + 1
      BY DEF BusTypes, Disconnect, Reboot
    <2> QED BY <2>1, Kinds
  <1>2. CASE Disconnect
    <2>1. /\ conn' = "down" /\ queue' = <<>> /\ replay' = <<>> /\ from' = 0 /\ dropped' = {}
          /\ UNCHANGED <<nextId, history, since, got>>
          /\ pub' = [p \in Publishers |-> [pub[p] EXCEPT !.to = FALSE]]
      BY <1>2 DEF Disconnect
    <2>2. /\ pub' \in [Publishers -> [step: {"idle", "made", "listed"},
                                      event: FeedEvents \cup {None}, to: BOOLEAN]]
          /\ \A q \in Publishers :
               /\ pub'[q].step # "idle" => pub'[q].event \in FeedEvents /\ pub'[q].event.by = q
               /\ pub'[q].to => pub'[q].step = "listed"
      <3> SUFFICES ASSUME NEW q \in Publishers
                   PROVE  /\ pub'[q] \in [step: {"idle", "made", "listed"},
                                          event: FeedEvents \cup {None}, to: BOOLEAN]
                          /\ pub'[q].step = pub[q].step /\ pub'[q].event = pub[q].event
                          /\ pub'[q].to = FALSE
        <4>1. pub' = [q \in Publishers |-> pub'[q]]
          BY <2>1
        <4>2. (\A q \in Publishers :
                 pub'[q] \in [step: {"idle", "made", "listed"}, event: FeedEvents \cup {None},
                             to: BOOLEAN]) =>
                pub' \in [Publishers -> [step: {"idle", "made", "listed"},
                                         event: FeedEvents \cup {None}, to: BOOLEAN]]
          BY <4>1
        <4>3. \A q \in Publishers : pub[q].step # "idle" =>
                pub[q].event \in FeedEvents /\ pub[q].event.by = q
          BY DEF BusTypes
        <4> QED BY <4>2, <4>3
      <3>1. pub[q] \in [step: {"idle", "made", "listed"}, event: FeedEvents \cup {None},
                        to: BOOLEAN]
        BY DEF BusTypes
      <3>2. pub'[q] = [pub[q] EXCEPT !.to = FALSE]
        BY <2>1
      <3> QED BY <3>1, <3>2
    <2>3. queue' \in Seq(FeedEvents) /\ Len(queue') <= QueueSize /\ replay' \in Seq(FeedEvents)
      BY <2>1, Kinds
    <2> QED BY <1>1, <2>1, <2>2, <2>3, Kinds DEF BusTypes
  <1>3. CASE Reboot
    BY <1>1, <1>3, IdleTyped, Kinds DEF Reboot, BusTypes
  <1> QED BY <1>2, <1>3

LEMMA ForgetTyped ==
  ASSUME PanelTypes, NEW S, S \subseteq FeedEvents, UNCHANGED <<emitter, panel>>,
         missed' = missed \cup {e.by : e \in {x \in S : x.body.kind \in {"start", "done"}}},
         resetLost' = resetLost \cup {e.id : e \in {x \in S : x.body.kind = "reset"}}
  PROVE  PanelTypes'
  <1>1. \A e \in S : e.by \in Publishers /\ e.id \in 1..MaxIds
    BY DEF FeedEvents
  <1>2. missed' \subseteq Runs
    BY <1>1 DEF PanelTypes, Runs
  <1>3. resetLost' \subseteq 1..MaxIds
    BY <1>1 DEF PanelTypes
  <1> QED BY <1>2, <1>3 DEF PanelTypes

(* What the panel shows after a frame. *)
LEMMA AppliedIs ==
  ASSUME PanelTypes, NEW f \in FeedBodies
  PROVE  /\ Applied(f) \in [attempt: 0..MaxAttempts, lastSeq: Nat, text: Seq(Deltas), done: BOOLEAN]
         /\ Applied(f).text \in {panel.text, f.text, panel.text \o f.text}
         /\ f.kind = "reset" => Applied(f).text = f.text
  <1>1. /\ panel \in [attempt: 0..MaxAttempts, lastSeq: Nat, text: Seq(Deltas), done: BOOLEAN]
        /\ f.attempt \in 0..MaxAttempts /\ f.seq \in Nat /\ f.text \in Seq(Deltas)
    BY DEF PanelTypes, FeedBodies
  <1>2. CASE f.kind = "chunk" /\ panel.attempt = f.attempt /\ f.seq <= panel.lastSeq
    BY <1>1, <1>2 DEF Applied
  <1> DEFINE base == IF panel.attempt # f.attempt \/ f.kind = "reset"
                     THEN [NoStream EXCEPT !.attempt = f.attempt] ELSE panel
             next == [base EXCEPT !.text = @ \o f.text,
                                  !.done = @ \/ f.kind = "close",
                                  !.lastSeq = IF f.kind # "close" /\ f.seq > @ THEN f.seq ELSE @]
  <1>3. CASE ~(f.kind = "chunk" /\ panel.attempt = f.attempt /\ f.seq <= panel.lastSeq)
    <2>1. Applied(f) = next
      BY <1>3 DEF Applied
    <2>2. CASE panel.attempt # f.attempt \/ f.kind = "reset"
      <3>1. base = [attempt |-> f.attempt, lastSeq |-> 0, text |-> <<>>, done |-> FALSE]
        BY <2>2 DEF NoStream
      <3> HIDE DEF base
      <3>2. /\ base \in [attempt: 0..MaxAttempts, lastSeq: Nat, text: Seq(Deltas), done: BOOLEAN]
            /\ base.text = <<>>
        BY <1>1, <3>1
      <3>3. base.text \o f.text = f.text
        BY <1>1, <3>2
      <3>4. /\ next \in [attempt: 0..MaxAttempts, lastSeq: Nat, text: Seq(Deltas), done: BOOLEAN]
            /\ next.text = f.text
        BY <1>1, <3>2, <3>3
      <3> QED BY <2>1, <3>4
    <2>3. CASE ~(panel.attempt # f.attempt \/ f.kind = "reset")
      <3>1. base = panel
        BY <2>3
      <3> HIDE DEF base
      <3>2. panel.text \o f.text \in Seq(Deltas)
        BY <1>1
      <3>3. /\ next \in [attempt: 0..MaxAttempts, lastSeq: Nat, text: Seq(Deltas), done: BOOLEAN]
            /\ next.text = panel.text \o f.text
        BY <1>1, <3>1, <3>2
      <3> QED BY <2>1, <2>3, <3>3
    <2> QED BY <2>2, <2>3
  <1>4. f.kind = "reset" => ~(f.kind = "chunk")
    OBVIOUS
  <1> QED
    <2>1. CASE f.kind = "reset"
      <3>1. Applied(f) = next
        BY <2>1, <1>4 DEF Applied
      <3>2. base = [attempt |-> f.attempt, lastSeq |-> 0, text |-> <<>>, done |-> FALSE]
        BY <2>1 DEF NoStream
      <3> HIDE DEF base
      <3>3. /\ base \in [attempt: 0..MaxAttempts, lastSeq: Nat, text: Seq(Deltas), done: BOOLEAN]
            /\ base.text = <<>>
        BY <1>1, <3>2
      <3>4. base.text \o f.text = f.text
        BY <1>1, <3>3
      <3>5. next.text = f.text
        BY <1>1, <3>3, <3>4
      <3> QED BY <1>2, <1>3, <3>1, <3>5
    <2> QED BY <1>2, <1>3, <2>1

LEMMA StepTypes == TypeInv /\ [Next]_vars => TypeInv'
  <1> SUFFICES ASSUME TypeInv, [Next]_vars PROVE TypeInv'
    OBVIOUS
  <1>t. BusTypes /\ FeedTypes /\ PanelTypes
    BY DEF TypeInv
  <1>q. /\ ToSet(queue) \subseteq FeedEvents /\ ToSet(replay) \subseteq FeedEvents
        /\ ToSet(history) \subseteq FeedEvents
    BY <1>t, ToSetInside DEF BusTypes
  <1>w. OnTheWay \subseteq FeedEvents
    BY <1>t, <1>q DEF OnTheWay, BusTypes
  <1>1. ASSUME NEW r \in Runs, Run(r) PROVE TypeInv'
    <2>1. RunTypes(r)
      BY <1>1, PlainRun, StreamRun DEF Run, Runs
    <2>2. CASE UNCHANGED busVars
      <3>1. BusTypes'
        BY <1>t, <2>2 DEF BusTypes, busVars, publishing, connection
      <3> QED BY <2>1, <3>1 DEF RunTypes, TypeInv
    <2>3. CASE \E b \in FeedBodies : Emit(r, b) /\ Spoken(r, b)
      <3>1. BusTypes'
        BY <1>t, <1>1, <2>3, EmitBus DEF Runs
      <3> QED BY <2>1, <3>1 DEF RunTypes, TypeInv
    <2> QED BY <2>1, <2>2, <2>3 DEF RunTypes
  <1>2. ASSUME NEW r \in Publishers, RecordEvent(r) PROVE TypeInv'
    <2>1. BusTypes' /\ pub[r].event \in FeedEvents
      BY <1>t, <1>2, RecordBus DEF RecordEvent
    <2> DEFINE S == (ToSet(history) \cup {pub[r].event}) \
                      (ToSet(history') \cup got \cup OnTheWay \cup
                         (IF Subscribed THEN {pub[r].event} ELSE {}))
    <2>2. S \subseteq FeedEvents
      BY <1>q, <2>1
    <2>3. /\ missed' = missed \cup {e.by : e \in {x \in S : x.body.kind \in {"start", "done"}}}
          /\ resetLost' = resetLost \cup {e.id : e \in {x \in S : x.body.kind = "reset"}}
      BY <1>2 DEF RecordEvent, Forget
    <2>4. UNCHANGED <<session, phase, stages, emitter, board, previous, poll, panel>>
      BY <1>2 DEF RecordEvent, store
    <2> HIDE DEF S
    <2>5. PanelTypes'
      BY <1>t, <2>2, <2>3, <2>4, ForgetTyped
    <2>6. FeedTypes'
      BY <1>t, <2>4 DEF FeedTypes
    <2> QED BY <2>1, <2>5, <2>6 DEF TypeInv
  <1>3. ASSUME NEW r \in Publishers, EnqueueEvent(r) PROVE TypeInv'
    <2>1. BusTypes' /\ pub[r].event \in FeedEvents
      BY <1>t, <1>3, EnqueueBus DEF EnqueueEvent
    <2>2. UNCHANGED <<session, phase, stages, emitter, board, previous, poll, panel>>
      BY <1>3 DEF EnqueueEvent, store
    <2>3. PanelTypes'
      <3>1. CASE pub[r].to /\ Full
        <4>1. Forget({pub[r].event}) /\ {pub[r].event} \subseteq FeedEvents
          BY <1>3, <2>1, <3>1 DEF EnqueueEvent
        <4> QED BY <1>t, <2>2, <4>1, ForgetTyped DEF Forget
      <3>2. CASE ~(pub[r].to /\ Full)
        BY <1>t, <1>3, <2>2, <3>2 DEF EnqueueEvent, ghosts, PanelTypes
      <3> QED BY <3>1, <3>2
    <2>4. FeedTypes'
      BY <1>t, <2>2 DEF FeedTypes
    <2> QED BY <2>1, <2>3, <2>4 DEF TypeInv
  <1>4. CASE Connect
    <2>1. BusTypes'
      BY <1>t, <1>4, ServeBus DEF Connect
    <2>2. FeedTypes' /\ PanelTypes'
      BY <1>t, <1>4 DEF Connect, FeedTypes, PanelTypes, store, ghosts
    <2> QED BY <2>1, <2>2 DEF TypeInv
  <1>5. CASE ReplayEvents
    <2>1. BusTypes'
      BY <1>t, <1>5, ServeBus DEF ReplayEvents, Serve
    <2>2. UNCHANGED <<session, phase, stages, emitter, board, previous, poll, panel>>
      BY <1>5 DEF ReplayEvents, store
    <2>3. PanelTypes'
      <3>1. CASE Forget(Unasked)
        <4>1. Unasked \subseteq FeedEvents
          BY <1>q DEF Unasked
        <4> QED BY <1>t, <2>2, <3>1, <4>1, ForgetTyped DEF Forget
      <3>2. CASE Forget(IF Full THEN ToSet(replay) ELSE {})
        <4>1. (IF Full THEN ToSet(replay) ELSE {}) \subseteq FeedEvents
          BY <1>q
        <4> QED BY <1>t, <2>2, <3>2, <4>1, ForgetTyped DEF Forget
      <3>3. CASE UNCHANGED ghosts
        BY <1>t, <2>2, <3>3 DEF ghosts, PanelTypes
      <3> QED BY <1>5, <3>1, <3>2, <3>3 DEF ReplayEvents
    <2>4. FeedTypes'
      BY <1>t, <2>2 DEF FeedTypes
    <2> QED BY <2>1, <2>3, <2>4 DEF TypeInv
  <1>6. CASE LoseConnection
    <2>1. BusTypes'
      BY <1>t, <1>6, LostBus DEF LoseConnection
    <2>2. UNCHANGED <<session, phase, stages, emitter, board, previous, poll, panel>>
      BY <1>6 DEF LoseConnection, store
    <2>3. PanelTypes'
      <3>1. Forget(OnTheWay \ ToSet(history)) /\ OnTheWay \ ToSet(history) \subseteq FeedEvents
        BY <1>6, <1>w DEF LoseConnection
      <3> QED BY <1>t, <2>2, <3>1, ForgetTyped DEF Forget
    <2>4. FeedTypes'
      BY <1>t, <2>2 DEF FeedTypes
    <2> QED BY <2>1, <2>3, <2>4 DEF TypeInv
  <1>7. CASE HandleEvent
    <2>1. BusTypes' /\ Head(queue) \in FeedEvents
      BY <1>t, <1>7, DeliverBus DEF HandleEvent
    <2> DEFINE e == Head(queue)
    <2>2. e.by \in Publishers /\ e.body \in FeedBodies
      BY <2>1 DEF FeedEvents
    <2>3. /\ board' = Reduced(board, e)
          /\ panel' = (IF e.body.kind \in Frames THEN Applied(e.body) ELSE panel)
          /\ missed' = (IF e.body.kind = "start" /\ \E d \in got : d.by = e.by /\ d.body.kind = "done"
                        THEN missed \cup {e.by} ELSE missed)
          /\ resetLost' = (IF e.body.kind = "reset" THEN {n \in resetLost : n > e.id} ELSE resetLost)
          /\ UNCHANGED <<session, phase, stages, emitter, previous, poll>>
      BY <1>7 DEF HandleEvent
    <2> HIDE DEF e
    <2>4. FeedTypes'
      BY <1>t, <2>2, <2>3 DEF FeedTypes, Reduced, Runs
    <2>5. panel' \in [attempt: 0..MaxAttempts, lastSeq: Nat, text: Seq(Deltas), done: BOOLEAN]
      BY <1>t, <2>2, <2>3, AppliedIs DEF PanelTypes
    <2>6. PanelTypes'
      BY <1>t, <2>2, <2>3, <2>5 DEF PanelTypes, Runs
    <2> QED BY <2>1, <2>4, <2>6 DEF TypeInv
  <1>8. CASE PollReads \/ PollApplies
    <2>0. UNCHANGED busVars /\ UNCHANGED <<emitter, panel, missed, resetLost>>
      BY <1>8 DEF PollReads, PollApplies, ghosts
    <2>1. BusTypes' /\ PanelTypes'
      <3>1. BusTypes'
        BY <1>t, <2>0 DEF BusTypes, busVars, publishing, connection
      <3>2. PanelTypes'
        BY <1>t, <2>0 DEF PanelTypes
      <3> QED BY <3>1, <3>2
    <2>2. FeedTypes'
      <3>1. CASE PollReads
        BY <1>t, <3>1 DEF PollReads, FeedTypes, Unfinished
      <3>2. CASE PollApplies
        BY <1>t, <3>2 DEF PollApplies, FeedTypes, Done
      <3> QED BY <1>8, <3>1, <3>2
    <2> QED BY <2>1, <2>2 DEF TypeInv
  <1>9. CASE Restart
    <2>1. BusTypes'
      BY <1>t, <1>9, LostBus DEF Restart
    <2>2. FeedTypes'
      BY <1>t, <1>9 DEF Restart, FeedTypes, Runs
    <2>3. PanelTypes'
      <3>1. emitter' = [state |-> "none", call |-> emitter.call, attempt |-> 0, seq |-> 0,
                        n |-> 0, buf |-> <<>>]
        BY <1>9 DEF Restart, NoEmitter
      <3>2. 0 \in 0..MaxAttempts /\ 0 \in Nat /\ 0 \in 0..MaxDeltas /\ emitter.call \in 0..MaxCalls
            /\ <<>> \in Seq(Deltas)
        BY <1>t, Kinds DEF PanelTypes
      <3>3. emitter' \in [state: {"none", "open", "closing"}, call: 0..MaxCalls,
                          attempt: 0..MaxAttempts, seq: Nat, n: 0..MaxDeltas, buf: Seq(Deltas)]
        BY <3>1, <3>2, EmitterTyped
      <3>4. missed' \subseteq Runs /\ UNCHANGED <<panel, resetLost>>
        BY <1>t, <1>9 DEF Restart, PanelTypes
      <3> QED BY <1>t, <3>1, <3>3, <3>4 DEF PanelTypes
    <2> QED BY <2>1, <2>2, <2>3 DEF TypeInv
  <1>10. CASE UNCHANGED vars
    BY <1>t, <1>10 DEF vars, busVars, publishing, connection, store, ghosts, TypeInv, BusTypes,
                       FeedTypes, PanelTypes
  <1> QED BY <1>1, <1>2, <1>3, <1>4, <1>5, <1>6, <1>7, <1>8, <1>9, <1>10
          DEF Next, PublishEvent, Runs

LEMMA TypeInvariant == Spec => []TypeInv
  <1> QED BY InitTypes, StepTypes, PTL DEF Spec

(* Every variable of the feed has its type, whatever the bus may carry besides
   the feed's bodies: numbers of events, the queue and the history keep their
   bounds (realtime.py), the panel holds deltas of the model (llm-stream-bus.ts). *)
THEOREM TypeCorrect ==
  ASSUME FeedBodies \subseteq Bodies
  PROVE  Spec => []TypeOK
  <1>1. TypeInv => TypeOK
    <2> SUFFICES ASSUME TypeInv PROVE TypeOK
      OBVIOUS
    <2>1. BusTypes /\ FeedTypes /\ PanelTypes
      BY DEF TypeInv
    <2>2. FeedEvents \subseteq Events
      BY DEF FeedEvents, Events
    <2>3. \A s \in Seq(FeedEvents) : s \in Seq(Events)
      BY <2>2
    <2>4. BusTypeOK
      BY <2>1, <2>2, <2>3 DEF BusTypes, BusTypeOK
    <2> QED BY <2>1, <2>4 DEF TypeOK, FeedTypes, PanelTypes
  <1> QED BY <1>1, TypeInvariant, PTL

-----------------------------------------------------------------------------
(* Nothing falls into the gap *)

LEMMA InitGap == Init => GapInv
  <1> SUFFICES ASSUME Init PROVE GapInv
    OBVIOUS
  <1>1. history = <<>> /\ queue = <<>> /\ replay = <<>> /\ conn = "down"
        /\ got = {} /\ \A p \in Publishers : ~pub[p].to
    BY DEF Init, BusInit, Idle
  <1>2. ToSet(<<>>) = {}
    BY ToSetOfEmpty
  <1> QED BY <1>1, <1>2 DEF GapInv

LEMMA EmitGap ==
  ASSUME BusTypes, GapInv, NEW p \in Publishers, NEW b \in FeedBodies, Emit(p, b)
  PROVE  GapInv'
  <1>1. /\ pub' = [pub EXCEPT ![p] = pub'[p]] /\ ~pub'[p].to /\ ~pub[p].to
        /\ UNCHANGED <<history, conn, queue, replay, from, got, dropped>>
    BY DEF Emit, MakeEvent, connection, BusTypes
  <1>2. \A q \in Publishers : pub'[q].to <=> pub[q].to
    BY <1>1 DEF BusTypes
  <1>3. \A q \in Publishers : pub[q].to => pub'[q] = pub[q]
    BY <1>1 DEF BusTypes
  <1> QED BY <1>1, <1>2, <1>3 DEF GapInv, Persistent

LEMMA RecordGap ==
  ASSUME BusTypes, GapInv, NEW p \in Publishers, Record(p)
  PROVE  GapInv'
  <1> DEFINE e == pub[p].event
  <1>1. /\ pub[p].step = "made" /\ pub[p].to = FALSE /\ e \in FeedEvents
        /\ UNCHANGED <<conn, queue, replay, from, got, dropped>>
    BY DEF Record, BusTypes, connection
  <1>2. \A d \in ToSet(history') : d \in ToSet(history) \/ (d = e /\ Persistent(e))
    <2>1. CASE Persistent(e)
      <3>1. history \in Seq(FeedEvents) /\ history' = Latest(Append(history, e))
        BY <2>1 DEF Record, BusTypes
      <3> DEFINE s == Append(history, e)
      <3>2. s \in Seq(FeedEvents) /\ s # <<>> /\ ToSet(s) = ToSet(history) \cup {e}
        BY <1>1, <3>1, ToSetOfAppend
      <3> HIDE DEF s
      <3>3. ToSet(s) = {Head(s)} \cup ToSet(Tail(s))
        BY <3>2, ToSetOfTail
      <3>4. history' = s \/ history' = Tail(s)
        BY <3>1 DEF Latest, s
      <3>5. CASE history' = s
        BY <2>1, <3>2, <3>5
      <3>6. CASE history' = Tail(s)
        BY <2>1, <3>2, <3>3, <3>6
      <3> QED BY <3>4, <3>5, <3>6
    <2>2. CASE ~Persistent(e)
      BY <2>2 DEF Record
    <2> QED BY <2>1, <2>2
  <1>3. \A q \in Publishers \ {p} : pub'[q] = pub[q]
    BY DEF Record, BusTypes
  <1>4. Subscribed => pub'[p].to /\ pub'[p].event = e
    <2>1. Subscribed => pub'[p] = [pub[p] EXCEPT !.step = "listed", !.to = TRUE]
      BY DEF Record, BusTypes
    <2>2. pub[p] \in [step: {"idle", "made", "listed"}, event: FeedEvents \cup {None}, to: BOOLEAN]
      BY DEF BusTypes
    <2> QED BY <2>1, <2>2
  <1>5. ~Subscribed => ~pub'[p].to
    BY DEF Record, BusTypes, Idle
  <1> HIDE DEF e
  <1>6. \A d \in ToSet(history') : Persistent(d)
    BY <1>2 DEF GapInv
  <1>7. conn = "down" => \A q \in Publishers : ~pub'[q].to
    BY <1>3, <1>5 DEF GapInv, Subscribed
  <1>8. ASSUME conn \in {"replay", "open"}, NEW d \in ToSet(history'), d.id > from
        PROVE  \/ d \in got \/ d \in ToSet(queue) \/ d \in ToSet(replay) \/ d.id \in dropped
               \/ \E q \in Publishers : pub'[q].to /\ pub'[q].event = d
    <2>1. CASE d = e
      BY <1>4, <1>8, <2>1 DEF Subscribed
    <2>2. CASE d \in ToSet(history)
      <3>1. \/ d \in got \/ d \in ToSet(queue) \/ d \in ToSet(replay) \/ d.id \in dropped
            \/ \E q \in Publishers : pub[q].to /\ pub[q].event = d
        BY <1>8, <2>2 DEF GapInv
      <3>2. ASSUME NEW q \in Publishers, pub[q].to, pub[q].event = d
            PROVE  pub'[q].to /\ pub'[q].event = d
        BY <1>1, <1>3, <3>2
      <3> QED BY <3>1, <3>2
    <2> QED BY <1>2, <2>1, <2>2
  <1>9. \A d : Persistent(d) <=> d.body.kind \notin Ephemeral
    BY DEF Persistent
  <1> QED BY <1>1, <1>6, <1>7, <1>8, <1>9 DEF GapInv, Persistent

LEMMA EnqueueGap ==
  ASSUME BusTypes, GapInv, NEW p \in Publishers, Enqueue(p)
  PROVE  GapInv'
  <1> DEFINE e == pub[p].event
  <1>1. /\ e \in FeedEvents
        /\ UNCHANGED <<history, conn, replay, from, got>>
    BY DEF Enqueue, BusTypes
  <1>2. pub'[p].to = FALSE /\ \A q \in Publishers \ {p} : pub'[q] = pub[q]
    BY DEF Enqueue, BusTypes, Idle
  <1>3. /\ ToSet(queue) \subseteq ToSet(queue')
        /\ pub[p].to /\ ~Full => e \in ToSet(queue')
        /\ ~pub[p].to => queue' = queue
    <2>1. queue \in Seq(FeedEvents)
      BY DEF BusTypes
    <2>2. ToSet(Append(queue, e)) = ToSet(queue) \cup {e}
      BY <1>1, <2>1, ToSetOfAppend
    <2> QED BY <2>2 DEF Enqueue
  <1>4. /\ dropped \subseteq dropped'
        /\ pub[p].to /\ Full /\ Persistent(e) => e.id \in dropped'
    BY DEF Enqueue
  <1> HIDE DEF e
  <1>5. conn = "down" => queue' = <<>> /\ \A q \in Publishers : ~pub'[q].to
    BY <1>2, <1>3 DEF GapInv
  <1>6. ASSUME conn \in {"replay", "open"}, NEW d \in ToSet(history), d.id > from
        PROVE  \/ d \in got \/ d \in ToSet(queue') \/ d \in ToSet(replay) \/ d.id \in dropped'
               \/ \E q \in Publishers : pub'[q].to /\ pub'[q].event = d
    <2>1. \/ d \in got \/ d \in ToSet(queue) \/ d \in ToSet(replay) \/ d.id \in dropped
          \/ \E q \in Publishers : pub[q].to /\ pub[q].event = d
      BY <1>6 DEF GapInv
    <2>2. ASSUME NEW q \in Publishers, pub[q].to, pub[q].event = d, q # p
          PROVE  pub'[q].to /\ pub'[q].event = d
      BY <1>2, <2>2
    <2>3. pub[p].to /\ d = e => d \in ToSet(queue') \/ d.id \in dropped'
      BY <1>3, <1>4 DEF GapInv
    <2> QED BY <1>3, <1>4, <2>1, <2>2, <2>3 DEF e
  <1> QED BY <1>1, <1>5, <1>6 DEF GapInv, Persistent

LEMMA ServeGap ==
  ASSUME BusTypes, GapInv, Subscribe \/ Serve
  PROVE  GapInv'
  <1>0. UNCHANGED <<nextId, history, pub, since, losses, got>>
    BY DEF Subscribe, Serve, ReadHistory, Replay, Open, publishing
  <1>n. ToSet(<<>>) = {}
    BY ToSetOfEmpty
  <1>1. CASE Subscribe
    BY <1>0, <1>1, <1>n DEF Subscribe, GapInv, Persistent
  <1>2. CASE ReadHistory
    <2>1. history \in Seq(FeedEvents) /\ from \in Nat /\ ToSet(history) \subseteq FeedEvents
      BY Kinds, ToSetInside DEF BusTypes
    <2>2. /\ \A e \in ToSet(replay') : e \in ToSet(history)
          /\ \A e \in ToSet(history) : e.id > from => e \in ToSet(replay')
      <3>1. replay' \in Seq(FeedEvents)
        BY <1>2, <2>1, LaterIs DEF ReadHistory
      <3>2. ToSet(replay') \subseteq FeedEvents
        BY <3>1, ToSetInside
      <3> QED BY <1>2, <2>1, <3>2, LaterIs DEF ReadHistory
    <2>3. conn' = "replay" /\ UNCHANGED <<queue, from, dropped>>
      BY <1>2 DEF ReadHistory
    <2> QED BY <1>0, <2>2, <2>3 DEF GapInv, Persistent
  <1>3. CASE Replay
    <2>1. replay \in Seq(FeedEvents) /\ replay # <<>> /\ queue \in Seq(FeedEvents)
          /\ Head(replay) \in FeedEvents
      BY <1>3 DEF Replay, BusTypes
    <2>2. conn = "replay" /\ UNCHANGED <<conn, from>>
      BY <1>3 DEF Replay
    <2>3. ToSet(replay) = {Head(replay)} \cup ToSet(Tail(replay))
      BY <2>1, ToSetOfTail
    <2>4. ToSet(Append(queue, Head(replay))) = ToSet(queue) \cup {Head(replay)}
      BY <2>1, ToSetOfAppend
    <2>5. CASE Full
      <3>1. /\ replay' = <<>> /\ queue' = queue
            /\ dropped' = dropped \cup {e.id : e \in ToSet(replay)}
        BY <1>3, <2>5 DEF Replay
      <3> QED BY <1>0, <1>n, <2>2, <3>1 DEF GapInv, Persistent
    <2>6. CASE ~Full
      <3>1. /\ ToSet(queue') = ToSet(queue) \cup {Head(replay)}
            /\ ToSet(replay) = {Head(replay)} \cup ToSet(replay') /\ UNCHANGED dropped
        BY <1>3, <2>3, <2>4, <2>6 DEF Replay
      <3> QED BY <1>0, <2>2, <3>1 DEF GapInv, Persistent
    <2> QED BY <2>5, <2>6
  <1>4. CASE Open
    <2>1. conn = "replay" /\ conn' = "open" /\ replay = <<>>
          /\ UNCHANGED <<queue, replay, from, dropped>>
      BY <1>4 DEF Open
    <2> QED BY <1>0, <2>1 DEF GapInv, Persistent
  <1> QED BY <1>1, <1>2, <1>3, <1>4 DEF Serve

LEMMA DeliverGap ==
  ASSUME BusTypes, GapInv, Deliver
  PROVE  GapInv'
  <1>1. queue \in Seq(FeedEvents) /\ queue # <<>> /\ conn = "open"
        /\ UNCHANGED <<history, pub, conn, replay, from, dropped>>
    BY DEF Deliver, BusTypes, publishing
  <1>2. ToSet(queue) = {Head(queue)} \cup ToSet(queue')
    BY <1>1, ToSetOfTail DEF Deliver
  <1>3. got \subseteq got' /\ (Persistent(Head(queue)) => Head(queue) \in got')
    BY DEF Deliver
  <1>4. \A e \in got' : e \in got \/ Persistent(e)
    BY DEF Deliver
  <1> QED BY <1>1, <1>2, <1>3, <1>4 DEF GapInv, Persistent

LEMMA LostGap ==
  ASSUME BusTypes, GapInv, Disconnect \/ Reboot
  PROVE  GapInv'
  <1>n. ToSet(<<>>) = {}
    BY ToSetOfEmpty
  <1>1. /\ conn' = "down" /\ queue' = <<>> /\ replay' = <<>>
        /\ history' = history \/ history' = <<>>
        /\ got' = got \/ got' = {}
    BY DEF Disconnect, Reboot
  <1>2. \A p \in Publishers : ~pub'[p].to
    <2>1. CASE Disconnect
      <3> SUFFICES ASSUME NEW p \in Publishers PROVE pub'[p].to = FALSE
        OBVIOUS
      <3>1. pub[p] \in [step: {"idle", "made", "listed"}, event: FeedEvents \cup {None},
                        to: BOOLEAN]
        BY DEF BusTypes
      <3>2. pub'[p] = [pub[p] EXCEPT !.to = FALSE]
        BY <2>1 DEF Disconnect
      <3> QED BY <3>1, <3>2
    <2>2. CASE Reboot
      BY <2>2 DEF Reboot, Idle
    <2> QED BY <2>1, <2>2
  <1> QED BY <1>n, <1>1, <1>2 DEF GapInv, Persistent

LEMMA StepGap == TypeInv /\ GapInv /\ [Next]_vars => GapInv'
  <1> SUFFICES ASSUME TypeInv, GapInv, [Next]_vars PROVE GapInv'
    OBVIOUS
  <1>t. BusTypes
    BY DEF TypeInv
  <1>u. UNCHANGED busVars => GapInv'
    BY DEF busVars, publishing, connection, GapInv, Persistent
  <1>1. ASSUME NEW r \in Runs, Run(r) PROVE GapInv'
    <2>1. RunTypes(r)
      BY <1>1, PlainRun, StreamRun DEF Run, Runs
    <2> QED BY <1>t, <1>u, <1>1, <2>1, EmitGap DEF RunTypes, Runs
  <1>2. ASSUME NEW r \in Publishers, PublishEvent(r) PROVE GapInv'
    BY <1>t, <1>2, RecordGap, EnqueueGap DEF PublishEvent, RecordEvent, EnqueueEvent
  <1>3. CASE Connect \/ ReplayEvents
    BY <1>t, <1>3, ServeGap DEF Connect, ReplayEvents, Serve
  <1>4. CASE HandleEvent
    BY <1>t, <1>4, DeliverGap DEF HandleEvent
  <1>5. CASE LoseConnection \/ Restart
    BY <1>t, <1>5, LostGap DEF LoseConnection, Restart
  <1>6. CASE PollReads \/ PollApplies \/ UNCHANGED vars
    BY <1>u, <1>6 DEF PollReads, PollApplies, vars
  <1> QED BY <1>1, <1>2, <1>3, <1>4, <1>5, <1>6 DEF Next

LEMMA GapInvariant == Spec => []GapInv
  <1>1. Init => GapInv
    BY InitGap
  <1> QED BY <1>1, StepGap, TypeInvariant, PTL DEF Spec

(* Subscribing before the history is read, and listing the subscribers in the
   critical section in which the event joins the history, leave no gap between
   replay and live stream (events.py, realtime.py). *)
THEOREM NothingInTheGap == Spec => []NoGap
  <1>1. GapInv => NoGap
    <2> SUFFICES ASSUME GapInv, conn = "open", NEW e \in ToSet(history), e.id > from
                 PROVE  \/ e \in got \/ e \in ToSet(queue) \/ e.id \in dropped
                        \/ \E p \in Publishers : pub[p].to /\ pub[p].event = e
      BY DEF NoGap
    <2>1. replay = <<>> /\ ToSet(<<>>) = {}
      BY ToSetOfEmpty DEF GapInv
    <2> QED BY <2>1 DEF GapInv
  <1> QED BY <1>1, GapInvariant, PTL

-----------------------------------------------------------------------------
(* The frames and their order *)

LEMMA InOrderAppend ==
  ASSUME NEW s \in Seq(FeedEvents), NEW e \in FeedEvents, InOrder(s),
         e.body.kind \in Frames => Below(s, e.id)
  PROVE  InOrder(Append(s, e))
  <1> DEFINE t == Append(s, e)
  <1>1. /\ Len(s) \in Nat /\ DOMAIN s = 1..Len(s)
        /\ DOMAIN t = 1..(Len(s) + 1) /\ t[Len(s) + 1] = e
        /\ \A i \in 1..Len(s) : t[i] = s[i]
    OBVIOUS
  <1> HIDE DEF t
  <1>2. SUFFICES ASSUME NEW i \in DOMAIN t, NEW j \in DOMAIN t, i < j,
                        t[i].body.kind \in Frames, t[j].body.kind \in Frames
                 PROVE  t[i].id < t[j].id
    BY DEF InOrder, t
  <1>3. i \in 1..Len(s)
    BY <1>1, <1>2
  <1>4. CASE j \in 1..Len(s)
    BY <1>1, <1>2, <1>3, <1>4 DEF InOrder
  <1>5. CASE j = Len(s) + 1
    <2>1. s[i] \in ToSet(s)
      BY <1>1, <1>3 DEF ToSet
    <2> QED BY <1>1, <1>2, <1>3, <1>5, <2>1 DEF Below
  <1> QED BY <1>1, <1>4, <1>5

LEMMA InOrderTail ==
  ASSUME NEW s \in Seq(FeedEvents), s # <<>>, InOrder(s)
  PROVE  /\ InOrder(Tail(s))
         /\ Head(s).body.kind \in Frames =>
              \A e \in ToSet(Tail(s)) : e.body.kind \in Frames => Head(s).id < e.id
  <1> DEFINE t == Tail(s)
  <1>1. /\ Len(s) \in Nat \ {0} /\ DOMAIN s = 1..Len(s) /\ Head(s) = s[1]
        /\ DOMAIN t = 1..(Len(s) - 1)
        /\ \A i \in 1..(Len(s) - 1) : t[i] = s[i + 1]
    OBVIOUS
  <1> HIDE DEF t
  <1>2. InOrder(t)
    <2> SUFFICES ASSUME NEW i \in DOMAIN t, NEW j \in DOMAIN t, i < j,
                        t[i].body.kind \in Frames, t[j].body.kind \in Frames
                 PROVE  t[i].id < t[j].id
      BY DEF InOrder
    <2>1. i + 1 \in DOMAIN s /\ j + 1 \in DOMAIN s /\ i + 1 < j + 1
          /\ t[i] = s[i + 1] /\ t[j] = s[j + 1]
      BY <1>1
    <2> QED BY <2>1 DEF InOrder
  <1>3. ASSUME Head(s).body.kind \in Frames, NEW e \in ToSet(t), e.body.kind \in Frames
        PROVE  Head(s).id < e.id
    <2>1. PICK i \in DOMAIN t : t[i] = e
      BY DEF ToSet
    <2>2. 1 \in DOMAIN s /\ i + 1 \in DOMAIN s /\ 1 < i + 1 /\ e = s[i + 1]
      BY <1>1, <2>1
    <2> QED BY <1>1, <1>3, <2>2 DEF InOrder
  <1> QED BY <1>2, <1>3 DEF t

LEMMA FrameNotPersistent ==
  ASSUME NEW e, e.body.kind \in Frames
  PROVE  ~Persistent(e)
  BY FramesAssumption DEF FramesAssumption, Persistent

LEMMA InitOrder == Init => OrderInv
  <1> SUFFICES ASSUME Init PROVE OrderInv
    OBVIOUS
  <1>1. queue = <<>> /\ \A p \in Publishers : ~Pending(p)
    BY DEF Init, BusInit, Idle, Pending
  <1>2. ToSet(<<>>) = {} /\ DOMAIN <<>> = {}
    BY ToSetOfEmpty
  <1> QED BY <1>1, <1>2 DEF OrderInv, InOrder, Flying

(* A new event is the last of those flying. *)
NewEvent(p, b) == [id |-> nextId + 1, by |-> p, body |-> b]

LEMMA EmitFlies ==
  ASSUME BusTypes, NEW p \in Publishers, NEW b \in FeedBodies, Emit(p, b)
  PROVE  /\ \A e : Flying(e)' <=> (Flying(e) \/ (e = NewEvent(p, b) /\ b.kind \in Frames))
         /\ NewEvent(p, b) \in FeedEvents
         /\ nextId' = nextId + 1 /\ queue' = queue
         /\ ~Pending(p) /\ pub'[p].event = NewEvent(p, b)
         /\ \A q \in Publishers \ {p} : pub'[q] = pub[q]
  <1> DEFINE d == NewEvent(p, b)
  <1>1. /\ pub[p].step = "idle" /\ ~pub[p].to /\ nextId + 1 \in 1..MaxIds
        /\ nextId' = nextId + 1 /\ queue' = queue
        /\ pub'[p].step = "made" /\ pub'[p].event = d
        /\ \A q \in Publishers \ {p} : pub'[q] = pub[q]
    BY Kinds DEF Emit, MakeEvent, connection, BusTypes, NewEvent
  <1>2. d.body = b
    BY DEF NewEvent
  <1>3. NewEvent(p, b) \in FeedEvents
    BY <1>1 DEF NewEvent, FeedEvents
  <1>4. ~Pending(p)
    BY <1>1 DEF Pending
  <1> HIDE DEF d
  <1>5. ASSUME NEW e PROVE Flying(e)' <=> (Flying(e) \/ (e = d /\ b.kind \in Frames))
    BY <1>1, <1>2, <1>4 DEF Flying, Pending
  <1> QED BY <1>1, <1>3, <1>4, <1>5 DEF d

LEMMA EmitOrder ==
  ASSUME TypeInv, OrderInv, NEW p \in Publishers, NEW b \in FeedBodies, Emit(p, b), Spoken(p, b)
  PROVE  OrderInv'
  <1>t. BusTypes
    BY DEF TypeInv
  <1> DEFINE d == NewEvent(p, b)
  <1>1. /\ \A e : Flying(e)' <=> (Flying(e) \/ (e = d /\ b.kind \in Frames))
        /\ d \in FeedEvents /\ nextId' = nextId + 1 /\ queue' = queue
        /\ ~Pending(p) /\ pub'[p].event = d
        /\ \A q \in Publishers \ {p} : pub'[q] = pub[q]
    BY <1>t, EmitFlies
  <1>2. d.id = nextId + 1 /\ d.by = p /\ d.body = b /\ nextId \in Nat
    BY <1>t, Kinds DEF NewEvent, BusTypes
  <1>3. b.kind \in Frames => p = Streaming /\ (b.kind # "chunk" => b.text = <<>>)
    BY Kinds DEF Spoken
  <1> HIDE DEF d
  <1>4. InOrder(queue')
    BY <1>1 DEF OrderInv, InOrder
  <1>5. ASSUME NEW e \in FeedEvents, Flying(e)'
        PROVE  /\ e.id <= nextId' /\ e.by = Streaming
               /\ e.body.kind # "chunk" => e.body.text = <<>>
    <2>1. e.id \in Nat
      BY DEF FeedEvents
    <2> QED BY <1>1, <1>2, <1>3, <1>5, <2>1 DEF OrderInv
  <1>6. ASSUME NEW q \in Publishers, Pending(q)', pub'[q].event.body.kind \in Frames,
               NEW e \in ToSet(queue), e.body.kind \in Frames
        PROVE  e.id < pub'[q].event.id
    <2>1. CASE q = p
      <3>1. Flying(e) /\ e \in FeedEvents
        BY <1>t, <1>6, ToSetInside DEF Flying, BusTypes
      <3>2. e.id <= nextId /\ e.id \in Nat
        BY <3>1 DEF OrderInv, FeedEvents
      <3> QED BY <1>1, <1>2, <2>1, <3>2
    <2>2. CASE q # p
      <3>1. pub'[q] = pub[q]
        BY <1>1, <2>2
      <3> QED BY <1>6, <3>1 DEF Pending, OrderInv, Below
    <2> QED BY <2>1, <2>2
  <1>7. ToSet(queue)' = ToSet(queue)
    BY <1>1
  <1> QED BY <1>1, <1>4, <1>5, <1>6, <1>7 DEF OrderInv, InOrder, Below

(* The queue gets no frame: what was pending may no longer be. *)
LEMMA OrderKept ==
  ASSUME TypeInv, OrderInv, nextId' = nextId,
         InOrder(queue)', \A e \in ToSet(queue)' : e.body.kind \in Frames => e \in ToSet(queue),
         \A p \in Publishers : Pending(p)' => Pending(p) /\ pub'[p].event = pub[p].event
  PROVE  OrderInv' /\ \A e : Flying(e)' => Flying(e)
  <1>1. ASSUME NEW e, Flying(e)' PROVE Flying(e)
    BY <1>1 DEF Flying
  <1>2. ASSUME NEW p \in Publishers, Pending(p)', pub'[p].event.body.kind \in Frames,
               NEW e \in ToSet(queue)', e.body.kind \in Frames
        PROVE  e.id < pub'[p].event.id
    BY <1>2 DEF OrderInv, Below
  <1> QED BY <1>1, <1>2 DEF OrderInv, Below

(* No event that is pending is a frame if another run's is. *)
LEMMA OneSender ==
  ASSUME TypeInv, OrderInv, NEW p \in Publishers, NEW q \in Publishers, Pending(p), Pending(q),
         pub[p].event.body.kind \in Frames, pub[q].event.body.kind \in Frames
  PROVE  p = q
  <1>1. ASSUME NEW x \in Publishers, Pending(x), pub[x].event.body.kind \in Frames
        PROVE  x = Streaming
    <2>1. pub[x].event \in FeedEvents /\ pub[x].event.by = x
      BY <1>1 DEF TypeInv, BusTypes, Pending
    <2>2. Flying(pub[x].event)
      BY <1>1 DEF Flying
    <2> QED BY <2>1, <2>2 DEF OrderInv
  <1> QED BY <1>1

LEMMA RecordOrder ==
  ASSUME TypeInv, OrderInv, NEW p \in Publishers, Record(p)
  PROVE  /\ OrderInv' /\ \A e : Flying(e)' => Flying(e)
         /\ \A e : Flying(e) /\ ~Flying(e)' => e = pub[p].event /\ ~Subscribed
  <1>1. pub[p].step = "made" /\ nextId' = nextId /\ queue' = queue
    BY DEF Record, connection
  <1>2. \A q \in Publishers \ {p} : pub'[q] = pub[q]
    BY DEF Record, TypeInv, BusTypes
  <1>3. Subscribed => pub'[p].to /\ pub'[p].event = pub[p].event
    <2>1. Subscribed => pub'[p] = [pub[p] EXCEPT !.step = "listed", !.to = TRUE]
      BY DEF Record, TypeInv, BusTypes
    <2>2. pub[p] \in [step: {"idle", "made", "listed"}, event: FeedEvents \cup {None}, to: BOOLEAN]
      BY DEF TypeInv, BusTypes
    <2> QED BY <2>1, <2>2
  <1>4. ~Subscribed => pub'[p].step = "idle" /\ ~pub'[p].to
    BY DEF Record, TypeInv, BusTypes, Idle
  <1>5. \A q \in Publishers : Pending(q)' => Pending(q) /\ pub'[q].event = pub[q].event
    BY <1>1, <1>2, <1>3, <1>4 DEF Pending
  <1>6. InOrder(queue)' /\ ToSet(queue)' = ToSet(queue)
    BY <1>1 DEF OrderInv, InOrder
  <1>7. OrderInv' /\ \A e : Flying(e)' => Flying(e)
    BY <1>1, <1>5, <1>6, OrderKept
  <1>8. ASSUME NEW e, Flying(e), ~Flying(e)' PROVE e = pub[p].event /\ ~Subscribed
    <2>1. e \notin ToSet(queue)
      BY <1>6, <1>8 DEF Flying
    <2>2. PICK q \in Publishers : Pending(q) /\ e = pub[q].event
      BY <1>8, <2>1 DEF Flying
    <2>3. q = p
      BY <1>2, <1>8, <2>2 DEF Flying, Pending
    <2> QED BY <1>3, <1>8, <2>2, <2>3 DEF Flying, Pending
  <1> QED BY <1>7, <1>8

LEMMA EnqueueOrder ==
  ASSUME TypeInv, OrderInv, NEW p \in Publishers, Enqueue(p)
  PROVE  /\ OrderInv' /\ \A e : Flying(e)' => Flying(e)
         /\ \A e : Flying(e) /\ ~Flying(e)' => e = pub[p].event /\ pub[p].to /\ Full
  <1> DEFINE d == pub[p].event
  <1>1. /\ pub[p].step = "listed" /\ d \in FeedEvents /\ queue \in Seq(FeedEvents)
        /\ nextId' = nextId
    BY DEF Enqueue, TypeInv, BusTypes
  <1>2. \A q \in Publishers \ {p} : pub'[q] = pub[q]
    BY DEF Enqueue, TypeInv, BusTypes
  <1>3. ~Pending(p)'
    BY DEF Enqueue, TypeInv, BusTypes, Idle, Pending
  <1>4. queue' = IF pub[p].to /\ ~Full THEN Append(queue, d) ELSE queue
    BY DEF Enqueue
  <1> HIDE DEF d
  <1>5. CASE pub[p].to /\ ~Full
    <2>1. queue' = Append(queue, d) /\ ToSet(Append(queue, d)) = ToSet(queue) \cup {d} /\ Pending(p)
      BY <1>1, <1>4, <1>5, ToSetOfAppend DEF Pending
    <2>2. d.body.kind \in Frames => Flying(d) /\ Below(queue, d.id)
      BY <2>1 DEF Flying, OrderInv, d
    <2>3. InOrder(Append(queue, d))
      BY <1>1, <2>2, InOrderAppend DEF OrderInv
    <2>4. \A e : Flying(e)' <=> Flying(e)
      <3> SUFFICES ASSUME NEW e PROVE Flying(e)' <=> Flying(e)
        OBVIOUS
      <3>1. e \in ToSet(queue') <=> (e \in ToSet(queue) \/ e = d)
        BY <2>1
      <3>2. \A q \in Publishers : q # p => (Pending(q)' <=> Pending(q))
        BY <1>2 DEF Pending
      <3> QED BY <1>2, <1>3, <2>1, <2>2, <3>1, <3>2 DEF Flying, d
    <2>5. ASSUME NEW q \in Publishers, Pending(q)', pub'[q].event.body.kind \in Frames,
                 NEW e \in ToSet(queue'), e.body.kind \in Frames
          PROVE  e.id < pub'[q].event.id
      <3>1. q # p /\ pub'[q] = pub[q] /\ Pending(q)
        BY <1>2, <1>3, <2>5 DEF Pending
      <3>2. d.body.kind \notin Frames
        BY <2>1, <2>5, <3>1, OneSender DEF d
      <3>3. e \in ToSet(queue)
        BY <2>1, <2>5, <3>2
      <3> QED BY <2>5, <3>1, <3>3 DEF OrderInv, Below
    <2>6. InOrder(queue)'
      BY <2>1, <2>3 DEF InOrder
    <2> QED BY <1>1, <2>4, <2>5, <2>6 DEF OrderInv, Below
  <1>6. CASE ~(pub[p].to /\ ~Full)
    <2>1. queue' = queue
      BY <1>4, <1>6
    <2>2. \A q \in Publishers : Pending(q)' => Pending(q) /\ pub'[q].event = pub[q].event
      BY <1>2, <1>3 DEF Pending
    <2>3. InOrder(queue)' /\ ToSet(queue)' = ToSet(queue)
      BY <2>1 DEF OrderInv, InOrder
    <2>4. OrderInv' /\ \A e : Flying(e)' => Flying(e)
      BY <1>1, <2>2, <2>3, OrderKept
    <2>5. ASSUME NEW e, Flying(e), ~Flying(e)' PROVE e = d /\ pub[p].to /\ Full
      <3>1. e \notin ToSet(queue)
        BY <2>3, <2>5 DEF Flying
      <3>2. PICK q \in Publishers : Pending(q) /\ e = pub[q].event
        BY <2>5, <3>1 DEF Flying
      <3>3. q = p
        BY <1>2, <2>5, <3>2 DEF Flying, Pending
      <3> QED BY <1>1, <1>6, <3>2, <3>3 DEF Pending, d
    <2> QED BY <2>4, <2>5 DEF d
  <1> QED BY <1>5, <1>6

LEMMA ServeOrder ==
  ASSUME TypeInv, GapInv, OrderInv, Subscribe \/ Serve
  PROVE  OrderInv' /\ \A e : Flying(e)' <=> Flying(e)
  <1>0. UNCHANGED <<nextId, pub>>
    BY DEF Subscribe, Serve, ReadHistory, Replay, Open, publishing
  <1>p. \A q \in Publishers : Pending(q)' <=> Pending(q)
    BY <1>0 DEF Pending
  <1>1. CASE queue' = queue
    <2>1. InOrder(queue)' /\ ToSet(queue)' = ToSet(queue)
      BY <1>1 DEF OrderInv, InOrder
    <2>2. OrderInv'
      BY <1>0, <1>p, <2>1, OrderKept
    <2> QED BY <1>0, <1>p, <2>1, <2>2 DEF Flying
  <1>2. CASE queue' # queue
    <2>1. Replay \/ Subscribe
      BY <1>2 DEF Serve, ReadHistory, Open
    <2>2. Replay
      BY <1>2, <2>1 DEF Subscribe, GapInv
    <2> DEFINE d == Head(replay)
    <2>3. queue' = Append(queue, d) /\ replay # <<>> /\ replay \in Seq(FeedEvents)
          /\ queue \in Seq(FeedEvents) /\ d \in FeedEvents
      BY <1>2, <2>2 DEF Replay, TypeInv, BusTypes
    <2>4. d.body.kind \notin Frames
      <3>1. d \in ToSet(replay)
        BY <2>3, ToSetOfTail
      <3> QED BY <3>1, FrameNotPersistent DEF GapInv
    <2> HIDE DEF d
    <2>5. ToSet(Append(queue, d)) = ToSet(queue) \cup {d} /\ InOrder(Append(queue, d))
      BY <2>3, <2>4, ToSetOfAppend, InOrderAppend DEF OrderInv
    <2>6. InOrder(queue)' /\ ToSet(queue)' = ToSet(queue) \cup {d}
      BY <2>3, <2>5 DEF InOrder
    <2>7. OrderInv'
      BY <1>0, <1>p, <2>4, <2>6, OrderKept
    <2> QED BY <1>0, <1>p, <2>4, <2>6, <2>7 DEF Flying
  <1> QED BY <1>1, <1>2

LEMMA DeliverOrder ==
  ASSUME TypeInv, OrderInv, Deliver
  PROVE  /\ OrderInv' /\ \A e : Flying(e)' => Flying(e)
         /\ \A e : Flying(e) /\ e # Head(queue) => Flying(e)'
         /\ Head(queue) \in FeedEvents
         /\ Head(queue).body.kind \in Frames =>
              Flying(Head(queue)) /\ \A e : Flying(e)' => Head(queue).id < e.id
  <1> DEFINE d == Head(queue)
  <1>1. /\ queue \in Seq(FeedEvents) /\ queue # <<>> /\ d \in FeedEvents
        /\ UNCHANGED <<nextId, pub>> /\ queue' = Tail(queue)
    BY DEF Deliver, TypeInv, BusTypes, publishing
  <1>2. ToSet(queue) = {d} \cup ToSet(queue')
    BY <1>1, ToSetOfTail
  <1>3. /\ InOrder(Tail(queue))
        /\ d.body.kind \in Frames =>
             \A e \in ToSet(Tail(queue)) : e.body.kind \in Frames => d.id < e.id
    BY <1>1, InOrderTail DEF OrderInv
  <1> HIDE DEF d
  <1>4. InOrder(queue)' /\ \A e \in ToSet(queue)' : e \in ToSet(queue)
    BY <1>1, <1>2, <1>3 DEF InOrder
  <1>5. \A q \in Publishers : Pending(q)' <=> Pending(q)
    BY <1>1 DEF Pending
  <1>6. OrderInv' /\ \A e : Flying(e)' => Flying(e)
    BY <1>1, <1>4, <1>5, OrderKept
  <1>7. ASSUME NEW e, Flying(e), e # d PROVE Flying(e)'
    BY <1>1, <1>2, <1>5, <1>7 DEF Flying
  <1>8. ASSUME d.body.kind \in Frames
        PROVE  Flying(d) /\ \A e : Flying(e)' => d.id < e.id
    <2>1. Flying(d)
      BY <1>2, <1>8 DEF Flying
    <2>2. ASSUME NEW e, Flying(e)' PROVE d.id < e.id
      <3>1. CASE e \in ToSet(queue')
        BY <1>1, <1>3, <1>8, <2>2, <3>1 DEF Flying
      <3>2. CASE e \notin ToSet(queue')
        <4>1. PICK q \in Publishers : Pending(q)' /\ e = pub'[q].event
          BY <2>2, <3>2 DEF Flying
        <4>2. Pending(q) /\ e = pub[q].event /\ e.body.kind \in Frames
          BY <1>1, <1>5, <2>2, <4>1 DEF Flying
        <4> QED BY <1>2, <1>8, <4>2 DEF OrderInv, Below
      <3> QED BY <3>1, <3>2
    <2> QED BY <2>1, <2>2
  <1> QED BY <1>1, <1>6, <1>7, <1>8 DEF d

LEMMA LostOrder ==
  ASSUME TypeInv, OrderInv, Disconnect \/ Reboot
  PROVE  /\ OrderInv' /\ \A e : Flying(e)' => Flying(e)
         /\ Disconnect => \A e : Flying(e) /\ ~Flying(e)' => e \in OnTheWay
         /\ Reboot => \A e : ~Flying(e)'
  <1>n. ToSet(<<>>) = {} /\ DOMAIN <<>> = {}
    BY ToSetOfEmpty
  <1>1. queue' = <<>>
    BY DEF Disconnect, Reboot
  <1>2. InOrder(queue)' /\ ToSet(queue)' = {}
    BY <1>n, <1>1 DEF InOrder
  <1>3. CASE Disconnect
    <2>1. \A p \in Publishers : /\ pub'[p].step = pub[p].step /\ pub'[p].event = pub[p].event
                                /\ ~pub'[p].to
      <3> SUFFICES ASSUME NEW p \in Publishers
                   PROVE  /\ pub'[p].step = pub[p].step /\ pub'[p].event = pub[p].event
                          /\ pub'[p].to = FALSE
        OBVIOUS
      <3>1. pub[p] \in [step: {"idle", "made", "listed"}, event: FeedEvents \cup {None},
                        to: BOOLEAN]
        BY DEF TypeInv, BusTypes
      <3>2. pub'[p] = [pub[p] EXCEPT !.to = FALSE]
        BY <1>3 DEF Disconnect
      <3> QED BY <3>1, <3>2
    <2>2. nextId' = nextId /\ \A p \in Publishers : Pending(p)' => Pending(p)
      BY <1>3, <2>1 DEF Disconnect, Pending
    <2>3. OrderInv' /\ \A e : Flying(e)' => Flying(e)
      BY <1>2, <2>1, <2>2, OrderKept
    <2>4. ASSUME NEW e, Flying(e), ~Flying(e)' PROVE e \in OnTheWay
      <3>1. CASE e \in ToSet(queue)
        BY <3>1 DEF OnTheWay
      <3>2. CASE e \notin ToSet(queue)
        <4>1. PICK p \in Publishers : Pending(p) /\ e = pub[p].event
          BY <2>4, <3>2 DEF Flying
        <4>2. ~Pending(p)'
          BY <2>1, <2>4, <4>1 DEF Flying
        <4>3. pub[p].to
          BY <2>1, <4>1, <4>2 DEF Pending
        <4> QED BY <4>1, <4>3 DEF OnTheWay
      <3> QED BY <3>1, <3>2
    <2>5. Reboot => \A e : ~Flying(e)'
      <3> SUFFICES ASSUME Reboot PROVE \A p \in Publishers : ~Pending(p)'
        BY <1>2 DEF Flying
      <3> QED BY DEF Reboot, Idle, Pending
    <2> QED BY <2>3, <2>4, <2>5
  <1>4. CASE Reboot /\ ~Disconnect
    <2>1. \A p \in Publishers : ~Pending(p)'
      BY <1>4 DEF Reboot, Idle, Pending
    <2>2. \A e : ~Flying(e)'
      BY <1>2, <2>1 DEF Flying
    <2> QED BY <1>2, <1>4, <2>1, <2>2 DEF OrderInv
  <1> QED BY <1>3, <1>4

LEMMA StepOrder == TypeInv /\ GapInv /\ OrderInv /\ [Next]_vars => OrderInv'
  <1> SUFFICES ASSUME TypeInv, GapInv, OrderInv, [Next]_vars PROVE OrderInv'
    OBVIOUS
  <1>u. UNCHANGED busVars => OrderInv'
    BY DEF busVars, publishing, connection, OrderInv, InOrder, Below, Flying, Pending
  <1>1. ASSUME NEW r \in Runs, Run(r) PROVE OrderInv'
    <2>1. RunTypes(r)
      BY <1>1, PlainRun, StreamRun DEF Run, Runs
    <2> QED BY <1>u, <1>1, <2>1, EmitOrder DEF RunTypes, Runs
  <1>2. ASSUME NEW r \in Publishers, PublishEvent(r) PROVE OrderInv'
    BY <1>2, RecordOrder, EnqueueOrder DEF PublishEvent, RecordEvent, EnqueueEvent
  <1>3. CASE Connect \/ ReplayEvents
    BY <1>3, ServeOrder DEF Connect, ReplayEvents, Serve
  <1>4. CASE HandleEvent
    BY <1>4, DeliverOrder DEF HandleEvent
  <1>5. CASE LoseConnection \/ Restart
    BY <1>5, LostOrder DEF LoseConnection, Restart
  <1>6. CASE PollReads \/ PollApplies \/ UNCHANGED vars
    BY <1>u, <1>6 DEF PollReads, PollApplies, vars
  <1> QED BY <1>1, <1>2, <1>3, <1>4, <1>5, <1>6 DEF Next

LEMMA OrderInvariant == Spec => []OrderInv
  <1>1. Init => OrderInv
    BY InitOrder
  <1> QED BY <1>1, StepOrder, GapInvariant, TypeInvariant, PTL DEF Spec

-----------------------------------------------------------------------------
(* The texts *)

LEMMA Joined ==
  ASSUME NEW s \in Seq(Deltas), NEW t \in Seq(Deltas)
  PROVE  /\ s \o t \in Seq(Deltas)
         /\ OneAnswer(s) /\ OneAnswer(t) /\ Continues(s, t) => OneAnswer(s \o t)
         /\ \A u : Continues(s, u) /\ Continues(t, u) => Continues(s \o t, u)
         /\ Present(s) /\ Present(t) => Present(s \o t)
  <1> DEFINE v == s \o t
  <1>1. /\ Len(s) \in Nat /\ Len(t) \in Nat /\ v \in Seq(Deltas)
        /\ DOMAIN s = 1..Len(s) /\ DOMAIN t = 1..Len(t) /\ DOMAIN v = 1..(Len(s) + Len(t))
        /\ \A i \in 1..(Len(s) + Len(t)) : v[i] = IF i <= Len(s) THEN s[i] ELSE t[i - Len(s)]
    OBVIOUS
  <1> HIDE DEF v
  <1>2. \A i \in DOMAIN v : \/ i \in DOMAIN s /\ v[i] = s[i]
                            \/ i > Len(s) /\ i - Len(s) \in DOMAIN t /\ v[i] = t[i - Len(s)]
    BY <1>1
  <1>3. ASSUME OneAnswer(s), OneAnswer(t), Continues(s, t) PROVE OneAnswer(v)
    <2> SUFFICES ASSUME NEW i \in DOMAIN v, NEW j \in DOMAIN v, i < j
                 PROVE  v[i].call = v[j].call /\ v[i].attempt = v[j].attempt /\ v[i].n < v[j].n
      BY DEF OneAnswer
    <2>1. CASE i \in DOMAIN s /\ v[i] = s[i] /\ j \in DOMAIN s /\ v[j] = s[j]
      BY <1>3, <2>1 DEF OneAnswer
    <2>2. CASE /\ i \in DOMAIN s /\ v[i] = s[i]
               /\ j > Len(s) /\ j - Len(s) \in DOMAIN t /\ v[j] = t[j - Len(s)]
      BY <1>3, <2>2 DEF Continues
    <2>3. CASE /\ i > Len(s) /\ i - Len(s) \in DOMAIN t /\ v[i] = t[i - Len(s)]
               /\ j > Len(s) /\ j - Len(s) \in DOMAIN t /\ v[j] = t[j - Len(s)]
      <3>1. i - Len(s) < j - Len(s)
        BY <1>1
      <3> QED BY <1>3, <2>3, <3>1 DEF OneAnswer
    <2>4. ~(i > Len(s) /\ j \in DOMAIN s)
      BY <1>1
    <2> QED BY <1>2, <2>1, <2>2, <2>3, <2>4
  <1>4. ASSUME NEW u, Continues(s, u), Continues(t, u) PROVE Continues(v, u)
    BY <1>2, <1>4 DEF Continues
  <1>5. ASSUME Present(s), Present(t) PROVE Present(v)
    BY <1>2, <1>5 DEF Present
  <1> QED BY <1>1, <1>3, <1>4, <1>5 DEF v

LEMMA EmptyText ==
  /\ OneAnswer(<<>>) /\ Present(<<>>)
  /\ \A s : Continues(<<>>, s) /\ Continues(s, <<>>)
  <1>1. DOMAIN <<>> = {}
    OBVIOUS
  <1> QED BY <1>1 DEF OneAnswer, Present, Continues

LEMMA DeltaNumber ==
  ASSUME NEW s \in Seq(Deltas), NEW i \in DOMAIN s
  PROVE  s[i] \in Deltas /\ s[i].n \in Nat
  <1>1. s[i] \in Deltas
    OBVIOUS
  <1>2. s[i].n \in 1..MaxDeltas
    BY <1>1 DEF Deltas
  <1> QED BY <1>1, <1>2, Kinds

(* The buffer with one more delta. *)
LEMMA BufferGrows ==
  ASSUME PanelTypes, emitter.state = "open", emitter.n < MaxDeltas,
         OneAnswer(emitter.buf), Present(emitter.buf)
  PROVE  /\ OneAnswer(Append(emitter.buf, Delta))
         /\ \A i \in DOMAIN Append(emitter.buf, Delta) :
              LET d == Append(emitter.buf, Delta)[i] IN
                d.call = emitter.call /\ d.attempt = emitter.attempt /\ d.n <= emitter.n + 1
         /\ \A s \in Seq(Deltas) : Continues(s, emitter.buf) /\ Present(s) =>
              Continues(s, Append(emitter.buf, Delta))
  <1> DEFINE b == emitter.buf
             t == Append(b, Delta)
  <1>1. b \in Seq(Deltas) /\ emitter.n \in Nat /\ Delta \in Deltas
        /\ Delta.call = emitter.call /\ Delta.attempt = emitter.attempt
        /\ Delta.n = emitter.n + 1
    BY DeltaTyped, Kinds DEF PanelTypes
  <1>2. /\ Len(b) \in Nat /\ DOMAIN b = 1..Len(b) /\ DOMAIN t = 1..(Len(b) + 1)
        /\ t[Len(b) + 1] = Delta /\ \A i \in 1..Len(b) : t[i] = b[i]
    BY <1>1
  <1>3. \A i \in DOMAIN b : b[i] \in Deltas /\ b[i].n \in Nat
    BY <1>1, DeltaNumber
  <1> HIDE DEF b, t
  <1>4. \A i \in DOMAIN t : (i \in DOMAIN b /\ t[i] = b[i]) \/ (i = Len(b) + 1 /\ t[i] = Delta)
    BY <1>2
  <1>5. \A i \in DOMAIN b :
          b[i].call = emitter.call /\ b[i].attempt = emitter.attempt /\ b[i].n <= emitter.n
    BY DEF Present, b
  <1>6. OneAnswer(t)
    <2> SUFFICES ASSUME NEW i \in DOMAIN t, NEW j \in DOMAIN t, i < j
                 PROVE  t[i].call = t[j].call /\ t[i].attempt = t[j].attempt /\ t[i].n < t[j].n
      BY DEF OneAnswer
    <2>1. i \in DOMAIN b /\ t[i] = b[i]
      BY <1>2
    <2>2. CASE j \in DOMAIN b /\ t[j] = b[j]
      BY <2>1, <2>2 DEF OneAnswer, b
    <2>3. CASE j = Len(b) + 1 /\ t[j] = Delta
      BY <1>1, <1>3, <1>5, <2>1, <2>3
    <2> QED BY <1>4, <2>2, <2>3
  <1>7. ASSUME NEW i \in DOMAIN t
        PROVE  t[i].call = emitter.call /\ t[i].attempt = emitter.attempt /\ t[i].n <= emitter.n + 1
    BY <1>1, <1>3, <1>4, <1>5
  <1>8. ASSUME NEW s \in Seq(Deltas), Continues(s, b), Present(s) PROVE Continues(s, t)
    <2> SUFFICES ASSUME NEW i \in DOMAIN s, NEW j \in DOMAIN t
                 PROVE  s[i].call = t[j].call /\ s[i].attempt = t[j].attempt /\ s[i].n < t[j].n
      BY DEF Continues
    <2>1. s[i].n \in Nat
      BY DeltaNumber
    <2>2. CASE j \in DOMAIN b /\ t[j] = b[j]
      BY <1>8, <2>2 DEF Continues
    <2>3. CASE j = Len(b) + 1 /\ t[j] = Delta
      BY <1>1, <1>8, <2>1, <2>3 DEF Present
    <2> QED BY <1>4, <2>2, <2>3
  <1> QED BY <1>6, <1>7, <1>8 DEF b, t

LEMMA InitAnswer == Init => AnswerInv
  <1> SUFFICES ASSUME Init PROVE AnswerInv
    OBVIOUS
  <1>1. /\ panel.text = <<>> /\ emitter.state = "none"
        /\ queue = <<>> /\ \A p \in Publishers : ~Pending(p)
    BY DEF Init, BusInit, NoStream, NoEmitter, Idle, Pending
  <1>2. \A e : ~Flying(e)
    BY <1>1, ToSetOfEmpty DEF Flying
  <1> QED BY <1>1, <1>2, EmptyText DEF AnswerInv

(* Frames are lost, none is handled or sent: every reset among them is noted. *)
LEMMA AnswerKept ==
  ASSUME TypeInv, AnswerInv, UNCHANGED <<emitter, panel>>, resetLost \subseteq resetLost',
         \A e : Flying(e)' => Flying(e),
         \A e : Flying(e) /\ ~Flying(e)' /\ e.body.kind = "reset" => e.id \in resetLost'
  PROVE  AnswerInv'
  <1>1. \A a, b : Between(a, b) => Between(a, b)'
    BY DEF Between
  <1>2. \A a : After(a) => After(a)'
    BY DEF After
  <1>3. \A s : Present(s)' <=> Present(s)
    BY DEF Present
  <1>4. resetLost' = {} => OneAnswer(panel'.text)
    BY DEF AnswerInv
  <1>5. ASSUME NEW e \in FeedEvents, Flying(e)'
        PROVE  OneAnswer(e.body.text) /\ (Continues(panel.text, e.body.text) \/ Between(0, e.id)')
    BY <1>1, <1>5 DEF AnswerInv
  <1>6. ASSUME NEW d \in FeedEvents, NEW e \in FeedEvents, Flying(d)', Flying(e)', d.id < e.id
        PROVE  Continues(d.body.text, e.body.text) \/ Between(d.id, e.id)'
    BY <1>1, <1>6 DEF AnswerInv
  <1>7. ASSUME emitter.state = "open"
        PROVE  /\ OneAnswer(emitter.buf) /\ Present(emitter.buf)
               /\ (Continues(panel.text, emitter.buf) /\ Present(panel.text)) \/ After(0)'
               /\ \A e \in FeedEvents : Flying(e)' =>
                    (Continues(e.body.text, emitter.buf) /\ Present(e.body.text)) \/ After(e.id)'
    BY <1>2, <1>7 DEF AnswerInv
  <1>8. Present(panel.text)' <=> Present(panel.text)
    BY DEF Present
  <1>9. Present(emitter.buf)' <=> Present(emitter.buf)
    BY DEF Present
  <1> QED BY <1>3, <1>4, <1>5, <1>6, <1>7, <1>8, <1>9 DEF AnswerInv, OneAnswer, Continues

LEMMA EmitAnswer ==
  ASSUME TypeInv, OrderInv, AnswerInv, NEW p \in Publishers, NEW b \in FeedBodies,
         Emit(p, b), Spoken(p, b), UNCHANGED <<panel, resetLost>>
  PROVE  AnswerInv'
  <1>t. BusTypes /\ PanelTypes
    BY DEF TypeInv
  <1>0. PICK d : d = NewEvent(p, b)
    OBVIOUS
  <1>1. /\ \A e : Flying(e)' <=> (Flying(e) \/ (e = d /\ b.kind \in Frames))
        /\ d \in FeedEvents
    BY <1>t, <1>0, EmitFlies
  <1>2. d.id = nextId + 1 /\ d.body = b /\ nextId \in Nat
    BY <1>t, <1>0, Kinds DEF NewEvent, BusTypes
  <1>3. \A e \in FeedEvents : Flying(e) => e.id \in Nat /\ 0 < e.id /\ e.id < d.id
    BY <1>2 DEF OrderInv, FeedEvents
  <1>4. panel.text \in Seq(Deltas) /\ \A e \in FeedEvents : e.body.text \in Seq(Deltas)
    BY <1>t DEF PanelTypes, FeedEvents, FeedBodies
  <1>5. \A x, y : Between(x, y) => Between(x, y)'
    BY <1>1 DEF Between
  <1>6. \A x : After(x) => After(x)' /\ Between(x, d.id)'
    BY <1>1, <1>3 DEF After, Between
  <1>7. resetLost' = {} => OneAnswer(panel'.text)
    BY DEF AnswerInv
  (* what is left to show, for each thing that may be said *)
  <1>8. ASSUME b.kind \in Frames =>
                 /\ OneAnswer(b.text)
                 /\ Continues(panel.text, b.text) \/ Between(0, d.id)'
                 /\ \A e \in FeedEvents : Flying(e) =>
                      Continues(e.body.text, b.text) \/ Between(e.id, d.id)',
               emitter'.state = "open" =>
                 /\ OneAnswer(emitter'.buf) /\ Present(emitter.buf)'
                 /\ (Continues(panel.text, emitter'.buf) /\ Present(panel.text)') \/ After(0)'
                 /\ \A e \in FeedEvents : Flying(e)' =>
                      (Continues(e.body.text, emitter'.buf) /\ Present(e.body.text)') \/ After(e.id)'
        PROVE  AnswerInv'
    <2>1. ASSUME NEW e \in FeedEvents, Flying(e)'
          PROVE  OneAnswer(e.body.text) /\ (Continues(panel.text, e.body.text) \/ Between(0, e.id)')
      BY <1>1, <1>2, <1>5, <1>8, <2>1 DEF AnswerInv
    <2>2. ASSUME NEW c \in FeedEvents, NEW e \in FeedEvents, Flying(c)', Flying(e)', c.id < e.id
          PROVE  Continues(c.body.text, e.body.text) \/ Between(c.id, e.id)'
      <3>1. CASE Flying(c) /\ Flying(e)
        BY <1>5, <2>2, <3>1 DEF AnswerInv
      <3>2. CASE Flying(c) /\ e = d /\ b.kind \in Frames
        BY <1>2, <1>8, <3>2
      <3>3. ~(c = d /\ (Flying(e) \/ e = d))
        BY <1>2, <1>3, <2>2
      <3> QED BY <1>1, <2>2, <3>1, <3>2, <3>3
    <2>3. panel' = panel
      OBVIOUS
    <2>4. Present(panel.text)' <=> \A i \in DOMAIN panel.text :
            /\ panel.text[i].call = emitter'.call /\ panel.text[i].attempt = emitter'.attempt
            /\ panel.text[i].n <= emitter'.n
      BY DEF Present
    <2> QED BY <1>7, <1>8, <2>1, <2>2, <2>3, <2>4 DEF AnswerInv, OneAnswer, Continues
  <1>9. CASE b.kind \in Plain /\ UNCHANGED emitter
    <2>1. b.kind \notin Frames
      BY <1>9, Kinds
    <2> QED BY <1>1, <2>1, <1>9, AnswerKept
  <1>10. CASE /\ b.kind = "reset" /\ b.text = <<>>
              /\ emitter'.state = "open" /\ emitter'.buf = <<>>
    <2>1. Flying(d)' /\ d.body.kind = "reset"
      BY <1>1, <1>2, <1>10, Kinds
    <2>2. \A x \in Nat : x < d.id => After(x)'
      BY <1>1, <2>1 DEF After
    <2>3. After(0)' /\ \A e \in FeedEvents : Flying(e) => After(e.id)'
      BY <1>2, <1>3, <2>2
    <2>4. Present(emitter.buf)' /\ Present(<<>>)'
      <3>1. DOMAIN <<>> = {}
        OBVIOUS
      <3> QED BY <1>10, <3>1 DEF Present
    <2>5. ASSUME NEW e \in FeedEvents, Flying(e)'
          PROVE  (Continues(e.body.text, emitter'.buf) /\ Present(e.body.text)') \/ After(e.id)'
      <3>1. CASE Flying(e)
        BY <2>3, <3>1
      <3>2. CASE e = d
        <4>1. e.body.text = <<>>
          BY <1>2, <1>10, <3>2
        <4>2. \A t : t = <<>> => Present(t)'
          BY <2>4 DEF Present
        <4> QED BY <4>1, <4>2, <1>10, EmptyText
      <3> QED BY <1>1, <2>5, <3>1, <3>2
    <2> QED BY <1>8, <1>10, <2>3, <2>4, <2>5, EmptyText
  <1>11. CASE /\ b.kind = "chunk" /\ emitter.state = "open" /\ emitter.n < MaxDeltas
              /\ b.text = Append(emitter.buf, Delta)
              /\ emitter'.call = emitter.call /\ emitter'.attempt = emitter.attempt
              /\ emitter'.n = emitter.n + 1 /\ emitter'.buf = <<>>
    <2>1. /\ OneAnswer(emitter.buf) /\ Present(emitter.buf)
          /\ (Continues(panel.text, emitter.buf) /\ Present(panel.text)) \/ After(0)
          /\ \A e \in FeedEvents : Flying(e) =>
               (Continues(e.body.text, emitter.buf) /\ Present(e.body.text)) \/ After(e.id)
      BY <1>11 DEF AnswerInv
    <2>2. /\ OneAnswer(b.text)
          /\ \A i \in DOMAIN b.text :
               /\ b.text[i].call = emitter.call /\ b.text[i].attempt = emitter.attempt
               /\ b.text[i].n <= emitter.n + 1
          /\ \A s \in Seq(Deltas) : Continues(s, emitter.buf) /\ Present(s) => Continues(s, b.text)
      BY <1>t, <1>11, <2>1, BufferGrows
    <2>3. emitter.n \in Nat
      BY <1>t, Kinds DEF PanelTypes
    <2>4. \A s \in Seq(Deltas) : Present(s) => Present(s)'
      <3> SUFFICES ASSUME NEW s \in Seq(Deltas), Present(s), NEW i \in DOMAIN s
                   PROVE  /\ s[i].call = emitter'.call /\ s[i].attempt = emitter'.attempt
                          /\ s[i].n <= emitter'.n
        BY DEF Present
      <3> QED BY <1>11, <2>3, DeltaNumber DEF Present
    <2>5. \A t : t = b.text => Present(t)'
      BY <1>11, <2>2 DEF Present
    <2>6. Present(emitter.buf)' /\ \A s : Continues(s, emitter'.buf)
      <3>1. DOMAIN <<>> = {}
        OBVIOUS
      <3> QED BY <1>11, <3>1 DEF Present, Continues
    <2>7. OneAnswer(emitter'.buf)
      BY <1>11, EmptyText
    <2>8. Present(panel.text)' \/ After(0)'
      <3>1. \A t : t = panel.text /\ Present(t)' => Present(panel.text)'
        BY DEF Present
      <3> QED BY <1>4, <1>6, <2>1, <2>4, <3>1
    <2>9. ASSUME NEW e \in FeedEvents, Flying(e)'
          PROVE  Present(e.body.text)' \/ After(e.id)'
      <3>1. CASE Flying(e)
        BY <1>4, <1>6, <2>1, <2>4, <3>1
      <3>2. CASE e = d
        <4>1. e.body.text = b.text
          BY <1>2, <3>2
        <4> QED BY <2>5, <4>1
      <3> QED BY <1>1, <2>9, <3>1, <3>2
    <2>10. /\ Continues(panel.text, b.text) \/ Between(0, d.id)'
           /\ \A e \in FeedEvents : Flying(e) =>
                Continues(e.body.text, b.text) \/ Between(e.id, d.id)'
      BY <1>4, <1>6, <2>1, <2>2
    <2> QED BY <1>8, <2>2, <2>6, <2>7, <2>8, <2>9, <2>10
  <1>12. CASE /\ b.kind = "chunk" /\ emitter.state = "open"
              /\ b.text = emitter.buf /\ emitter'.state = "closing"
    <2>1. /\ OneAnswer(emitter.buf)
          /\ (Continues(panel.text, emitter.buf) /\ Present(panel.text)) \/ After(0)
          /\ \A e \in FeedEvents : Flying(e) =>
               (Continues(e.body.text, emitter.buf) /\ Present(e.body.text)) \/ After(e.id)
      BY <1>12 DEF AnswerInv
    <2> QED BY <1>6, <1>8, <1>12, <2>1
  <1>13. CASE b.kind = "close" /\ b.text = <<>> /\ emitter'.state = "none"
    BY <1>8, <1>13, EmptyText
  <1> QED BY <1>9, <1>10, <1>11, <1>12, <1>13 DEF Spoken

LEMMA BufferAnswer ==
  ASSUME TypeInv, AnswerInv, NEW r \in Publishers, Buffer(r)
  PROVE  AnswerInv'
  <1>t. PanelTypes
    BY DEF TypeInv
  <1>1. /\ emitter.state = "open" /\ emitter.n < MaxDeltas
        /\ emitter' = [emitter EXCEPT !.n = @ + 1, !.buf = Append(@, Delta)]
        /\ UNCHANGED <<panel, resetLost, queue, pub>>
    BY DEF Buffer, busVars, publishing, connection, ghosts
  <1>2. /\ emitter'.state = "open" /\ emitter'.call = emitter.call
        /\ emitter'.attempt = emitter.attempt
        /\ emitter'.n = emitter.n + 1 /\ emitter'.buf = Append(emitter.buf, Delta)
        /\ emitter.n \in Nat
    BY <1>t, <1>1, Kinds DEF PanelTypes
  <1>3. /\ OneAnswer(emitter.buf) /\ Present(emitter.buf)
        /\ (Continues(panel.text, emitter.buf) /\ Present(panel.text)) \/ After(0)
        /\ \A e \in FeedEvents : Flying(e) =>
             (Continues(e.body.text, emitter.buf) /\ Present(e.body.text)) \/ After(e.id)
    BY <1>1 DEF AnswerInv
  <1>4. /\ OneAnswer(emitter'.buf)
        /\ \A i \in DOMAIN emitter'.buf :
             /\ emitter'.buf[i].call = emitter.call /\ emitter'.buf[i].attempt = emitter.attempt
             /\ emitter'.buf[i].n <= emitter.n + 1
        /\ \A s \in Seq(Deltas) : Continues(s, emitter.buf) /\ Present(s) => Continues(s, emitter'.buf)
    BY <1>t, <1>1, <1>2, <1>3, BufferGrows
  <1>5. panel.text \in Seq(Deltas) /\ \A e \in FeedEvents : e.body.text \in Seq(Deltas)
    BY <1>t DEF PanelTypes, FeedEvents, FeedBodies
  <1>6. \A s \in Seq(Deltas) : Present(s) => Present(s)'
    <2> SUFFICES ASSUME NEW s \in Seq(Deltas), Present(s), NEW i \in DOMAIN s
                 PROVE  /\ s[i].call = emitter'.call /\ s[i].attempt = emitter'.attempt
                        /\ s[i].n <= emitter'.n
      BY DEF Present
    <2> QED BY <1>2, DeltaNumber DEF Present
  <1>7. Present(emitter.buf)'
    BY <1>2, <1>4 DEF Present
  <1>8. \A e : Flying(e)' <=> Flying(e)
    BY <1>1 DEF Flying, Pending
  <1>9. /\ \A x, y : Between(x, y)' <=> Between(x, y)
        /\ \A x : After(x)' <=> After(x)
    BY <1>1, <1>8 DEF Between, After
  <1>10. Present(panel.text) => Present(panel.text)'
    <2>1. \A t : t = panel.text /\ Present(t)' => Present(panel.text)'
      BY <1>1 DEF Present
    <2> QED BY <1>5, <1>6, <2>1
  <1>11. (Continues(panel.text, emitter'.buf) /\ Present(panel.text)') \/ After(0)'
    BY <1>3, <1>4, <1>5, <1>9, <1>10
  <1>12. ASSUME NEW e \in FeedEvents, Flying(e)
         PROVE  (Continues(e.body.text, emitter'.buf) /\ Present(e.body.text)') \/ After(e.id)'
    BY <1>3, <1>4, <1>5, <1>6, <1>9, <1>12
  <1>13. panel' = panel /\ resetLost' = resetLost
    BY <1>1
  <1>14. /\ resetLost' = {} => OneAnswer(panel'.text)
         /\ \A e \in FeedEvents : Flying(e)' =>
              /\ OneAnswer(e.body.text)
              /\ Continues(panel'.text, e.body.text) \/ Between(0, e.id)'
         /\ \A d, e \in FeedEvents : Flying(d)' /\ Flying(e)' /\ d.id < e.id =>
              Continues(d.body.text, e.body.text) \/ Between(d.id, e.id)'
    BY <1>8, <1>9, <1>13 DEF AnswerInv
  <1>15. /\ OneAnswer(emitter'.buf) /\ Present(emitter.buf)'
         /\ (Continues(panel'.text, emitter'.buf) /\ Present(panel.text)') \/ After(0)'
         /\ \A e \in FeedEvents : Flying(e)' =>
              (Continues(e.body.text, emitter'.buf) /\ Present(e.body.text)') \/ After(e.id)'
    BY <1>4, <1>7, <1>8, <1>11, <1>12, <1>13
  <1> QED BY <1>14, <1>15 DEF AnswerInv, OneAnswer, Continues

LEMMA HandleAnswer ==
  ASSUME TypeInv, OrderInv, AnswerInv, HandleEvent
  PROVE  AnswerInv'
  <1>t. PanelTypes
    BY DEF TypeInv
  <1> DEFINE h == Head(queue)
  <1>1. /\ panel' = (IF h.body.kind \in Frames THEN Applied(h.body) ELSE panel)
        /\ resetLost' = (IF h.body.kind = "reset" THEN {n \in resetLost : n > h.id} ELSE resetLost)
        /\ emitter' = emitter /\ Deliver
    BY DEF HandleEvent
  <1>2. /\ \A e : Flying(e)' => Flying(e)
        /\ \A e : Flying(e) /\ e # h => Flying(e)'
        /\ h \in FeedEvents
        /\ h.body.kind \in Frames => Flying(h) /\ \A e : Flying(e)' => h.id < e.id
    BY <1>1, DeliverOrder
  <1> HIDE DEF h
  <1>3. /\ panel.text \in Seq(Deltas) /\ h.body \in FeedBodies /\ h.body.text \in Seq(Deltas)
        /\ h.id \in Nat /\ 0 < h.id /\ resetLost \subseteq Nat
    <2>1. panel.text \in Seq(Deltas) /\ resetLost \subseteq 1..MaxIds
      BY <1>t DEF PanelTypes
    <2>2. h.body \in FeedBodies /\ h.id \in 1..MaxIds
      BY <1>2 DEF FeedEvents
    <2>3. h.body.text \in Seq(Deltas)
      BY <2>2 DEF FeedBodies
    <2> QED BY <2>1, <2>2, <2>3, Kinds
  <1>4. CASE h.body.kind \notin Frames
    <2>1. UNCHANGED <<emitter, panel, resetLost>>
      BY <1>1, <1>4, Kinds
    <2>2. \A e : Flying(e)' <=> Flying(e)
      BY <1>2, <1>4 DEF Flying
    <2> QED BY <2>1, <2>2, AnswerKept
  <1>5. CASE h.body.kind \in Frames
    <2>1. \A e \in FeedEvents : Flying(e)' => h.id < e.id /\ e.id \in Nat
      BY <1>2, <1>5 DEF FeedEvents
    <2>2. \A s : Present(s)' <=> Present(s)
      BY <1>1 DEF Present
    <2>3. Flying(h) /\ \A e : Flying(e)' => h.id < e.id
      BY <1>2, <1>5
    <2>4. panel' = Applied(h.body)
      BY <1>1, <1>5
    (* what was between frames that stay is there still *)
    <2>5. ASSUME NEW x \in Nat, h.id < x PROVE (\A y : Between(x, y) => Between(x, y)')
                                              /\ (After(x) => After(x)')
      <3>1. ASSUME NEW c \in FeedEvents, Flying(c), x < c.id PROVE Flying(c)'
        <4>1. c # h
          BY <1>3, <2>5, <3>1 DEF FeedEvents
        <4> QED BY <1>2, <3>1, <4>1
      <3>2. \A m \in resetLost : x < m => m \in resetLost'
        BY <1>1, <1>3, <2>5
      <3> QED BY <3>1, <3>2 DEF Between, After
    <2>6. ASSUME NEW d \in FeedEvents, NEW e \in FeedEvents, Flying(d)', Flying(e)', d.id < e.id
          PROVE  Continues(d.body.text, e.body.text) \/ Between(d.id, e.id)'
      BY <1>2, <2>1, <2>5, <2>6 DEF AnswerInv
    <2>7. ASSUME NEW e \in FeedEvents, Flying(e)', emitter.state = "open"
          PROVE  (Continues(e.body.text, emitter.buf) /\ Present(e.body.text)) \/ After(e.id)'
      BY <1>2, <2>1, <2>5, <2>7 DEF AnswerInv
    <2>8. ASSUME NEW e \in FeedEvents, Flying(e)' PROVE OneAnswer(e.body.text)
      BY <1>2, <2>8 DEF AnswerInv
    <2>9. emitter.state = "open" => OneAnswer(emitter.buf) /\ Present(emitter.buf)
      BY DEF AnswerInv
    (* what is left to show of the panel *)
    <2>10. ASSUME resetLost' = {} => OneAnswer(panel'.text),
                  \A e \in FeedEvents : Flying(e)' =>
                    Continues(panel'.text, e.body.text) \/ Between(0, e.id)',
                  emitter.state = "open" =>
                    (Continues(panel'.text, emitter.buf) /\ Present(panel'.text)) \/ After(0)'
           PROVE  AnswerInv'
      <3>1. /\ Present(panel.text)' <=> Present(panel'.text)
            /\ Present(emitter.buf)' <=> Present(emitter.buf)
        BY <1>1 DEF Present
      <3> QED BY <1>1, <2>2, <2>6, <2>7, <2>8, <2>9, <2>10, <3>1
              DEF AnswerInv, OneAnswer, Continues
    <2>11. CASE h.body.kind = "reset"
      <3>1. h.body.text = <<>>
        BY <1>2, <2>3, <2>11 DEF OrderInv
      <3>2. panel'.text = <<>>
        BY <1>t, <1>3, <2>4, <2>11, <3>1, AppliedIs
      <3> QED BY <2>10, <3>2, EmptyText
    <2>12. CASE h.body.kind # "reset"
      <3>1. panel'.text \in {panel.text, h.body.text, panel.text \o h.body.text}
        BY <1>t, <1>3, <2>4, AppliedIs
      <3>2. resetLost' = resetLost
        BY <1>1, <2>12
      <3>3. ASSUME NEW c \in FeedEvents, Flying(c), c.body.kind = "reset"
            PROVE  Flying(c)' /\ h.id < c.id
        BY <1>2, <2>3, <2>12, <3>3
      <3>4. /\ \A y : Between(0, y) => Between(0, y)'
            /\ \A y : Between(h.id, y) => Between(0, y)'
            /\ After(0) => After(0)'
            /\ After(h.id) => After(0)'
        <4>1. \A m \in resetLost : h.id < m => 0 < m
          BY <1>3
        <4>2. \A c \in FeedEvents : Flying(c) /\ c.body.kind = "reset" => Flying(c)' /\ 0 < c.id
          BY <3>3 DEF FeedEvents
        <4> QED BY <3>2, <4>1, <4>2 DEF Between, After
      <3>5. OneAnswer(h.body.text) /\ (Continues(panel.text, h.body.text) \/ resetLost # {})
        <4>1. OneAnswer(h.body.text) /\ (Continues(panel.text, h.body.text) \/ Between(0, h.id))
          BY <1>2, <2>3 DEF AnswerInv
        <4>2. Between(0, h.id) => resetLost # {}
          <5>1. ASSUME NEW c \in FeedEvents, Flying(c), c.body.kind = "reset", c.id < h.id
                PROVE  FALSE
            <6>1. h.id < c.id /\ c.id \in Nat
              BY <3>3, <5>1 DEF FeedEvents
            <6> QED BY <1>3, <5>1, <6>1
          <5> QED BY <5>1 DEF Between
        <4> QED BY <4>1, <4>2
      <3>6. resetLost' = {} => OneAnswer(panel'.text)
        <4> SUFFICES ASSUME resetLost = {} PROVE OneAnswer(panel'.text)
          BY <3>2
        <4>1. OneAnswer(panel.text)
          BY DEF AnswerInv
        <4> QED BY <1>3, <3>1, <3>5, <4>1, Joined
      <3>7. ASSUME NEW e \in FeedEvents, Flying(e)'
            PROVE  Continues(panel'.text, e.body.text) \/ Between(0, e.id)'
        <4>1. Continues(panel.text, e.body.text) \/ Between(0, e.id)
          BY <1>2, <3>7 DEF AnswerInv
        <4>2. Continues(h.body.text, e.body.text) \/ Between(h.id, e.id)
          BY <1>2, <2>3, <3>7 DEF AnswerInv
        <4> QED BY <1>3, <3>1, <3>4, <4>1, <4>2, Joined
      <3>8. ASSUME emitter.state = "open"
            PROVE  (Continues(panel'.text, emitter.buf) /\ Present(panel'.text)) \/ After(0)'
        <4>1. (Continues(panel.text, emitter.buf) /\ Present(panel.text)) \/ After(0)
          BY <3>8 DEF AnswerInv
        <4>2. (Continues(h.body.text, emitter.buf) /\ Present(h.body.text)) \/ After(h.id)
          BY <1>2, <2>3, <3>8 DEF AnswerInv
        <4>3. CASE After(0) \/ After(h.id)
          BY <3>4, <4>3
        <4>4. CASE /\ Continues(panel.text, emitter.buf) /\ Present(panel.text)
                   /\ Continues(h.body.text, emitter.buf) /\ Present(h.body.text)
          <5>1. /\ Continues(panel.text \o h.body.text, emitter.buf)
                /\ Present(panel.text \o h.body.text)
            BY <1>3, <4>4, Joined
          <5> QED BY <3>1, <4>4, <5>1
        <4> QED BY <4>1, <4>2, <4>3, <4>4
      <3> QED BY <2>10, <3>6, <3>7, <3>8
    <2> QED BY <2>11, <2>12
  <1> QED BY <1>4, <1>5

LEMMA StepAnswer == TypeInv /\ GapInv /\ OrderInv /\ AnswerInv /\ [Next]_vars => AnswerInv'
  <1> SUFFICES ASSUME TypeInv, GapInv, OrderInv, AnswerInv, [Next]_vars PROVE AnswerInv'
    OBVIOUS
  <1>e. \A e : Flying(e) => e \in FeedEvents
    BY ToSetInside DEF Flying, Pending, TypeInv, BusTypes
  <1>h. \A e : Flying(e) => e \notin ToSet(history) /\ e \notin ToSet(replay) /\ e \notin got
    BY FrameNotPersistent DEF Flying, GapInv
  <1>u. ASSUME UNCHANGED busVars, UNCHANGED <<emitter, panel, resetLost>> PROVE AnswerInv'
    <2>1. \A e : Flying(e)' <=> Flying(e)
      BY <1>u DEF busVars, publishing, connection, Flying, Pending
    <2> QED BY <1>u, <2>1, AnswerKept
  <1>1. ASSUME NEW r \in Runs, Run(r) PROVE AnswerInv'
    <2>1. RunTypes(r)
      BY <1>1, PlainRun, StreamRun DEF Run, Runs
    <2> QED BY <1>u, <1>1, <2>1, EmitAnswer, BufferAnswer DEF RunTypes, Runs
  <1>2. ASSUME NEW p \in Publishers, RecordEvent(p) PROVE AnswerInv'
    <2> DEFINE S == (ToSet(history) \cup {pub[p].event}) \
                      (ToSet(history') \cup got \cup OnTheWay \cup
                         (IF Subscribed THEN {pub[p].event} ELSE {}))
    <2>1. /\ resetLost' = resetLost \cup {e.id : e \in {x \in S : x.body.kind = "reset"}}
          /\ UNCHANGED <<emitter, panel>> /\ Record(p)
      BY <1>2 DEF RecordEvent, Forget
    <2>2. /\ \A e : Flying(e)' => Flying(e)
          /\ \A e : Flying(e) /\ ~Flying(e)' => e = pub[p].event /\ ~Subscribed
      BY <2>1, RecordOrder
    <2>3. ASSUME NEW e, Flying(e), ~Flying(e)' PROVE e \in S
      <3>1. e = pub[p].event /\ ~Subscribed /\ e.body.kind \in Frames
        BY <2>2, <2>3 DEF Flying
      <3>2. history' = history
        BY <2>1, <3>1, FrameNotPersistent DEF Record
      <3>3. queue = <<>> /\ \A q \in Publishers : ~pub[q].to
        BY <3>1 DEF Subscribed, GapInv
      <3>4. e \notin OnTheWay
        BY <1>h, <2>3, <3>3, ToSetOfEmpty DEF OnTheWay
      <3>5. e \notin ToSet(history') /\ e \notin got
        BY <1>h, <2>3, <3>2
      <3> QED BY <3>1, <3>4, <3>5
    <2> HIDE DEF S
    <2> QED BY <2>1, <2>2, <2>3, AnswerKept
  <1>3. ASSUME NEW p \in Publishers, EnqueueEvent(p) PROVE AnswerInv'
    <2>1. /\ UNCHANGED <<emitter, panel>> /\ Enqueue(p)
          /\ resetLost \subseteq resetLost'
          /\ pub[p].to /\ Full /\ pub[p].event.body.kind = "reset" => pub[p].event.id \in resetLost'
      BY <1>3 DEF EnqueueEvent, Forget, ghosts
    <2>2. /\ \A e : Flying(e)' => Flying(e)
          /\ \A e : Flying(e) /\ ~Flying(e)' => e = pub[p].event /\ pub[p].to /\ Full
      BY <2>1, EnqueueOrder
    <2> QED BY <2>1, <2>2, AnswerKept
  <1>4. CASE Connect \/ ReplayEvents
    <2>1. UNCHANGED <<emitter, panel>> /\ resetLost \subseteq resetLost'
      BY <1>4 DEF Connect, ReplayEvents, Forget, ghosts
    <2>2. \A e : Flying(e)' <=> Flying(e)
      BY <1>4, ServeOrder DEF Connect, ReplayEvents, Serve
    <2> QED BY <2>1, <2>2, AnswerKept
  <1>5. CASE HandleEvent
    BY <1>5, HandleAnswer
  <1>6. CASE LoseConnection
    <2>1. /\ UNCHANGED <<emitter, panel>> /\ Disconnect /\ resetLost \subseteq resetLost'
          /\ \A e \in OnTheWay \ ToSet(history) : e.body.kind = "reset" => e.id \in resetLost'
      BY <1>6 DEF LoseConnection, Forget
    <2>2. /\ \A e : Flying(e)' => Flying(e)
          /\ \A e : Flying(e) /\ ~Flying(e)' => e \in OnTheWay
      BY <2>1, LostOrder
    <2> QED BY <1>h, <2>1, <2>2, AnswerKept
  <1>7. CASE Restart
    <2>1. emitter'.state = "none" /\ UNCHANGED <<panel, resetLost>> /\ Reboot
      BY <1>7 DEF Restart, NoEmitter
    <2>2. \A e : ~Flying(e)'
      BY <2>1, LostOrder
    <2> QED BY <2>1, <2>2 DEF AnswerInv, OneAnswer
  <1>8. CASE PollReads \/ PollApplies \/ UNCHANGED vars
    BY <1>u, <1>8 DEF PollReads, PollApplies, vars, ghosts
  <1> QED BY <1>1, <1>2, <1>3, <1>4, <1>5, <1>6, <1>7, <1>8 DEF Next, PublishEvent

LEMMA AnswerInvariant == Spec => []AnswerInv
  <1>1. Init => AnswerInv
    BY InitAnswer
  <1> QED BY <1>1, StepAnswer, OrderInvariant, GapInvariant, TypeInvariant, PTL DEF Spec

(* The text of the panel is of one attempt of one call, each delta once and in
   its order, whatever else than reset frames was lost, for every size of the
   queue and any number of calls and attempts (applyDelta). *)
THEOREM PanelShowsOneAnswer == Spec => []PanelIsOneAnswer
  <1>1. AnswerInv => PanelIsOneAnswer
    BY DEF AnswerInv, PanelIsOneAnswer, OneAnswer
  <1> QED BY <1>1, AnswerInvariant, PTL
===============================================================================
