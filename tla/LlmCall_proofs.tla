---------------------------- MODULE LlmCall_proofs ----------------------------
(***************************************************************************)
(* Theorems about LlmCall for every set of writers, providers and tenants, *)
(* every fallback order and every bound: the hash chain of a log verifies, *)
(* and what cost log and audit log say of a call is true.                  *)
(*                                                                         *)
(* The invariant is in layers, each resting on the ones before it: what is *)
(* known of a call, the types of the audit log, its chain, its drafts; and *)
(* the walk of a call along its fallback chain, with all types.            *)
(***************************************************************************)
EXTENDS LlmCall, WellFoundedInduction, TLAPS

(* Among some days there is a newest one. *)
LEMMA NewestIsLast ==
  ASSUME NEW S, S \subseteq Days, S # {}
  PROVE  Newest(S) \in S /\ \A x \in S : x <= Newest(S)
  <1> DEFINE T == {MaxDays - d : d \in S}
             Less == OpToRel(<, Nat)
  <1> HIDE DEF Less
  <1>0. T \subseteq Nat /\ T # {} /\ S \subseteq Nat /\ MaxDays \in Nat
    <2>1. MaxDays \in Nat /\ S \subseteq 1..MaxDays
      BY AuditAssumption DEF AuditAssumption, Days
    <2>2. \A d \in S : d \in Nat /\ MaxDays - d \in Nat
      BY <2>1
    <2> QED
      BY <2>1, <2>2
  <1>1. PICK t \in T : \A u \in T : ~(<<u, t>> \in Less)
    <2>1. IsWellFoundedOn(Less, Nat)
      BY NatLessThanWellFounded DEF Less
    <2> HIDE DEF T
    <2> QED BY <1>0, <2>1, WFMin
  <1>2. \A u \in T : t <= u
    <2> SUFFICES ASSUME NEW u \in T PROVE t <= u
      OBVIOUS
    <2>1. t \in Nat /\ u \in Nat /\ ~(<<u, t>> \in Less)
      BY <1>0, <1>1
    <2> HIDE DEF T
    <2>2. u < t => <<u, t>> \in Less
      BY <2>1 DEF OpToRel, Less
    <2> QED
      BY <2>1, <2>2
  <1>3. PICK d \in S : t = MaxDays - d
    OBVIOUS
  <1>4. \A x \in S : x <= d
    <2> SUFFICES ASSUME NEW x \in S PROVE x <= d
      OBVIOUS
    <2>1. t <= MaxDays - x
      BY <1>2
    <2> QED
      BY <1>0, <1>3, <2>1
  <1> QED BY <1>4 DEF Newest

-----------------------------------------------------------------------------
(* The fallback chain.  resolve_fallback_order appends what it has not seen;
   here the list is a recursive function, which exists and has the properties
   below by the argument of the least counterexample. *)

LEMMA LeastIsThere ==
  ASSUME NEW S, S \subseteq Nat, S # {}
  PROVE  \E m \in S : \A x \in S : m <= x
  <1> DEFINE Less == OpToRel(<, Nat)
  <1> HIDE DEF Less
  <1>1. PICK m \in S : \A x \in S : ~(<<x, m>> \in Less)
    <2>1. IsWellFoundedOn(Less, Nat)
      BY NatLessThanWellFounded DEF Less
    <2> QED BY <2>1, WFMin
  <1>2. \A x \in S : m <= x
    <2> SUFFICES ASSUME NEW x \in S PROVE m <= x
      OBVIOUS
    <2>1. x \in Nat /\ m \in Nat /\ ~(<<x, m>> \in Less)
      BY <1>1
    <2>2. x < m => <<x, m>> \in Less
      BY <2>1 DEF OpToRel, Less
    <2> QED BY <2>1, <2>2
  <1> QED BY <1>2

Added(s, a) == IF a \in ToSet(s) THEN s ELSE Append(s, a)
Chains(q, e, f, m) == f = [i \in 0..m |-> IF i = 0 THEN e ELSE Added(f[i - 1], q[i])]

(* What the recursion says, with nothing known of q: the SMT backend's axioms
   about Len take every function for a sequence, so a leaf that sees a function
   on 0..m must not see a sequence. *)
LEMMA ChainUnfold ==
  ASSUME NEW q, NEW e, NEW f, NEW m \in Nat, Chains(q, e, f, m)
  PROVE  f[0] = e /\ \A i \in 1..m : f[i] = Added(f[i - 1], q[i])
  <1>1. \A i \in 0..m : f[i] = IF i = 0 THEN e ELSE Added(f[i - 1], q[i])
    BY DEF Chains
  <1>2. 0 \in 0..m /\ \A i \in 1..m : i \in 0..m /\ i # 0
    OBVIOUS
  <1> QED BY <1>1, <1>2

LEMMA ChainBegin ==
  ASSUME NEW q, NEW e
  PROVE  \E f : Chains(q, e, f, 0)
  <1>1. Chains(q, e, [i \in 0..0 |-> e], 0)
    BY DEF Chains
  <1> QED BY <1>1

LEMMA ChainExtend ==
  ASSUME NEW q, NEW e, NEW f, NEW m \in Nat, m # 0, Chains(q, e, f, m - 1)
  PROVE  \E g : Chains(q, e, g, m)
  <1> DEFINE g == [i \in 0..m |-> IF i = m THEN Added(f[m - 1], q[m]) ELSE f[i]]
  <1>0. m - 1 \in Nat
    OBVIOUS
  <1>1. f[0] = e /\ \A i \in 1..(m - 1) : f[i] = Added(f[i - 1], q[i])
    BY <1>0, ChainUnfold
  <1>2. m \in 0..m /\ g[m] = Added(f[m - 1], q[m]) /\ \A i \in 0..m : i # m => g[i] = f[i]
    OBVIOUS
  <1> HIDE DEF g
  <1>3. ASSUME NEW i \in 0..m
        PROVE  g[i] = IF i = 0 THEN e ELSE Added(g[i - 1], q[i])
    <2>1. CASE i = 0
      BY <1>1, <1>2, <2>1
    <2>2. CASE i # 0
      <3>1. i - 1 \in 0..m /\ i - 1 # m /\ g[i - 1] = f[i - 1]
        BY <1>2, <2>2
      <3>2. i = m \/ i \in 1..(m - 1)
        BY <2>2
      <3> QED BY <1>1, <1>2, <2>2, <3>1, <3>2
    <2> QED BY <2>1, <2>2
  <1>4. Chains(q, e, g, m)
    <2>1. g = [i \in 0..m |-> g[i]]
      BY DEF g
    <2>2. [i \in 0..m |-> g[i]] = [i \in 0..m |-> IF i = 0 THEN e ELSE Added(g[i - 1], q[i])]
      BY <1>3
    <2> QED BY <2>1, <2>2 DEF Chains
  <1> QED BY <1>4

LEMMA ChainExists ==
  ASSUME NEW q \in Seq(Providers)
  PROVE  \E f : Chains(q, <<>>, f, Len(q))
  <1> DEFINE Bad == {m \in 0..Len(q) : ~\E f : Chains(q, <<>>, f, m)}
  <1>1. SUFFICES ASSUME Bad # {} PROVE FALSE
    <2>1. Len(q) \in 0..Len(q)
      OBVIOUS
    <2> QED BY <2>1
  <1>2. PICK m \in Bad : \A x \in Bad : m <= x
    <2>1. Bad \subseteq Nat
      OBVIOUS
    <2> HIDE DEF Bad
    <2> QED BY <1>1, <2>1, LeastIsThere
  <1>3. m # 0
    BY ChainBegin
  <1>4. m - 1 \in 0..Len(q) /\ m - 1 \notin Bad
    <2>1. m \in Nat /\ m - 1 \in 0..Len(q) /\ ~(m <= m - 1)
      BY <1>3
    <2> HIDE DEF Bad
    <2> QED BY <1>2, <2>1
  <1>5. PICK f : Chains(q, <<>>, f, m - 1)
    BY <1>4
  <1> QED BY <1>3, <1>5, ChainExtend

(* What a chain is after its first m names: no name twice, the primary first,
   and every name asked for. *)
Good(q, s, m) ==
  /\ s \in Seq(Providers) /\ Len(s) >= 1 /\ s[1] = q[1]
  /\ \A i, j \in 1..Len(s) : i < j => s[i] # s[j]
  /\ \A i \in 1..m : \E j \in 1..Len(s) : s[j] = q[i]

LEMMA AddedIsGood ==
  ASSUME NEW q \in Seq(Providers), NEW m \in 1..Len(q), NEW s, Good(q, s, m - 1) \/ (m = 1 /\ s = <<>>)
  PROVE  Good(q, Added(s, q[m]), m)
  <1>0. m \in Nat /\ 1 <= m /\ m <= Len(q) /\ q[m] \in Providers
    OBVIOUS
  <1>1. CASE m = 1 /\ s = <<>>
    <2>1. Added(s, q[m]) = <<q[1]>>
      BY <1>1 DEF Added, ToSet
    <2>2. /\ <<q[1]>> \in Seq(Providers) /\ Len(<<q[1]>>) = 1 /\ <<q[1]>>[1] = q[1]
          /\ 1..1 = {1}
      BY <1>0, <1>1
    <2> DEFINE t == <<q[1]>>
    <2>3. t \in Seq(Providers) /\ Len(t) = 1 /\ t[1] = q[1] /\ 1..m = {1} /\ 1..Len(t) = {1}
      BY <1>1, <2>2
    <2> HIDE DEF t
    <2>4. Good(q, t, m)
      <3>1. \A i, j \in 1..Len(t) : ~(i < j)
        BY <2>3
      <3>2. ASSUME NEW i \in 1..m PROVE \E j \in 1..Len(t) : t[j] = q[i]
        <4>1. i = 1 /\ 1 \in 1..Len(t)
          BY <2>3
        <4> QED BY <2>3, <4>1
      <3>3. Len(t) >= 1
        BY <2>3
      <3> QED BY <2>3, <3>1, <3>2, <3>3 DEF Good
    <2> QED BY <2>1, <2>4 DEF t
  <1>2. CASE Good(q, s, m - 1) /\ q[m] \in ToSet(s)
    <2>1. Added(s, q[m]) = s /\ \E j \in 1..Len(s) : s[j] = q[m]
      BY <1>2 DEF Added, ToSet, Good
    <2>2. \A i \in 1..m : i = m \/ i \in 1..(m - 1)
      BY <1>0
    <2> QED BY <1>2, <2>1, <2>2 DEF Good
  <1>3. CASE Good(q, s, m - 1) /\ q[m] \notin ToSet(s)
    <2> DEFINE t == Append(s, q[m])
    <2>1. Added(s, q[m]) = t
      BY <1>3 DEF Added
    <2>2. s \in Seq(Providers) /\ Len(s) \in Nat /\ Len(s) >= 1
      BY <1>3 DEF Good
    <2>3. /\ t \in Seq(Providers) /\ Len(t) = Len(s) + 1 /\ t[Len(t)] = q[m]
          /\ \A i \in 1..Len(s) : t[i] = s[i]
      BY <1>0, <2>2
    <2>4. \A i \in 1..Len(s) : s[i] # q[m]
      BY <1>3, <2>2 DEF ToSet
    <2> HIDE DEF t
    <2>5. t[1] = q[1] /\ Len(t) >= 1
      BY <1>3, <2>2, <2>3 DEF Good
    <2>6. \A i, j \in 1..Len(t) : i < j => t[i] # t[j]
      <3> SUFFICES ASSUME NEW i \in 1..Len(t), NEW j \in 1..Len(t), i < j PROVE t[i] # t[j]
        OBVIOUS
      <3>1. i \in 1..Len(s) /\ (j \in 1..Len(s) \/ j = Len(t))
        BY <2>2, <2>3
      <3> QED BY <1>3, <2>3, <2>4, <3>1 DEF Good
    <2>7. \A i \in 1..m : \E j \in 1..Len(t) : t[j] = q[i]
      <3> SUFFICES ASSUME NEW i \in 1..m PROVE \E j \in 1..Len(t) : t[j] = q[i]
        OBVIOUS
      <3>1. CASE i = m
        <4>1. Len(t) \in 1..Len(t)
          BY <2>2, <2>3
        <4> QED BY <2>3, <3>1, <4>1
      <3>2. CASE i # m
        <4>1. i \in 1..(m - 1)
          BY <1>0, <3>2
        <4>2. PICK j \in 1..Len(s) : s[j] = q[i]
          BY <1>3, <4>1 DEF Good
        <4>3. j \in 1..Len(t)
          BY <2>2, <2>3
        <4> QED BY <2>3, <4>2, <4>3
      <3> QED BY <3>1, <3>2
    <2> QED BY <2>1, <2>3, <2>5, <2>6, <2>7 DEF Good
  <1> QED BY <1>1, <1>2, <1>3

LEMMA ChainIsGood ==
  ASSUME NEW q \in Seq(Providers), NEW f, Chains(q, <<>>, f, Len(q)), Len(q) >= 1
  PROVE  Good(q, f[Len(q)], Len(q))
  <1> DEFINE Bad == {m \in 1..Len(q) : ~Good(q, f[m], m)}
  <1>1. SUFFICES ASSUME Bad # {} PROVE FALSE
    <2>1. Len(q) \in 1..Len(q)
      OBVIOUS
    <2> QED BY <2>1
  <1>2. PICK m \in Bad : \A x \in Bad : m <= x
    <2>1. Bad \subseteq Nat
      OBVIOUS
    <2> HIDE DEF Bad
    <2> QED BY <1>1, <2>1, LeastIsThere
  <1>3. m \in 1..Len(q) /\ m \in Nat /\ m \in 0..Len(q) /\ m # 0
    OBVIOUS
  <1>4. f[m] = Added(f[m - 1], q[m])
    BY <1>3, ChainUnfold
  <1>5. Good(q, f[m - 1], m - 1) \/ (m = 1 /\ f[m - 1] = <<>>)
    <2>1. CASE m = 1
      <3>1. 0 \in 0..Len(q) /\ m - 1 = 0
        BY <2>1
      <3>2. f[0] = <<>>
        BY ChainUnfold
      <3> QED BY <2>1, <3>1, <3>2
    <2>2. CASE m # 1
      <3>1. m - 1 \in 1..Len(q) /\ ~(m <= m - 1)
        BY <1>3, <2>2
      <3>2. m - 1 \notin Bad
        <4> HIDE DEF Bad
        <4> QED BY <1>2, <3>1
      <3>3. \A k \in 1..Len(q) : k \notin Bad => Good(q, f[k], k)
        OBVIOUS
      <3> HIDE DEF Bad
      <3> QED BY <3>1, <3>2, <3>3
    <2> QED BY <2>1, <2>2
  <1>6. Good(q, f[m], m)
    BY <1>3, <1>4, <1>5, AddedIsGood
  <1> QED BY <1>6

LEMMA ResolvedIsGood ==
  ASSUME NEW p \in Providers
  PROVE  /\ Resolved(p) \in Seq(Providers) /\ Len(Resolved(p)) >= 1 /\ Resolved(p)[1] = p
         /\ \A i, j \in 1..Len(Resolved(p)) : i < j => Resolved(p)[i] # Resolved(p)[j]
         /\ \E i \in 1..Len(Resolved(p)) : Resolved(p)[i] = Mock
  <1> DEFINE q == <<p>> \o Append(Order, Mock)
             f == CHOOSE g : Chains(q, <<>>, g, Len(q))
  <1>1. Order \in Seq(Providers) /\ Mock \in Providers
    BY CallAssumption DEF CallAssumption
  <1>2. /\ q \in Seq(Providers) /\ Len(q) = Len(Order) + 2 /\ Len(Order) \in Nat
        /\ q[1] = p /\ q[Len(q)] = Mock
    <2>1. /\ Append(Order, Mock) \in Seq(Providers) /\ Len(Append(Order, Mock)) = Len(Order) + 1
          /\ Append(Order, Mock)[Len(Order) + 1] = Mock /\ Len(Order) \in Nat
      BY <1>1
    <2>2. <<p>> \in Seq(Providers) /\ Len(<<p>>) = 1 /\ <<p>>[1] = p
      OBVIOUS
    <2> QED BY <2>1, <2>2
  <1>3. Resolved(p) = f[Len(q)]
    BY DEF Resolved, Chains, Added
  <1> HIDE DEF q
  <1>4. Chains(q, <<>>, f, Len(q))
    BY <1>2, ChainExists
  <1> HIDE DEF f
  <1>5. Good(q, Resolved(p), Len(q))
    BY <1>2, <1>3, <1>4, ChainIsGood
  <1>6. Len(q) \in 1..Len(q)
    BY <1>2
  <1> QED BY <1>2, <1>5, <1>6 DEF Good

-----------------------------------------------------------------------------
(* A call walks its chain: what it has tried is the chain so far, and it goes
   on only after failures another provider may not share.  Mock is in every
   chain and always the end, so there is a next provider as long as the call
   has not ended. *)

CallSteps == {"idle", "chain", "vote", "log", "draft", "audit", "returned"}
Tries == Seq([provider: Providers, outcome: Outcomes])
CallRecords ==
  [step: CallSteps, n: 0..MaxCalls, primary: Providers, skip: BOOLEAN, chained: BOOLEAN,
   tried: Tries, provider: Providers \cup {None}]
Passing == {"unavailable", "transport"}
Walks(c) ==
  LET t == call[c].tried IN
    /\ call[c].step # "idle" => call[c].n >= 1
    /\ call[c].step \notin {"chain", "vote", "log"} => t = <<>>
    /\ call[c].step \in {"chain", "vote", "log"} =>
         /\ call[c].skip => call[c].chained /\ call[c].primary # Mock
         /\ Len(t) <= Len(ChainOf(c))
         /\ \A i \in 1..Len(t) : t[i].provider = ChainOf(c)[i]
         /\ \A i \in 1..Len(t) : i < Len(t) => t[i].outcome \in Passing
    /\ call[c].step = "chain" =>
         /\ \A i \in 1..Len(t) : t[i].provider # Mock /\ t[i].outcome \in Passing
         /\ ~call[c].chained => t = <<>>
WalkInv ==
  /\ call \in [Callers -> CallRecords]
  /\ costLog \subseteq Drafts /\ answers \subseteq Drafts /\ voted \subseteq Drafts
  /\ \A c \in Callers : Walks(c)

(* The assignments to a call, field by field. *)
Holds(r, step, n, primary, skip, chained, tried, provider) ==
  /\ r \in CallRecords /\ r.step = step /\ r.n = n /\ r.primary = primary /\ r.skip = skip
  /\ r.chained = chained /\ r.tried = tried /\ r.provider = provider

LEMMA AssignedStep ==
  ASSUME NEW k \in CallRecords, NEW s \in CallSteps
  PROVE  Holds([k EXCEPT !.step = s],
               s, k.n, k.primary, k.skip, k.chained, k.tried, k.provider)
  BY DEF CallRecords, Holds

LEMMA AssignedTried ==
  ASSUME NEW k \in CallRecords, NEW t \in Tries
  PROVE  Holds([k EXCEPT !.tried = t],
               k.step, k.n, k.primary, k.skip, k.chained, t, k.provider)
  BY DEF CallRecords, Holds

LEMMA Assigned ==
  ASSUME NEW k \in CallRecords, NEW t \in Tries, NEW s \in CallSteps,
         NEW p \in Providers \cup {None}
  PROVE  /\ Holds([k EXCEPT !.tried = t, !.step = s],
                  s, k.n, k.primary, k.skip, k.chained, t, k.provider)
         /\ Holds([k EXCEPT !.tried = t, !.provider = p, !.step = s],
                  s, k.n, k.primary, k.skip, k.chained, t, p)
  BY DEF CallRecords, Holds

LEMMA AssignedNew ==
  ASSUME NEW k \in CallRecords, NEW s \in CallSteps, NEW p \in Providers,
         NEW skip \in BOOLEAN, NEW chained \in BOOLEAN, NEW a \in Providers \cup {None}
  PROVE  /\ Holds([k EXCEPT !.step = s, !.primary = p, !.skip = skip, !.chained = chained],
                  s, k.n, p, skip, chained, k.tried, k.provider)
         /\ Holds([k EXCEPT !.step = s, !.primary = p, !.provider = a],
                  s, k.n, p, k.skip, k.chained, k.tried, a)
  BY DEF CallRecords, Holds

LEMMA NewCall ==
  ASSUME NEW n \in 0..MaxCalls
  PROVE  Holds(NoCall(n), "idle", n, Mock, FALSE, TRUE, <<>>, None)
  <1>1. <<>> \in Tries /\ Mock \in Providers
    BY CallAssumption DEF Tries, CallAssumption
  <1> QED BY <1>1 DEF NoCall, Holds, CallRecords, CallSteps

(* The chain of a call, with the primary or without it. *)
LEMMA ChainOfCall ==
  ASSUME NEW c \in Callers, call[c].primary \in Providers, call[c].chained \in BOOLEAN,
         call[c].skip \in BOOLEAN, call[c].skip => call[c].chained /\ call[c].primary # Mock
  PROVE  /\ ChainOf(c) \in Seq(Providers) /\ Len(ChainOf(c)) >= 1
         /\ \A i, j \in 1..Len(ChainOf(c)) : i < j => ChainOf(c)[i] # ChainOf(c)[j]
         /\ call[c].skip => \A i \in 1..Len(ChainOf(c)) : ChainOf(c)[i] # call[c].primary
         /\ call[c].chained => \E i \in 1..Len(ChainOf(c)) : ChainOf(c)[i] = Mock
         /\ ~call[c].chained => Len(ChainOf(c)) = 1
  <1> DEFINE p == call[c].primary
             s == Resolved(p)
  <1>1. /\ s \in Seq(Providers) /\ Len(s) >= 1 /\ s[1] = p
        /\ \A i, j \in 1..Len(s) : i < j => s[i] # s[j]
        /\ \E i \in 1..Len(s) : s[i] = Mock
    BY ResolvedIsGood
  <1>2. CASE ~call[c].chained
    <2>1. ChainOf(c) = <<p>> /\ ~call[c].skip
      BY <1>2 DEF ChainOf
    <2>2. <<p>> \in Seq(Providers) /\ Len(<<p>>) = 1 /\ 1..1 = {1}
      OBVIOUS
    <2> HIDE DEF p
    <2>3. \A i, j \in 1..Len(<<p>>) : ~(i < j)
      BY <2>2
    <2> QED BY <1>2, <2>1, <2>2, <2>3
  <1>3. CASE call[c].chained /\ ~call[c].skip
    <2>1. ChainOf(c) = s
      BY <1>3 DEF ChainOf
    <2> HIDE DEF s
    <2> QED BY <1>1, <1>3, <2>1
  <1>4. CASE call[c].chained /\ call[c].skip
    <2>1. ChainOf(c) = Tail(s)
      BY <1>4 DEF ChainOf
    <2> HIDE DEF s
    <2>2. s # <<>> /\ Len(s) \in Nat
      BY <1>1
    <2> DEFINE t == Tail(s)
    <2>3. t \in Seq(Providers) /\ Len(t) = Len(s) - 1 /\ \A i \in 1..Len(t) : t[i] = s[i + 1]
      BY <1>1, <2>2
    <2> HIDE DEF t
    <2>4. \A i \in 1..Len(t) : i + 1 \in 1..Len(s) /\ 1 \in 1..Len(s) /\ 1 < i + 1
      BY <2>2, <2>3
    <2>5. \A i \in 1..Len(t) : t[i] # p
      <3> HIDE DEF p
      <3> QED BY <1>1, <2>3, <2>4
    <2>6. \A i, j \in 1..Len(t) : i < j => t[i] # t[j]
      <3> SUFFICES ASSUME NEW i \in 1..Len(t), NEW j \in 1..Len(t), i < j PROVE t[i] # t[j]
        OBVIOUS
      <3>1. i + 1 < j + 1 /\ i + 1 \in 1..Len(s) /\ j + 1 \in 1..Len(s)
        BY <2>4
      <3>2. s[i + 1] # s[j + 1]
        BY <1>1, <3>1
      <3> QED BY <2>3, <3>2
    <2>7. PICK k \in 1..Len(s) : s[k] = Mock
      BY <1>1
    <2>8. k # 1
      BY <1>1, <1>4, <2>7
    <2>9. k - 1 \in 1..Len(t) /\ (k - 1) + 1 = k
      BY <2>2, <2>3, <2>7, <2>8
    <2>10. t[k - 1] = Mock
      BY <2>3, <2>7, <2>9
    <2>11. Len(t) >= 1
      BY <2>2, <2>3, <2>9
    <2>12. ChainOf(c) = t
      BY <2>1 DEF t
    <2> QED BY <1>4, <2>3, <2>5, <2>6, <2>9, <2>10, <2>11, <2>12
  <1> QED BY <1>2, <1>3, <1>4

(* Whoever is still walking has somebody to ask next. *)
LEMMA TurnIsThere ==
  ASSUME WalkInv, NEW c \in Callers, call[c].step = "chain"
  PROVE  /\ Len(call[c].tried) + 1 \in 1..Len(ChainOf(c))
         /\ Turn(c) = ChainOf(c)[Len(call[c].tried) + 1] /\ Turn(c) \in Providers
         /\ Len(call[c].tried) \in Nat /\ ChainOf(c) \in Seq(Providers)
  <1> DEFINE t == call[c].tried
             s == ChainOf(c)
  <1>1. call[c] \in CallRecords /\ Walks(c)
    BY DEF WalkInv
  <1>2. t \in Seq([provider: Providers, outcome: Outcomes]) /\ Len(t) \in Nat
    BY <1>1 DEF CallRecords, Tries
  <1>3. /\ s \in Seq(Providers) /\ Len(s) >= 1 /\ Len(s) \in Nat
        /\ call[c].chained => \E i \in 1..Len(s) : s[i] = Mock
    <2>1. /\ s \in Seq(Providers) /\ Len(s) >= 1
          /\ call[c].chained => \E i \in 1..Len(s) : s[i] = Mock
      BY <1>1, ChainOfCall DEF CallRecords, Walks
    <2> HIDE DEF s
    <2> QED BY <2>1
  <1>4. Len(t) <= Len(s) /\ \A i \in 1..Len(t) : t[i].provider = s[i] /\ s[i] # Mock
    BY <1>1 DEF Walks
  <1>5. Len(t) < Len(s)
    <2>1. CASE call[c].chained
      <3>1. PICK k \in 1..Len(s) : s[k] = Mock
        BY <1>3, <2>1
      <3>2. k \notin 1..Len(t)
        BY <1>4, <3>1
      <3> HIDE DEF s, t
      <3> QED BY <1>2, <1>3, <1>4, <3>1, <3>2
    <2>2. CASE ~call[c].chained
      <3>1. Len(t) = 0
        BY <1>1, <2>2 DEF Walks
      <3> HIDE DEF s, t
      <3> QED BY <1>3, <3>1
    <2> QED BY <1>1, <2>1, <2>2 DEF CallRecords
  <1>6. Len(t) + 1 \in 1..Len(s)
    <2> HIDE DEF s, t
    <2> QED BY <1>2, <1>3, <1>5
  <1>7. Turn(c) = s[Len(t) + 1]
    BY DEF Turn
  <1> HIDE DEF s, t
  <1> QED BY <1>2, <1>3, <1>6, <1>7 DEF s, t

(* Asking the next provider, whatever it says. *)
LEMMA Asked ==
  ASSUME WalkInv, NEW c \in Callers, call[c].step = "chain", NEW outcome \in Outcomes,
         NEW step \in {"chain", "vote", "log"}, NEW r, NEW answer,
         Holds(r, step, call[c].n, call[c].primary, call[c].skip, call[c].chained,
               Tried(c, outcome), answer),
         call' = [call EXCEPT ![c] = r],
         step = "chain" => outcome \in Passing /\ Turn(c) # Mock /\ call[c].chained
  PROVE  call' \in [Callers -> CallRecords] /\ \A b \in Callers : Walks(b)'
  <1> DEFINE t == call[c].tried
             u == Tried(c, outcome)
  <1>1. call[c] \in CallRecords /\ Walks(c) /\ call \in [Callers -> CallRecords]
    BY DEF WalkInv
  <1>2. /\ call' \in [Callers -> CallRecords] /\ call'[c] = r
        /\ r.step = step /\ r.n = call[c].n /\ r.primary = call[c].primary
        /\ r.skip = call[c].skip /\ r.chained = call[c].chained /\ r.tried = Tried(c, outcome)
    BY <1>1 DEF Holds
  <1>3. ASSUME NEW b \in Callers, b # c PROVE Walks(b)'
    <2>1. call'[b] = call[b] /\ Walks(b)
      BY <1>1, <1>3 DEF WalkInv
    <2> QED BY <2>1 DEF Walks, ChainOf
  <1>4. ChainOf(c)' = ChainOf(c)
    BY <1>2 DEF ChainOf
  <1>5. /\ t \in Seq([provider: Providers, outcome: Outcomes]) /\ Len(t) \in Nat
        /\ Len(t) + 1 \in 1..Len(ChainOf(c)) /\ Turn(c) = ChainOf(c)[Len(t) + 1]
        /\ Turn(c) \in Providers
    BY <1>1, TurnIsThere DEF CallRecords, Tries
  <1> DEFINE e == [provider |-> Turn(c), outcome |-> outcome]
  <1>6. e \in [provider: Providers, outcome: Outcomes] /\ u = Append(t, e)
    BY <1>5 DEF Tried
  <1> HIDE DEF t, e, u
  <1>7. /\ Len(u) = Len(t) + 1 /\ u[Len(t) + 1] = e /\ \A i \in 1..Len(t) : u[i] = t[i]
        /\ \A i \in 1..Len(u) : i \in 1..Len(t) \/ i = Len(t) + 1
    BY <1>5, <1>6
  <1>8. /\ \A i \in 1..Len(t) : t[i].provider = ChainOf(c)[i] /\ t[i].provider # Mock
                                /\ t[i].outcome \in Passing
        /\ call[c].step # "idle" => call[c].n >= 1
        /\ call[c].skip => call[c].chained /\ call[c].primary # Mock
    BY <1>1 DEF Walks, t
  <1>9. e.provider = Turn(c) /\ e.outcome = outcome
    BY DEF e
  <1>10. Len(u) <= Len(ChainOf(c))
    BY <1>5, <1>7
  <1>11. \A i \in 1..Len(u) : u[i].provider = ChainOf(c)[i]
    BY <1>5, <1>7, <1>8, <1>9
  <1>12. \A i \in 1..Len(u) : i < Len(u) => u[i].outcome \in Passing
    <2> SUFFICES ASSUME NEW i \in 1..Len(u), i < Len(u) PROVE u[i].outcome \in Passing
      OBVIOUS
    <2>1. i \in 1..Len(t)
      BY <1>5, <1>7
    <2> QED BY <1>7, <1>8, <2>1
  <1>13. step = "chain" => \A i \in 1..Len(u) : u[i].provider # Mock /\ u[i].outcome \in Passing
    BY <1>7, <1>8, <1>9
  <1>14. Walks(c)'
    <2>1. call'[c].tried = u
      BY <1>2 DEF u
    <2> QED BY <1>2, <1>4, <1>8, <1>10, <1>11, <1>12, <1>13, <2>1 DEF Walks
  <1> QED BY <1>2, <1>3, <1>14

LEMMA InitWalk == Init => WalkInv
  <1> SUFFICES ASSUME Init PROVE WalkInv
    OBVIOUS
  <1>1. 0 \in 0..MaxCalls /\ Mock \in Providers
    BY CallAssumption DEF CallAssumption
  <1>2. NoCall(0) \in CallRecords
    BY <1>1, NewCall DEF Holds
  <1>3. call \in [Callers -> CallRecords] /\ costLog = {} /\ answers = {} /\ voted = {}
    BY <1>2 DEF Init
  <1>4. ASSUME NEW c \in Callers PROVE Walks(c)
    BY DEF Init, Walks, NoCall
  <1> QED BY <1>3, <1>4 DEF WalkInv

LEMMA StepWalk ==
  ASSUME WalkInv, [Next]_vars
  PROVE  WalkInv'
  <1>0. /\ call \in [Callers -> CallRecords]
        /\ costLog \subseteq Drafts /\ answers \subseteq Drafts /\ voted \subseteq Drafts
    BY DEF WalkInv
  <1>a. MaxCalls \in Nat /\ Mock \in Providers
    BY CallAssumption DEF CallAssumption
  <1>b. ASSUME NEW c \in Callers
        PROVE  call[c].n \in 0..MaxCalls /\ (call[c].step # "idle" => Id(c) \in CallIds)
    <2>1. call[c].n \in 0..MaxCalls
      BY <1>0 DEF CallRecords
    <2>2. call[c].step # "idle" => call[c].n \in 1..MaxCalls
      BY <2>1, <1>a DEF WalkInv, Walks
    <2> QED BY <2>1, <2>2 DEF Id, CallIds
  (* a call that has no chain, or has none any more *)
  <1>c. ASSUME NEW c \in Callers, NEW r \in CallRecords, call' = [call EXCEPT ![c] = r],
               r.tried = <<>>, r.step \notin {"chain", "vote", "log"},
               r.step # "idle" => r.n >= 1
        PROVE  call' \in [Callers -> CallRecords] /\ \A b \in Callers : Walks(b)'
    <2>1. call' \in [Callers -> CallRecords] /\ call'[c] = r
      BY <1>0, <1>c
    <2>2. ASSUME NEW b \in Callers, b # c PROVE Walks(b)'
      <3>1. call'[b] = call[b] /\ Walks(b)
        BY <1>0, <1>c, <2>2 DEF WalkInv
      <3> QED BY <3>1 DEF Walks, ChainOf
    <2>3. Walks(c)'
      BY <1>c, <2>1 DEF Walks
    <2> QED BY <2>1, <2>2, <2>3
  <1>d. ASSUME NEW c \in Callers, call[c].step = "chain", NEW outcome \in Outcomes
        PROVE  Tried(c, outcome) \in Tries /\ Turn(c) \in Providers
    <2>1. Turn(c) \in Providers /\ call[c].tried \in Tries
      BY <1>0, <1>d, TurnIsThere DEF CallRecords
    <2> QED BY <2>1 DEF Tried, Tries
  <1>1. ASSUME NEW c \in Callers, Begin(c) PROVE WalkInv'
    <2>1. PICK p \in Providers, within \in BOOLEAN, chained \in BOOLEAN :
            /\ p = Mock => within
            /\ call' = [call EXCEPT ![c] =
                 [NoCall(@.n + 1) EXCEPT !.step = IF within \/ chained THEN "chain" ELSE "returned",
                    !.primary = p, !.skip = ~within, !.chained = chained]]
      BY <1>1 DEF Begin
    <2>2. call[c].n + 1 \in 0..MaxCalls /\ call[c].n + 1 >= 1
      BY <1>a, <1>b, <1>1 DEF Begin
    <2> DEFINE step == IF within \/ chained THEN "chain" ELSE "returned"
               k == NoCall(call[c].n + 1)
               r == [k EXCEPT !.step = step, !.primary = p, !.skip = ~within, !.chained = chained]
    <2>3. Holds(r, step, call[c].n + 1, p, ~within, chained, <<>>, None)
      <3>1. Holds(k, "idle", call[c].n + 1, Mock, FALSE, TRUE, <<>>, None)
        BY <2>2, NewCall
      <3>2. k \in CallRecords /\ step \in CallSteps /\ (~within) \in BOOLEAN /\ None \in Providers \cup {None}
        BY <3>1 DEF Holds, CallSteps
      <3>3. Holds(r, step, k.n, p, ~within, chained, k.tried, k.provider)
        <4> HIDE DEF k, step
        <4> QED BY <3>2, AssignedNew
      <3> HIDE DEF k, step, r
      <3> QED BY <3>1, <3>3 DEF Holds
    <2>4. call' = [call EXCEPT ![c] = r]
      BY <2>1
    <2> HIDE DEF r
    <2>5. /\ call' \in [Callers -> CallRecords] /\ call'[c] = r
          /\ r.step = step /\ r.n = call[c].n + 1 /\ r.primary = p /\ r.skip = ~within
          /\ r.chained = chained /\ r.tried = <<>>
      BY <1>0, <2>3, <2>4 DEF Holds
    <2>6. ASSUME NEW b \in Callers, b # c PROVE Walks(b)'
      <3>1. call'[b] = call[b] /\ Walks(b)
        BY <1>0, <2>4, <2>6 DEF WalkInv
      <3> QED BY <3>1 DEF Walks, ChainOf
    <2>7. Walks(c)'
      <3>1. /\ r.step \notin {"vote", "log"} /\ r.n >= 1
            /\ r.step = "chain" => (r.skip => r.chained /\ r.primary # Mock)
        <4>1. step \notin {"vote", "log"} /\ (step = "chain" /\ ~within => chained)
          OBVIOUS
        <4> HIDE DEF step
        <4>2. r.n >= 1
          BY <2>2, <2>5
        <4> QED BY <2>1, <2>5, <4>1, <4>2
      <3>2. r.step = "chain" => Len(ChainOf(c)') >= 1 /\ Len(ChainOf(c)') \in Nat
        <4> SUFFICES ASSUME r.step = "chain" PROVE Len(ChainOf(c)') >= 1 /\ Len(ChainOf(c)') \in Nat
          OBVIOUS
        <4>1. /\ r.primary \in Providers /\ r.chained \in BOOLEAN /\ r.skip \in BOOLEAN
              /\ r.skip => r.chained /\ r.primary # Mock
          BY <2>5, <3>1
        <4>2. ChainOf(c)' = IF ~r.chained THEN <<r.primary>>
                            ELSE IF r.skip THEN Tail(Resolved(r.primary)) ELSE Resolved(r.primary)
          BY <2>5 DEF ChainOf
        <4> DEFINE s == Resolved(r.primary)
        <4>3. /\ s \in Seq(Providers) /\ Len(s) >= 1 /\ s[1] = r.primary
              /\ \E i \in 1..Len(s) : s[i] = Mock
          BY <4>1, ResolvedIsGood
        <4> HIDE DEF s
        <4>4. r.skip => Len(s) >= 2
          BY <4>1, <4>3
        <4>5. s # <<>> /\ Len(s) \in Nat
          BY <4>3
        <4>6. r.skip => Len(Tail(s)) >= 1 /\ Len(Tail(s)) \in Nat
          BY <4>3, <4>4, <4>5
        <4>7. Len(<<r.primary>>) = 1
          OBVIOUS
        <4> QED BY <4>1, <4>2, <4>3, <4>5, <4>6, <4>7 DEF s
      <3>3. Len(<<>>) = 0 /\ 1..0 = {}
        OBVIOUS
      <3> HIDE DEF step
      <3> QED BY <2>5, <3>1, <3>2, <3>3 DEF Walks
    <2> QED BY <1>0, <1>1, <2>5, <2>6, <2>7 DEF WalkInv, Begin
  <1>2. ASSUME NEW c \in Callers, SkipProvider(c) PROVE WalkInv'
    <2> DEFINE r == [call[c] EXCEPT !.tried = Tried(c, "unavailable")]
    <2>1. call[c] \in CallRecords /\ call[c].step = "chain" /\ "unavailable" \in Outcomes
      BY <1>0, <1>2 DEF SkipProvider, Outcomes
    <2>2. Holds(r, "chain", call[c].n, call[c].primary, call[c].skip, call[c].chained,
                Tried(c, "unavailable"), call[c].provider)
      BY <1>d, <2>1, AssignedTried
    <2>3. call' = [call EXCEPT ![c] = r]
      BY <1>2 DEF SkipProvider
    <2> HIDE DEF r
    <2>4. call' \in [Callers -> CallRecords] /\ \A b \in Callers : Walks(b)'
      BY <1>2, <2>1, <2>2, <2>3, Asked DEF SkipProvider, Passing
    <2> QED BY <1>0, <1>2, <2>4 DEF WalkInv, SkipProvider
  <1>3. ASSUME NEW c \in Callers, Answer(c) PROVE WalkInv'
    <2> DEFINE r == [call[c] EXCEPT !.tried = Tried(c, "ok"), !.provider = Turn(c), !.step = "vote"]
    <2>1. call[c] \in CallRecords /\ call[c].step = "chain" /\ "ok" \in Outcomes /\ "vote" \in CallSteps
      BY <1>0, <1>3 DEF Answer, Outcomes, CallSteps
    <2>2. Holds(r, "vote", call[c].n, call[c].primary, call[c].skip, call[c].chained,
                Tried(c, "ok"), Turn(c))
      BY <1>d, <2>1, Assigned
    <2>3. call' = [call EXCEPT ![c] = r]
      BY <1>3 DEF Answer
    <2> HIDE DEF r
    <2>4. call' \in [Callers -> CallRecords] /\ \A b \in Callers : Walks(b)'
      BY <2>1, <2>2, <2>3, Asked
    <2>5. answers' \subseteq Drafts
      BY <1>0, <1>3, <1>b, <1>d, <2>1 DEF Answer, Drafts
    <2> QED BY <1>0, <1>3, <2>4, <2>5 DEF WalkInv, Answer
  <1>9. ASSUME NEW c \in Callers, KeepAnswer(c) \/ ReplaceAnswer(c) PROVE WalkInv'
    <2> DEFINE r == [call[c] EXCEPT !.step = "log"]
    <2>1. call[c] \in CallRecords /\ call[c].step = "vote" /\ "log" \in CallSteps /\ Walks(c)
      BY <1>0, <1>9 DEF KeepAnswer, ReplaceAnswer, CallSteps, WalkInv
    <2>2. Holds(r, "log", call[c].n, call[c].primary, call[c].skip, call[c].chained,
                call[c].tried, call[c].provider)
      BY <2>1, AssignedStep
    <2>3. call' = [call EXCEPT ![c] = r]
      BY <1>9 DEF KeepAnswer, ReplaceAnswer
    <2> HIDE DEF r
    <2>4. call' \in [Callers -> CallRecords] /\ call'[c] = r
      BY <1>0, <2>2, <2>3 DEF Holds
    <2>5. ASSUME NEW b \in Callers, b # c PROVE Walks(b)'
      <3>1. call'[b] = call[b] /\ Walks(b)
        BY <1>0, <2>3, <2>5 DEF WalkInv
      <3> QED BY <3>1 DEF Walks, ChainOf
    <2>6. Walks(c)'
      <3>1. ChainOf(c)' = ChainOf(c)
        BY <2>2, <2>4 DEF ChainOf, Holds
      <3> QED BY <2>1, <2>2, <2>4, <3>1 DEF Walks, Holds
    <2>7. voted' \subseteq Drafts
      <3>1. ToSet(Resolved(call[c].primary)) \subseteq Providers
        <4> DEFINE s == Resolved(call[c].primary)
        <4>1. s \in Seq(Providers)
          BY <2>1, ResolvedIsGood DEF CallRecords
        <4> HIDE DEF s
        <4>2. ToSet(s) \subseteq Providers
          BY <4>1 DEF ToSet
        <4> QED BY <4>2 DEF s
      <3>2. Id(c) \in CallIds
        BY <1>b, <2>1
      <3> QED BY <1>0, <1>9, <3>1, <3>2 DEF KeepAnswer, ReplaceAnswer, Drafts
    <2> QED BY <1>0, <1>9, <2>4, <2>5, <2>6, <2>7 DEF WalkInv, KeepAnswer, ReplaceAnswer
  <1>4. ASSUME NEW c \in Callers, NEW outcome \in {"transport", "request"}, Fail(c, outcome)
        PROVE  WalkInv'
    <2> DEFINE step == IF call[c].chained /\ Degrades(outcome) /\ Turn(c) # Mock
                       THEN "chain" ELSE "log"
               r == [call[c] EXCEPT !.tried = Tried(c, outcome), !.step = step]
    <2>1. call[c] \in CallRecords /\ call[c].step = "chain" /\ outcome \in Outcomes
            /\ step \in CallSteps /\ step \in {"chain", "vote", "log"}
      BY <1>0, <1>4 DEF Fail, Outcomes, CallSteps
    <2>2. call' = [call EXCEPT ![c] = r]
      BY <1>4 DEF Fail
    <2>3. step = "chain" => outcome \in Passing /\ Turn(c) # Mock /\ call[c].chained
      BY DEF Degrades, Passing
    <2> HIDE DEF step
    <2>4. Holds(r, step, call[c].n, call[c].primary, call[c].skip, call[c].chained,
                Tried(c, outcome), call[c].provider)
      BY <1>d, <2>1, Assigned
    <2> HIDE DEF r
    <2>5. call' \in [Callers -> CallRecords] /\ \A b \in Callers : Walks(b)'
      BY <2>1, <2>2, <2>3, <2>4, Asked
    <2>6. UNCHANGED <<costLog, answers, voted>>
      BY <1>4 DEF Fail
    <2> QED BY <1>0, <2>5, <2>6 DEF WalkInv
  <1>5. ASSUME NEW c \in Callers, LogCost(c) PROVE WalkInv'
    <2> DEFINE step == IF call[c].provider = None THEN "returned" ELSE "draft"
               k == NoCall(call[c].n)
               r == [k EXCEPT !.step = step, !.primary = call[c].primary,
                              !.provider = call[c].provider]
    <2>1. call[c] \in CallRecords /\ call[c].step = "log" /\ call[c].n >= 1
      BY <1>0, <1>5 DEF LogCost, WalkInv, Walks
    <2>2. call' = [call EXCEPT ![c] = r]
      BY <1>5 DEF LogCost
    <2>3. Holds(r, step, call[c].n, call[c].primary, FALSE, TRUE, <<>>, call[c].provider)
      <3>1. Holds(k, "idle", call[c].n, Mock, FALSE, TRUE, <<>>, None)
        BY <1>b, NewCall
      <3>2. k \in CallRecords /\ step \in CallSteps /\ call[c].primary \in Providers
              /\ call[c].provider \in Providers \cup {None}
        BY <2>1, <3>1 DEF Holds, CallSteps, CallRecords
      <3>3. Holds(r, step, k.n, call[c].primary, k.skip, k.chained, k.tried, call[c].provider)
        <4> HIDE DEF k, step
        <4> QED BY <3>2, AssignedNew
      <3> HIDE DEF k, step, r
      <3> QED BY <3>1, <3>3 DEF Holds
    <2> HIDE DEF r
    <2>4. call' \in [Callers -> CallRecords] /\ \A b \in Callers : Walks(b)'
      BY <1>c, <2>1, <2>2, <2>3 DEF Holds
    <2>5. Logged(c) \in Drafts
      BY <1>a, <1>b, <2>1 DEF Logged, Drafts, CallRecords
    <2> QED BY <1>0, <1>5, <2>4, <2>5 DEF WalkInv, LogCost
  <1>6. ASSUME NEW c \in Callers, NEW r \in CallRecords, call' = [call EXCEPT ![c] = r],
               r.n = call[c].n, call[c].n >= 1, r.tried = <<>>,
               r.step \in {"idle", "audit", "returned"}, UNCHANGED <<costLog, answers, voted>>
        PROVE  WalkInv'
    <2>1. call' \in [Callers -> CallRecords] /\ \A b \in Callers : Walks(b)'
      BY <1>c, <1>6
    <2> QED BY <1>0, <1>6, <2>1 DEF WalkInv
  <1>7. ASSUME NEW c \in Callers, RecordDraft(c) \/ Return(c) \/ Die(c) PROVE WalkInv'
    <2>1. call[c] \in CallRecords /\ call[c].n >= 1
          /\ (call[c].step = "audit" => call[c].tried = <<>>)
      BY <1>0, <1>7 DEF WalkInv, Walks, RecordDraft, Return, Die
    <2> DEFINE k == NoCall(call[c].n)
    <2>2. Holds(k, "idle", call[c].n, Mock, FALSE, TRUE, <<>>, None)
      BY <1>b, NewCall
    <2>3. CASE RecordDraft(c)
      <3> DEFINE r == [k EXCEPT !.step = "audit"]
      <3>1. call' = [call EXCEPT ![c] = r]
        BY <2>3 DEF RecordDraft
      <3> HIDE DEF k
      <3>2. Holds(r, "audit", call[c].n, Mock, FALSE, TRUE, <<>>, None)
        BY <2>2, AssignedStep DEF Holds, CallSteps
      <3> HIDE DEF r
      <3> QED BY <1>6, <2>1, <2>3, <3>1, <3>2 DEF RecordDraft, Holds
    <2>4. CASE Die(c)
      <3>1. call' = [call EXCEPT ![c] = k]
        BY <2>4 DEF Die
      <3> HIDE DEF k
      <3> QED BY <1>6, <2>1, <2>2, <2>4, <3>1 DEF Die, Holds
    <2>5. CASE Return(c)
      <3> DEFINE r == [call[c] EXCEPT !.step = "returned"]
      <3>1. call' = [call EXCEPT ![c] = r]
        BY <2>5 DEF Return
      <3>2. r \in CallRecords /\ r.n = call[c].n /\ r.tried = <<>> /\ r.step = "returned"
        BY <2>1, <2>5, AssignedStep DEF Holds, CallSteps, Return
      <3> HIDE DEF r
      <3> QED BY <1>6, <2>1, <2>5, <3>1, <3>2 DEF Return
    <2> QED BY <1>7, <2>3, <2>4, <2>5
  <1>8. CASE UNCHANGED <<call, costLog, answers, voted>>
    BY <1>0, <1>8 DEF WalkInv, Walks, ChainOf
  <1> QED
    BY <1>1, <1>2, <1>3, <1>4, <1>5, <1>7, <1>8, <1>9
       DEF Next, vars, Chat, Finish, OtherRecords, Audit, AuditFails, NewDay

-----------------------------------------------------------------------------
(* A call *)

Fields == {"step", "n", "primary", "skip", "chained", "tried", "provider"}
Current(c, a) == a.call = Id(c)

CallTyped ==
  /\ DOMAIN call = Callers
  /\ \A c \in Callers :
       /\ DOMAIN call[c] = Fields /\ call[c].n \in Nat
       /\ call[c].step \in {"idle", "chain", "vote", "log", "draft", "audit", "returned"}

(* No call is answered or logged before its time. *)
OnlyPast ==
  \A a \in answers \cup costLog : \E c \in Callers, n \in Nat : a.call = <<c, n>> /\ n <= call[c].n
NotYet ==
  \A c \in Callers :
    /\ call[c].step = "chain" => ~\E a \in answers \cup costLog : a.call = Id(c)
    /\ call[c].step \in {"vote", "log"} => ~\E e \in costLog : e.call = Id(c)
(* While a call is being recorded its provider is the one that answered. *)
ProviderAnswered ==
  \A c \in Callers :
    /\ call[c].step = "chain" => call[c].provider = None
    /\ call[c].step = "log" =>
         IF call[c].provider = None THEN ~\E a \in answers : a.call = Id(c)
                                    ELSE Draft(c) \in answers
    /\ call[c].step \in {"vote", "draft"} => Draft(c) \in answers /\ call[c].provider # None
OneAnswer == \A a, b \in answers : a.call = b.call => a = b
CostIsTrue == \A a \in answers, e \in costLog : e.call = a.call => e = a

(* Only the answer of a call is voted on. *)
VotedOn == \A v \in voted : \E a \in answers : a.call = v.call

CallInv == CallTyped /\ VotedOn /\ OnlyPast /\ NotYet /\ ProviderAnswered /\ OneAnswer /\ CostIsTrue

LEMMA InitCall == Init => CallInv
  BY DEF Init, CallInv, CallTyped, OnlyPast, NotYet, ProviderAnswered, OneAnswer, CostIsTrue, VotedOn,
         NoCall, Fields, Id

(* A call that is over, or whose draft is in the audit log's hands, says no more. *)
LEMMA CallOver ==
  ASSUME CallInv, NEW c \in Callers, UNCHANGED <<costLog, answers, voted>>,
         DOMAIN call' = Callers, \A b \in Callers : b # c => call'[b] = call[b],
         DOMAIN call'[c] = Fields, call'[c].n = call[c].n,
         call'[c].step \in {"idle", "audit", "returned"}
  PROVE  CallInv'
  <1>1. CallTyped' /\ \A b \in Callers : call'[b].n = call[b].n
    BY DEF CallInv, CallTyped
  <1>2. OnlyPast' /\ NotYet' /\ OneAnswer' /\ CostIsTrue' /\ VotedOn'
    BY <1>1 DEF CallInv, OnlyPast, NotYet, OneAnswer, CostIsTrue, VotedOn, Id
  <1>3. ProviderAnswered'
    BY DEF CallInv, ProviderAnswered, Id, Draft
  <1> QED BY <1>1, <1>2, <1>3 DEF CallInv

(* Every step keeps what is known of calls; the audit log does not matter. *)
LEMMA StepCall ==
  ASSUME WalkInv, CallInv, [Next]_vars
  PROVE  CallInv'
  <1> USE DEF CallInv, CallTyped, OnlyPast, NotYet, ProviderAnswered, OneAnswer, CostIsTrue, VotedOn, Id, Draft, Fields
  <1>1. ASSUME NEW c \in Callers, Begin(c) PROVE CallInv'
    BY <1>1 DEF Begin, NoCall
  <1>2. ASSUME NEW c \in Callers, SkipProvider(c) PROVE CallInv'
    BY <1>2 DEF SkipProvider
  <1>3. ASSUME NEW c \in Callers, Answer(c) PROVE CallInv'
    <2>0. Turn(c) # None
      BY <1>3, TurnIsThere, CallAssumption DEF CallAssumption, Answer
    <2>1. CallTyped' /\ Id(c)' = Id(c) /\ call'[c].provider = Turn(c) /\ call'[c].step = "vote"
      BY <1>3 DEF Answer
    <2>2. \A b \in Callers : call'[b].n = call[b].n /\ (b # c => call'[b] = call[b])
      BY <1>3 DEF Answer
    <2>3. OnlyPast' /\ NotYet'
      BY <1>3, <2>1, <2>2 DEF Answer
    <2>4. ProviderAnswered'
      BY <1>3, <2>0, <2>1, <2>2 DEF Answer
    <2>5. OneAnswer' /\ CostIsTrue' /\ VotedOn'
      BY <1>3 DEF Answer
    <2> QED BY <2>1, <2>3, <2>4, <2>5
  <1>10. ASSUME NEW c \in Callers, KeepAnswer(c) \/ ReplaceAnswer(c) PROVE CallInv'
    <2>1. /\ DOMAIN call' = Callers /\ \A b \in Callers : b # c => call'[b] = call[b]
          /\ DOMAIN call'[c] = Fields /\ call'[c].n = call[c].n /\ call'[c].step = "log"
          /\ call'[c].provider = call[c].provider /\ call[c].step = "vote"
          /\ UNCHANGED <<costLog, answers>>
      BY <1>10 DEF KeepAnswer, ReplaceAnswer
    <2>2. CallTyped' /\ OnlyPast' /\ NotYet' /\ ProviderAnswered' /\ OneAnswer' /\ CostIsTrue'
      BY <2>1
    <2>3. VotedOn'
      <3>1. \A v \in voted' : v \in voted \/ v.call = Id(c)
        BY <1>10 DEF KeepAnswer, ReplaceAnswer
      <3>2. \E a \in answers : a.call = Id(c)
        <4>1. Draft(c) \in answers /\ Draft(c).call = Id(c)
          BY <2>1
        <4> QED BY <4>1
      <3> QED BY <2>1, <3>1, <3>2
    <2> QED BY <2>2, <2>3
  <1>4. ASSUME NEW c \in Callers, NEW outcome, Fail(c, outcome) PROVE CallInv'
    <2>1. /\ DOMAIN call' = Callers /\ \A b \in Callers : b # c => call'[b] = call[b]
          /\ DOMAIN call'[c] = Fields /\ call'[c].n = call[c].n /\ call'[c].step \in {"chain", "log"}
          /\ call'[c].provider = None /\ call[c].step = "chain"
      <3>1. call[c].provider = None /\ call[c].step = "chain"
        BY <1>4 DEF Fail
      <3> DEFINE step == IF call[c].chained /\ Degrades(outcome) /\ Turn(c) # Mock
                         THEN "chain" ELSE "log"
      <3>2. call' = [call EXCEPT ![c] = [@ EXCEPT !.tried = Tried(c, outcome), !.step = step]]
        BY <1>4 DEF Fail
      <3>3. step \in {"chain", "log"}
        OBVIOUS
      <3> HIDE DEF step
      <3> QED BY <3>1, <3>2, <3>3
    <2>2. UNCHANGED <<costLog, answers, voted>>
      BY <1>4 DEF Fail
    <2> QED BY <2>1, <2>2
  <1>5. ASSUME NEW c \in Callers, LogCost(c) PROVE CallInv'
    <2>1. CallTyped'
      BY <1>5 DEF LogCost, NoCall
    <2>2. OnlyPast' /\ NotYet'
      BY <1>5, <2>1 DEF LogCost, Logged, NoCall
    <2>3. ProviderAnswered'
      BY <1>5, <2>1 DEF LogCost, NoCall
    <2>4. OneAnswer' /\ VotedOn'
      BY <1>5 DEF LogCost
    <2>5. CostIsTrue'
      <3>1. \A a \in answers : a.call = Id(c) => a = Logged(c)
        <4>1. CASE call[c].provider = None
          BY <1>5, <4>1 DEF LogCost
        <4>2. CASE call[c].provider # None
          <5>1. Draft(c) \in answers /\ Draft(c) = Logged(c) /\ Draft(c).call = Id(c)
            BY <1>5, <4>2 DEF LogCost, Logged
          <5> QED BY <5>1
        <4> QED BY <4>1, <4>2
      <3>2. Logged(c).call = Id(c)
        BY DEF Logged
      <3> QED BY <1>5, <3>1, <3>2 DEF LogCost
    <2> QED
      BY <2>1, <2>2, <2>3, <2>4, <2>5
  <1>6. ASSUME NEW c \in Callers, RecordDraft(c) PROVE CallInv'
    <2>1. DOMAIN call'[c] = Fields /\ call'[c].n = call[c].n /\ call'[c].step = "audit"
      BY <1>6 DEF RecordDraft, NoCall
    <2> QED BY <1>6, <2>1, CallOver DEF RecordDraft
  <1>7. ASSUME NEW c \in Callers, Die(c) PROVE CallInv'
    <2>1. DOMAIN call'[c] = Fields /\ call'[c].n = call[c].n /\ call'[c].step = "idle"
      BY <1>7 DEF Die, NoCall
    <2> QED BY <1>7, <2>1, CallOver DEF Die
  <1>9. ASSUME NEW c \in Callers, Return(c) PROVE CallInv'
    <2>1. DOMAIN call'[c] = Fields /\ call'[c].n = call[c].n /\ call'[c].step = "returned"
      BY <1>9 DEF Return
    <2> QED BY <1>9, <2>1, CallOver DEF Return
  <1>8. ASSUME UNCHANGED <<call, costLog, answers, voted>> PROVE CallInv'
    BY <1>8
  <1> QED
    BY <1>1, <1>2, <1>3, <1>4, <1>5, <1>6, <1>7, <1>8, <1>9, <1>10
       DEF Next, vars, Chat, Finish, OtherRecords, Audit, AuditFails, NewDay

-----------------------------------------------------------------------------
(* Types of the audit log: what is in it, or on the way to it, is an answer or
   says nothing of calls. *)

Entries == [id: Nat, prev: Nat, body: answers \cup {None}]
Records == [step: {"idle", "opened", "locked", "anchored", "mirror"}, log: Logs, day: Days,
            id: Nat, prev: Nat, body: answers \cup {None}]
AuditTyped ==
  /\ files \in [Files -> Seq(Entries)]
  /\ lock \in [Files -> Writers \cup {None}]
  /\ today \in Days /\ records \in Nat
  /\ writer \in [Writers -> Records]
  /\ crossed \subseteq Logs /\ misread \subseteq Logs /\ mirrored \in BOOLEAN

LEMMA InitAudit == Init => AuditTyped
  <1>1. 1 \in Days
    BY AuditAssumption DEF AuditAssumption, Days
  <1>2. ASSUME Init PROVE writer \in [Writers -> Records]
    BY <1>1, <1>2 DEF Init, AuditInit, Records, NoRecord, Logs
  <1>3. ASSUME Init PROVE files \in [Files -> Seq(Entries)] /\ lock \in [Files -> Writers \cup {None}]
    BY <1>3 DEF Init, AuditInit
  <1>4. ASSUME Init PROVE today \in Days /\ records \in Nat /\ crossed \subseteq Logs
    BY <1>1, <1>4 DEF Init, AuditInit
  <1>5. ASSUME Init PROVE mirrored \in BOOLEAN /\ misread \subseteq Logs
    BY <1>5 DEF Init, AuditInit
  <1> QED
    BY <1>2, <1>3, <1>4, <1>5 DEF AuditTyped

LEMMA HashIsNatural ==
  ASSUME AuditTyped, NEW log \in Logs, NEW days, days \subseteq Days
  PROVE  HashOf(log, days) \in Nat
  <1> DEFINE W == Written(log, days)
  <1>1. CASE W = {}
    BY <1>1 DEF HashOf
  <1>2. CASE W # {}
    <2>1. W \subseteq Days /\ Newest(W) \in W
      BY <1>2, NewestIsLast DEF Written
    <2>2. files[<<log, Newest(W)>>] \in Seq(Entries) /\ files[<<log, Newest(W)>>] # <<>>
      BY <2>1 DEF AuditTyped, Files, Written
    <2>3. Last(files[<<log, Newest(W)>>]) \in Entries
      BY <2>2 DEF Last
    <2> QED
      BY <1>2, <2>3 DEF HashOf, Entries
  <1> QED BY <1>1, <1>2

LEMMA AnchorRead ==
  ASSUME AuditTyped, NEW w \in Writers, ReadAnchor(w)
  PROVE  /\ \A v \in Writers : v # w => writer'[v] = writer[v]
         /\ writer'[w].step = "anchored" /\ writer'[w].log = writer[w].log
         /\ writer'[w].day = writer[w].day /\ writer'[w].body = writer[w].body
         /\ writer'[w] \in Records
  <1>1. writer \in [Writers -> Records] /\ writer[w].log \in Logs
    BY DEF AuditTyped, Records
  <1>2. PICK days \in SUBSET Days :
          writer' = [writer EXCEPT ![w] =
            [@ EXCEPT !.step = "anchored", !.prev = HashOf(writer[w].log, days)]]
    BY DEF ReadAnchor
  <1>3. HashOf(writer[w].log, days) \in Nat
    BY <1>1, HashIsNatural
  <1> QED BY <1>1, <1>2, <1>3 DEF Records

(* What a step of a call does to the audit log. *)
Recorded(w) == \E log \in Logs, body \in answers \cup {None} : Record(w, log, body)
AuditStep ==
  \/ UNCHANGED auditVars
  \/ \E w \in Writers : Recorded(w) \/ Recording(w) \/ Abandon(w)
  \/ Midnight

(* The steps of a call, once it is answered, that leave the audit log alone. *)
Quietly(c) == KeepAnswer(c) \/ ReplaceAnswer(c) \/ LogCost(c) \/ Return(c)

LEMMA StepIsAuditStep ==
  ASSUME CallInv, [Next]_vars
  PROVE  AuditStep /\ answers \subseteq answers'
  <1>0. Callers \subseteq Writers /\ Others \subseteq Writers
    BY CallAssumption DEF CallAssumption
  <1>1. ASSUME NEW c \in Callers, RecordDraft(c) PROVE AuditStep /\ answers \subseteq answers'
    <2>1. Draft(c) \in answers
      BY <1>1 DEF RecordDraft, CallInv, ProviderAnswered
    <2> QED
      BY <1>0, <1>1, <2>1 DEF RecordDraft, AuditStep, Recorded, Logs
  <1>2. ASSUME NEW c \in Callers, Die(c) PROVE AuditStep /\ answers \subseteq answers'
    BY <1>0, <1>2 DEF Die, AuditStep
  <1>3. ASSUME NEW c \in Callers, Begin(c) \/ Chat(c) \/ Quietly(c)
        PROVE  AuditStep /\ answers \subseteq answers'
    BY <1>3 DEF Begin, Chat, SkipProvider, Answer, Fail, Quietly, KeepAnswer, ReplaceAnswer, LogCost,
                Return, AuditStep
  <1>4. ASSUME NEW w \in Others, OtherRecords(w) PROVE AuditStep /\ answers \subseteq answers'
    BY <1>0, <1>4 DEF OtherRecords, AuditStep, Recorded
  <1>5. ASSUME NEW w \in Writers, Audit(w) \/ AuditFails(w) PROVE AuditStep /\ answers \subseteq answers'
    BY <1>5 DEF Audit, AuditFails, AuditStep
  <1>6. ASSUME NewDay \/ UNCHANGED vars PROVE AuditStep /\ answers \subseteq answers'
    BY <1>6 DEF NewDay, vars, AuditStep
  <1> QED
    BY <1>1, <1>2, <1>3, <1>4, <1>5, <1>6 DEF Next, Finish, Quietly

LEMMA StepTyped ==
  ASSUME AuditTyped, AuditStep, answers \subseteq answers'
  PROVE  AuditTyped'
  <1> USE DEF AuditTyped
  <1>0. /\ Entries \subseteq Entries' /\ Records \subseteq Records'
        /\ Seq(Entries) \subseteq Seq(Entries')
    <2>1. Entries \subseteq Entries' /\ Records \subseteq Records'
      BY DEF Entries, Records
    <2> HIDE DEF AuditTyped
    <2> QED
      BY <2>1
  <1>1. ASSUME NEW w \in Writers, Recorded(w) PROVE AuditTyped'
    BY <1>0, <1>1 DEF Recorded, Record, Records
  <1>2. ASSUME NEW w \in Writers, TakeLock(w) PROVE AuditTyped'
    <2>1. writer[w] \in Records /\ FileOf(w) \in Files
      BY DEF FileOf, Files, Records
    <2> QED
      BY <1>0, <1>2, <2>1 DEF TakeLock, Goto, Records
  <1>3. ASSUME NEW w \in Writers, ReadAnchor(w) PROVE AuditTyped'
    <2>1. writer[w].log \in Logs
      BY DEF Records
    <2>2. writer' \in [Writers -> Records]
      <3>1. \A v \in Writers : writer'[v] \in Records
        BY <1>3, AnchorRead
      <3>2. \E v : writer' = [writer EXCEPT ![w] = v]
        BY <1>3 DEF ReadAnchor
      <3> QED BY <3>1, <3>2
    <2> QED
      BY <1>0, <1>3, <2>1, <2>2 DEF ReadAnchor
  <1>4. ASSUME NEW w \in Writers, WriteLine(w) PROVE AuditTyped'
    <2>1. Line(w) \in Entries /\ FileOf(w) \in Files /\ writer[w] \in Records
      BY DEF FileOf, Files, Records, Line, Entries
    <2>2. files' \in [Files -> Seq(Entries)]
      BY <1>4, <2>1 DEF WriteLine
    <2>3. Released(w) \in [Files -> Writers \cup {None}]
      BY DEF Released
    <2>4. NoRecord \in Records
      BY AuditAssumption DEF AuditAssumption, NoRecord, Records, Days, Logs
    <2>5. writer' \in [Writers -> Records]
      BY <1>4, <2>1, <2>4 DEF WriteLine, Records
    <2> QED
      BY <1>0, <1>4, <2>1, <2>2, <2>3, <2>5 DEF WriteLine, Records
  <1>5. ASSUME NEW w \in Writers, Mirror(w) PROVE AuditTyped'
    <2>1. Line(w) \in Entries /\ <<Global, writer[w].day>> \in Files
      BY DEF Files, Records, Line, Entries, Logs
    <2>2. files' \in [Files -> Seq(Entries)]
      BY <1>5, <2>1 DEF Mirror
    <2>4. NoRecord \in Records
      BY AuditAssumption DEF AuditAssumption, NoRecord, Records, Days, Logs
    <2> QED
      BY <1>0, <1>5, <2>2, <2>4 DEF Mirror
  <1>6. ASSUME NEW w \in Writers, Abandon(w) PROVE AuditTyped'
    <2>3. Released(w) \in [Files -> Writers \cup {None}]
      BY DEF Released
    <2>4. NoRecord \in Records
      BY AuditAssumption DEF AuditAssumption, NoRecord, Records, Days, Logs
    <2> QED
      BY <1>0, <1>6, <2>3, <2>4 DEF Abandon
  <1>7. ASSUME Midnight PROVE AuditTyped'
    BY <1>0, <1>7, AuditAssumption DEF AuditAssumption, Midnight, Days
  <1>8. ASSUME UNCHANGED auditVars PROVE AuditTyped'
    BY <1>0, <1>8 DEF auditVars
  <1> QED
    BY <1>1, <1>2, <1>3, <1>4, <1>5, <1>6, <1>7, <1>8 DEF AuditStep, Recording

-----------------------------------------------------------------------------
(* The chain *)

(* Nothing is dated in the future. *)
Dated ==
  /\ \A w \in Writers : writer[w].day <= today
  /\ \A f \in Files : files[f] # <<>> => f[2] <= today
Critical(w) == At(w, "locked") \/ At(w, "anchored")
Locked == \A w \in Writers : Critical(w) => lock[FileOf(w)] = w
(* Logs the property leaves out *)
Excused(log) == log \in crossed \cup misread \/ (log = Global /\ mirrored)
(* Who has read the anchor of today's file still has the newest hash. *)
Anchored ==
  \A w \in Writers :
    At(w, "anchored") /\ writer[w].day = today /\ ~Excused(writer[w].log)
      => writer[w].prev = LastHash(writer[w].log)

ChainInv == Dated /\ Locked /\ Anchored /\ ChainVerifies

LEMMA InitChain == Init => ChainInv
  <1> SUFFICES ASSUME Init PROVE ChainInv
    OBVIOUS
  <1> USE DEF Init, AuditInit, NoRecord
  <1>1. Dated /\ Locked /\ Anchored
    BY DEF Dated, Locked, Critical, Anchored, At
  <1>2. ChainVerifies
    BY DEF ChainVerifies, Verifies, Files
  <1> QED BY <1>1, <1>2 DEF ChainInv

(* The newest hash among some days depends on the files of these days only. *)
LEMMA HashKept ==
  ASSUME NEW log, NEW days, days \subseteq Days,
         \A d \in days : files'[<<log, d>>] = files[<<log, d>>]
  PROVE  HashOf(log, days)' = HashOf(log, days)
  <1>1. Written(log, days)' = Written(log, days)
    BY DEF Written
  <1>2. CASE Written(log, days) = {}
    BY <1>1, <1>2 DEF HashOf
  <1>3. CASE Written(log, days) # {}
    <2>1. Newest(Written(log, days)) \in days
      BY <1>3, NewestIsLast DEF Written
    <2> QED
      BY <1>1, <1>3, <2>1 DEF HashOf
  <1> QED BY <1>2, <1>3

(* A step that leaves the files of a log alone keeps its chain. *)
LEMMA ChainKept ==
  ASSUME NEW log, \A d \in Days : files'[<<log, d>>] = files[<<log, d>>]
  PROVE  Verifies(log)' <=> Verifies(log)
  <1>1. \A d \in Days : HashOf(log, 1..(d - 1))' = HashOf(log, 1..(d - 1))
    <2> SUFFICES ASSUME NEW d \in Days PROVE HashOf(log, 1..(d - 1))' = HashOf(log, 1..(d - 1))
      OBVIOUS
    <2>1. 1..(d - 1) \subseteq Days
      BY AuditAssumption DEF AuditAssumption, Days
    <2> QED BY <2>1, HashKept
  <1> QED BY <1>1 DEF Verifies

(* Appending a line to today's file behind the newest hash keeps the chain. *)
LEMMA ChainGrows ==
  ASSUME AuditTyped, Dated, NEW log \in Logs, Verifies(log), NEW line \in Entries,
         line.prev = LastHash(log),
         files' = [files EXCEPT ![<<log, today>>] = Append(@, line)]
  PROVE  Verifies(log)'
  <1> DEFINE file(d) == files[<<log, d>>]
  <1>0. /\ today \in Days /\ Days \subseteq Nat /\ \A d \in Days : 1..(d - 1) \subseteq Days
        /\ \A d \in Days : <<log, d>> \in Files /\ file(d) \in Seq(Entries)
    BY AuditAssumption DEF AuditAssumption, AuditTyped, Days, Files
  <1>1. \A d \in Days : d # today => files'[<<log, d>>] = file(d)
    BY <1>0 DEF AuditTyped
  <1>2. files'[<<log, today>>] = Append(file(today), line)
    BY <1>0 DEF AuditTyped
  <1>3. \A d \in Days : today < d => file(d) = <<>>
    BY <1>0 DEF Dated
  <1>4. \A d \in Days : d <= today => HashOf(log, 1..(d - 1))' = HashOf(log, 1..(d - 1))
    <2> SUFFICES ASSUME NEW d \in Days, d <= today
                 PROVE  HashOf(log, 1..(d - 1))' = HashOf(log, 1..(d - 1))
      OBVIOUS
    <2>1. \A x \in 1..(d - 1) : x \in Days /\ x # today
      BY <1>0
    <2>2. \A x \in 1..(d - 1) : files'[<<log, x>>] = files[<<log, x>>]
      BY <1>1, <2>1
    <2> QED BY <1>0, <2>2, HashKept
  <1>5. file(today) = <<>> => line.prev = HashOf(log, 1..(today - 1))
    <2> SUFFICES ASSUME file(today) = <<>> PROVE line.prev = HashOf(log, 1..(today - 1))
      OBVIOUS
    <2>1. Written(log, Days) = Written(log, 1..(today - 1))
      <3>1. \A d \in Days : file(d) # <<>> => d \in 1..(today - 1)
        BY <1>0, <1>3 DEF Days
      <3> QED BY <1>0, <3>1 DEF Written
    <2> QED BY <2>1 DEF LastHash, HashOf
  <1>6. file(today) # <<>> => line.prev = file(today)[Len(file(today))].id
    <2> SUFFICES ASSUME file(today) # <<>> PROVE line.prev = file(today)[Len(file(today))].id
      OBVIOUS
    <2> DEFINE W == Written(log, Days)
    <2>1. today \in W /\ W \subseteq Days /\ \A x \in W : x <= today
      BY <1>0, <1>3 DEF Written
    <2>2. Newest(W) \in W /\ today <= Newest(W)
      BY <2>1, NewestIsLast
    <2>3. Newest(W) = today
      <3> DEFINE n == Newest(W)
      <3>1. n \in Nat /\ today \in Nat /\ n <= today /\ today <= n
        BY <1>0, <2>1, <2>2
      <3> HIDE DEF n
      <3>2. n = today
        BY <3>1
      <3> QED BY <3>2 DEF n
    <2> QED BY <2>1, <2>3 DEF LastHash, HashOf, Last
  <1> SUFFICES ASSUME NEW d \in Days, NEW i \in DOMAIN files'[<<log, d>>]
               PROVE  files'[<<log, d>>][i].prev =
                        IF i = 1 THEN HashOf(log, 1..(d - 1))' ELSE files'[<<log, d>>][i - 1].id
    BY DEF Verifies
  <1>7. CASE d # today
    BY <1>0, <1>1, <1>3, <1>4, <1>7 DEF Verifies
  <1>8. CASE d = today /\ i <= Len(file(today))
    <2>1. /\ i \in DOMAIN file(today) /\ files'[<<log, d>>][i] = file(today)[i]
          /\ i # 1 => files'[<<log, d>>][i - 1] = file(today)[i - 1]
      BY <1>0, <1>2, <1>8
    <2>2. file(today)[i].prev =
            IF i = 1 THEN HashOf(log, 1..(today - 1)) ELSE file(today)[i - 1].id
      BY <1>0, <2>1 DEF Verifies
    <2>3. HashOf(log, 1..(d - 1))' = HashOf(log, 1..(today - 1))
      <3>1. today \in Nat /\ d = today
        BY <1>0, <1>8
      <3> QED BY <1>4, <3>1
    <2> HIDE DEF file
    <2>4. CASE i = 1
      BY <2>1, <2>2, <2>3, <2>4
    <2>5. CASE i # 1
      BY <2>1, <2>2, <2>5
    <2> QED BY <2>4, <2>5
  <1>9. CASE d = today /\ i > Len(file(today))
    <2>1. /\ i = Len(file(today)) + 1 /\ files'[<<log, d>>][i] = line
          /\ i = 1 <=> file(today) = <<>>
          /\ i # 1 => files'[<<log, d>>][i - 1] = file(today)[Len(file(today))]
      BY <1>0, <1>2, <1>9
    <2>2. HashOf(log, 1..(d - 1))' = HashOf(log, 1..(today - 1))
      <3>1. today \in Nat /\ d = today
        BY <1>0, <1>9
      <3> QED BY <1>4, <3>1
    <2> HIDE DEF file
    <2>3. CASE i = 1
      BY <1>5, <2>1, <2>2, <2>3
    <2>4. CASE i # 1
      BY <1>6, <2>1, <2>4
    <2> QED BY <2>3, <2>4
  <1> QED BY <1>0, <1>2, <1>7, <1>8, <1>9

(* Steps that write nothing, on the day they begin *)
Quiet == UNCHANGED <<files, today, crossed, mirrored>> /\ misread \subseteq misread'

LEMMA QuietKeeps ==
  ASSUME ChainInv, Quiet
  PROVE  /\ ChainVerifies'
         /\ \A log : LastHash(log)' = LastHash(log) /\ (Excused(log) => Excused(log)')
  <1>1. \A log : LastHash(log)' = LastHash(log) /\ (Excused(log) => Excused(log)')
    BY DEF Quiet, LastHash, HashOf, Written, Excused
  <1>2. \A log \in Logs : Verifies(log)' <=> Verifies(log)
    BY ChainKept DEF Quiet
  <1> QED BY <1>1, <1>2 DEF ChainInv, ChainVerifies, Quiet

LEMMA QuietStep ==
  ASSUME AuditTyped, AuditTyped', ChainInv, NEW w \in Writers,
         Recorded(w) \/ TakeLock(w) \/ ReadAnchor(w) \/ Abandon(w)
  PROVE  ChainInv'
  <1>1. Quiet
    BY DEF Quiet, Recorded, Record, TakeLock, ReadAnchor, Abandon
  <1>2. /\ ChainVerifies'
        /\ \A log : LastHash(log)' = LastHash(log) /\ (Excused(log) => Excused(log)')
    BY <1>1, QuietKeeps
  <1>3. /\ \A v \in Writers : writer[v] \in Records /\ FileOf(v) \in Files
        /\ \A v \in Writers : v # w => writer'[v] = writer[v]
        /\ None \notin Writers /\ today \in Nat /\ 1 <= today
    <2>1. \A v \in Writers : writer[v] \in Records /\ FileOf(v) \in Files
      BY DEF AuditTyped, FileOf, Files, Records
    <2>2. \A v \in Writers : v # w => writer'[v] = writer[v]
      BY AnchorRead DEF AuditTyped, Recorded, Record, TakeLock, Goto, Abandon
    <2>3. None \notin Writers /\ today \in Nat /\ 1 <= today
      BY AuditAssumption DEF AuditAssumption, AuditTyped, Days
    <2> QED BY <2>1, <2>2, <2>3
  <1>4. Dated'
    <2>1. writer'[w].day \in {writer[w].day, today, 1}
      BY <1>3, AnchorRead DEF AuditTyped, Records, Recorded, Record, TakeLock, Goto, Abandon, NoRecord
    <2>2. \A v \in Writers : writer'[v].day <= today
      BY <1>3, <2>1 DEF ChainInv, Dated
    <2> QED
      BY <1>1, <2>2 DEF ChainInv, Dated, Quiet
  <1>5. Locked'
    <2>0. ReadAnchor(w) =>
            /\ \A v \in Writers : FileOf(v)' = FileOf(v)
            /\ \A v \in Writers : Critical(v)' <=> Critical(v)
            /\ lock' = lock
      BY <1>3, AnchorRead DEF ReadAnchor, FileOf, Critical, At
    <2> USE <1>3 DEF ChainInv, Locked, Critical, At, FileOf, AuditTyped, Records
    <2>1. CASE Recorded(w)
      BY <2>1 DEF Recorded, Record
    <2>2. CASE TakeLock(w)
      BY <2>2 DEF TakeLock, Goto, IsFree
    <2>3. CASE ReadAnchor(w)
      BY <2>0, <2>3
    <2>4. CASE Abandon(w)
      BY <2>4 DEF Abandon, Released, NoRecord
    <2> QED BY <2>1, <2>2, <2>3, <2>4
  <1>6. Anchored'
    <2> SUFFICES ASSUME NEW v \in Writers,
                        At(v, "anchored")', (writer[v].day = today)', ~Excused(writer[v].log)'
                 PROVE  (writer[v].prev = LastHash(writer[v].log))'
      BY DEF Anchored
    <2>1. CASE v # w
      BY <1>1, <1>2, <1>3, <2>1 DEF ChainInv, Anchored, At, Quiet
    <2>2. CASE v = w
      <3>1. ReadAnchor(w)
        <4>1. Recorded(w) => writer'[w].step = "opened"
          BY DEF AuditTyped, Recorded, Record
        <4>2. TakeLock(w) => writer'[w].step = "locked"
          BY <1>3 DEF AuditTyped, TakeLock, Goto, Records
        <4>3. Abandon(w) => writer'[w].step = "idle"
          BY DEF AuditTyped, Abandon, NoRecord
        <4> QED BY <2>2, <4>1, <4>2, <4>3 DEF At
      <3>3. writer'[w].log = writer[w].log /\ writer[w].log \in Logs
        BY <1>3, <3>1, AnchorRead DEF Records
      <3>4. writer[w].log \notin misread'
        BY <2>2, <3>3 DEF Excused
      <3>5. writer'[w].prev = LastHash(writer[w].log)
        BY <3>1, <3>4 DEF ReadAnchor
      <3> QED BY <1>2, <2>2, <3>3, <3>5
    <2> QED BY <2>1, <2>2
  <1> QED BY <1>2, <1>4, <1>5, <1>6 DEF ChainInv

LEMMA NewDayStep ==
  ASSUME AuditTyped, ChainInv, Midnight
  PROVE  ChainInv'
  <1>1. today \in Nat /\ today' = today + 1 /\ \A w \in Writers : writer[w].day \in Nat
    BY AuditAssumption DEF AuditAssumption, Midnight, AuditTyped, Records, Days
  <1>2. Dated'
    <2>1. \A f \in Files : f[2] \in Nat
      BY AuditAssumption DEF AuditAssumption, Files, Days
    <2> QED BY <1>1, <2>1 DEF ChainInv, Dated, Midnight
  <1>3. Locked'
    BY DEF ChainInv, Locked, Critical, At, FileOf, Midnight
  <1>4. Anchored'
    BY <1>1 DEF ChainInv, Dated, Anchored, Midnight
  <1>5. \A log \in Logs : Verifies(log)' <=> Verifies(log)
    BY ChainKept DEF Midnight
  <1> QED
    BY <1>2, <1>3, <1>4, <1>5 DEF ChainInv, ChainVerifies, Midnight

LEMMA WriteStep ==
  ASSUME AuditTyped, ChainInv, NEW w \in Writers, WriteLine(w)
  PROVE  ChainInv'
  <1> PICK log \in Logs : log = writer[w].log
    BY DEF AuditTyped, Records
  <1>0. /\ writer[w] \in Records /\ FileOf(w) = <<log, writer[w].day>> /\ FileOf(w) \in Files
        /\ Line(w) \in Entries /\ Line(w).prev = writer[w].prev /\ log \in Logs
        /\ Days \subseteq Nat /\ None \notin Writers
    BY AuditAssumption
       DEF AuditAssumption, AuditTyped, FileOf, Files, Records, Line, Entries, Days
  <1>1. \A v \in Writers : v # w => writer'[v] = writer[v] /\ (Critical(v) => FileOf(v) # FileOf(w))
    BY <1>0 DEF WriteLine, AuditTyped, ChainInv, Locked, Critical, At
  <1>2. ~Critical(w)' /\ writer'[w].day <= today'
    <2>1. today \in Nat /\ 1 <= today /\ today' = today
      BY AuditAssumption DEF AuditAssumption, AuditTyped, Days, WriteLine
    <2>2. writer'[w].step \in {"idle", "mirror"} /\ writer'[w].day \in {1, today}
      BY <1>0 DEF WriteLine, AuditTyped, NoRecord, Records
    <2> QED BY <2>1, <2>2 DEF Critical, At
  <1>3. Dated'
    <2>1. \A f \in Files : files'[f] # files[f] => f = FileOf(w) /\ f[2] <= today
      BY <1>0 DEF WriteLine, AuditTyped, ChainInv, Dated
    <2> QED
      BY <1>1, <1>2, <2>1 DEF WriteLine, ChainInv, Dated
  <1>4. Locked'
    <2> SUFFICES ASSUME NEW v \in Writers, Critical(v)' PROVE lock'[FileOf(v)'] = v
      BY DEF Locked
    <2>1. v # w /\ writer'[v] = writer[v]
      BY <1>1, <1>2
    <2>2. Critical(v) /\ FileOf(v)' = FileOf(v) /\ FileOf(v) \in Files /\ lock[FileOf(v)] = v
      BY <2>1 DEF Critical, At, FileOf, ChainInv, Locked, AuditTyped, Records, Files
    <2> QED BY <2>1, <2>2 DEF WriteLine, Released
  <1>5. \A other \in Logs : other # log => \A d \in Days : files'[<<other, d>>] = files[<<other, d>>]
    BY <1>0 DEF WriteLine, AuditTyped, Files
  <1>6. ASSUME NEW other \in Logs, other # log
        PROVE  /\ LastHash(other)' = LastHash(other) /\ (Verifies(other)' <=> Verifies(other))
               /\ Excused(other)' <=> Excused(other)
    <2>1. \A d \in Days : files'[<<other, d>>] = files[<<other, d>>]
      BY <1>5, <1>6
    <2>2. LastHash(other)' = LastHash(other)
      BY <2>1, HashKept DEF LastHash
    <2>3. Verifies(other)' <=> Verifies(other)
      BY <2>1, ChainKept
    <2> QED BY <1>6, <2>2, <2>3 DEF WriteLine, Excused
  <1>7. Excused(log) => Excused(log)'
    BY DEF WriteLine, Excused
  <1>8. ~Excused(log)' => writer[w].day = today
    BY <1>0 DEF WriteLine, Excused, ChainInv, Dated, AuditTyped, Records
  <1>9. Anchored'
    <2> SUFFICES ASSUME NEW v \in Writers,
                        At(v, "anchored")', (writer[v].day = today)', ~Excused(writer[v].log)'
                 PROVE  (writer[v].prev = LastHash(writer[v].log))'
      BY DEF Anchored
    <2>1. v # w /\ writer'[v] = writer[v] /\ Critical(v) /\ At(v, "anchored")
      BY <1>1, <1>2 DEF Critical, At
    <2>2. writer[v].log # log
      <3> SUFFICES ASSUME writer[v].log = log PROVE FALSE
        OBVIOUS
      <3>1. writer[w].day = today /\ writer[v].day = today
        BY <1>8, <2>1 DEF WriteLine
      <3> QED BY <1>1, <2>1, <3>1 DEF FileOf
    <2>3. writer[v].log \in Logs
      BY DEF AuditTyped, Records
    <2> QED BY <1>6, <2>1, <2>2, <2>3 DEF ChainInv, Anchored, WriteLine
  <1>10. ChainVerifies'
    <2>1. ASSUME ~Excused(log)' PROVE Verifies(log)'
      <3>1. ~Excused(log) /\ writer[w].day = today /\ writer[w].prev = LastHash(log)
        BY <1>7, <1>8, <2>1 DEF ChainInv, Anchored, WriteLine
      <3>2. Verifies(log) /\ Line(w).prev = LastHash(log)
        BY <1>0, <3>1 DEF ChainInv, ChainVerifies, Excused
      <3>3. files' = [files EXCEPT ![<<log, today>>] = Append(@, Line(w))]
        BY <1>0, <3>1 DEF WriteLine
      <3> QED BY <1>0, <3>2, <3>3, ChainGrows DEF ChainInv
    <2> QED BY <1>6, <2>1 DEF ChainInv, ChainVerifies, Excused
  <1> QED BY <1>3, <1>4, <1>9, <1>10 DEF ChainInv

LEMMA MirrorStep ==
  ASSUME AuditTyped, ChainInv, NEW w \in Writers, Mirror(w)
  PROVE  ChainInv'
  <1> DEFINE f == <<Global, writer[w].day>>
  <1>0. /\ writer[w] \in Records /\ f \in Files /\ f[2] = writer[w].day
        /\ \A v \in Writers : v # w => writer'[v] = writer[v]
        /\ ~Critical(w)' /\ 1 <= today /\ writer'[w].day = 1
    BY AuditAssumption
       DEF AuditAssumption, AuditTyped, Files, Records, Logs, Days, Mirror, NoRecord, Critical, At
  <1>1. Dated'
    BY <1>0 DEF Mirror, ChainInv, Dated, AuditTyped
  <1>2. Locked'
    BY <1>0 DEF Mirror, ChainInv, Locked, Critical, At, FileOf
  <1>3. ASSUME NEW other \in Logs, ~Excused(other)'
        PROVE  LastHash(other)' = LastHash(other) /\ (Verifies(other)' <=> Verifies(other)) /\ ~Excused(other)
    <2>1. other # Global
      BY <1>3 DEF Mirror, Excused
    <2>2. \A d \in Days : files'[<<other, d>>] = files[<<other, d>>]
      BY <2>1 DEF Mirror, AuditTyped, Files
    <2>3. LastHash(other)' = LastHash(other)
      BY <2>2, HashKept DEF LastHash
    <2>4. Verifies(other)' <=> Verifies(other)
      BY <2>2, ChainKept
    <2> QED BY <1>3, <2>1, <2>3, <2>4 DEF Mirror, Excused
  <1>4. Anchored'
    <2> SUFFICES ASSUME NEW v \in Writers,
                        At(v, "anchored")', (writer[v].day = today)', ~Excused(writer[v].log)'
                 PROVE  (writer[v].prev = LastHash(writer[v].log))'
      BY DEF Anchored
    <2>1. writer'[v] = writer[v] /\ writer[v].log \in Logs
      BY <1>0 DEF Critical, AuditTyped, Records
    <2> QED BY <1>3, <2>1 DEF ChainInv, Anchored, Mirror, At
  <1>5. ChainVerifies'
    BY <1>3 DEF ChainInv, ChainVerifies, Excused
  <1> QED BY <1>1, <1>2, <1>4, <1>5 DEF ChainInv

LEMMA StepChain ==
  ASSUME AuditTyped, AuditTyped', ChainInv, AuditStep
  PROVE  ChainInv'
  <1>1. ASSUME UNCHANGED auditVars PROVE ChainInv'
    <2>1. /\ ChainVerifies'
          /\ \A log : LastHash(log)' = LastHash(log) /\ (Excused(log) => Excused(log)')
      BY <1>1, QuietKeeps DEF Quiet, auditVars
    <2> QED
      BY <1>1, <2>1 DEF auditVars, ChainInv, Dated, Locked, Critical, At, FileOf, Anchored
  <1> QED
    BY <1>1, QuietStep, WriteStep, MirrorStep, NewDayStep DEF AuditStep, Recording

-----------------------------------------------------------------------------
(* The drafts *)

Noted(k) == \E p \in DraftPlaces : DraftAt(p).call = k

(* Only a caller that is recording has a draft on its way, its own and not yet
   in the log; a call whose answer is not yet handed on has none there. *)
DraftInv ==
  /\ \A w \in Others : writer[w].body = None
  /\ \A c \in Callers : writer[c].log = Global /\ ~At(c, "mirror")
  /\ \A c \in Callers : ~At(c, "idle") =>
       call[c].step = "audit" /\ writer[c].body.call = Id(c) /\ ~Noted(Id(c))
  /\ \A c \in Callers : call[c].step \in {"chain", "vote", "log", "draft"} => ~Noted(Id(c))
  /\ \A p, q \in DraftPlaces : DraftAt(p).call = DraftAt(q).call => p = q

LEMMA LinesOf ==
  ASSUME NEW F, NEW p
  PROVE  p \in UNION {{d} \X DOMAIN F[<<Global, d>>] : d \in Days} <=>
           p = <<p[1], p[2]>> /\ p[1] \in Days /\ p[2] \in DOMAIN F[<<Global, p[1]>>]
  <1> DEFINE Pairs(d) == {d} \X DOMAIN F[<<Global, d>>]
  <1>1. \A d \in Days : p \in Pairs(d) <=>
          p = <<p[1], p[2]>> /\ p[1] = d /\ p[2] \in DOMAIN F[<<Global, p[1]>>]
    <2> SUFFICES ASSUME NEW d \in Days
                 PROVE  p \in Pairs(d) <=>
                          p = <<p[1], p[2]>> /\ p[1] = d /\ p[2] \in DOMAIN F[<<Global, p[1]>>]
      OBVIOUS
    <2> DEFINE D == DOMAIN F[<<Global, d>>]
    <2> HIDE DEF D
    <2>1. p \in {d} \X D <=> p = <<p[1], p[2]>> /\ p[1] = d /\ p[2] \in D
      OBVIOUS
    <2> QED BY <2>1 DEF D
  <1> HIDE DEF Pairs
  <1>2. p \in UNION {Pairs(d) : d \in Days} <=> \E d \in Days : p \in Pairs(d)
    OBVIOUS
  <1>3. p \in UNION {Pairs(d) : d \in Days} <=>
          p = <<p[1], p[2]>> /\ p[1] \in Days /\ p[2] \in DOMAIN F[<<Global, p[1]>>]
    BY <1>1, <1>2
  <1> QED BY <1>3 DEF Pairs

Place(p) ==
  /\ p = <<p[1], p[2]>> /\ p[1] \in Days /\ p[2] \in DOMAIN files[<<Global, p[1]>>]
  /\ files[<<Global, p[1]>>][p[2]].body # None

LEMMA PlacesAre ==
  /\ \A p : p \in DraftPlaces <=> Place(p)
  /\ \A p : p \in DraftPlaces' <=> Place(p)'
  <1>1. ASSUME NEW p PROVE p \in DraftPlaces <=> Place(p)
    <2>1. p \in UNION {{d} \X DOMAIN files[<<Global, d>>] : d \in Days} <=>
            p = <<p[1], p[2]>> /\ p[1] \in Days /\ p[2] \in DOMAIN files[<<Global, p[1]>>]
      BY LinesOf
    <2> QED BY <2>1 DEF DraftPlaces, DraftAt, Place
  <1>2. ASSUME NEW p PROVE p \in DraftPlaces' <=> Place(p)'
    <2>1. p \in UNION {{d} \X DOMAIN files'[<<Global, d>>] : d \in Days} <=>
            p = <<p[1], p[2]>> /\ p[1] \in Days /\ p[2] \in DOMAIN files'[<<Global, p[1]>>]
      BY LinesOf
    <2> QED BY <2>1 DEF DraftPlaces, DraftAt, Place
  <1> QED BY <1>1, <1>2

LEMMA InitDraft == Init => DraftInv
  <1> SUFFICES ASSUME Init PROVE DraftInv
    OBVIOUS
  <1>1. DraftPlaces = {}
    <2>1. \A d \in Days : files[<<Global, d>>] = <<>>
      BY DEF Init, AuditInit, Files, Logs
    <2>2. \A d \in Days : DOMAIN files[<<Global, d>>] = {}
      BY <2>1
    <2> QED BY <2>2, PlacesAre DEF Place
  <1>2. \A w \in Writers : writer[w] = NoRecord
    BY DEF Init, AuditInit
  <1> QED
    BY <1>1, <1>2, CallAssumption DEF CallAssumption, DraftInv, Noted, NoRecord, At

LEMMA NotedIsAnswered ==
  ASSUME CallInv, AuditTyped
  PROVE  /\ \A p \in DraftPlaces : DraftAt(p) \in answers
         /\ \A c \in Callers, n \in Nat : Noted(<<c, n>>) => n <= call[c].n
  <1>1. \A p \in DraftPlaces : DraftAt(p) \in answers
    <2> SUFFICES ASSUME NEW p \in DraftPlaces PROVE DraftAt(p) \in answers
      OBVIOUS
    <2>1. Place(p)
      BY PlacesAre
    <2>2. files[<<Global, p[1]>>] \in Seq(Entries)
      BY <2>1 DEF AuditTyped, Files, Logs, Place
    <2>3. files[<<Global, p[1]>>][p[2]] \in Entries
      BY <2>1, <2>2 DEF Place
    <2> QED BY <2>1, <2>3 DEF DraftAt, Entries, Place
  <1> QED BY <1>1 DEF Noted, CallInv, OnlyPast

(* The drafts stay where they are when nothing, or no draft, is written. *)
SameDrafts == DraftPlaces' = DraftPlaces /\ \A p \in DraftPlaces : DraftAt(p)' = DraftAt(p)

LEMMA NoDraftWritten ==
  ASSUME AuditTyped, NEW f \in Files, NEW line \in Entries,
         f[1] # Global \/ line.body = None,
         files' = [files EXCEPT ![f] = Append(@, line)]
  PROVE  SameDrafts
  <1>1. ASSUME NEW d \in Days
        PROVE  /\ DOMAIN files[<<Global, d>>] \subseteq DOMAIN files'[<<Global, d>>]
               /\ \A i \in DOMAIN files[<<Global, d>>] : files'[<<Global, d>>][i] = files[<<Global, d>>][i]
               /\ \A i \in DOMAIN files'[<<Global, d>>] :
                    files'[<<Global, d>>][i].body # None => i \in DOMAIN files[<<Global, d>>]
    <2>0. <<Global, d>> \in Files /\ files[<<Global, d>>] \in Seq(Entries)
      BY DEF AuditTyped, Files, Logs
    <2>1. CASE f # <<Global, d>>
      BY <2>0, <2>1 DEF AuditTyped
    <2>2. CASE f = <<Global, d>>
      <3> DEFINE old == files[<<Global, d>>]
      <3>1. line.body = None /\ files'[<<Global, d>>] = Append(old, line) /\ old \in Seq(Entries)
        BY <2>0, <2>2 DEF AuditTyped
      <3> HIDE DEF old
      <3>2. /\ DOMAIN old \subseteq DOMAIN Append(old, line)
            /\ \A i \in DOMAIN old : Append(old, line)[i] = old[i]
            /\ \A i \in DOMAIN Append(old, line) : i \in DOMAIN old \/ Append(old, line)[i] = line
        BY <3>1
      <3> QED BY <3>1, <3>2 DEF old
    <2> QED BY <2>1, <2>2
  <1>2. \A p : Place(p)' <=> Place(p)
    BY <1>1 DEF Place
  <1>3. \A p : Place(p) => DraftAt(p)' = DraftAt(p)
    BY <1>1 DEF DraftAt, Place
  <1> QED BY <1>2, <1>3, PlacesAre DEF SameDrafts

LEMMA DraftWritten ==
  ASSUME AuditTyped, NEW d \in Days, NEW line \in Entries,
         files' = [files EXCEPT ![<<Global, d>>] = Append(@, line)]
  PROVE  \E new :
           /\ DraftPlaces' \subseteq DraftPlaces \cup {new}
           /\ DraftAt(new)' = line.body
           /\ \A p \in DraftPlaces : DraftAt(p)' = DraftAt(p)
  <1> DEFINE old == files[<<Global, d>>]
  <1>0. <<Global, d>> \in Files /\ old \in Seq(Entries) /\ files'[<<Global, d>>] = Append(old, line)
    BY DEF AuditTyped, Files, Logs
  <1>1. \A x \in Days : x # d => files'[<<Global, x>>] = files[<<Global, x>>]
    BY DEF AuditTyped, Files, Logs
  <1> HIDE DEF old
  <1> PICK last : last = Len(old) + 1
    OBVIOUS
  <1>2. /\ \A i \in DOMAIN old : Append(old, line)[i] = old[i]
        /\ \A i \in DOMAIN Append(old, line) : i \in DOMAIN old \/ i = last
        /\ Append(old, line)[last] = line
    BY <1>0
  <1>3. ASSUME NEW p, Place(p)' PROVE Place(p) \/ p = <<d, last>>
    <2>1. CASE p[1] # d
      BY <1>1, <1>3, <2>1 DEF Place
    <2>2. CASE p[1] = d
      <3>1. p = <<d, p[2]>> /\ p[2] \in DOMAIN Append(old, line) /\ Append(old, line)[p[2]].body # None
        BY <1>0, <1>3, <2>2 DEF Place
      <3>2. p[2] \in DOMAIN old => old[p[2]].body # None
        BY <1>2, <3>1
      <3> QED BY <1>2, <1>3, <2>2, <3>1, <3>2 DEF Place, old
    <2> QED BY <2>1, <2>2
  <1>4. ASSUME NEW p, Place(p) PROVE DraftAt(p)' = DraftAt(p)
    <2>1. CASE p[1] # d
      BY <1>1, <1>4, <2>1 DEF Place, DraftAt
    <2>2. CASE p[1] = d
      <3>1. p[2] \in DOMAIN old
        BY <1>4, <2>2 DEF Place, old
      <3>2. files'[<<Global, p[1]>>][p[2]] = files[<<Global, p[1]>>][p[2]]
        <4>1. files'[<<Global, p[1]>>] = Append(old, line) /\ files[<<Global, p[1]>>] = old
          BY <1>0, <2>2 DEF old
        <4> QED BY <1>2, <3>1, <4>1
      <3> QED BY <3>2 DEF DraftAt
    <2> QED BY <2>1, <2>2
  <1>5. files'[<<Global, <<d, last>>[1]>>][<<d, last>>[2]].body = line.body
    BY <1>0, <1>2
  <1>6. DraftAt(<<d, last>>)' = line.body
    BY <1>5 DEF DraftAt
  <1>7. DraftPlaces' \subseteq DraftPlaces \cup {<<d, last>>} /\ \A p \in DraftPlaces : DraftAt(p)' = DraftAt(p)
    BY <1>3, <1>4, PlacesAre
  <1> QED BY <1>6, <1>7

(* A step that leaves the log alone and does not hand a draft to it *)
LEMMA DraftsUntouched ==
  ASSUME AuditTyped, SameDrafts
  PROVE  \A k : Noted(k)' <=> Noted(k)
  BY DEF SameDrafts, Noted

LEMMA CallStep ==
  ASSUME CallInv, AuditTyped, DraftInv, UNCHANGED auditVars,
         NEW c \in Callers, Begin(c) \/ Chat(c) \/ Quietly(c) \/ (At(c, "idle") /\ Die(c))
  PROVE  DraftInv'
  <1>1. SameDrafts /\ writer' = writer
    BY DEF SameDrafts, DraftPlaces, DraftAt, auditVars
  <1>2. \A k : Noted(k)' <=> Noted(k)
    BY <1>1, DraftsUntouched
  <1>3. \A b \in Callers : b # c => call'[b] = call[b] /\ Id(b)' = Id(b)
    BY DEF Begin, Chat, SkipProvider, Answer, Fail, Quietly, KeepAnswer, ReplaceAnswer,
           LogCost, Return, Die, CallInv, CallTyped, Id
  <1>4. At(c, "idle")
    BY DEF Begin, Chat, SkipProvider, Answer, Fail, Quietly, KeepAnswer, ReplaceAnswer,
           LogCost, Return, DraftInv
  <1>5. call'[c].step \in {"chain", "vote", "log", "draft"} => ~Noted(Id(c)')
    <2>1. CASE Begin(c)
      <3>1. Id(c)' = <<c, call[c].n + 1>> /\ call[c].n \in Nat
        <4>1. call[c].n \in Nat /\ c \in DOMAIN call
          BY DEF CallInv, CallTyped
        <4>2. PICK p \in Providers, within \in BOOLEAN, chained \in BOOLEAN :
                call' = [call EXCEPT ![c] =
                  [NoCall(@.n + 1) EXCEPT !.step = IF within \/ chained THEN "chain" ELSE "returned",
                     !.primary = p, !.skip = ~within, !.chained = chained]]
          BY <2>1 DEF Begin
        <4>3. call'[c].n = call[c].n + 1
          BY <4>1, <4>2 DEF NoCall
        <4> QED BY <4>1, <4>3 DEF Id
      <3>2. ~(call[c].n + 1 <= call[c].n)
        BY <3>1
      <3> QED BY <3>1, <3>2, NotedIsAnswered
    <2>2. CASE Chat(c) \/ (Quietly(c) /\ ~Return(c))
      <3>1. Id(c)' = Id(c) /\ call[c].step \in {"chain", "vote", "log", "draft"}
        <4>1. call[c].step \in {"chain", "vote", "log"}
          BY <2>2 DEF Chat, SkipProvider, Answer, Fail, Quietly, KeepAnswer, ReplaceAnswer, LogCost
        <4>2. Chat(c) => call'[c].n = call[c].n
          BY DEF Chat, SkipProvider, Answer, Fail, CallInv, CallTyped, Fields
        <4>3. KeepAnswer(c) \/ ReplaceAnswer(c) \/ LogCost(c) => call'[c].n = call[c].n
          BY DEF KeepAnswer, ReplaceAnswer, LogCost, NoCall, CallInv, CallTyped, Fields
        <4> QED BY <2>2, <4>1, <4>2, <4>3 DEF Id, Quietly
      <3> QED BY <3>1 DEF DraftInv
    <2>3. CASE Return(c) \/ Die(c)
      BY <2>3 DEF Return, Die, NoCall, CallInv, CallTyped, Fields
    <2> QED BY <2>1, <2>2, <2>3
  <1>6. \A b \in Callers : ~At(b, "idle") => b # c
    BY <1>4
  <1> QED
    BY <1>1, <1>2, <1>3, <1>5, <1>6 DEF DraftInv, SameDrafts, At

(* A step of a call of record that writes nothing *)
LEMMA QuietDrafts ==
  ASSUME CallInv, AuditTyped, AuditTyped', DraftInv, NEW w \in Writers, UNCHANGED <<files, call>>,
         (Recorded(w) /\ w \in Others /\ writer'[w].body = None) \/ TakeLock(w) \/ ReadAnchor(w) \/ Abandon(w)
  PROVE  DraftInv'
  <1>1. SameDrafts /\ \A k : Noted(k)' <=> Noted(k)
    BY DraftsUntouched DEF SameDrafts, DraftPlaces, DraftAt
  <1>2. \A v \in Writers : v # w => writer'[v] = writer[v]
    BY AnchorRead DEF AuditTyped, Recorded, Record, TakeLock, Goto, Abandon
  <1>3. \/ w \in Others /\ writer'[w].body = None
        \/ writer'[w] = NoRecord
        \/ /\ writer'[w].log = writer[w].log /\ writer'[w].body = writer[w].body
           /\ ~At(w, "idle") /\ writer'[w].step \in {"locked", "anchored"}
    <2>1. CASE ReadAnchor(w)
      BY <2>1, AnchorRead DEF ReadAnchor, At
    <2>2. CASE ~ReadAnchor(w)
      BY <2>2 DEF AuditTyped, Records, TakeLock, Goto, Abandon, At
    <2> QED BY <2>1, <2>2
  <1>4. Callers \subseteq Writers /\ Others \subseteq Writers /\ Callers \cap Others = {}
    BY CallAssumption DEF CallAssumption
  <1> QED
    BY <1>1, <1>2, <1>3, <1>4 DEF DraftInv, SameDrafts, At, Id, NoRecord

LEMMA HandOver ==
  ASSUME CallInv, AuditTyped, DraftInv, NEW c \in Callers,
         RecordDraft(c) \/ (Die(c) /\ Abandon(c))
  PROVE  DraftInv'
  <1>0. files' = files
    BY DEF RecordDraft, Record, Abandon
  <1>1. SameDrafts /\ \A k : Noted(k)' <=> Noted(k)
    BY <1>0, DraftsUntouched DEF SameDrafts, DraftPlaces, DraftAt
  <1>2. Callers \subseteq Writers /\ Others \subseteq Writers /\ Callers \cap Others = {}
    BY CallAssumption DEF CallAssumption
  <1>3. \A v \in Writers : v # c => writer'[v] = writer[v]
    BY DEF AuditTyped, RecordDraft, Record, Abandon
  <1>4. \A b \in Callers : b # c => call'[b] = call[b] /\ Id(b)' = Id(b)
    BY DEF RecordDraft, Die, CallInv, CallTyped, Id
  <1>5. call'[c].step \in {"idle", "audit"} /\ Id(c)' = Id(c)
    BY DEF RecordDraft, Die, NoCall, CallInv, CallTyped, Fields, Id
  <1>6. writer'[c].log = Global /\ writer'[c].step # "mirror"
    BY <1>2 DEF RecordDraft, Record, Abandon, NoRecord, AuditTyped
  <1>7. writer'[c].step # "idle" =>
          call'[c].step = "audit" /\ writer'[c].body.call = Id(c) /\ ~Noted(Id(c))
    <2>1. CASE RecordDraft(c)
      BY <1>2, <2>1 DEF RecordDraft, Record, NoCall, CallInv, CallTyped, AuditTyped, DraftInv, Draft, Fields
    <2>2. CASE Abandon(c)
      BY <1>2, <2>2 DEF Abandon, NoRecord, AuditTyped
    <2> QED BY <2>1, <2>2
  <1> QED
    BY <1>1, <1>2, <1>3, <1>4, <1>5, <1>6, <1>7 DEF DraftInv, SameDrafts, At

LEMMA LineStep ==
  ASSUME CallInv, AuditTyped, DraftInv, NEW w \in Writers, WriteLine(w) \/ Mirror(w), call' = call
  PROVE  DraftInv'
  <1>0. /\ Callers \subseteq Writers /\ Others \subseteq Writers /\ Callers \cap Others = {}
        /\ Writers = Callers \cup Others
    BY CallAssumption DEF CallAssumption
  <1>1. \A v \in Writers : v # w => writer'[v] = writer[v]
    BY DEF AuditTyped, WriteLine, Mirror
  <1>2. ~At(w, "idle") /\ Line(w) \in Entries /\ Line(w).body = writer[w].body
    BY DEF WriteLine, Mirror, At, AuditTyped, Records, Line, Entries
  <1>3. CASE w \in Others
    <2>1. PICK f \in Files : files' = [files EXCEPT ![f] = Append(@, Line(w))]
      BY DEF WriteLine, Mirror, FileOf, AuditTyped, Files, Records, Logs
    <2>2. SameDrafts /\ \A k : Noted(k)' <=> Noted(k)
      BY <1>2, <1>3, <2>1, NoDraftWritten, DraftsUntouched DEF DraftInv
    <2>3. writer'[w].body = None
      <3>1. writer[w] \in Records /\ writer[w].body = None
        BY <1>3 DEF AuditTyped, DraftInv
      <3>2. writer'[w] = NoRecord \/ writer'[w] = [writer[w] EXCEPT !.step = "mirror", !.day = today]
        BY DEF WriteLine, Mirror, AuditTyped
      <3>3. NoRecord.body = None
        BY DEF NoRecord
      <3>4. [writer[w] EXCEPT !.step = "mirror", !.day = today].body = writer[w].body
        BY <3>1 DEF Records
      <3> QED BY <3>1, <3>2, <3>3, <3>4
    <2> QED
      BY <1>0, <1>1, <1>3, <2>2, <2>3 DEF DraftInv, SameDrafts, At, Id
  <1>4. CASE w \in Callers
    <2>1. WriteLine(w) /\ writer[w].log = Global /\ writer'[w] = NoRecord
      BY <1>4 DEF DraftInv, Mirror, WriteLine, AuditTyped, Records
    <2>2. writer[w].day \in Days
      BY DEF AuditTyped, Records
    <2>3. files' = [files EXCEPT ![<<Global, writer[w].day>>] = Append(@, Line(w))]
      BY <2>1 DEF WriteLine, FileOf
    <2>4. PICK new : /\ DraftPlaces' \subseteq DraftPlaces \cup {new}
                     /\ DraftAt(new)' = Line(w).body
                     /\ \A p \in DraftPlaces : DraftAt(p)' = DraftAt(p)
      BY <1>2, <2>2, <2>3, DraftWritten
    <2>5. DraftAt(new)'.call = Id(w) /\ call[w].step = "audit" /\ ~Noted(Id(w))
      BY <1>2, <1>4, <2>4 DEF DraftInv
    <2>6. \A k : Noted(k)' => Noted(k) \/ k = Id(w)
      BY <2>4, <2>5 DEF Noted
    <2>7. \A b \in Callers : b # w => Id(b) # Id(w)
      BY DEF Id
    <2>8. \A p, q \in DraftPlaces' : DraftAt(p)'.call = DraftAt(q)'.call => p = q
      BY <2>4, <2>5 DEF DraftInv, Noted
    <2>9. \A b \in Callers : ~At(b, "idle")' => ~At(b, "idle") /\ b # w
      BY <1>0, <1>1, <2>1 DEF At, NoRecord
    <2> QED
      BY <1>0, <1>1, <1>4, <2>1, <2>5, <2>6, <2>7, <2>8, <2>9 DEF DraftInv, At, Id, NoRecord
  <1> QED BY <1>0, <1>3, <1>4

LEMMA StepDraft ==
  ASSUME CallInv, AuditTyped, AuditTyped', DraftInv, [Next]_vars
  PROVE  DraftInv'
  <1>0. Callers \subseteq Writers /\ Others \subseteq Writers
    BY CallAssumption DEF CallAssumption
  <1>1. ASSUME NEW c \in Callers, Begin(c) \/ Chat(c) \/ Finish(c) \/ Die(c) PROVE DraftInv'
    <2>1. CASE RecordDraft(c)
      BY <2>1, HandOver
    <2>2. CASE Die(c)
      BY <2>2, HandOver, CallStep DEF Die
    <2>3. CASE Begin(c) \/ Chat(c) \/ Quietly(c)
      <3>1. UNCHANGED auditVars
        BY <2>3 DEF Begin, Chat, SkipProvider, Answer, Fail, Quietly, KeepAnswer, ReplaceAnswer,
                    LogCost, Return
      <3> QED BY <2>3, <3>1, CallStep
    <2> QED BY <1>1, <2>1, <2>2, <2>3 DEF Finish, Quietly
  <1>2. ASSUME NEW w \in Others, OtherRecords(w) PROVE DraftInv'
    <2>1. Recorded(w) /\ writer'[w].body = None /\ UNCHANGED <<files, call>>
      <3>1. PICK log \in Logs : Record(w, log, None)
        BY <1>2 DEF OtherRecords
      <3>2. Recorded(w)
        BY <3>1 DEF Recorded
      <3>3. writer'[w].body = None /\ files' = files
        BY <1>0, <3>1 DEF Record, AuditTyped
      <3> QED BY <1>2, <3>2, <3>3 DEF OtherRecords
    <2> QED BY <1>0, <2>1, QuietDrafts
  <1>3. ASSUME NEW w \in Writers, Audit(w) \/ AuditFails(w) PROVE DraftInv'
    <2>1. CASE TakeLock(w) \/ ReadAnchor(w) \/ Abandon(w)
      <3>1. UNCHANGED <<files, call>>
        BY <1>3, <2>1 DEF Audit, AuditFails, TakeLock, ReadAnchor, Abandon
      <3> QED BY <2>1, <3>1, QuietDrafts
    <2>2. CASE WriteLine(w) \/ Mirror(w)
      BY <1>3, <2>2, LineStep DEF Audit, AuditFails
    <2> QED BY <1>3, <2>1, <2>2 DEF Audit, AuditFails, Recording
  <1>4. ASSUME NewDay \/ UNCHANGED vars PROVE DraftInv'
    <2>1. files' = files /\ writer' = writer /\ call' = call
      BY <1>4 DEF NewDay, Midnight, vars, auditVars
    <2>2. SameDrafts /\ \A k : Noted(k)' <=> Noted(k)
      BY <2>1, DraftsUntouched DEF SameDrafts, DraftPlaces, DraftAt
    <2> QED BY <2>1, <2>2 DEF DraftInv, SameDrafts, At, Id
  <1> QED
    BY <1>1, <1>2, <1>3, <1>4 DEF Next

-----------------------------------------------------------------------------
Inv == WalkInv /\ CallInv /\ AuditTyped /\ ChainInv /\ DraftInv

THEOREM Invariance == Spec => []Inv
  <1>1. Init => Inv
    BY InitWalk, InitCall, InitAudit, InitChain, InitDraft DEF Inv
  <1>2. Inv /\ [Next]_vars => Inv'
    <2> SUFFICES ASSUME Inv, [Next]_vars PROVE Inv'
      OBVIOUS
    <2>1. WalkInv' /\ CallInv'
      BY StepWalk, StepCall DEF Inv
    <2>2. AuditStep /\ answers \subseteq answers'
      BY StepIsAuditStep DEF Inv
    <2>3. AuditTyped'
      BY <2>2, StepTyped DEF Inv
    <2>4. ChainInv'
      BY <2>2, <2>3, StepChain DEF Inv
    <2>5. DraftInv'
      BY <2>3, StepDraft DEF Inv
    <2> QED BY <2>1, <2>3, <2>4, <2>5 DEF Inv
  <1> QED BY <1>1, <1>2, PTL DEF Spec

(* Writers in any number of threads and processes, failing where they like,
   never fork the chain of a log (model.py: _append_locked). *)
THEOREM ChainSafety == Spec => []ChainVerifies
  <1>1. Inv => ChainVerifies
    BY DEF Inv, ChainInv
  <1> QED BY <1>1, Invariance, PTL

(* What the audit log and the cost log say of a call is true: the provider is
   the one that answered, and there is one draft at most (client.py: call). *)
THEOREM ProvenanceSafety == Spec => []ProvenanceIsTrue
  <1>1. Inv => ProvenanceIsTrue
    <2> SUFFICES ASSUME Inv PROVE ProvenanceIsTrue
      OBVIOUS
    <2>1. \A p \in DraftPlaces : DraftAt(p) \in answers
      BY NotedIsAnswered DEF Inv
    <2>2. \A a \in answers : \E t \in Texts : t.call = a.call /\ (t = a \/ t \in voted)
      BY DEF Texts
    <2>3. \A e \in costLog : \A t \in Texts : t.call = e.call => t = e \/ t \in voted
      BY DEF Inv, CallInv, CostIsTrue, Texts
    <2>4. \A p \in DraftPlaces, e \in costLog : e.call = DraftAt(p).call => e = DraftAt(p)
      BY <2>1 DEF Inv, CallInv, CostIsTrue
    <2>5. \A p, q \in DraftPlaces : DraftAt(p).call = DraftAt(q).call => p = q
      BY DEF Inv, DraftInv
    <2> QED BY <2>1, <2>2, <2>3, <2>4, <2>5 DEF ProvenanceIsTrue
  <1> QED BY <1>1, Invariance, PTL

-----------------------------------------------------------------------------
(* Calls, cost log and audit log keep their types: a call number is a call's
   own, and what is recorded names a provider (client.py: call). *)
THEOREM TypeCorrect == Spec => []TypeOK
  <1>1. Inv => TypeOK
    <2> SUFFICES ASSUME Inv PROVE TypeOK
      OBVIOUS
    <2>1. answers \cup {None} \subseteq Bodies
      BY BodiesAssumption DEF BodiesAssumption, Inv, WalkInv
    <2>2. Entries \subseteq Lines
      BY <2>1 DEF Entries, Lines
    <2>3. files \in [Files -> Seq(Lines)]
      <3>1. files \in [Files -> Seq(Entries)]
        BY DEF Inv, AuditTyped
      <3> QED BY <2>2, <3>1
    <2>4. AuditTypeOK
      BY <2>1, <2>3 DEF AuditTypeOK, Inv, AuditTyped, Records
    <2> QED BY <2>4 DEF TypeOK, Inv, WalkInv, CallRecords, CallSteps, Tries
  <1> QED BY <1>1, Invariance, PTL

(* A request that was rejected as such is not sent to anybody else, no provider
   is asked twice, and the primary is not asked when the budget forbids it
   (provider_fallback.py: call_with_fallback). *)
THEOREM AskingInTurn == Spec => []AskedInTurn
  <1>1. Inv => AskedInTurn
    <2> SUFFICES ASSUME Inv, NEW c \in Callers, NEW i \in DOMAIN call[c].tried
                 PROVE  /\ call[c].skip => call[c].tried[i].provider # call[c].primary
                        /\ \A j \in DOMAIN call[c].tried : i < j =>
                             /\ call[c].tried[i].outcome \in {"unavailable", "transport"}
                             /\ call[c].tried[i].provider # call[c].tried[j].provider
      BY DEF AskedInTurn
    <2> DEFINE t == call[c].tried
    <2>1. call[c] \in CallRecords /\ Walks(c)
      BY DEF Inv, WalkInv
    <2>2. t \in Seq([provider: Providers, outcome: Outcomes]) /\ Len(t) \in Nat
          /\ DOMAIN t = 1..Len(t)
      BY <2>1 DEF CallRecords, Tries
    <2>3. call[c].step \in {"chain", "vote", "log"}
      <3>1. t = <<>> => DOMAIN t = {}
        OBVIOUS
      <3> QED BY <2>1, <3>1 DEF Walks
    <2>4. /\ ChainOf(c) \in Seq(Providers)
          /\ \A m, k \in 1..Len(ChainOf(c)) : m < k => ChainOf(c)[m] # ChainOf(c)[k]
          /\ call[c].skip => \A m \in 1..Len(ChainOf(c)) : ChainOf(c)[m] # call[c].primary
      BY <2>1, <2>3, ChainOfCall DEF Walks, CallRecords
    <2>5. /\ Len(t) <= Len(ChainOf(c)) /\ \A m \in 1..Len(t) : t[m].provider = ChainOf(c)[m]
          /\ \A m \in 1..Len(t) : m < Len(t) => t[m].outcome \in Passing
      BY <2>1, <2>3 DEF Walks
    <2>6. \A m \in 1..Len(t) : m \in 1..Len(ChainOf(c)) /\ m \in Nat
      BY <2>2, <2>4, <2>5
    <2>7. \A j \in 1..Len(t) : i < j => i < Len(t)
      BY <2>2
    <2> HIDE DEF t
    <2>8. call[c].skip => t[i].provider # call[c].primary
      BY <2>2, <2>4, <2>5, <2>6 DEF t
    <2>9. \A j \in 1..Len(t) : i < j =>
            t[i].outcome \in {"unavailable", "transport"} /\ t[i].provider # t[j].provider
      BY <2>2, <2>4, <2>5, <2>6, <2>7 DEF Passing, t
    <2> QED BY <2>2, <2>8, <2>9 DEF t
  <1> QED BY <1>1, Invariance, PTL
=============================================================================
