------------------------------ MODULE LlmCall ------------------------------
(***************************************************************************)
(* A call of the language model (llm/client.py: LLMClient.call): budget    *)
(* check, the chain of providers (llm/provider_fallback.py), the cost log  *)
(* and the draft's record in the audit log, beside other writers of that   *)
(* log (account deletion in api/me.py, step verdicts).                     *)
(*                                                                         *)
(* Prompts, answers, prices, retrieval and memory are left out.  A variant *)
(* of a vote (llm/anchoring.py) is a call of its own; what the vote does   *)
(* to the call that asked for it is ReplaceAnswer.                         *)
(***************************************************************************)
EXTENDS AuditLog

CONSTANTS
  Callers, Others,    \* writers of the audit log: calls of the model, and the rest
  Providers, Mock,
  Order,              \* the fallback order
  MaxCalls, MaxRecords   \* bounds: calls of a caller, records after which the rest is silent

ASSUME CallAssumption ==
  /\ Writers = Callers \cup Others /\ Callers \cap Others = {}
  /\ {MaxCalls, MaxRecords} \subseteq Nat
  /\ Mock \in Providers /\ Order \in Seq(Providers) /\ None \notin Providers

VARIABLES
  call,        \* what a caller is doing
  costLog,     \* llm_calls.jsonl
  answers,     \* history: which provider answered which call
  voted        \* history: the text, of which provider, that a vote put in an answer's place

vars == <<auditVars, call, costLog, answers, voted>>

CallIds == Callers \X (1..MaxCalls)
Drafts == [call: CallIds, provider: Providers]
ASSUME BodiesAssumption == Drafts \cup {None} \subseteq Bodies

Outcomes == {"unavailable", "transport", "request", "ok"}
NoCall(n) == [step |-> "idle", n |-> n, primary |-> Mock, skip |-> FALSE, chained |-> TRUE,
              tried |-> <<>>, provider |-> None]

Init ==
  /\ AuditInit
  /\ call = [c \in Callers |-> NoCall(0)]
  /\ costLog = {} /\ answers = {} /\ voted = {}

Id(c) == <<c, call[c].n>>

(* resolve_fallback_order: the primary first, nobody twice, mock last if not
   named before *)
Resolved(primary) ==
  LET asked == <<primary>> \o Append(Order, Mock)
      chain[i \in 0..Len(asked)] ==
        IF i = 0 THEN <<>>
        ELSE IF asked[i] \in ToSet(chain[i - 1]) THEN chain[i - 1]
        ELSE Append(chain[i - 1], asked[i])
  IN  chain[Len(asked)]
ChainOf(c) ==
  LET whole == Resolved(call[c].primary)
  IN  IF ~call[c].chained THEN <<call[c].primary>> ELSE IF call[c].skip THEN Tail(whole) ELSE whole

(* the provider whose turn it is *)
Turn(c) == ChainOf(c)[Len(call[c].tried) + 1]
Tried(c, outcome) == Append(call[c].tried, [provider |-> Turn(c), outcome |-> outcome])

-----------------------------------------------------------------------------
(* LLMClient.call up to the chain.  A failed budget check skips the primary;
   without fallback the call is over, and nothing is logged *)
Begin(c) ==
  /\ call[c].step \in {"idle", "returned"} /\ call[c].n < MaxCalls
  /\ \E p \in Providers, within, chained \in BOOLEAN :
       /\ p = Mock => within
       /\ call' = [call EXCEPT ![c] =
            [NoCall(@.n + 1) EXCEPT !.step = IF within \/ chained THEN "chain" ELSE "returned",
               !.primary = p, !.skip = ~within, !.chained = chained]]
  /\ UNCHANGED <<auditVars, costLog, answers, voted>>

(* no key, a skeleton, or Ollama cannot be reached; not asked without fallback *)
SkipProvider(c) ==
  /\ call[c].step = "chain" /\ call[c].chained /\ Turn(c) # Mock
  /\ call' = [call EXCEPT ![c].tried = Tried(c, "unavailable")]
  /\ UNCHANGED <<auditVars, costLog, answers, voted>>

Answer(c) ==
  /\ call[c].step = "chain"
  /\ call' = [call EXCEPT ![c] =
       [@ EXCEPT !.tried = Tried(c, "ok"), !.provider = Turn(c), !.step = "vote"]]
  /\ answers' = answers \cup {[call |-> Id(c), provider |-> Turn(c)]}
  /\ UNCHANGED <<auditVars, costLog, voted>>

(* mutant of Degrades: any failure goes on to the next provider *)
DegradesAlways(outcome) == outcome \in {"transport", "request"}
(* is_fallback_eligible *)
Degrades(outcome) == outcome = "transport"

(* chat raises; mock only ever answers, with an error in place of an answer *)
Fail(c, outcome) ==
  /\ call[c].step = "chain" /\ (Turn(c) = Mock => outcome = "request")
  /\ call' = [call EXCEPT ![c] = [@ EXCEPT !.tried = Tried(c, outcome),
       !.step = IF call[c].chained /\ Degrades(outcome) /\ Turn(c) # Mock THEN "chain" ELSE "log"]]
  /\ UNCHANGED <<auditVars, costLog, answers, voted>>

(* the answer is anchored or not checked at all, or the vote diverges or fails *)
KeepAnswer(c) ==
  /\ call[c].step = "vote"
  /\ call' = [call EXCEPT ![c].step = "log"]
  /\ UNCHANGED <<auditVars, costLog, answers, voted>>

(* consistency_vote agrees: the text becomes a variant's, and whoever answered
   the variant is named nowhere *)
ReplaceAnswer(c) ==
  /\ call[c].step = "vote"
  /\ \E p \in ToSet(Resolved(call[c].primary)) : voted' = voted \cup {[call |-> Id(c), provider |-> p]}
  /\ call' = [call EXCEPT ![c].step = "log"]
  /\ UNCHANGED <<auditVars, costLog, answers>>

(* mutant of Logged: a call that failed is logged with no provider *)
LoggedAsAnswered(c) == [call |-> Id(c), provider |-> call[c].provider]
Logged(c) == [call |-> Id(c), provider |->
                IF call[c].provider # None THEN call[c].provider
                ELSE IF Last(call[c].tried).provider = Mock THEN Mock ELSE call[c].primary]

(* CostLogger.log_dict, of failures too; its own failure is only a warning *)
LogCost(c) ==
  /\ call[c].step = "log"
  /\ costLog' \in {costLog, costLog \cup {Logged(c)}}
  /\ call' = [call EXCEPT ![c] =
       [NoCall(@.n) EXCEPT !.step = IF call[c].provider = None THEN "returned" ELSE "draft",
                           !.primary = call[c].primary, !.provider = call[c].provider]]
  /\ UNCHANGED <<auditVars, answers, voted>>

(* mutant of Draft: the configured provider, not the one that answered *)
DraftOfPrimary(c) == [call |-> Id(c), provider |-> call[c].primary]
Draft(c) == [call |-> Id(c), provider |-> call[c].provider]

(* record_ai_generation *)
RecordDraft(c) ==
  /\ call[c].step = "draft" /\ Record(c, Global, Draft(c))
  /\ call' = [call EXCEPT ![c] = [NoCall(@.n) EXCEPT !.step = "audit"]]
  /\ UNCHANGED <<costLog, answers, voted>>

(* mutant of Return: a record that fails is waited for *)
ReturnWhenWritten(c) ==
  /\ call[c].step = "audit" /\ At(c, "idle")
  /\ \E d \in Days : \E i \in DOMAIN files[<<Global, d>>] :
       files[<<Global, d>>][i].body \in {[call |-> Id(c), provider |-> p] : p \in Providers}
  /\ call' = [call EXCEPT ![c].step = "returned"]
  /\ UNCHANGED <<auditVars, costLog, answers, voted>>

(* record() is through, or has failed *)
Return(c) ==
  /\ call[c].step = "audit" /\ At(c, "idle")
  /\ call' = [call EXCEPT ![c].step = "returned"]
  /\ UNCHANGED <<auditVars, costLog, answers, voted>>

(* the caller's thread ends with its process *)
Die(c) ==
  /\ call[c].step \notin {"idle", "returned"}
  /\ call' = [call EXCEPT ![c] = NoCall(@.n)]
  /\ IF At(c, "idle") THEN UNCHANGED auditVars ELSE Abandon(c)
  /\ UNCHANGED <<costLog, answers, voted>>

-----------------------------------------------------------------------------
OtherRecords(w) ==
  /\ records < MaxRecords /\ \E log \in Logs : Record(w, log, None)
  /\ UNCHANGED <<call, costLog, answers, voted>>

Audit(w) == Recording(w) /\ UNCHANGED <<call, costLog, answers, voted>>
AuditFails(w) == Abandon(w) /\ UNCHANGED <<call, costLog, answers, voted>>
NewDay == Midnight /\ UNCHANGED <<call, costLog, answers, voted>>

Chat(c) == \/ SkipProvider(c) \/ Answer(c)
           \/ \E outcome \in {"transport", "request"} : Fail(c, outcome)
Finish(c) == KeepAnswer(c) \/ ReplaceAnswer(c) \/ LogCost(c) \/ RecordDraft(c) \/ Return(c)

Next ==
  \/ \E c \in Callers : Begin(c) \/ Chat(c) \/ Finish(c) \/ Die(c)
  \/ \E w \in Others : OtherRecords(w)
  \/ \E w \in Writers : Audit(w) \/ AuditFails(w)
  \/ NewDay

Spec == Init /\ [][Next]_vars

(* a request ends, by its timeout if not otherwise, and threads that have a
   lock run on; nobody need begin a call *)
FairSpec ==
  /\ Spec
  /\ \A c \in Callers : WF_vars(Chat(c)) /\ WF_vars(Finish(c))
  /\ \A w \in Writers : WF_vars(Audit(w))

-----------------------------------------------------------------------------
TypeOK ==
  /\ AuditTypeOK
  /\ call \in [Callers ->
       [step: {"idle", "chain", "vote", "log", "draft", "audit", "returned"}, n: 0..MaxCalls,
        primary: Providers, skip: BOOLEAN, chained: BOOLEAN,
        tried: Seq([provider: Providers, outcome: Outcomes]),
        provider: Providers \cup {None}]]
  /\ {costLog, answers, voted} \subseteq SUBSET Drafts

(* where the global log holds a draft *)
DraftAt(p) == files[<<Global, p[1]>>][p[2]].body
DraftPlaces ==
  {p \in UNION {{d} \X DOMAIN files[<<Global, d>>] : d \in Days} : DraftAt(p) # None}

(* whose text a call hands back *)
Texts == voted \cup {a \in answers : ~\E v \in voted : v.call = a.call}

(* A draft in the audit log stands for a text that was handed back and names
   the provider it is of, unless a vote put it in an answer's place; so does
   the cost log; the two never disagree, and a call has at most one draft
   (client.py: "the provider field records the provider actually used (after
   any degradation)"). *)
ProvenanceIsTrue ==
  /\ \A p \in DraftPlaces : \E t \in Texts :
       t.call = DraftAt(p).call /\ (t = DraftAt(p) \/ t \in voted)
  /\ \A e \in costLog : \A t \in Texts : t.call = e.call => t = e \/ t \in voted
  /\ \A p \in DraftPlaces, e \in costLog : e.call = DraftAt(p).call => e = DraftAt(p)
  /\ \A p, q \in DraftPlaces : DraftAt(p).call = DraftAt(q).call => p = q

(* A request that was rejected as such is not sent to anybody else, no
   provider is asked twice, and the primary is not asked when the budget
   forbids it (provider_fallback.py: is_fallback_eligible, call_with_fallback). *)
AskedInTurn ==
  \A c \in Callers : \A i \in DOMAIN call[c].tried :
    /\ call[c].skip => call[c].tried[i].provider # call[c].primary
    /\ \A j \in DOMAIN call[c].tried : i < j =>
         /\ call[c].tried[i].outcome \in {"unavailable", "transport"}
         /\ call[c].tried[i].provider # call[c].tried[j].provider

(* Every call comes to an end, whoever dies or fails while holding a lock. *)
EveryCallReturns ==
  \A c \in Callers : call[c].step = "chain" ~> call[c].step \in {"idle", "returned"}
=============================================================================
