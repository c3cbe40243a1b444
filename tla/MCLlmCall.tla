------------------------------ MODULE MCLlmCall ------------------------------
(* An instance of LlmCall for TLC: a caller, another writer, a provider and
   mock, one tenant. *)
EXTENDS LlmCall

CONSTANTS c1, w1, p1, mock, org

OneCaller == {c1}
OneOther == {w1}
BothWriters == {c1, w1}
OneTenant == {org}
TwoProviders == {p1, mock}
RepeatedFallback == <<p1, p1>>
DraftsAndOthers == Drafts \cup {None}
=============================================================================
