------------------------------ MODULE MCLoopBus ------------------------------
(* An instance of LoopBus for TLC: a content two handlers subscribe to, and
   one nobody subscribes to. *)
EXTENDS LoopBus

CONSTANTS failure, change

TwoKeys == {failure, change}
OneKey == {failure}
TwoSubs == {1, 2}
MCSubsOf == [k \in Keys |-> IF k = failure THEN Subs ELSE {}]
=============================================================================
