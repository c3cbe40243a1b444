----------------------------- MODULE MCLiveFeed -----------------------------
(* An instance of LiveFeed for TLC: runs of the server or of the command line,
   of which one streams. *)
EXTENDS LiveFeed

CONSTANTS r1, r2

OneRun == {r1}
TwoRuns == {r1, r2}
=============================================================================
