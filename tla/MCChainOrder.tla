----------------------------- MODULE MCChainOrder -----------------------------
(***************************************************************************)
(* The trades of the run: one whose chain branches, one with rival         *)
(* CREATEs, and three that settle on chain and stall.                      *)
(***************************************************************************)
EXTENDS ChainOrder

SmallCasts == {<<"CREATE", "JOIN", "JOIN", "LOCK">>,
               <<"CREATE", "CREATE", "JOIN">>,
               <<"CREATE", "SETTLEMENT", "STALLED", "COMPLETE">>,
               <<"SETTLEMENT", "SETTLEMENT", "STALLED", "COMPLETE">>,
               <<"CHAT", "SETTLEMENT", "STALLED", "STALLED">>}
ThreeDates == 1 .. 3

=============================================================================
