--------------------------- MODULE MCRuntimeLease ---------------------------
(* Instances of RuntimeLease: the constants keep the order LeaseAssumption  *)
(* asks for, which the real ones have: reading and writing the cookie in a  *)
(* moment, Settle 80 ms, Heartbeat 15 s, Gap 60 s (a throttled background   *)
(* tab), TTL 180 s.                                                         *)
EXTENDS RuntimeLease

CONSTANTS left, right, third

TwoTabs   == {left, right}
ThreeTabs == {left, right, third}

=============================================================================
