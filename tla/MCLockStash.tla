---------------------------- MODULE MCLockStash ----------------------------
(* One trade of one funding device: two spends, so that a second funding    *)
(* meets what the first left behind, one foreign event, one crash.          *)
EXTENDS LockStash

CONSTANT rival

\* One other device may publish a LOCK of the same trade.
OneRival == {rival}

=============================================================================
