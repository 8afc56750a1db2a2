---------------------------- MODULE MCClaimPayout ----------------------------
(* Instances of ClaimPayout: the circumstances of each run.                *)
EXTENDS ClaimPayout

\* Spare money for a second payout, on a fresh trade with a short log.
Fair == [apart |-> TRUE, clears |-> TRUE, reads |-> TRUE, short |-> TRUE,
         legacy |-> FALSE, spare |-> 1]

\* Claims and sweeps apart on a machine that works, with and without spare
\* money, and with the record of an old version.
GuardedWorlds == {Fair, [Fair EXCEPT !.spare = 0], [Fair EXCEPT !.legacy = TRUE]}

\* And the rough ones: sweeps over claims, clears that are lost, scans that miss
\* payments, a log of more than one page.
AllWorlds ==
  GuardedWorlds \cup
  {[Fair EXCEPT !.apart = FALSE, !.clears = FALSE, !.reads = FALSE, !.spare = 0],
   [Fair EXCEPT !.short = FALSE]}

\* A sweep still waits for an old payment while the user claims again.
Overlapping == {[Fair EXCEPT !.apart = FALSE]}

\* The other two ways to pay twice: in the place of Overlapping each of them
\* breaks OnePayoutWhateverHappens too.
HalfBlind  == {[Fair EXCEPT !.reads = FALSE]}
LostClears == {[Fair EXCEPT !.clears = FALSE]}

=============================================================================
