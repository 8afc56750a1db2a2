---------------------------- MODULE WithheldLock ----------------------------
(***************************************************************************)
(* A LOCK that holds back two of its three shares, and the three signed    *)
(* steps that follow it: the other principal accepts, the funder releases  *)
(* the shares or withdraws.  Nobody orders these events but the readers,   *)
(* each of whom replays what reached him; dates are written by the signers, *)
(* so state-machine.ts decides from who names whom.                        *)
(*                                                                         *)
(* Home is the device that funded: it has the saved shares and the stash   *)
(* entry with the notes.  The funder may have other devices, which know the *)
(* LOCK's encrypted backup of the shares only.  What a device chose is in   *)
(* its own storage (withheld-share-store.ts) and nowhere else.             *)
(*                                                                         *)
(* A read is any part of what the relays hold: every decision below is     *)
(* taken on one, because a page that is opened again starts from nothing.  *)
(***************************************************************************)
EXTENDS Integers, FiniteSets, FiniteSetsExt

CONSTANTS
  Home, Others,   \* the funder's devices
  MaxAccepts,     \* bound: accepts that are signed, in the order of their dates
  Deadline        \* the accepts after this one are dated past the deadline

ASSUME WithheldAssumption ==
  /\ IsFiniteSet(Others) /\ Home \notin Others
  /\ MaxAccepts \in Nat /\ Deadline \in 0 .. MaxAccepts

Devices  == Others \cup {Home}
Accepts  == 1 .. MaxAccepts
NoAccept == 0

Lock          == <<"lock">>
Cancel        == <<"cancel">>
Accept(n)     == <<"accept", n>>
Release(n, d) == <<"release", n, d>>   \* of device d, replying to Accept(n)
Withdraw(d)   == <<"withdraw", d>>

Events == {Lock, Cancel} \cup {Accept(n) : n \in Accepts}
          \cup {Release(n, d) : n \in Accepts, d \in Devices}
          \cup {Withdraw(d) : d \in Devices}

VARIABLES
  relay,     \* the events some relay holds
  early,     \* the CANCEL is dated before the LOCK
  record,    \* per device: the entry of the withheld-share store
  releasing, \* per device: maybeAutoRelease, and the accept it answers
  taking,    \* the devices that are withdrawing
  notes,     \* the notes of the LOCK: "out", "back", "claimed"
  stash      \* Home's stash entry still holds them

vars == <<relay, early, record, releasing, taking, notes, stash>>

NotReleasing == [pc |-> "idle", answers |-> NoAccept]

Init ==
  /\ relay = {Lock} /\ early = FALSE
  /\ record = [d \in Devices |-> IF d = Home THEN "saved" ELSE "none"]
  /\ releasing = [d \in Devices |-> NotReleasing]
  /\ taking = {}
  /\ notes = "out" /\ stash = TRUE

-----------------------------------------------------------------------------
(* What a read R says *)

AcceptsIn(R) == {n \in Accepts : Accept(n) \in R}
First(R)     == IF AcceptsIn(R) = {} THEN NoAccept ELSE Min(AcceptsIn(R))

\* Answered(R, n): the funder released on accept n.
Answered(R, n) == \E d \in Devices : Release(n, d) \in R

\* Mutant: an accept does not pin its signer's cancel.
CancelCountsSlip(R) == Cancel \in R

\* An accept names the LOCK, so its signer's CANCEL cannot refuse that LOCK.
CancelCounts(R) == Cancel \in R /\ AcceptsIn(R) = {}

\* A CANCEL signed after the LOCK by one who never accepted: no replay.
Conflicts(R) == CancelCounts(R) /\ ~ early

\* Mutant: the withdraw wins whenever it is there.
CountsReleasedSlip(R) == FALSE

\* releasedLocks, with withdraws ignored: the release is applied; or the chain
\* does not replay and there is some release; or its accept is missing.
CountsReleased(R) ==
  \/ ~ Conflicts(R) /\ First(R) # NoAccept /\ Answered(R, First(R))
  \/ \E n \in Accepts : Answered(R, n) /\ (Conflicts(R) \/ Accept(n) \notin R)

\* WITHDRAWN_BEFORE_ACCEPT: the LOCK and its steps are set aside.
TakenBack(R) ==
  /\ Lock \in R /\ \E d \in Devices : Withdraw(d) \in R
  /\ ~ CountsReleased(R)

\* CANCELLED_BEFORE_LOCK is the other way to lose.
Refused(R) == TakenBack(R) \/ (Lock \in R /\ CancelCounts(R) /\ early)

\* The trade is LOCKED or EXPIRED with this LOCK, as far as R goes.
Held(R) == Lock \in R /\ ~ TakenBack(R) /\ ~ CancelCounts(R)

Readable(R) == Lock \in R => Held(R) \/ Refused(R)

Accepted(R) == Held(R) /\ First(R) # NoAccept
Released(R) == Accepted(R) /\ Answered(R, First(R))

\* CREATED: the LOCK is unknown, or withdrawn, and nobody cancelled.
Open(R) == Cancel \notin R /\ (Lock \notin R \/ TakenBack(R))

-----------------------------------------------------------------------------
(* The principal who did not fund, and who created the trade *)

\* maybeAutoAccept.  A retry, or a second device, may date its accept earlier.
AcceptLock(n, R) ==
  /\ Held(R) /\ First(R) = NoAccept
  /\ relay' = relay \cup {Accept(n)}
  /\ UNCHANGED <<early, record, releasing, taking, notes, stash>>

\* A CANCEL by one whose read shows no LOCK, with any date.
CancelTrade(R) ==
  /\ Cancel \notin relay /\ Open(R)
  /\ relay' = relay \cup {Cancel}
  /\ early' \in BOOLEAN
  /\ UNCHANGED <<record, releasing, taking, notes, stash>>

-----------------------------------------------------------------------------
(* A device of the funder releases: maybeAutoRelease *)

Quits(d) == releasing' = [releasing EXCEPT ![d] = NotReleasing]
Goes(d, pc) == releasing' = [releasing EXCEPT ![d].pc = pc]

\* Mutant: a release that was chosen is not tried again.
ReleaseStartsSlip(d, n, R) ==
  /\ releasing[d] = NotReleasing /\ d \notin taking
  /\ Accepted(R) /\ ~ Released(R) /\ First(R) = n /\ n <= Deadline
  /\ record[d] \in {"none", "saved"}
  /\ releasing' = [releasing EXCEPT ![d] =
       [pc |-> IF record[d] = "none" THEN "backup" ELSE "sharing", answers |-> n]]
  /\ UNCHANGED <<relay, early, record, taking, notes, stash>>

\* The trade reads LOCKED and accepted.  A device without a record of its own
\* has the backup of the LOCK only.
ReleaseStarts(d, n, R) ==
  /\ releasing[d] = NotReleasing /\ d \notin taking
  /\ Accepted(R) /\ ~ Released(R) /\ First(R) = n /\ n <= Deadline
  /\ record[d] # "withdraw"
  /\ releasing' = [releasing EXCEPT ![d] =
       [pc |-> IF record[d] = "none" THEN "backup" ELSE "sharing", answers |-> n]]
  /\ UNCHANGED <<relay, early, record, taking, notes, stash>>

\* Mutant: the backup is kept as a record without a choice field.
OpenBackupSlip(d, R) ==
  /\ releasing[d].pc = "backup" /\ Accepted(R) /\ ~ Released(R) /\ record[d] = "none"
  /\ record' = [record EXCEPT ![d] = "backup"] /\ Goes(d, "sharing")
  /\ UNCHANGED <<relay, early, taking, notes, stash>>

\* heldBackShares: a fresh read must still show the LOCK accepted and
\* unreleased; save does not replace a record that appeared meanwhile.
OpenBackup(d, R) ==
  /\ releasing[d].pc = "backup"
  /\ Accepted(R) /\ ~ Released(R) /\ record[d] = "none"
  /\ record' = [record EXCEPT ![d] = "saved"]
  /\ Goes(d, "sharing")
  /\ UNCHANGED <<relay, early, taking, notes, stash>>

\* Mutant: the choice is not compared with the one on record.
ChooseReleaseSlip(d) ==
  /\ releasing[d].pc = "sharing"
  /\ record' = [record EXCEPT ![d] = "release"] /\ Goes(d, "signing")
  /\ UNCHANGED <<relay, early, taking, notes, stash>>

\* The choice is on record before anything is signed.
ChooseRelease(d) ==
  /\ releasing[d].pc = "sharing"
  /\ IF record[d] = "withdraw"
     THEN Quits(d) /\ UNCHANGED record
     ELSE record' = [record EXCEPT ![d] = "release"] /\ Goes(d, "signing")
  /\ UNCHANGED <<relay, early, taking, notes, stash>>

\* After the signature the trade is read again.
SendRelease(d, R) ==
  /\ releasing[d].pc = "signing"
  /\ Held(R) /\ ~ Released(R) /\ First(R) = releasing[d].answers
  /\ relay' = relay \cup {Release(releasing[d].answers, d)}
  /\ Quits(d)
  /\ UNCHANGED <<early, record, taking, notes, stash>>

\* A check fails, no relay takes the event, or the page dies.
ReleaseEnds(d) ==
  /\ releasing[d] # NotReleasing /\ Quits(d)
  /\ UNCHANGED <<relay, early, record, taking, notes, stash>>

-----------------------------------------------------------------------------
(* A device of the funder withdraws: withdrawWithheldLock *)

\* Mutant: retire overwrites a choice to release.
WithdrawTapSlip(d, R) ==
  /\ d \notin taking /\ releasing[d] = NotReleasing /\ Held(R) /\ ~ Released(R)
  /\ record' = [record EXCEPT ![d] = "withdraw"] /\ taking' = taking \cup {d}
  /\ UNCHANGED <<relay, early, releasing, notes, stash>>

\* "Take your sats back".  The button was drawn from an earlier read, so an
\* accept does not stop it; retire does, when this device chose to release.
WithdrawTap(d, R) ==
  /\ d \notin taking /\ releasing[d] = NotReleasing
  /\ Held(R) /\ ~ Released(R)
  /\ record[d] # "release" /\ record' = [record EXCEPT ![d] = "withdraw"]
  /\ taking' = taking \cup {d}
  /\ UNCHANGED <<relay, early, releasing, notes, stash>>

SendWithdraw(d, R) ==
  /\ d \in taking /\ Held(R) /\ ~ Released(R)
  /\ relay' = relay \cup {Withdraw(d)}
  /\ taking' = taking \ {d}
  /\ UNCHANGED <<early, record, releasing, notes, stash>>

WithdrawEnds(d) ==
  /\ d \in taking /\ taking' = taking \ {d}
  /\ UNCHANGED <<relay, early, record, releasing, notes, stash>>

-----------------------------------------------------------------------------
(* Home settles its stash entry: recoverPendingNativeLock *)

\* Mutant: shares already retired stop the refund.
SettleRefusedSlip(R, credited) ==
  /\ stash /\ Home \notin taking /\ Refused(R) /\ record[Home] = "saved"
  /\ record' = [record EXCEPT ![Home] = "withdraw"]
  /\ IF credited /\ notes = "out" THEN notes' = "back" /\ stash' = FALSE
                                  ELSE UNCHANGED <<notes, stash>>
  /\ UNCHANGED <<relay, early, releasing, taking>>

\* The LOCK is refused: the shares are retired, then the notes redeemed
\* against measured credit.  A withdrawal in progress holds the flow mutex.
SettleRefused(R, credited) ==
  /\ stash /\ Home \notin taking
  /\ Refused(R) /\ record[Home] # "release"
  /\ record' = [record EXCEPT ![Home] = "withdraw"]
  /\ IF credited /\ notes = "out" THEN notes' = "back" /\ stash' = FALSE
                                  ELSE UNCHANGED <<notes, stash>>
  /\ UNCHANGED <<relay, early, releasing, taking>>

\* The LOCK is released: the notes are the trade's.
SettleReleased(R) ==
  /\ stash /\ Home \notin taking /\ Released(R)
  /\ stash' = FALSE
  /\ UNCHANGED <<relay, early, record, releasing, taking, notes>>

\* Votes need released shares, and the winner redeems the notes.
WinnerClaims(R) ==
  /\ Released(R) /\ notes = "out" /\ notes' = "claimed"
  /\ UNCHANGED <<relay, early, record, releasing, taking, stash>>

-----------------------------------------------------------------------------

ReadStep(R) ==
  \/ \E n \in Accepts : \/ AcceptLock(n, R)
                        \/ \E d \in Devices : ReleaseStarts(d, n, R)
  \/ CancelTrade(R) \/ SettleReleased(R) \/ WinnerClaims(R)
  \/ \E credited \in BOOLEAN : SettleRefused(R, credited)
  \/ \E d \in Devices : \/ OpenBackup(d, R) \/ SendRelease(d, R)
                        \/ WithdrawTap(d, R) \/ SendWithdraw(d, R)

Next ==
  \/ \E R \in SUBSET relay : ReadStep(R)
  \/ \E d \in Devices : ChooseRelease(d) \/ ReleaseEnds(d) \/ WithdrawEnds(d)

Spec == Init /\ [][Next]_vars

\* Pages are opened again and again, and now and then one reads everything and
\* lives until it has sent what it signed.  No flow runs for ever.  Nobody has
\* to tap.
FairSpec ==
  /\ Spec
  /\ SF_vars(\E n \in Accepts : ReleaseStarts(Home, n, relay))
  /\ SF_vars(releasing[Home].answers = First(relay) /\ ChooseRelease(Home))
  /\ SF_vars(SendRelease(Home, relay))
  /\ WF_vars(ReleaseEnds(Home)) /\ WF_vars(WithdrawEnds(Home))
  /\ SF_vars(SettleRefused(relay, TRUE))

-----------------------------------------------------------------------------
(* What it all is for *)

TypeOK ==
  /\ relay \subseteq Events /\ Lock \in relay /\ early \in BOOLEAN
  /\ record \in [Devices -> {"none", "saved", "release", "withdraw"}]
  /\ releasing \in [Devices -> [pc : {"idle", "backup", "sharing", "signing"},
                                answers : Accepts \cup {NoAccept}]]
  /\ taking \subseteq Devices
  /\ notes \in {"out", "back", "claimed"} /\ stash \in BOOLEAN

\* state-machine.ts: "the funder's own app never signs both".
NeverBoth ==
  \A d \in Devices, n \in Accepts : ~ (Release(n, d) \in relay /\ Withdraw(d) \in relay)

ReleasedElsewhere == \E d \in Others, n \in Accepts : Release(n, d) \in relay

\* Once the notes are home, no reader, however little of the history he has,
\* sees a funded trade; save one that another device of the funder released.
NoHollowTrade ==
  notes = "back" /\ ~ ReleasedElsewhere => \A R \in SUBSET relay : ~ Released(R)

\* What anybody read as accepted, the whole history never calls cancelled or
\* unreadable: it is held, or withdrawn.
AcceptOutranksCancel ==
  \A R \in SUBSET relay : Accepted(R) => Held(relay) \/ TakenBack(relay)

\* What anybody read as funded, on the accept that stands, stays funded in
\* every longer history, withdraws and cancels included.
ReleaseOutranksWithdraw ==
  \A R \in SUBSET relay : Released(R) /\ First(R) = First(relay) => Released(relay)

\* An accept in time is answered, unless the funder took the LOCK back.
AcceptIsAnswered ==
  (Accepted(relay) /\ First(relay) <= Deadline)
    ~> (Released(relay) \/ TakenBack(relay) \/ record[Home] = "withdraw")

\* The device that funded gets its notes back once it withdrew, unless another
\* device of the funder released.
OwnWithdrawComesHome ==
  (Withdraw(Home) \in relay /\ TakenBack(relay)) ~> (notes # "out" \/ ReleasedElsewhere)

\* escrow-client.ts: "the saved notes come back through the normal refused-lock
\* recovery", whichever device withdrew.
WithdrawnComesHome == TakenBack(relay) ~> (notes # "out" \/ ~ TakenBack(relay))

=============================================================================
