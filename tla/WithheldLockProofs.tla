------------------------- MODULE WithheldLockProofs -------------------------
(***************************************************************************)
(* Theorems of WithheldLock, for any devices, any number of accepts and    *)
(* any reads.                                                              *)
(*                                                                         *)
(* The argument is that of one word on a device: "release" and "withdraw"  *)
(* are never replaced in its store (Kept), whatever it signs is what its   *)
(* store says (Backed), and Home redeems only what it has retired (Retired). *)
(* That readers agree needs no history at all.                             *)
(***************************************************************************)
EXTENDS WithheldLock, TLAPS

Steps == {"none", "saved", "release", "withdraw"}

\* Whatever a device sent, or is about to send, is what its store says.
Backed ==
  \A d \in Devices :
    /\ \A n \in Accepts : Release(n, d) \in relay => record[d] = "release"
    /\ releasing[d].pc = "signing" => record[d] = "release"
    /\ Withdraw(d) \in relay => record[d] = "withdraw"
    /\ d \in taking => record[d] = "withdraw"

\* Notes that are home again have their shares retired.
Retired == notes = "back" => record[Home] = "withdraw"

\* A release in progress answers an accept.
Answering ==
  \A d \in Devices : releasing[d].pc # "idle" => releasing[d].answers \in Accepts

WInv == TypeOK /\ Backed /\ Retired /\ Answering

\* A choice stays.
Kept ==
  \A d \in Devices :
    /\ record[d] = "release"  => record'[d] = "release"
    /\ record[d] = "withdraw" => record'[d] = "withdraw"

-----------------------------------------------------------------------------
(* Events *)

\* Events of different kinds or devices differ.
LEMMA EventsDiffer ==
  ASSUME NEW n, NEW m, NEW d, NEW e
  PROVE  /\ Release(n, d) # Lock /\ Release(n, d) # Cancel
         /\ Release(n, d) # Accept(m) /\ Release(n, d) # Withdraw(e)
         /\ Withdraw(d) # Lock /\ Withdraw(d) # Cancel
         /\ Withdraw(d) # Accept(m)
         /\ (Release(n, d) = Release(m, e) => d = e)
         /\ (Withdraw(d) = Withdraw(e) => d = e)
  BY DEF Release, Withdraw, Accept, Lock, Cancel

\* A release event answers an accept.
LEMMA ReleaseAnswers ==
  ASSUME NEW n, NEW d, Release(n, d) \in Events
  PROVE  n \in Accepts
  BY DEF Events, Release, Withdraw, Accept, Lock, Cancel

\* Home is a device.
LEMMA HomeIsDevice == Home \in Devices
  BY DEF Devices

-----------------------------------------------------------------------------
(* Types *)

\* The initial state keeps the invariant.
LEMMA InitInv == Init => WInv
<1> SUFFICES ASSUME Init PROVE WInv
  OBVIOUS
<1>1. TypeOK
  <2>1. relay \subseteq Events /\ Lock \in relay
    BY DEF Init, Events
  <2>2. releasing \in [Devices -> [pc : {"idle", "backup", "sharing", "signing"},
                                   answers : Accepts \cup {NoAccept}]]
    BY DEF Init, NotReleasing
  <2> QED BY <2>1, <2>2 DEF Init, TypeOK
<1>2. Backed
  BY EventsDiffer DEF Init, Backed, NotReleasing
<1>3. Retired
  BY DEF Init, Retired
<1>4. Answering
  BY DEF Init, Answering, NotReleasing
<1> QED BY <1>1, <1>2, <1>3, <1>4 DEF WInv

-----------------------------------------------------------------------------
(* Steps: each keeps the types, keeps the choices, and signs what was chosen *)

\* A step that sends nothing, starts nothing and keeps the records.
LEMMA QuietStep ==
  ASSUME WInv,
         UNCHANGED <<record, releasing, taking>>,
         relay' = relay \/ relay' = relay \cup {Cancel}
                        \/ \E n \in Accepts : relay' = relay \cup {Accept(n)}
  PROVE  Backed'
  BY EventsDiffer DEF WInv, Backed

\* The counterparty's steps.
LEMMA OthersStep ==
  ASSUME WInv, NEW R,
         (\E n \in Accepts : AcceptLock(n, R)) \/ CancelTrade(R)
  PROVE  WInv'
<1>1. TypeOK'
  <2>1. relay' \subseteq Events /\ Lock \in relay'
    BY DEF AcceptLock, CancelTrade, WInv, TypeOK, Events
  <2> QED BY <2>1 DEF AcceptLock, CancelTrade, WInv, TypeOK
<1>2. Backed'
  BY QuietStep DEF AcceptLock, CancelTrade
<1>3. Retired' /\ Answering'
  BY DEF AcceptLock, CancelTrade, WInv, Retired, Answering
<1> QED BY <1>1, <1>2, <1>3 DEF WInv

\* The release flow up to the signature.
LEMMA ChoosingStep ==
  ASSUME WInv, NEW R, NEW d \in Devices,
         \/ \E n \in Accepts : ReleaseStarts(d, n, R)
         \/ OpenBackup(d, R) \/ ChooseRelease(d) \/ ReleaseEnds(d)
  PROVE  WInv'
<1> DEFINE Rel == [pc : {"idle", "backup", "sharing", "signing"},
                   answers : Accepts \cup {NoAccept}]
<1>1. /\ record \in [Devices -> Steps] /\ releasing \in [Devices -> Rel]
  BY DEF WInv, TypeOK, Steps
<1>2. /\ record' \in [Devices -> Steps] /\ Kept
      /\ releasing' \in [Devices -> Rel]
      /\ \A e \in Devices : releasing'[e].pc = "signing" => record'[e] = "release"
      /\ Answering'
  <2>1. CASE \E n \in Accepts : ReleaseStarts(d, n, R)
    BY <2>1, <1>1 DEF ReleaseStarts, Steps, Kept, WInv, Backed, Answering
  <2>2. CASE OpenBackup(d, R)
    BY <2>2, <1>1 DEF OpenBackup, Goes, Steps, Kept, WInv, Backed, Answering
  <2>3. CASE ChooseRelease(d)
    <3>1. releasing[d].pc = "sharing" /\ NotReleasing \in Rel
      BY <2>3 DEF ChooseRelease, NotReleasing
    <3>2. CASE record[d] = "withdraw"
      <4>1. record' = record /\ releasing' = [releasing EXCEPT ![d] = NotReleasing]
        BY <2>3, <3>2 DEF ChooseRelease, Quits
      <4> QED BY <1>1, <3>1, <4>1 DEF NotReleasing, Kept, WInv, Backed, Answering
    <3>3. CASE record[d] # "withdraw"
      <4>1. /\ record' = [record EXCEPT ![d] = "release"]
            /\ releasing' = [releasing EXCEPT ![d].pc = "signing"]
        BY <2>3, <3>3 DEF ChooseRelease, Goes
      <4>2. record' \in [Devices -> Steps] /\ Kept
        BY <1>1, <3>3, <4>1 DEF Steps, Kept
      <4>3. releasing' \in [Devices -> Rel]
        BY <1>1, <4>1
      <4>4. \A e \in Devices : releasing'[e].pc = "signing" => record'[e] = "release"
        BY <1>1, <4>1 DEF WInv, Backed
      <4>5. Answering'
        BY <1>1, <3>1, <4>1 DEF WInv, Answering
      <4> QED BY <4>2, <4>3, <4>4, <4>5
    <3> QED BY <3>2, <3>3
  <2>4. CASE ReleaseEnds(d)
    BY <2>4, <1>1 DEF ReleaseEnds, Quits, NotReleasing, Steps, Kept, WInv, Backed, Answering
  <2> QED BY <2>1, <2>2, <2>3, <2>4
<1>3. UNCHANGED <<relay, early, taking, notes, stash>>
  BY DEF ReleaseStarts, OpenBackup, ChooseRelease, ReleaseEnds
<1>4. TypeOK'
  BY <1>2, <1>3 DEF WInv, TypeOK, Steps
<1>5. Backed'
  BY <1>2, <1>3 DEF WInv, Backed, Kept
<1>6. Retired'
  BY <1>2, <1>3, HomeIsDevice DEF WInv, Retired, Kept
<1> QED BY <1>2, <1>4, <1>5, <1>6 DEF WInv

\* The release that was chosen is sent.
LEMMA SendReleaseStep ==
  ASSUME WInv, NEW R, NEW d \in Devices, SendRelease(d, R)
  PROVE  WInv'
<1> DEFINE n == releasing[d].answers
<1>1. /\ n \in Accepts /\ record[d] = "release"
      /\ relay' = relay \cup {Release(n, d)}
      /\ releasing' = [releasing EXCEPT ![d] = NotReleasing]
      /\ UNCHANGED <<early, record, taking, notes, stash>>
  BY DEF SendRelease, Quits, WInv, Backed, Answering
<1>2. TypeOK'
  <2>1. Release(n, d) \in Events
    BY <1>1 DEF Events
  <2>2. releasing' \in [Devices -> [pc : {"idle", "backup", "sharing", "signing"},
                                    answers : Accepts \cup {NoAccept}]]
    BY <1>1 DEF WInv, TypeOK, NotReleasing
  <2> QED BY <1>1, <2>1, <2>2 DEF WInv, TypeOK
<1>3. Backed'
  <2>1. \A e \in Devices : releasing'[e].pc = "signing" => releasing[e].pc = "signing"
    BY <1>1 DEF WInv, TypeOK, NotReleasing
  <2>2. \A e \in Devices, m \in Accepts :
          Release(m, e) \in relay' => Release(m, e) \in relay \/ e = d
    BY <1>1, EventsDiffer
  <2>3. \A e \in Devices : Withdraw(e) \in relay' => Withdraw(e) \in relay
    BY <1>1, EventsDiffer
  <2> QED BY <1>1, <2>1, <2>2, <2>3 DEF WInv, Backed
<1>4. Retired'
  BY <1>1 DEF WInv, Retired
<1>5. Answering'
  BY <1>1 DEF WInv, TypeOK, Answering, NotReleasing
<1> QED BY <1>2, <1>3, <1>4, <1>5 DEF WInv

\* The withdrawal: retired first, sent afterwards.
LEMMA WithdrawStep ==
  ASSUME WInv, NEW R, NEW d \in Devices,
         WithdrawTap(d, R) \/ SendWithdraw(d, R) \/ WithdrawEnds(d)
  PROVE  WInv'
<1>1. /\ record' \in [Devices -> Steps] /\ Kept
      /\ taking' \subseteq Devices
      /\ \A e \in taking' : record'[e] = "withdraw"
      /\ UNCHANGED <<early, releasing, notes, stash>>
  BY DEF WithdrawTap, SendWithdraw, WithdrawEnds, WInv, TypeOK, Backed, Kept, Steps
<1>2. relay' = relay \/ (relay' = relay \cup {Withdraw(d)} /\ record'[d] = "withdraw")
  BY <1>1 DEF WithdrawTap, SendWithdraw, WithdrawEnds, WInv, Backed
<1>3. TypeOK'
  BY <1>1, <1>2 DEF WInv, TypeOK, Steps, Events
<1>4. Backed'
  <2>1. \A e \in Devices, n \in Accepts : Release(n, e) \in relay' => Release(n, e) \in relay
    BY <1>2, EventsDiffer
  <2>2. \A e \in Devices : Withdraw(e) \in relay' => Withdraw(e) \in relay \/ e = d
    BY <1>2, EventsDiffer
  <2> QED BY <1>1, <1>2, <2>1, <2>2 DEF WInv, Backed, Kept
<1>5. Retired' /\ Answering'
  BY <1>1, HomeIsDevice DEF WInv, Retired, Answering, Kept
<1> QED BY <1>3, <1>4, <1>5 DEF WInv

\* Home settles, or the winner claims.
LEMMA SettleStep ==
  ASSUME WInv, NEW R,
         \/ \E credited \in BOOLEAN : SettleRefused(R, credited)
         \/ SettleReleased(R) \/ WinnerClaims(R)
  PROVE  WInv'
<1>1. /\ record' \in [Devices -> Steps] /\ Kept
      /\ notes' \in {"out", "back", "claimed"} /\ stash' \in BOOLEAN
      /\ notes' = "back" => notes = "back" \/ record'[Home] = "withdraw"
  <2>1. CASE \E credited \in BOOLEAN : SettleRefused(R, credited)
    BY <2>1, HomeIsDevice DEF SettleRefused, WInv, TypeOK, Kept, Steps
  <2>2. CASE SettleReleased(R)
    BY <2>2 DEF SettleReleased, WInv, TypeOK, Kept, Steps
  <2>3. CASE WinnerClaims(R)
    BY <2>3 DEF WinnerClaims, WInv, TypeOK, Kept, Steps
  <2> QED BY <2>1, <2>2, <2>3
<1>2. UNCHANGED <<relay, early, releasing, taking>>
  BY DEF SettleRefused, SettleReleased, WinnerClaims
<1>3. TypeOK' /\ Answering'
  BY <1>1, <1>2 DEF WInv, TypeOK, Answering, Steps
<1>4. Backed'
  BY <1>1, <1>2 DEF WInv, TypeOK, Backed, Kept
<1>5. Retired'
  BY <1>1, HomeIsDevice DEF WInv, Retired, Kept
<1> QED BY <1>3, <1>4, <1>5 DEF WInv

\* Every step keeps the invariant.
LEMMA NextInv == WInv /\ [Next]_vars => WInv'
<1> SUFFICES ASSUME WInv, [Next]_vars PROVE WInv'
  OBVIOUS
<1>1. CASE UNCHANGED vars
  BY <1>1 DEF vars, WInv, TypeOK, Backed, Retired, Answering
<1>2. CASE Next
  <2>1. CASE \E R \in SUBSET relay : ReadStep(R)
    <3> PICK R \in SUBSET relay : ReadStep(R)
      BY <2>1
    <3> QED BY OthersStep, ChoosingStep, SendReleaseStep, WithdrawStep, SettleStep
            DEF ReadStep
  <2>2. CASE \E d \in Devices : ChooseRelease(d) \/ ReleaseEnds(d) \/ WithdrawEnds(d)
    BY <2>2, ChoosingStep, WithdrawStep
  <2> QED BY <1>2, <2>1, <2>2 DEF Next
<1> QED BY <1>1, <1>2

-----------------------------------------------------------------------------
(* Theorems *)

\* Every state has its type.
THEOREM WithheldTypes == Spec => []TypeOK
<1>1. WInv => TypeOK
  BY DEF WInv
<1> QED BY <1>1, InitInv, NextInv, PTL DEF Spec

\* No device of the funder signs a release and a withdraw: the choice on
\* record before the signature excludes the other (state-machine.ts).
THEOREM OneStepPerDevice == Spec => []NeverBoth
<1>1. WInv => NeverBoth
  BY DEF WInv, Backed, NeverBoth
<1> QED BY <1>1, InitInv, NextInv, PTL DEF Spec

\* Notes redeemed by the refused-lock recovery belong to a LOCK nobody can read
\* as funded, unless another device released (pending-native-locks.ts).
THEOREM NotesHomeUnreleased == Spec => []NoHollowTrade
<1>1. ASSUME WInv PROVE NoHollowTrade
  <2> SUFFICES ASSUME notes = "back", ~ ReleasedElsewhere, NEW R \in SUBSET relay
               PROVE  ~ Released(R)
    BY DEF NoHollowTrade
  <2>1. \A n \in Accepts : Release(n, Home) \notin relay
    BY <1>1, HomeIsDevice DEF WInv, Backed, Retired
  <2>2. \A n \in Accepts, d \in Devices : Release(n, d) \notin R
    BY <2>1 DEF ReleasedElsewhere, Devices
  <2>3. \A d \in Devices : Release(First(R), d) \in R => First(R) \in Accepts
    BY <1>1, ReleaseAnswers DEF WInv, TypeOK
  <2> QED BY <2>2, <2>3 DEF Released, Answered
<1> QED BY <1>1, InitInv, NextInv, PTL DEF Spec

\* A LOCK that some reader saw accepted is never cancelled for a reader of
\* more (CANCELLED_BEFORE_LOCK, state-machine.ts).
THEOREM AcceptPins == Spec => []AcceptOutranksCancel
<1>1. AcceptOutranksCancel
  <2> SUFFICES ASSUME NEW R \in SUBSET relay, Accepted(R)
               PROVE  Held(relay) \/ TakenBack(relay)
    BY DEF AcceptOutranksCancel
  <2>1. Lock \in R /\ AcceptsIn(R) # {}
    BY DEF Accepted, Held, First
  <2>2. AcceptsIn(relay) # {}
    BY <2>1 DEF AcceptsIn
  <2> QED BY <2>1, <2>2 DEF Held, CancelCounts
<1> QED BY <1>1, PTL DEF Spec

\* A LOCK that some reader saw released on the first accept of all stays
\* funded for a reader of more (WITHDRAWN_BEFORE_ACCEPT, state-machine.ts).
THEOREM ReleaseStands == Spec => []ReleaseOutranksWithdraw
<1>1. ReleaseOutranksWithdraw
  <2> SUFFICES ASSUME NEW R \in SUBSET relay, Released(R), First(R) = First(relay)
               PROVE  Released(relay)
    BY DEF ReleaseOutranksWithdraw
  <2>1. /\ Lock \in relay /\ AcceptsIn(R) # {}
        /\ First(relay) # NoAccept /\ Answered(relay, First(relay))
    BY DEF Released, Accepted, Held, First, Answered
  <2>2. ~ CancelCounts(relay)
    BY <2>1 DEF CancelCounts, AcceptsIn
  <2>3. ~ TakenBack(relay)
    BY <2>1, <2>2 DEF TakenBack, CountsReleased, Conflicts
  <2> QED BY <2>1, <2>2, <2>3 DEF Released, Accepted, Held
<1> QED BY <1>1, PTL DEF Spec

=============================================================================
