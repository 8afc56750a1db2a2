------------------------ MODULE EscrowPromiseProofs ------------------------
(***************************************************************************)
(* The reducer implements EscrowPromise, for any set of users, any pool,   *)
(* any dates and any listings: its first state is one of the promise, and  *)
(* every event it accepts is a step of the promise or leaves it alone.     *)
(***************************************************************************)
EXTENDS EscrowTradeProofs

\* What has been awarded has a verdict.
VerdictGiven == status \in {"APPROVED", "CLAIMED", "COMPLETED"} => resolved \in Outcomes

\* The seats of a trade that is not created are empty.
EmptyAtFirst == status = "none" => \A r \in Roles : participants[r] = NoOne

\* Only a verdict's own payee claims, and then the trade only completes.
ClaimFits ==
  claimer # NoRole =>
    status \in {"CLAIMED", "COMPLETED"} /\ claimer = PayoutRole(resolved)

RInv == IInv /\ VerdictGiven /\ EmptyAtFirst /\ ClaimFits

-----------------------------------------------------------------------------
(* What the steps have in common.                                          *)

(* The category table of recipients.ts names the two principals.           *)
LEMMA DealFits == Deal \in Promise!Deals
<1>1. \A o \in Outcomes : PayoutRole(o) \in Principals
  BY DEF PayoutRole, Principals
<1>2. \A o, p \in Outcomes : o # p => PayoutRole(o) # PayoutRole(p)
  BY DEF PayoutRole, Outcomes
<1> QED BY <1>1, <1>2 DEF Deal, Promise!Deals

(* The listing never changes, so neither does what it settles.             *)
LEMMA DealStays == ASSUME listing' = listing PROVE Deal' = Deal
BY DEF Deal, PayoutRole

(* Before the LOCK nobody has put money up or spoken.                      *)
LEMMA EarlyIsSilent ==
  ASSUME IInv, status \in Early PROVE lock.by = NoOne /\ Promise!Silent
<1>1. lock.by = NoOne /\ \A u \in Users : ballot[u] = NoBallot
  BY DEF IInv, BookedFirst, Funded
<1>2. \A r \in Roles : votes[r] = NoVote
  BY <1>1 DEF IInv, SlotsBacked, NoBallot, NoRole, Roles
<1> QED BY <1>1, <1>2 DEF Promise!Silent

(* A principal's slot is empty when he votes: he votes once.               *)
LEMMA PrincipalSpeaksOnce ==
  ASSUME IInv, NEW u \in Users, NEW r \in Principals, r = VoterRole(u),
         ballot[u] = NoBallot
  PROVE  votes[r] = NoVote
<1> SUFFICES ASSUME votes[r] # NoVote PROVE FALSE
  OBVIOUS
<1>1. PICK v \in Users : ballot[v].role = r
  BY DEF IInv, SlotsBacked, Roles, Principals
<1>2. ballot[v] # NoBallot /\ participants[r] = v
  BY <1>1 DEF IInv, BallotsFit, NoBallot, NoRole, Principals
<1>3. participants[r] = u
  BY DEF VoterRole, RoleOf, Principals, NoRole
<1> QED BY <1>2, <1>3

(* The locker still sits after his LOCK: the names it carries may replace  *)
(* a lapsed holder, never the one who locks.                               *)
LEMMA LockerSits ==
  ASSUME TypeOK, NEW u \in Users, NEW t \in Int, NEW buyer, NEW arbiter,
         LockerMayLock(u, t), NamesJoined("buyer", buyer, t),
         NamesJoined("arbiter", arbiter, t)
  PROVE  u \in {buyer, participants["seller"], arbiter}
<1> USE TradeAssumption
<1>1. PICK r \in Roles : EffectiveParticipantAt(r, t, 0) = u
  BY DEF LockerMayLock, ActiveRole, Roles
<1>2. participants[r] = u
  BY <1>1 DEF EffectiveParticipantAt
<1>3. EffectiveParticipantAt(r, t, LockGrace) = u
  <2>1. hold.until \in Int
    BY DEF TypeOK, HoldType
  <2> QED BY <1>1, <1>2, <2>1 DEF EffectiveParticipantAt
<1> QED BY <1>2, <1>3 DEF NamesJoined, Roles

-----------------------------------------------------------------------------
(* Step by step.                                                           *)

(* The seats fill up: a CREATE finds them empty, a JOIN fills one of them.  *)
LEMMA SeatsFill ==
  ASSUME RInv, Create \/ JoinStep PROVE Promise!Sit \/ UNCHANGED Promise!promiseVars
<1> USE DEF ballotVars, verdictVars
<1>1. /\ status \in {"none", "CREATED"} /\ status' = "CREATED"
      /\ UNCHANGED <<listing, lock, votes, resolved, claimer>>
  BY DEF Create, JoinStep, Join, ChangeOrder
<1>2. Stage = "open" /\ Stage' = "open"
  BY <1>1 DEF Stage
<1>3. lock.by = NoOne /\ Promise!Silent
  BY <1>1, EarlyIsSilent DEF RInv, Early
<1>4. \E r \in Roles : \A q \in Roles \ {r} :
        participants'[q] # participants[q] => participants[q] = NoOne
  <2>1. CASE Create
    BY <2>1 DEF Create, RInv, EmptyAtFirst, Roles
  <2>2. CASE JoinStep
    <3>1. PICK r \in Roles, u \in Users :
            participants' \in {participants, [participants EXCEPT ![r] = u]}
      BY <2>2 DEF JoinStep, Join, ChangeOrder
    <3>2. \A q \in Roles \ {r} : participants'[q] = participants[q]
      BY <3>1 DEF RInv, IInv, TypeOK
    <3> QED BY <3>2
  <2> QED BY <2>1, <2>2
<1> QED BY <1>1, <1>2, <1>3, <1>4, DealStays DEF Promise!Sit

(* The LOCK puts the money up, out of one of the three seats.              *)
LEMMA LockFunds == ASSUME RInv, IInv', LockStep PROVE Promise!Fund
<1> USE TradeAssumption DEF ballotVars, verdictVars
<1>1. PICK u \in Users, t \in Times, buyer \in Users, arbiter \in Users,
           lockedAt \in Times, grace \in Graces, pooled \in BOOLEAN,
           withheld \in BOOLEAN, order \in Orders \cup {NoOrder} :
        Lock(u, t, lockedAt, buyer, arbiter, pooled, withheld, grace, order)
  BY DEF LockStep
<1>2. /\ status = "CREATED" /\ status' = "LOCKED" /\ lock'.by = u
      /\ participants' = [participants EXCEPT !["buyer"] = buyer, !["arbiter"] = arbiter]
      /\ UNCHANGED <<listing, votes, resolved, claimer>>
  BY <1>1 DEF Lock
<1>3. Stage = "open" /\ Stage' = "open"
  BY <1>2 DEF Stage
<1>4. lock.by = NoOne /\ Promise!Silent
  BY <1>2, EarlyIsSilent DEF RInv, Early
<1>5. \E r \in Roles : lock'.by = participants'[r]
  <2>1. u \in {buyer, participants["seller"], arbiter}
    BY <1>1, LockerSits DEF Lock, RInv, IInv
  <2>2. /\ participants'["buyer"] = buyer /\ participants'["arbiter"] = arbiter
        /\ participants'["seller"] = participants["seller"]
    BY <1>2 DEF RInv, IInv, TypeOK, Roles
  <2> QED BY <1>2, <2>1, <2>2 DEF Roles
<1>6. Funded'
  BY <1>2 DEF Funded
<1>7. /\ \A r \in Roles : participants'[r] # NoOne
      /\ \A r, q \in Roles : r # q => participants'[r] # participants'[q]
  BY <1>6 DEF IInv, ThreeSeats
<1>8. Deal.returns => lock'.by = participants'[Deal.pays["REFUND"]]
  <2>1. Deal.pays["REFUND"] = PayoutRole("REFUND") /\ PayoutRole("REFUND")' = PayoutRole("REFUND")
    BY <1>2 DEF Deal, Outcomes, PayoutRole
  <2>2. Deal.returns <=> listing'.category # "raw-escrow"
    BY <1>2 DEF Deal
  <2> QED BY <1>6, <2>1, <2>2 DEF IInv, RefundReturnsToLocker
<1> QED BY <1>2, <1>3, <1>4, <1>5, <1>7, <1>8, DealStays DEF Promise!Fund

(* A CANCEL is only accepted while the escrow is empty.                    *)
LEMMA CancelVoids == ASSUME RInv, CancelStep PROVE Promise!Void
<1>1. /\ status = "CREATED" /\ status' = "CANCELLED"
      /\ UNCHANGED <<listing, participants, lock, votes, resolved, claimer>>
  BY DEF CancelStep, Cancel, ballotVars, verdictVars
<1>2. lock.by = NoOne /\ Promise!Silent
  BY <1>1, EarlyIsSilent DEF RInv, Early
<1>3. Stage = "open" /\ Stage' = "void"
  BY <1>1 DEF Stage
<1> QED BY <1>1, <1>2, <1>3, DealStays DEF Promise!Void

(* A VOTE is an opinion of its slot: the voter's own, or on a pooled lock  *)
(* that of the arbiter who ranks first.                                    *)
LEMMA VoteOpines == ASSUME RInv, IInv', VoteStep PROVE Promise!Opine
<1>1. PICK u \in Users, outcome \in Outcomes, t \in Times : Vote(u, outcome, t)
  BY DEF VoteStep
<1>2. TypeOK /\ t \in Int
  BY TradeAssumption DEF RInv, IInv
<1>3. PICK r \in Roles, w \in Users :
         /\ r = VoterRole(u)
         /\ ballot[u] = NoBallot
         /\ votes' = [votes EXCEPT ![r] = ballot'[w].outcome]
         /\ ballot'[w].role = r
  BY <1>1, <1>2, VoteEffect
<1>4. ballot'[w].outcome \in Outcomes
  BY <1>3 DEF IInv, BallotsFit, NoBallot, NoRole, Roles
<1>5. r \in Principals => votes[r] = NoVote
  BY <1>3, PrincipalSpeaksOnce DEF RInv
<1>6. UNCHANGED <<listing, participants, lock, resolved, claimer>>
  BY <1>1 DEF Vote, verdictVars
<1>7. Stage = "open" /\ Stage' = "open"
  <2>1. status' \in {"LOCKED", "EXPIRED"} /\ status \in {"CREATED", "LOCKED", "EXPIRED"}
    BY <1>1 DEF Vote, StatusFor, Late
  <2> QED BY <2>1 DEF Stage
<1> QED BY <1>3, <1>4, <1>5, <1>6, <1>7, DealStays DEF Promise!Opine

(* A RESOLVE awards what two slots agree on.                               *)
LEMMA ResolveAwards == ASSUME RInv, ResolveStep PROVE Promise!Award
<1>1. PICK outcome \in Outcomes, t \in Times : Resolve(outcome, t)
  BY DEF ResolveStep
<1>2. /\ status \in {"LOCKED", "EXPIRED"} /\ status' = "APPROVED" /\ resolved' = outcome
      /\ \E r, q \in Roles : r # q /\ votes[r] = outcome /\ votes[q] = outcome
      /\ UNCHANGED <<listing, participants, lock, votes, claimer>>
  BY <1>1 DEF Resolve, Resolvable, ThresholdMet, ballotVars
<1>3. Stage = "open" /\ Stage' = "awarded"
  BY <1>2 DEF Stage
<1> QED BY <1>2, <1>3, DealStays DEF Promise!Award

(* A CLAIM is accepted from the one whom the verdict pays.                 *)
LEMMA ClaimPays == ASSUME RInv, ClaimStep PROVE Promise!Pay
<1>1. /\ status = "APPROVED" /\ status' = "CLAIMED" /\ claimer' = PayoutRole(resolved)
      /\ UNCHANGED <<listing, participants, lock, votes, resolved>>
  BY DEF ClaimStep, Claim, ballotVars
<1>2. claimer' = Deal.pays[resolved]
  BY <1>1 DEF RInv, VerdictGiven, Deal
<1>3. Stage = "awarded" /\ Stage' = "paid"
  BY <1>1 DEF Stage
<1> QED BY <1>1, <1>2, <1>3, DealStays DEF Promise!Pay

(* A COMPLETE closes what was paid.                                        *)
LEMMA CompleteCloses == ASSUME Complete PROVE Promise!Close
<1>1. /\ status = "CLAIMED" /\ status' = "COMPLETED"
      /\ UNCHANGED <<listing, participants, lock, votes, resolved, claimer>>
  BY DEF Complete, ballotVars, verdictVars
<1>2. Stage = "paid" /\ Stage' = "closed"
  BY <1>1 DEF Stage
<1> QED BY <1>1, <1>2, DealStays DEF Promise!Close

(* The steps of a withheld LOCK and the deadline itself are not seen.      *)
LEMMA HiddenSteps ==
  ASSUME RInv, AcceptStep \/ ReleaseStep \/ ExpireStep \/ UNCHANGED vars
  PROVE  UNCHANGED Promise!promiseVars
<1>1. /\ UNCHANGED <<listing, participants, votes, resolved, claimer>>
      /\ lock'.by = lock.by
      /\ status' = status
           \/ {status, status'} \subseteq {"none", "CREATED", "LOCKED", "EXPIRED"}
  <2>1. CASE AcceptStep
    BY <2>1 DEF AcceptStep, Accept, LockStepAllowed, StatusFor, Late, RInv, IInv, TypeOK,
                LockType, ballotVars, verdictVars
  <2>2. CASE ReleaseStep
    BY <2>2 DEF ReleaseStep, Release, LockStepAllowed, StatusFor, Late, RInv, IInv, TypeOK,
                LockType, ballotVars, verdictVars
  <2>3. CASE ExpireStep
    BY <2>3 DEF ExpireStep, Expire, ballotVars, verdictVars
  <2>4. CASE UNCHANGED vars
    BY <2>4 DEF vars
  <2> QED BY <2>1, <2>2, <2>3, <2>4
<1>2. Stage' = Stage
  BY <1>1 DEF Stage
<1> QED BY <1>1, <1>2, DealStays DEF Promise!promiseVars

-----------------------------------------------------------------------------

(* Before a RESOLVE there is no verdict and before a CLAIM no claimer, and *)
(* neither is revised by any event that is accepted later.                 *)
LEMMA VerdictStays ==
  ASSUME RInv, [Next]_vars
  PROVE  /\ resolved # NoVote =>
              /\ UNCHANGED <<listing, participants, votes, resolved, majority>>
              /\ lock'.by = lock.by
              /\ status' \in {"APPROVED", "CLAIMED", "COMPLETED"}
         /\ claimer # NoRole => UNCHANGED claimer /\ status' \in {"CLAIMED", "COMPLETED"}
<1>1. resolved # NoVote => status \in {"APPROVED", "CLAIMED", "COMPLETED"}
  BY DEF RInv, IInv, VerdictStands
<1>2. claimer # NoRole => status \in {"CLAIMED", "COMPLETED"} /\ resolved # NoVote
  BY DEF RInv, ClaimFits, VerdictGiven, Outcomes, NoVote
<1>3. status \in {"APPROVED", "CLAIMED", "COMPLETED"}
        => (Next => ClaimStep \/ Complete)
  BY DEF Next, Create, JoinStep, CancelStep, Cancel, LockStep, AcceptStep, Accept,
         ReleaseStep, Release, LockStepAllowed, StatusFor, Late, VoteStep, Vote,
         ResolveStep, Resolve, Resolvable, ExpireStep, Expire
<1>4. CASE ClaimStep
  BY <1>2, <1>4 DEF ClaimStep, Claim, ballotVars
<1>5. CASE Complete
  BY <1>5 DEF Complete, ballotVars, verdictVars
<1>6. CASE UNCHANGED vars
  BY <1>1, <1>2, <1>6 DEF vars
<1> QED BY <1>1, <1>2, <1>3, <1>4, <1>5, <1>6

(* Seats stay empty until the CREATE, a trade that is approved, claimed or *)
(* completed has its outcome, and who claimed is whom it pays.             *)
LEMMA RInvNext == RInv /\ IInv' /\ [Next]_vars => RInv'
<1> SUFFICES ASSUME RInv, IInv', [Next]_vars
             PROVE  EmptyAtFirst' /\ VerdictGiven' /\ ClaimFits'
  BY DEF RInv
<1>1. EmptyAtFirst'
  <2>1. status' = "none" => status = "none" /\ participants' = participants
    BY DEF Next, Create, JoinStep, Join, ChangeOrder, CancelStep, Cancel, LockStep, Lock,
           AcceptStep, Accept, ReleaseStep, Release, LockStepAllowed, VoteStep, Vote,
           ResolveStep, Resolve, ClaimStep, Claim, Complete, ExpireStep, Expire, vars
  <2> QED BY <2>1 DEF RInv, EmptyAtFirst
<1>2. VerdictGiven'
  <2>1. CASE ResolveStep
    BY <2>1 DEF ResolveStep, Resolve, VerdictGiven
  <2>2. CASE ~ResolveStep
    <3>1. /\ resolved' = resolved
          /\ status' \in {"APPROVED", "CLAIMED", "COMPLETED"}
               => status \in {"APPROVED", "CLAIMED", "COMPLETED"}
      BY <2>2 DEF Next, Create, JoinStep, Join, ChangeOrder, CancelStep, Cancel, LockStep,
                  Lock, AcceptStep, Accept, ReleaseStep, Release, LockStepAllowed, VoteStep,
                  Vote, ClaimStep, Claim, Complete, ExpireStep, Expire, verdictVars, vars
    <3> QED BY <3>1 DEF RInv, VerdictGiven
  <2> QED BY <2>1, <2>2
<1>3. ClaimFits'
  <2>1. CASE ClaimStep
    BY <2>1 DEF ClaimStep, Claim, ClaimFits, PayoutRole, ballotVars
  <2>2. CASE ~ClaimStep
    <3>1. claimer' = claimer
      BY <2>2 DEF Next, Create, JoinStep, Join, ChangeOrder, CancelStep, Cancel, LockStep,
                  Lock, AcceptStep, Accept, ReleaseStep, Release, VoteStep, Vote,
                  ResolveStep, Resolve, Complete, ExpireStep, Expire, verdictVars, vars
    <3>2. claimer # NoRole => resolved # NoVote
      BY DEF RInv, ClaimFits, VerdictGiven, Outcomes, NoVote
    <3> QED BY <3>1, <3>2, VerdictStays DEF RInv, ClaimFits, PayoutRole
  <2> QED BY <2>1, <2>2
<1> QED BY <1>1, <1>2, <1>3

LEMMA RInvHolds == Spec => []RInv
<1>1. Init => EmptyAtFirst /\ VerdictGiven /\ ClaimFits
  BY DEF Init, EmptyAtFirst, VerdictGiven, ClaimFits
<1>2. IInv /\ EmptyAtFirst /\ VerdictGiven /\ ClaimFits => RInv
  BY DEF RInv
<1>3. RInv /\ IInv' /\ [Next]_vars => RInv'
  BY RInvNext
<1> QED BY <1>1, <1>2, <1>3, InvHolds, PTL DEF Spec

(* The fold of applyEvent implements the abstract escrow, whoever signs    *)
(* the events, in whatever order and with whatever dates they come.        *)
THEOREM ReducerKeepsPromise == Spec => KeepsPromise
<1>1. Init => Promise!Init
  <2> SUFFICES ASSUME Init PROVE Promise!Init
    OBVIOUS
  <2>1. Stage = "open" /\ lock.by = NoOne
    BY DEF Init, Stage, NoLock
  <2> QED BY <2>1, DealFits DEF Init, Promise!Init
<1>2. RInv /\ IInv' /\ [Next]_vars => [Promise!Next]_Promise!promiseVars
  <2> SUFFICES ASSUME RInv, IInv', [Next]_vars
               PROVE  Promise!Next \/ UNCHANGED Promise!promiseVars
    OBVIOUS
  <2> QED BY SeatsFill, LockFunds, CancelVoids, VoteOpines, ResolveAwards, ClaimPays,
             CompleteCloses, HiddenSteps DEF Next, Promise!Next
<1> QED BY <1>1, <1>2, InvHolds, RInvHolds, PTL DEF Spec, KeepsPromise, Promise!Spec

\* A verdict is for good: no later event, whoever signs it and whatever date it
\* carries, revises it, its majority, the slots it rests on or the seats it
\* pays, and there is one claimer.
VerdictIsFinal ==
  [][/\ resolved # NoVote =>
          UNCHANGED <<listing, participants, votes, resolved, majority>>
     /\ claimer # NoRole => UNCHANGED claimer]_vars

(* RESOLVE, CLAIM and COMPLETE are refused in every status but their own,  *)
(* and VOTE and the deadline stop at the verdict.                          *)
THEOREM VerdictsAreFinal == Spec => VerdictIsFinal
<1>1. RInv /\ [Next]_vars =>
        [/\ resolved # NoVote =>
              UNCHANGED <<listing, participants, votes, resolved, majority>>
         /\ claimer # NoRole => UNCHANGED claimer]_vars
  BY VerdictStays
<1> QED BY <1>1, RInvHolds, PTL DEF Spec, VerdictIsFinal

\* Where somebody claimed a funded escrow, the one who locked it has his money
\* back exactly when the verdict is REFUND.
PaidAsAgreed ==
  (claimer # NoRole /\ Funded /\ listing.category # "raw-escrow") =>
    (resolved = "REFUND" <=> participants[claimer] = lock.by)

(* The lock rule of handleLock, the payout table of recipients.ts and the  *)
(* role check of handleClaim, seen together.                               *)
THEOREM WinnersArePaid == Spec => []PaidAsAgreed
<1>1. RInv => PaidAsAgreed
  <2> SUFFICES ASSUME RInv, claimer # NoRole, Funded, listing.category # "raw-escrow"
               PROVE  resolved = "REFUND" <=> participants[claimer] = lock.by
    BY DEF PaidAsAgreed
  <2>1. claimer = PayoutRole(resolved) /\ resolved \in {"RELEASE", "REFUND"}
    BY DEF RInv, ClaimFits, VerdictGiven, Outcomes
  <2>2. /\ participants[PayoutRole("REFUND")] = lock.by
        /\ participants[PayoutRole("RELEASE")] # lock.by
    BY DEF RInv, IInv, RefundReturnsToLocker
  <2> QED BY <2>1, <2>2
<1> QED BY <1>1, RInvHolds, PTL

=============================================================================
