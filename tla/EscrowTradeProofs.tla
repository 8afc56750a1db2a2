------------------------- MODULE EscrowTradeProofs -------------------------
(***************************************************************************)
(* Theorems about EscrowTrade, for any set of users, any pool, any dates   *)
(* and any listings.                                                       *)
(***************************************************************************)
EXTENDS EscrowTrade, FiniteSetTheorems, TLAPS

(* The inductive invariant, by parts.                                      *)

Early == {"none", "CREATED", "CANCELLED"}

\* Money and votes come only after the booking; what the LOCK may withhold it
\* withholds from an existing lock.
BookedFirst ==
  /\ Funded => status \notin Early
  /\ status \in Early => \A u \in Users : ballot[u] = NoBallot
  /\ lock.withheld => Funded
  /\ lock.released => lock.accepted

\* The seller sits from the CREATE on, save on an open loan request.
SellerSits ==
  (status # "none" /\ ~(listing.category = "lending" /\ ~listing.child))
    => participants["seller"] # NoOne

\* A cast ballot is whole, and a principal's is what his slot shows.
BallotsFit ==
  \A u \in Users :
    \/ ballot[u] = NoBallot
    \/ /\ ballot[u].role \in Roles /\ ballot[u].outcome \in Outcomes
       /\ ballot[u].role \in Principals =>
            /\ participants[ballot[u].role] = u
            /\ votes[ballot[u].role] = ballot[u].outcome

\* A slot shows somebody's ballot.
SlotsBacked ==
  \A r \in Roles : votes[r] # NoVote =>
    \E u \in Users : ballot[u].role = r /\ ballot[u].outcome = votes[r]

\* A verdict rests on two slots that still show it.
VerdictStands ==
  resolved # NoVote =>
    /\ status \in {"APPROVED", "CLAIMED", "COMPLETED"}
    /\ \E r, q \in Roles : r # q /\ votes[r] = resolved /\ votes[q] = resolved

\* Nobody votes on a withheld-shares LOCK before the counterparty accepted it
\* and the funder released the shares.
SharesBeforeBallots ==
  (lock.withheld /\ \E u \in Users : ballot[u] # NoBallot) =>
    lock.accepted /\ lock.released

\* A funded trade has three different people in its three seats, although a
\* seat on a lapsed hold still shows its last holder and he may sit elsewhere.
ThreeSeats ==
  Funded => /\ \A r \in Roles : participants[r] # NoOne
            /\ \A r, q \in Roles : r # q => participants[r] # participants[q]

IInv ==
  /\ TypeOK /\ BookedFirst /\ SellerSits /\ BallotsFit /\ SlotsBacked /\ VerdictStands
  /\ SharesBeforeBallots /\ ThreeSeats /\ RefundReturnsToLocker /\ BackupReleaseOnMerit

-----------------------------------------------------------------------------
(* Lemmas about the operators.                                             *)

(* The best-ranked arbiter is well defined as soon as one of them voted.   *)
LEMMA BestArbiterExists ==
  ASSUME NEW cast, ArbiterBallots(cast) # {}
  PROVE  /\ BestArbiter(cast) \in ArbiterBallots(cast)
         /\ \A v \in ArbiterBallots(cast) :
              ArbiterVotePriority(BestArbiter(cast)) <= ArbiterVotePriority(v)
<1> DEFINE B == ArbiterBallots(cast)
           Best(u) == \A v \in B : ArbiterVotePriority(u) <= ArbiterVotePriority(v)
<1>1. \A u \in B : ArbiterVotePriority(u) \in {0, 1, 2}
  BY DEF ArbiterBallots, InPriorityOrder, ArbiterVotePriority
<1>2. \E u \in B : Best(u)
  <2>1. CASE \E u \in B : ArbiterVotePriority(u) = 0
    BY <1>1, <2>1
  <2>2. CASE /\ \A u \in B : ArbiterVotePriority(u) # 0
             /\ \E u \in B : ArbiterVotePriority(u) = 1
    BY <1>1, <2>2
  <2>3. CASE \A u \in B : ArbiterVotePriority(u) \notin {0, 1}
    BY <1>1, <2>3
  <2> QED BY <2>1, <2>2, <2>3
<1>3. BestArbiter(cast) = CHOOSE u \in B : Best(u)
  BY DEF BestArbiter
<1> HIDE DEF B
<1>4. (CHOOSE u \in B : Best(u)) \in B /\ Best(CHOOSE u \in B : Best(u))
  <2> DEFINE Good(u) == u \in B /\ Best(u)
  <2>1. \E u : Good(u)
    BY <1>2
  <2>2. Good(CHOOSE u : Good(u))
    BY <2>1
  <2>3. (CHOOSE u : Good(u)) = (CHOOSE u \in B : Best(u))
    OBVIOUS
  <2> QED BY <2>2, <2>3
<1> QED BY <1>3, <1>4 DEF B

(* An arbiter's vote on a pooled lock comes from the priority order.       *)
LEMMA ArbiterVoterIsRanked ==
  ASSUME NEW u, NEW outcome, NEW t,
         SeatedMayVote(u, t) \/ BackupMayVote(u, outcome, t),
         VoterRole(u) = "arbiter"
  PROVE  lock.pooled => InPriorityOrder(u)
<1>1. CASE SeatedMayVote(u, t)
  <2>1. participants["arbiter"] = u
    BY <1>1 DEF SeatedMayVote, VoterRole, RoleOf, NoRole
  <2> QED BY <2>1 DEF InPriorityOrder, ArbiterVotePriority
<1>2. CASE BackupMayVote(u, outcome, t)
  BY <1>2 DEF BackupMayVote
<1> QED BY <1>1, <1>2

(* What a VOTE does to the ballots and the slots: the slot of the voter's  *)
(* role shows, afterwards, a ballot cast in that role.                     *)
LEMMA VoteEffect ==
  ASSUME TypeOK, NEW u \in Users, NEW outcome \in Outcomes, NEW t \in Int,
         Vote(u, outcome, t)
  PROVE  \E r \in Roles, w \in Users, d \in Int :
           /\ r = VoterRole(u)
           /\ ballot[u] = NoBallot
           /\ ballot' = [ballot EXCEPT ![u] = [role |-> r, outcome |-> outcome, at |-> d]]
           /\ votes' = [votes EXCEPT ![r] = ballot'[w].outcome]
           /\ ballot'[w].role = r
           /\ r \in Principals => w = u
           /\ r = "arbiter" => actingArbiter' = w
           /\ r # "arbiter" => actingArbiter' = actingArbiter
<1> DEFINE r == VoterRole(u)
           d == IF r = "arbiter" THEN 0 ELSE t
           w == SlotHolder(u, r, ballot')
<1>1. r \in Roles /\ d \in Int
  BY DEF VoterRole, RoleOf, Roles, NoRole
<1>2. CastBallot(u, r, outcome, t) /\ ballot[u] = NoBallot
  BY DEF Vote
<1>3. ballot' = [ballot EXCEPT ![u] = [role |-> r, outcome |-> outcome, at |-> d]]
  BY <1>2 DEF CastBallot
<1>4. ballot'[u] = [role |-> r, outcome |-> outcome, at |-> d]
  BY <1>3 DEF TypeOK
<1>5. w \in Users /\ ballot'[w].role = r /\ (r \in Principals => w = u)
  <2>1. CASE r = "arbiter" /\ lock.pooled
    <3>1. InPriorityOrder(u)
      BY <2>1, ArbiterVoterIsRanked DEF Vote
    <3>2. u \in ArbiterBallots(ballot')
      BY <1>4, <2>1, <3>1 DEF ArbiterBallots
    <3>3. BestArbiter(ballot') \in ArbiterBallots(ballot')
      BY <3>2, BestArbiterExists
    <3>4. w = BestArbiter(ballot')
      BY <2>1 DEF SlotHolder
    <3> QED BY <2>1, <3>3, <3>4 DEF ArbiterBallots, Principals
  <2>2. CASE ~(r = "arbiter" /\ lock.pooled)
    BY <1>4, <2>2 DEF SlotHolder
  <2> QED BY <2>1, <2>2
<1>6. /\ votes' = [votes EXCEPT ![r] = ballot'[w].outcome]
      /\ actingArbiter' = IF r = "arbiter" THEN w ELSE actingArbiter
  BY <1>2 DEF CastBallot
<1> QED BY <1>1, <1>2, <1>3, <1>5, <1>6

-----------------------------------------------------------------------------
(* Type correctness.                                                       *)

(* Three roles, so the count of filled slots is a number.                  *)
LEMMA RolesFinite == IsFiniteSet(Roles)
<1>1. IsFiniteSet({"buyer"})
  BY FS_Singleton
<1>2. IsFiniteSet({"buyer"} \cup {"seller"})
  BY <1>1, FS_AddElement
<1>3. IsFiniteSet(({"buyer"} \cup {"seller"}) \cup {"arbiter"})
  BY <1>2, FS_AddElement
<1>4. Roles = ({"buyer"} \cup {"seller"}) \cup {"arbiter"}
  BY DEF Roles
<1> QED BY <1>3, <1>4

(* The replay of no event at all is well typed.                            *)
LEMMA InitType == Init => TypeOK
BY TradeAssumption
   DEF Init, TypeOK, Statuses, Roles, Outcomes, NoHold, NoLock, NoBallot, HoldType,
       LockType, BallotType, NoVote, NoRole

(* applyEvent keeps every field within its declared kind.                  *)
LEMMA NextType == TypeOK /\ [Next]_vars => TypeOK'
<1> SUFFICES ASSUME TypeOK, [Next]_vars PROVE TypeOK'
  OBVIOUS
<1> USE TradeAssumption DEF TypeOK
<1>1. CASE Create
  BY <1>1 DEF Create, Statuses, ballotVars, verdictVars, ListingType, Roles
<1>2. CASE JoinStep
  <2>1. PICK u \in Users, r \in Roles, t \in Times, joined \in Times,
             order \in Orders \cup {NoOrder}, final \in BOOLEAN :
          Join(u, r, t, joined, order, final) \/ ChangeOrder(u, r, t, joined, order, final)
    BY <1>2 DEF JoinStep
  <2>2. participants' \in [Roles -> Users \cup {NoOne}]
    BY <2>1 DEF Join, ChangeOrder
  <2>3. hold' \in HoldType
    BY <2>1 DEF Join, ChangeOrder, HoldType
  <2> QED BY <2>1, <2>2, <2>3 DEF Join, ChangeOrder, ballotVars, verdictVars
<1>3. CASE CancelStep
  BY <1>3 DEF CancelStep, Cancel, Statuses, ballotVars, verdictVars
<1>4. CASE LockStep
  <2>1. PICK u \in Users, t \in Times, buyer \in Users, arbiter \in Users,
             lockedAt \in Times, grace \in Graces, pooled \in BOOLEAN,
             withheld \in BOOLEAN, order \in Orders \cup {NoOrder} :
          Lock(u, t, lockedAt, buyer, arbiter, pooled, withheld, grace, order)
    BY <1>4 DEF LockStep
  <2>2. ClampGrace(grace) \in 0..GraceMax
    BY DEF ClampGrace, Greater, Lesser
  <2>3. lock' \in LockType
    BY <2>1, <2>2 DEF Lock, LockType
  <2>4. participants' \in [Roles -> Users \cup {NoOne}]
    BY <2>1 DEF Lock
  <2> QED BY <2>1, <2>3, <2>4 DEF Lock, Statuses, ballotVars, verdictVars
<1>5. CASE AcceptStep
  <2>1. PICK u \in Users, t \in Times : Accept(u, t)
    BY <1>5 DEF AcceptStep
  <2>2. lock' \in LockType
    BY <2>1 DEF Accept, LockType
  <2> QED BY <2>1, <2>2 DEF Accept, StatusFor, Statuses, ballotVars, verdictVars
<1>6. CASE ReleaseStep
  <2>1. PICK t \in Times : Release(lock.by, t)
    BY <1>6 DEF ReleaseStep
  <2>2. lock' \in LockType
    BY <2>1 DEF Release, LockType
  <2> QED BY <2>1, <2>2 DEF Release, StatusFor, Statuses, ballotVars, verdictVars
<1>7. CASE VoteStep
  <2>1. PICK u \in Users, outcome \in Outcomes, t \in Times : Vote(u, outcome, t)
    BY <1>7 DEF VoteStep
  <2>2. PICK r \in Roles, w \in Users, d \in Int :
          /\ r = VoterRole(u)
          /\ ballot' = [ballot EXCEPT ![u] = [role |-> r, outcome |-> outcome, at |-> d]]
          /\ votes' = [votes EXCEPT ![r] = ballot'[w].outcome]
          /\ actingArbiter' \in {w, actingArbiter}
    <3>1. t \in Int
      OBVIOUS
    <3> QED BY <2>1, <3>1, VoteEffect DEF Roles, Principals
  <2>3. ballot' \in [Users -> BallotType]
    BY <2>2 DEF BallotType
  <2>4. votes' \in [Roles -> Outcomes \cup {NoVote}]
    BY <2>2, <2>3 DEF BallotType
  <2>5. turn' \in [Roles -> Nat]
    <3> DEFINE filled == {q \in Roles : votes[q] # NoVote}
    <3>1. IsFiniteSet(filled)
      BY RolesFinite, FS_Subset
    <3>2. Cardinality(filled) \in Nat
      BY <3>1, FS_CardinalityType
    <3>3. turn' = turn \/ turn' = [turn EXCEPT ![r] = 1 + Cardinality(filled)]
      BY <2>1, <2>2 DEF Vote, CastBallot
    <3> QED BY <3>2, <3>3
  <2>6. status' \in Statuses
    BY <2>1 DEF Vote, StatusFor, Statuses
  <2> QED BY <2>1, <2>2, <2>3, <2>4, <2>5, <2>6 DEF Vote, verdictVars
<1>8. CASE ResolveStep
  <2>1. PICK outcome \in Outcomes, t \in Times : Resolve(outcome, t)
    BY <1>8 DEF ResolveStep
  <2>2. majority' \subseteq Roles
    BY <2>1 DEF Resolve, MajorityFor, Backers
  <2> QED BY <2>1, <2>2 DEF Resolve, Statuses, ballotVars
<1>9. CASE ClaimStep
  BY <1>9 DEF ClaimStep, Claim, Statuses, RoleOf, Roles, ballotVars
<1>10. CASE Complete
  BY <1>10 DEF Complete, Statuses, ballotVars, verdictVars
<1>11. CASE ExpireStep
  BY <1>11 DEF ExpireStep, Expire, Statuses, ballotVars, verdictVars
<1>12. CASE UNCHANGED vars
  BY <1>12 DEF vars
<1> QED
  BY <1>1, <1>2, <1>3, <1>4, <1>5, <1>6, <1>7, <1>8, <1>9, <1>10, <1>11, <1>12 DEF Next

(* Every field of a trade always holds a value of its declared kind.       *)
THEOREM TypeCorrect == Spec => []TypeOK
BY InitType, NextType, PTL DEF Spec

-----------------------------------------------------------------------------
(* The safety invariant.                                                   *)

(* Nothing is booked, locked or voted before the CREATE.                   *)
LEMMA InitInv == Init => IInv
<1> SUFFICES ASSUME Init PROVE IInv
  OBVIOUS
<1>1. TypeOK
  BY InitType
<1>2. BookedFirst /\ SellerSits
  BY TradeAssumption DEF Init, BookedFirst, SellerSits, Early, Funded, NoLock
<1>3. BallotsFit /\ SlotsBacked /\ VerdictStands
  BY DEF Init, BallotsFit, SlotsBacked, VerdictStands
<1>4. SharesBeforeBallots /\ ThreeSeats /\ RefundReturnsToLocker
  BY DEF Init, SharesBeforeBallots, ThreeSeats, RefundReturnsToLocker, Funded, NoLock
<1>5. BackupReleaseOnMerit
  BY DEF Init, BackupReleaseOnMerit, NoBallot, NoRole
<1> QED BY <1>1, <1>2, <1>3, <1>4, <1>5 DEF IInv

\* What the booking part of the invariant says is all a step before the LOCK
\* has to keep: nobody has voted and nothing is locked.
LEMMA EarlyStep ==
  ASSUME IInv, TypeOK', status \in Early, Funded' = FALSE,
         UNCHANGED <<lock, ballotVars, verdictVars, listing>>, SellerSits'
  PROVE  IInv'
<1> USE DEF ballotVars, verdictVars
<1>1. \A u \in Users : ballot[u] = NoBallot
  BY DEF IInv, BookedFirst
<1>2. resolved = NoVote /\ \A r \in Roles : votes[r] = NoVote
  <2>1. \A r \in Roles : votes[r] = NoVote
    BY <1>1 DEF IInv, SlotsBacked, NoBallot, Roles, NoRole
  <2>2. resolved = NoVote
    BY DEF IInv, VerdictStands, Early
  <2> QED BY <2>1, <2>2
<1>3. BookedFirst'
  BY <1>1 DEF IInv, BookedFirst, Funded
<1>4. BallotsFit' /\ SlotsBacked' /\ VerdictStands'
  BY <1>1, <1>2 DEF BallotsFit, SlotsBacked, VerdictStands
<1>5. SharesBeforeBallots' /\ BackupReleaseOnMerit'
  BY <1>1 DEF SharesBeforeBallots, BackupReleaseOnMerit, NoBallot, NoRole
<1>6. ThreeSeats' /\ RefundReturnsToLocker'
  BY DEF ThreeSeats, RefundReturnsToLocker
<1> QED BY <1>3, <1>4, <1>5, <1>6 DEF IInv

\* The LOCK: the one that locks is the principal the category asks for, and the
\* three seats are taken by three people.
LEMMA LockStepInv == ASSUME IInv, TypeOK', LockStep PROVE IInv'
<1>1. PICK u \in Users, t \in Times, buyer \in Users, arbiter \in Users,
           lockedAt \in Times, grace \in Graces, pooled \in BOOLEAN,
           withheld \in BOOLEAN, order \in Orders \cup {NoOrder} :
        Lock(u, t, lockedAt, buyer, arbiter, pooled, withheld, grace, order)
  BY DEF LockStep
<1> USE TradeAssumption
<1>2. /\ status = "CREATED" /\ status' = "LOCKED" /\ listing' = listing
      /\ lock'.by = u /\ lock'.accepted = FALSE /\ lock'.released = FALSE
      /\ participants' = [participants EXCEPT !["buyer"] = buyer, !["arbiter"] = arbiter]
      /\ UNCHANGED <<ballot, votes, resolved>>
  BY <1>1 DEF Lock, ballotVars, verdictVars
<1>3. \A v \in Users : ballot[v] = NoBallot
  BY <1>2 DEF IInv, BookedFirst, Early
<1>4. Funded'
  BY <1>2 DEF Funded
<1>5. BookedFirst'
  BY <1>2, <1>4 DEF BookedFirst, Early
<1>6. /\ participants'["buyer"] = buyer /\ participants'["arbiter"] = arbiter
      /\ participants'["seller"] = participants["seller"]
  BY <1>2 DEF IInv, TypeOK, Roles
<1>7. ActiveRole(u, t) # NoRole /\ ExpectedLocker \in {NoRole, ActiveRole(u, t)}
  BY <1>1 DEF Lock, LockerMayLock
<1>8. \A r \in Roles : EffectiveParticipantAt(r, t, 0) = u => participants[r] = u
  BY DEF EffectiveParticipantAt
<1>9. ExpectedLocker = "seller" => participants["seller"] = u
  BY <1>7, <1>8 DEF ActiveRole, Roles, NoRole
<1>10. ExpectedLocker = "buyer" => buyer = u
  <2>1. ExpectedLocker = "buyer" => EffectiveParticipantAt("buyer", t, 0) = u
    BY <1>7 DEF ActiveRole, Roles, NoRole
  <2>2. EffectiveParticipantAt("buyer", t, 0) = u
          => EffectiveParticipantAt("buyer", t, LockGrace) = u
    <3>1. hold.until \in Int
      BY DEF IInv, TypeOK, HoldType
    <3> QED BY <3>1 DEF EffectiveParticipantAt
  <2>3. EffectiveParticipantAt("buyer", t, LockGrace) \in {NoOne, buyer}
    BY <1>1 DEF Lock, NamesJoined
  <2> QED BY <2>1, <2>2, <2>3
<1>11. listing.category \in Categories
  BY DEF IInv, TypeOK, ListingType
<1>12. participants["seller"] # NoOne
  <2>1. CASE listing.category = "lending"
    BY <1>9, <2>1 DEF ExpectedLocker
  <2>2. CASE listing.category # "lending"
    BY <1>2, <2>2 DEF IInv, SellerSits
  <2> QED BY <2>1, <2>2
<1>13. SellerSits'
  BY <1>6, <1>12 DEF SellerSits
<1>14. ThreeSeats'
  <2>1. buyer # arbiter /\ participants["seller"] \notin {buyer, arbiter}
    BY <1>1 DEF Lock, NamesThree
  <2> QED BY <1>6, <1>12, <2>1 DEF ThreeSeats, Roles
<1>15. RefundReturnsToLocker'
  <2>1. CASE listing.category = "marketplace"
    <3>1. buyer = u
      BY <1>10, <2>1 DEF ExpectedLocker
    <3> QED BY <1>2, <1>6, <1>14, <1>4, <2>1, <3>1
            DEF RefundReturnsToLocker, PayoutRole, ThreeSeats, Roles
  <2>2. CASE listing.category \in {"lending", "p2p-trade", "bill-pay"}
    <3>1. participants["seller"] = u
      BY <1>9, <2>2 DEF ExpectedLocker
    <3> QED BY <1>2, <1>6, <1>14, <1>4, <2>2, <3>1
            DEF RefundReturnsToLocker, PayoutRole, ThreeSeats, Roles
  <2>3. CASE listing.category = "raw-escrow"
    BY <1>2, <2>3 DEF RefundReturnsToLocker
  <2> QED BY <1>11, <2>1, <2>2, <2>3 DEF Categories
<1>16. BallotsFit' /\ SharesBeforeBallots' /\ BackupReleaseOnMerit'
  BY <1>2, <1>3 DEF BallotsFit, SharesBeforeBallots, BackupReleaseOnMerit, NoBallot, NoRole
<1>17. SlotsBacked' /\ VerdictStands'
  BY <1>2 DEF IInv, SlotsBacked, VerdictStands
<1> QED BY <1>5, <1>13, <1>14, <1>15, <1>16, <1>17 DEF IInv

\* Steps that leave the ballots and the seats alone once booking is over.
LEMMA LateStep ==
  ASSUME IInv, TypeOK', status' \notin Early,
         UNCHANGED <<listing, participants, ballotVars>>,
         lock' = lock \/ (Funded /\ lock' = [lock EXCEPT !.accepted = TRUE])
           \/ (Funded /\ lock.accepted /\ lock' = [lock EXCEPT !.released = TRUE]),
         status # "none",
         VerdictStands'
  PROVE  IInv'
<1> USE DEF ballotVars
<1>1. /\ lock'.by = lock.by /\ lock'.withheld = lock.withheld
      /\ lock.accepted => lock'.accepted
      /\ lock.released => lock'.released
      /\ lock'.released => lock'.accepted
  BY DEF IInv, TypeOK, LockType, BookedFirst
<1>2. BookedFirst' /\ SellerSits'
  BY <1>1 DEF IInv, BookedFirst, SellerSits, Funded
<1>3. BallotsFit' /\ SlotsBacked'
  BY DEF IInv, BallotsFit, SlotsBacked
<1>4. SharesBeforeBallots' /\ BackupReleaseOnMerit'
  BY <1>1 DEF IInv, SharesBeforeBallots, BackupReleaseOnMerit
<1>5. ThreeSeats' /\ RefundReturnsToLocker'
  BY <1>1 DEF IInv, ThreeSeats, RefundReturnsToLocker, Funded, PayoutRole
<1> QED BY <1>2, <1>3, <1>4, <1>5 DEF IInv

\* The VOTE: a principal's slot is written once, a slot always shows a ballot
\* cast in its role, and a backup's RELEASE has a principal behind it.
LEMMA VoteStepInv == ASSUME IInv, TypeOK', VoteStep PROVE IInv'
<1>1. PICK u \in Users, outcome \in Outcomes, t \in Times : Vote(u, outcome, t)
  BY DEF VoteStep
<1>2. TypeOK /\ t \in Int
  BY TradeAssumption DEF IInv
<1>3. PICK r \in Roles, w \in Users, d \in Int :
         /\ r = VoterRole(u)
         /\ ballot[u] = NoBallot
         /\ ballot' = [ballot EXCEPT ![u] = [role |-> r, outcome |-> outcome, at |-> d]]
         /\ votes' = [votes EXCEPT ![r] = ballot'[w].outcome]
         /\ ballot'[w].role = r
         /\ r \in Principals => w = u
  BY <1>1, <1>2, VoteEffect
<1>4. /\ ballot'[u] = [role |-> r, outcome |-> outcome, at |-> d]
      /\ \A v \in Users \ {u} : ballot'[v] = ballot[v]
      /\ votes'[r] = ballot'[w].outcome
      /\ \A q \in Roles \ {r} : votes'[q] = votes[q]
  BY <1>2, <1>3 DEF TypeOK
<1>5. /\ UNCHANGED <<listing, participants, lock, resolved>>
      /\ status' = StatusFor(t) /\ status' \in {"LOCKED", "EXPIRED"}
      /\ SharesAreOut /\ (SeatedMayVote(u, t) \/ BackupMayVote(u, outcome, t))
  BY <1>1 DEF Vote, verdictVars
<1>6. status \in {"CREATED", "LOCKED", "EXPIRED"}
  BY <1>1 DEF Vote, StatusFor, Late
<1>7. r \in Principals => participants[r] = u
  <2>1. r \in Principals => RoleOf(u) = r
    BY <1>3 DEF VoterRole, Principals
  <2> QED BY <2>1 DEF RoleOf, Principals, NoRole
\* A principal's slot was empty before he voted.
<1>8. r \in Principals => votes[r] = NoVote
  <2> SUFFICES ASSUME r \in Principals, votes[r] # NoVote PROVE FALSE
    OBVIOUS
  <2>1. PICK v \in Users : ballot[v].role = r
    BY DEF IInv, SlotsBacked
  <2>2. ballot[v] # NoBallot
    BY <2>1 DEF NoBallot, NoRole, Principals
  <2>3. participants[r] = v
    BY <2>1, <2>2 DEF IInv, BallotsFit
  <2> QED BY <1>3, <1>7, <2>2, <2>3
<1>9. BookedFirst' /\ SellerSits'
  BY <1>5, <1>6 DEF IInv, BookedFirst, SellerSits, Early, Funded
<1>10. BallotsFit'
  <2> SUFFICES ASSUME NEW v \in Users
               PROVE  \/ ballot'[v] = NoBallot
                      \/ /\ ballot'[v].role \in Roles /\ ballot'[v].outcome \in Outcomes
                         /\ ballot'[v].role \in Principals =>
                              /\ participants'[ballot'[v].role] = v
                              /\ votes'[ballot'[v].role] = ballot'[v].outcome
    BY DEF BallotsFit
  <2>1. CASE v = u
    BY <1>3, <1>4, <1>5, <1>7, <2>1
  <2>2. CASE v # u /\ ballot[v].role # r
    BY <1>4, <1>5, <2>2 DEF IInv, BallotsFit
  <2>3. CASE v # u /\ ballot[v].role = r
    <3>1. r \notin Principals
      <4>1. ballot[v] # NoBallot
        BY <2>3 DEF NoBallot, NoRole, Roles
      <4> QED BY <1>7, <2>3, <4>1 DEF IInv, BallotsFit
    <3> QED BY <1>4, <1>5, <2>3, <3>1 DEF IInv, BallotsFit
  <2> QED BY <2>1, <2>2, <2>3
<1>11. SlotsBacked'
  <2> SUFFICES ASSUME NEW q \in Roles, votes'[q] # NoVote
               PROVE  \E v \in Users : ballot'[v].role = q /\ ballot'[v].outcome = votes'[q]
    BY DEF SlotsBacked
  <2>1. CASE q = r
    BY <1>3, <1>4, <2>1
  <2>2. CASE q # r
    <3>1. PICK v \in Users : ballot[v].role = q /\ ballot[v].outcome = votes[q]
      BY <1>4, <2>2 DEF IInv, SlotsBacked
    <3>2. v # u
      BY <1>3, <3>1 DEF NoBallot, NoRole, Roles
    <3> QED BY <1>4, <2>2, <3>1, <3>2
  <2> QED BY <2>1, <2>2
<1>12. VerdictStands'
  BY <1>5, <1>6 DEF IInv, VerdictStands
<1>13. SharesBeforeBallots'
  BY <1>5 DEF IInv, BookedFirst, SharesBeforeBallots, SharesAreOut
<1>14. ThreeSeats' /\ RefundReturnsToLocker'
  BY <1>5 DEF IInv, ThreeSeats, RefundReturnsToLocker, Funded, PayoutRole
<1>15. BackupReleaseOnMerit'
  <2> SUFFICES ASSUME NEW v \in Users, ballot'[v].role = "arbiter",
                      v # participants["arbiter"], ballot'[v].outcome = "RELEASE"
               PROVE  \E q \in Principals : votes'[q] = "RELEASE"
    BY <1>5 DEF BackupReleaseOnMerit
  \* No principal's RELEASE is ever taken back.
  <2>1. \A q \in Principals : votes[q] = "RELEASE" => votes'[q] = "RELEASE"
    BY <1>4, <1>8 DEF Principals, Roles, NoVote
  <2>2. CASE v # u
    BY <1>4, <2>1, <2>2 DEF IInv, BackupReleaseOnMerit
  <2>3. CASE v = u
    <3>1. r = "arbiter" /\ outcome = "RELEASE"
      BY <1>4, <2>3
    <3>2. RoleOf(u) # "arbiter"
      BY <2>3 DEF RoleOf, NoRole
    <3>3. RoleOf(u) = NoRole
      BY <1>3, <3>1, <3>2 DEF VoterRole
    <3>4. BackupMayVote(u, outcome, t)
      BY <1>5, <3>3 DEF SeatedMayVote
    <3>5. TwoSided \/ OneSided \/ IsPerformanceContest
      BY <3>1, <3>4 DEF BackupMayVote, ArbiterMayRule
    <3>6. \E q \in Principals : votes[q] = "RELEASE"
      BY <1>2, <3>5 DEF TwoSided, BothVoted, OneSided, IsPerformanceContest, PayoutRole,
                        Principals, TypeOK, Outcomes, Roles
    <3> QED BY <2>1, <3>6
  <2> QED BY <2>2, <2>3
<1> QED
  BY <1>9, <1>10, <1>11, <1>12, <1>13, <1>14, <1>15 DEF IInv

(* Every arm of applyEvent keeps the invariant.                            *)
LEMMA NextInv == IInv /\ [Next]_vars => IInv'
<1> SUFFICES ASSUME IInv, [Next]_vars PROVE IInv'
  OBVIOUS
<1> USE TradeAssumption DEF ballotVars, verdictVars
<1>t. TypeOK /\ TypeOK'
  BY NextType DEF IInv
<1>v. CASE UNCHANGED vars
  BY <1>v DEF vars, IInv, TypeOK, BookedFirst, SellerSits, BallotsFit, SlotsBacked,
              VerdictStands, SharesBeforeBallots, ThreeSeats, RefundReturnsToLocker,
              BackupReleaseOnMerit, Funded, PayoutRole
<1>0. VerdictStands /\ (status \notin {"APPROVED", "CLAIMED", "COMPLETED"} => resolved = NoVote)
  BY DEF IInv, VerdictStands
<1>1. CASE Create
  <2>1. SellerSits'
    BY <1>1, <1>t DEF Create, SellerSits, InitiatorRole, TypeOK, ListingType, Roles
  <2> QED BY <1>1, <1>t, <2>1, EarlyStep DEF Create, Early, Funded, IInv, BookedFirst
<1>2. CASE JoinStep
  <2>1. PICK u \in Users, r \in Roles, t \in Times, joined \in Times,
             order \in Orders \cup {NoOrder}, final \in BOOLEAN :
          Join(u, r, t, joined, order, final) \/ ChangeOrder(u, r, t, joined, order, final)
    BY <1>2 DEF JoinStep
  <2>2. participants' = participants \/ participants' = [participants EXCEPT ![r] = u]
    BY <2>1 DEF Join, ChangeOrder
  <2>3. /\ status = "CREATED"
        /\ UNCHANGED <<listing, status, lock, ballotVars, verdictVars>>
    BY <2>1 DEF Join, ChangeOrder
  <2>4. SellerSits'
    BY <1>t, <2>2, <2>3 DEF IInv, SellerSits, TypeOK, Roles
  <2>5. Funded' = FALSE
    BY <2>3 DEF IInv, BookedFirst, Funded, Early
  <2> QED BY <1>t, <2>3, <2>4, <2>5, EarlyStep DEF Early
<1>3. CASE CancelStep
  <2>1. PICK u \in Users, t \in Times : Cancel(u, t)
    BY <1>3 DEF CancelStep
  <2>2. SellerSits'
    BY <2>1 DEF Cancel, IInv, SellerSits
  <2>3. Funded' = FALSE
    BY <2>1 DEF Cancel, IInv, BookedFirst, Funded, Early
  <2> QED BY <1>t, <2>1, <2>2, <2>3, EarlyStep DEF Cancel, Early
<1>4. CASE LockStep
  BY <1>4, <1>t, LockStepInv
<1>5. CASE AcceptStep
  <2>1. PICK u \in Users, t \in Times : Accept(u, t)
    BY <1>5 DEF AcceptStep
  <2>2. status' \in {"LOCKED", "EXPIRED"} /\ status \in {"CREATED", "LOCKED", "EXPIRED"}
    BY <2>1 DEF Accept, LockStepAllowed, StatusFor, Late
  <2>3. VerdictStands'
    BY <1>0, <2>1, <2>2 DEF Accept, VerdictStands
  <2> QED BY <1>t, <2>1, <2>2, <2>3, LateStep DEF Accept, LockStepAllowed, Early
<1>6. CASE ReleaseStep
  <2>1. PICK t \in Times : Release(lock.by, t)
    BY <1>6 DEF ReleaseStep
  <2>2. status' \in {"LOCKED", "EXPIRED"} /\ status \in {"CREATED", "LOCKED", "EXPIRED"}
    BY <2>1 DEF Release, LockStepAllowed, StatusFor, Late
  <2>3. VerdictStands'
    BY <1>0, <2>1, <2>2 DEF Release, VerdictStands
  <2> QED BY <1>t, <2>1, <2>2, <2>3, LateStep DEF Release, LockStepAllowed, Early
<1>7. CASE VoteStep
  BY <1>7, <1>t, VoteStepInv
<1>8. CASE ResolveStep
  <2>1. PICK outcome \in Outcomes, t \in Times : Resolve(outcome, t)
    BY <1>8 DEF ResolveStep
  <2>2. VerdictStands'
    BY <2>1 DEF Resolve, ThresholdMet, VerdictStands
  <2> QED BY <1>t, <2>1, <2>2, LateStep DEF Resolve, Resolvable, Early
<1>9. CASE ClaimStep
  <2>1. PICK u \in Users : Claim(u)
    BY <1>9 DEF ClaimStep
  <2>2. VerdictStands'
    BY <1>0, <2>1 DEF Claim, VerdictStands
  <2> QED BY <1>t, <2>1, <2>2, LateStep DEF Claim, Early
<1>10. CASE Complete
  <2>1. VerdictStands'
    BY <1>0, <1>10 DEF Complete, VerdictStands
  <2> QED BY <1>t, <1>10, <2>1, LateStep DEF Complete, Early
<1>11. CASE ExpireStep
  <2>1. PICK u \in Users, t \in Times : Expire(u, t)
    BY <1>11 DEF ExpireStep
  <2>2. VerdictStands'
    BY <1>0, <2>1 DEF Expire, VerdictStands
  <2> QED BY <1>t, <2>1, <2>2, LateStep DEF Expire, Early
<1> QED
  BY <1>v, <1>1, <1>2, <1>3, <1>4, <1>5, <1>6, <1>7, <1>8, <1>9, <1>10, <1>11 DEF Next

(* The inductive invariant holds for every chain of events that            *)
(* applyEvent accepts; the theorems below read their property off it.      *)
THEOREM InvHolds == Spec => []IInv
BY InitInv, NextInv, PTL DEF Spec

(* A verdict always rests on the votes of two people in two roles, one of  *)
(* them a principal: handleVote, checkVoteThreshold and handleResolve.     *)
THEOREM TwoPeopleDecide == Spec => []ResolvedByTwo
<1>1. IInv => ResolvedByTwo
  <2> SUFFICES ASSUME IInv, resolved # NoVote PROVE ResolvedByTwo
    BY DEF ResolvedByTwo
  <2>1. PICK r \in Roles, q \in Roles :
          r \in Principals /\ r # q /\ votes[r] = resolved /\ votes[q] = resolved
    BY DEF IInv, VerdictStands, Roles, Principals
  <2>2. PICK u \in Users : ballot[u].role = r /\ ballot[u].outcome = resolved
    BY <2>1 DEF IInv, SlotsBacked
  <2>3. PICK v \in Users : ballot[v].role = q /\ ballot[v].outcome = resolved
    BY <2>1 DEF IInv, SlotsBacked
  <2> QED BY <2>1, <2>2, <2>3 DEF ResolvedByTwo
<1> QED BY <1>1, InvHolds, PTL

(* Nobody votes on a withheld-shares LOCK before the accept and the        *)
(* release: handleLockStep and the first refusal of handleVote.            *)
THEOREM SharesComeFirst == Spec => []SharesBeforeBallots
<1>1. IInv => SharesBeforeBallots
  BY DEF IInv
<1> QED BY <1>1, InvHolds, PTL

(* A funded trade has three different people in its seats, whatever holds  *)
(* lapsed on the way: handleJoin and handleLock.                           *)
THEOREM SeatsAreThree == Spec => []ThreeSeats
<1>1. IInv => ThreeSeats
  BY DEF IInv
<1> QED BY <1>1, InvHolds, PTL

(* REFUND names the one who locked, RELEASE the other principal, in every  *)
(* category but the raw escrow: handleLock and payoutRecipientFor agree.   *)
THEOREM RefundsGoBack == Spec => []RefundReturnsToLocker
<1>1. IInv => RefundReturnsToLocker
  BY DEF IInv
<1> QED BY <1>1, InvHolds, PTL

(* A backup arbiter who says RELEASE follows a principal who said it.      *)
THEOREM BackupsFollow == Spec => []BackupReleaseOnMerit
<1>1. IInv => BackupReleaseOnMerit
  BY DEF IInv
<1> QED BY <1>1, InvHolds, PTL

-----------------------------------------------------------------------------
(* The arbiters: who speaks for the slot, and by when he may.              *)

\* Nothing but a VOTE touches a ballot or a slot, and nobody's rank changes
\* while there are ballots.
LEMMA OnlyVotesVote ==
  ASSUME IInv, [Next]_vars, ~VoteStep
  PROVE  /\ UNCHANGED ballotVars
         /\ \/ \A u \in Users : ballot[u] = NoBallot
            \/ UNCHANGED participants /\ lock'.pooled = lock.pooled
<1> USE DEF ballotVars
<1>1. status \in Early => \A u \in Users : ballot[u] = NoBallot
  BY DEF IInv, BookedFirst
<1>2. CASE Create \/ JoinStep \/ CancelStep \/ LockStep
  BY <1>1, <1>2 DEF Create, JoinStep, Join, ChangeOrder, CancelStep, Cancel, LockStep,
                    Lock, Early
<1>3. CASE AcceptStep
  BY <1>3 DEF AcceptStep, Accept, IInv, TypeOK, LockType
<1>4. CASE ReleaseStep
  BY <1>4 DEF ReleaseStep, Release, IInv, TypeOK, LockType
<1>5. CASE ResolveStep \/ ClaimStep \/ Complete \/ ExpireStep \/ UNCHANGED vars
  BY <1>5 DEF ResolveStep, Resolve, ClaimStep, Claim, Complete, ExpireStep, Expire, vars
<1> QED BY <1>2, <1>3, <1>4, <1>5 DEF Next

\* The ranks depend on the three seats alone.
LEMMA RanksStay ==
  ASSUME UNCHANGED participants
  PROVE  /\ \A v : ArbiterVotePriority(v)' = ArbiterVotePriority(v)
         /\ \A v : InPriorityOrder(v)' = InPriorityOrder(v)
<1>1. Seated' = Seated
  BY DEF Seated
<1>2. FirstBackup' = FirstBackup
  BY <1>1 DEF FirstBackup
<1>3. SecondBackup' = SecondBackup
  BY <1>1, <1>2 DEF SecondBackup
<1>4. \A v : ArbiterVotePriority(v)' = ArbiterVotePriority(v)
  BY <1>2, <1>3 DEF ArbiterVotePriority
<1> QED BY <1>4 DEF InPriorityOrder

(* The slot of a pooled lock follows the best-ranked arbiter: a vote is    *)
(* either a principal's, and no arbiter's ballot moves, or the slot is     *)
(* recomputed from the ballots with the new one among them.                *)
LEMMA ArbiterSlotNext ==
  ASSUME IInv, ArbiterSlotIsBest, [Next]_vars PROVE ArbiterSlotIsBest'
<1>1. CASE ~VoteStep
  <2>1. CASE \A u \in Users : ballot[u] = NoBallot
    <3>1. \A u \in Users : ballot'[u].role # "arbiter"
      BY <1>1, <2>1, OnlyVotesVote DEF ballotVars, NoBallot, NoRole
    <3> QED BY <3>1 DEF ArbiterSlotIsBest, ArbiterBallots
  <2>2. CASE UNCHANGED participants /\ lock'.pooled = lock.pooled
    <3>1. ArbiterBallots(ballot)' = ArbiterBallots(ballot)
      BY <1>1, <2>2, OnlyVotesVote, RanksStay DEF ArbiterBallots, ballotVars
    <3> QED BY <1>1, <2>2, <3>1, OnlyVotesVote, RanksStay DEF ArbiterSlotIsBest, ballotVars
  <2> QED BY <1>1, <2>1, <2>2, OnlyVotesVote
<1>2. ASSUME NEW u \in Users, NEW outcome \in Outcomes, NEW t \in Times,
             Vote(u, outcome, t)
      PROVE  ArbiterSlotIsBest'
  <2> DEFINE r == VoterRole(u)
  <2>1. CastBallot(u, r, outcome, t) /\ ballot[u] = NoBallot
        /\ UNCHANGED <<participants, lock>>
    BY <1>2 DEF Vote
  <2>2. ArbiterBallots(ballot)' = ArbiterBallots(ballot')
    BY <2>1, RanksStay DEF ArbiterBallots
  <2>3. r \in Roles
    BY DEF VoterRole, RoleOf, Roles, NoRole
  <2>4. /\ ballot'[u].role = r
        /\ \A v \in Users \ {u} : ballot'[v] = ballot[v]
        /\ votes'[r] = ballot'[SlotHolder(u, r, ballot')].outcome
        /\ \A q \in Roles \ {r} : votes'[q] = votes[q]
        /\ actingArbiter' = IF r = "arbiter" THEN SlotHolder(u, r, ballot')
                            ELSE actingArbiter
    BY <2>1, <2>3 DEF CastBallot, IInv, TypeOK
  <2>5. CASE r = "arbiter"
    <3> SUFFICES ASSUME lock.pooled
                 PROVE  /\ actingArbiter' \in ArbiterBallots(ballot')
                        /\ \A v \in ArbiterBallots(ballot') :
                             ArbiterVotePriority(actingArbiter') <= ArbiterVotePriority(v)
                        /\ votes'["arbiter"] = ballot'[actingArbiter'].outcome
      BY <2>1, <2>2, RanksStay DEF ArbiterSlotIsBest
    <3>1. InPriorityOrder(u)
      BY <1>2, <2>5, ArbiterVoterIsRanked DEF Vote
    <3>2. u \in ArbiterBallots(ballot')
      BY <2>4, <2>5, <3>1 DEF ArbiterBallots
    <3>3. actingArbiter' = BestArbiter(ballot')
      BY <2>4, <2>5 DEF SlotHolder
    <3>4. votes'["arbiter"] = ballot'[actingArbiter'].outcome
      BY <2>4, <2>5
    <3> QED BY <3>2, <3>3, <3>4, BestArbiterExists
  <2>6. CASE r # "arbiter"
    <3>1. ballot[u].role # "arbiter"
      BY <2>1 DEF NoBallot, NoRole
    <3>2. ArbiterBallots(ballot') = ArbiterBallots(ballot)
      BY <2>4, <2>6, <3>1 DEF ArbiterBallots
    <3>3. \A v \in ArbiterBallots(ballot) : ballot'[v] = ballot[v]
      BY <2>4, <3>1 DEF ArbiterBallots
    <3>4. votes'["arbiter"] = votes["arbiter"] /\ actingArbiter' = actingArbiter
      BY <2>4, <2>6 DEF Roles
    <3> QED BY <2>1, <2>2, <3>2, <3>3, <3>4, RanksStay DEF ArbiterSlotIsBest
  <2> QED BY <2>5, <2>6
<1> QED BY <1>1, <1>2 DEF VoteStep

(* On a pooled lock the arbiter slot shows the vote of the first arbiter   *)
(* of the priority order who voted, whatever order the votes came in:      *)
(* handleVote's recomputation of the slot.                                 *)
THEOREM BestArbiterSpeaks == Spec => []ArbiterSlotIsBest
<1>1. Init => ArbiterSlotIsBest
  BY DEF Init, ArbiterSlotIsBest, NoLock
<1>2. IInv /\ ArbiterSlotIsBest /\ [Next]_vars => ArbiterSlotIsBest'
  BY ArbiterSlotNext
<1> QED BY <1>1, <1>2, InvHolds, PTL DEF Spec

(* Half of what is left of a trade's life never reaches its end, and the   *)
(* ceiling on the anchor is beyond it.                                     *)
LEMMA GraceEndsInTime ==
  ASSUME TypeOK, NEW a \in Int, a < expiresAt
  PROVE  ClampDisputeAnchor(a) = a /\ AfterGrace(a) < expiresAt
<1>1. expiresAt \in Int /\ lock.grace \in Int /\ GraceMax \in Nat
  BY TradeAssumption DEF TypeOK, LockType
<1>2. ClampDisputeAnchor(a) = a
  BY <1>1 DEF ClampDisputeAnchor, Lesser
<1> DEFINE left == expiresAt - a
<1>3. left \in Nat /\ left >= 1
  BY <1>1
<1>4. left \div 2 \in Nat /\ left \div 2 < left
  <2> HIDE DEF left
  <2> QED BY <1>3
<1>5. Lesser(lock.grace, Greater(0, left \div 2)) < left
  <2> HIDE DEF left
  <2> QED BY <1>1, <1>3, <1>4 DEF Lesser, Greater
<1>6. Lesser(lock.grace, Greater(0, left \div 2)) \in Int
  <2> HIDE DEF left
  <2> QED BY <1>1, <1>4 DEF Lesser, Greater
<1>7. AfterGrace(a) = a + Lesser(lock.grace, Greater(0, left \div 2))
  BY DEF AfterGrace
<1>8. AfterGrace(a) < expiresAt
  <2> DEFINE wait == Lesser(lock.grace, Greater(0, left \div 2))
  <2>1. wait \in Int /\ wait < expiresAt - a /\ AfterGrace(a) = a + wait
    BY <1>5, <1>6, <1>7
  <2> HIDE DEF wait
  <2> QED BY <1>1, <2>1
<1> QED BY <1>2, <1>8

(* A principal's filled slot carries the date of his own ballot.           *)
LEMMA VotesAreDated ==
  ASSUME IInv, NEW r \in Principals, votes[r] # NoVote PROVE VoteAt(r) \in Int
<1>1. PICK u \in Users : ballot[u].role = r
  BY DEF IInv, SlotsBacked, Principals, Roles
<1>2. participants[r] = u
  BY <1>1 DEF IInv, BallotsFit, NoBallot, NoRole, Principals
<1> QED BY <1>1, <1>2 DEF IInv, TypeOK, BallotType, VoteAt

(* Whoever votes before the deadline is helped before the deadline: a      *)
(* one-sided performer by the arbiter, two disputants by a backup, however *)
(* long a grace the LOCK asked for (oneSidedEscalationAt,                  *)
(* substitutionEligibleAt).                                                *)
THEOREM HelpComesInTime == Spec => []HelpBeforeDeadline
<1>1. ASSUME IInv, OneSided, VoteAt(PayoutRole("RELEASE")) < expiresAt
      PROVE  OneSidedEscalationAt < expiresAt
  <2>1. VoteAt(PayoutRole("RELEASE")) \in Int
    BY <1>1, VotesAreDated DEF OneSided, PayoutRole, Principals, NoVote
  <2> QED BY <1>1, <2>1, GraceEndsInTime DEF OneSidedEscalationAt, IInv
<1>2. ASSUME IInv, TwoSided, VoteAt("buyer") < expiresAt, VoteAt("seller") < expiresAt
      PROVE  SubstitutionEligibleAt < expiresAt
  <2>1. VoteAt("buyer") \in Int /\ VoteAt("seller") \in Int
    BY <1>2, VotesAreDated DEF TwoSided, BothVoted, Principals
  <2> DEFINE last == Greater(VoteAt("buyer"), VoteAt("seller"))
  <2>2. last \in Int /\ last < expiresAt
    BY <1>2, <2>1 DEF Greater
  <2>3. DisputeStartAt = ClampDisputeAnchor(last)
    BY <1>2 DEF DisputeStartAt
  <2> HIDE DEF last
  <2> QED BY <1>2, <2>2, <2>3, GraceEndsInTime DEF SubstitutionEligibleAt, IInv
<1>3. IInv => HelpBeforeDeadline
  BY <1>1, <1>2 DEF HelpBeforeDeadline
<1> QED BY <1>3, InvHolds, PTL

-----------------------------------------------------------------------------
(* The holder of the timed hold and the order he finalized.                *)

JoiningRole == IF InitiatorRole = "buyer" THEN "seller" ELSE "buyer"

\* Until the LOCK, or for good when there is none, a hold is that of the last
\* person seated in the seat the CREATE left open, lapsed or not.
HolderSits ==
  /\ status = "none" => hold.by = NoOne
  /\ (status = "CREATED" /\ hold.by # NoOne) => hold.by = participants[JoiningRole]

OrderInv == HolderSits /\ LockedOrderIsTheBuyers

(* The holder is replaced together with his hold, and a LOCK that carries  *)
(* an order names the holder who finalized it: the grace that keeps his    *)
(* order lockable keeps his seat as well.                                  *)
LEMMA OrderNext == ASSUME IInv, OrderInv, [Next]_vars PROVE OrderInv'
<1> USE TradeAssumption
<1>t. TypeOK
  BY DEF IInv
<1>f. status \in Early => ~Funded
  BY DEF IInv, BookedFirst
<1>1. CASE Create
  <2>1. hold'.by = NoOne /\ lock' = lock /\ ~Funded
    BY <1>1, <1>f DEF Create, OrderInv, HolderSits, Early
  <2> QED BY <2>1, <1>1 DEF Create, OrderInv, HolderSits, LockedOrderIsTheBuyers, Funded
<1>2. CASE JoinStep
  <2>1. PICK u \in Users, r \in Roles \ {InitiatorRole}, t \in Times, joined \in Times,
             order \in Orders \cup {NoOrder}, final \in BOOLEAN :
          Join(u, r, t, joined, order, final) \/ ChangeOrder(u, r, t, joined, order, final)
    BY <1>2 DEF JoinStep
  <2>2. status = "CREATED" /\ status' = status /\ lock' = lock /\ listing' = listing
    BY <2>1 DEF Join, ChangeOrder
  <2>3. LockedOrderIsTheBuyers'
    BY <1>f, <2>2 DEF LockedOrderIsTheBuyers, Funded, Early
  <2>4. JoiningRole' = JoiningRole /\ JoiningRole \in Principals
    BY <2>2 DEF JoiningRole, InitiatorRole, Principals
  <2>5. r = "arbiter" \/ r = JoiningRole
    BY <2>1 DEF JoiningRole, InitiatorRole, Roles
  <2>6. CASE Join(u, r, t, joined, order, final)
    <3>1. participants'[r] = u /\ \A q \in Roles \ {r} : participants'[q] = participants[q]
      BY <1>t, <2>6 DEF Join, TypeOK
    <3>2. CASE r = "arbiter"
      <4>1. hold' = hold /\ participants'[JoiningRole] = participants[JoiningRole]
        BY <2>4, <2>6, <3>1, <3>2 DEF Join, Principals, Roles
      <4> QED BY <2>2, <2>3, <2>4, <4>1 DEF OrderInv, HolderSits
    <3>3. CASE r = JoiningRole /\ r # "arbiter"
      <4>1. hold'.by = u
        BY <2>6, <3>3 DEF Join
      <4> QED BY <2>2, <2>3, <2>4, <3>1, <3>3, <4>1 DEF OrderInv, HolderSits
    <3> QED BY <2>5, <3>2, <3>3
  <2>7. CASE ChangeOrder(u, r, t, joined, order, final)
    <3>1. r = JoiningRole /\ hold'.by = u /\ participants' = participants
      BY <2>5, <2>7 DEF ChangeOrder, Principals
    <3>2. participants[r] = u
      BY <2>7, TradeAssumption DEF ChangeOrder, EffectiveParticipantAt
    <3> QED BY <2>2, <2>3, <2>4, <3>1, <3>2 DEF OrderInv, HolderSits
  <2> QED BY <2>1, <2>6, <2>7
<1>3. CASE CancelStep
  <2>1. status = "CREATED" /\ status' = "CANCELLED" /\ lock' = lock
    BY <1>3 DEF CancelStep, Cancel
  <2> QED BY <1>f, <2>1 DEF OrderInv, HolderSits, LockedOrderIsTheBuyers, Funded, Early
<1>4. CASE LockStep
  <2>1. PICK u \in Users, t \in Times, buyer \in Users, arbiter \in Users,
             lockedAt \in Times, grace \in Graces, pooled \in BOOLEAN,
             withheld \in BOOLEAN, order \in Orders \cup {NoOrder} :
          Lock(u, t, lockedAt, buyer, arbiter, pooled, withheld, grace, order)
    BY <1>4 DEF LockStep
  <2>2. /\ status = "CREATED" /\ status' = "LOCKED" /\ listing' = listing /\ hold' = hold
        /\ lock'.order = order /\ participants'["buyer"] = buyer
    BY <1>t, <2>1 DEF Lock, TypeOK, Roles
  <2>3. ASSUME listing.menu, listing.category \in {"p2p-trade", "bill-pay"}
        PROVE  hold.by = buyer /\ hold.final /\ hold.order = order
    <3>1. ExpectedLocker = "seller" /\ MenuSelectorRole = "buyer"
      BY <2>3 DEF ExpectedLocker, MenuSelectorRole
    <3>2. OrderIsFinalized(order, t)
      BY <2>1, <2>3, <3>1 DEF Lock, OrderMayBeLocked, NoRole
    <3>3. JoiningRole = "buyer"
      BY <3>1, <3>2 DEF OrderIsFinalized, JoiningRole, InitiatorRole
    <3>4. hold.by = participants["buyer"] /\ hold.by # NoOne
      BY <2>2, <3>2, <3>3 DEF OrderIsFinalized, OrderInv, HolderSits
    <3>5. ~(hold.until + LockGrace <= t)
      <4>1. hold.until \in Int /\ t \in Int
        BY <1>t, <2>1 DEF TypeOK, HoldType
      <4> QED BY <3>2, <4>1 DEF OrderIsFinalized
    <3>6. EffectiveParticipantAt("buyer", t, LockGrace) = hold.by
      BY <3>4, <3>5 DEF EffectiveParticipantAt
    <3>7. buyer = hold.by
      BY <2>1, <3>4, <3>6 DEF Lock, NamesJoined
    <3> QED BY <3>2, <3>7 DEF OrderIsFinalized
  <2> QED BY <2>2, <2>3 DEF OrderInv, HolderSits, LockedOrderIsTheBuyers
<1>5. CASE /\ UNCHANGED <<listing, participants, hold>>
           /\ lock'.by = lock.by /\ lock'.order = lock.order
           /\ status' \in {"none", "CREATED"} => status' = status
  BY <1>5 DEF OrderInv, HolderSits, LockedOrderIsTheBuyers, Funded, JoiningRole, InitiatorRole
<1>6. CASE AcceptStep
  BY <1>5, <1>6, <1>t DEF AcceptStep, Accept, LockStepAllowed, TypeOK, LockType
<1>7. CASE ReleaseStep
  BY <1>5, <1>7, <1>t DEF ReleaseStep, Release, LockStepAllowed, TypeOK, LockType
<1>8. CASE VoteStep \/ ResolveStep \/ ClaimStep \/ Complete \/ ExpireStep \/ UNCHANGED vars
  BY <1>5, <1>8 DEF VoteStep, Vote, ResolveStep, Resolve, ClaimStep, Claim, Complete,
                    ExpireStep, Expire, vars
<1> QED BY <1>1, <1>2, <1>3, <1>4, <1>6, <1>7, <1>8 DEF Next

(* A seller who locks a menu trade locks the cart finalized by the very    *)
(* buyer the LOCK names: handleJoin, effectiveParticipantAt and the order  *)
(* check of handleLock agree on whose seat it is.                          *)
THEOREM TheBuyersOrder == Spec => []LockedOrderIsTheBuyers
<1>1. Init => OrderInv
  BY DEF Init, OrderInv, HolderSits, LockedOrderIsTheBuyers, Funded, NoHold, NoLock
<1>2. IInv /\ OrderInv /\ [Next]_vars => OrderInv'
  BY OrderNext
<1>3. OrderInv => LockedOrderIsTheBuyers
  BY DEF OrderInv
<1> QED BY <1>1, <1>2, <1>3, InvHolds, PTL DEF Spec

-----------------------------------------------------------------------------
(* The order in which the slots were filled and the majority it picks.     *)

Filled == {q \in Roles : votes[q] # NoVote}

\* The filled slots, and no others, have a place in the order, each its own.
TurnsFit ==
  /\ \A r \in Roles : votes[r] = NoVote <=> turn[r] = 0
  /\ \A r, q \in Roles : (r # q /\ turn[r] = turn[q]) => turn[r] = 0
  /\ \A r \in Roles : turn[r] <= Cardinality(Filled)

MajorInv == TurnsFit /\ MajorityHoldsVerdict

(* A slot is filled once, behind all those that were filled before it, and *)
(* is never emptied.                                                       *)
LEMMA TurnsNext == ASSUME IInv, IInv', TurnsFit, [Next]_vars PROVE TurnsFit'
<1>t. TypeOK
  BY DEF IInv
<1>1. CASE ~VoteStep
  <2>1. UNCHANGED <<votes, turn>>
    BY <1>1, OnlyVotesVote DEF ballotVars
  <2> QED BY <2>1 DEF TurnsFit, Filled
<1>2. ASSUME NEW u \in Users, NEW outcome \in Outcomes, NEW t \in Times,
             Vote(u, outcome, t)
      PROVE  TurnsFit'
  <2>1. t \in Int
    BY TradeAssumption
  <2>2. PICK r \in Roles, w \in Users :
          /\ r = VoterRole(u)
          /\ votes' = [votes EXCEPT ![r] = ballot'[w].outcome]
          /\ ballot'[w].role = r
    BY <1>t, <1>2, <2>1, VoteEffect
  <2>3. votes'[r] # NoVote
    <3>1. ballot'[w] # NoBallot
      BY <2>2 DEF NoBallot, NoRole, Roles
    <3>2. ballot'[w].outcome \in Outcomes
      BY <3>1 DEF IInv, BallotsFit
    <3> QED BY <1>t, <2>2, <3>2 DEF TypeOK, Outcomes, NoVote
  <2>4. \A q \in Roles \ {r} : votes'[q] = votes[q]
    BY <1>t, <2>2 DEF TypeOK
  <2>5. Filled' = Filled \cup {r}
    BY <2>3, <2>4 DEF Filled
  <2>6. IsFiniteSet(Filled) /\ Cardinality(Filled) \in Nat
    BY RolesFinite, FS_Subset, FS_CardinalityType DEF Filled
  <2>7. turn' = IF votes[r] # NoVote THEN turn
                ELSE [turn EXCEPT ![r] = 1 + Cardinality(Filled)]
    BY <1>2, <2>2 DEF Vote, CastBallot, Filled
  <2>8. CASE votes[r] # NoVote
    <3>1. Filled' = Filled
      BY <2>5, <2>8 DEF Filled
    <3> QED BY <2>3, <2>4, <2>7, <2>8, <3>1 DEF TurnsFit
  <2>9. CASE votes[r] = NoVote
    <3>1. Cardinality(Filled') = Cardinality(Filled) + 1
      BY <2>5, <2>6, <2>9, FS_AddElement DEF Filled
    <3>2. /\ turn'[r] = Cardinality(Filled')
          /\ \A q \in Roles \ {r} : turn'[q] = turn[q] /\ turn[q] < Cardinality(Filled')
      BY <1>t, <2>6, <2>7, <2>9, <3>1 DEF TypeOK, TurnsFit
    <3>3. turn'[r] # 0
      BY <2>6, <3>1, <3>2
    <3> QED BY <1>t, <2>3, <2>4, <2>6, <3>1, <3>2, <3>3 DEF TurnsFit, TypeOK
  <2> QED BY <2>8, <2>9
<1> QED BY <1>1, <1>2 DEF VoteStep

(* One before the second of an order of which two come first, two before   *)
(* everybody behind them.                                                  *)
LEMMA FirstTwo ==
  ASSUME NEW B, NEW f, IsFiniteSet(B), \A x \in B : f[x] \in Int,
         NEW a \in B, NEW b \in B, f[a] < f[b],
         \A x \in B \ {a, b} : f[b] < f[x]
  PROVE  {x \in B : Cardinality({q \in B : f[q] < f[x]}) < 2} = {a, b}
<1> DEFINE Before(x) == {q \in B : f[q] < f[x]}
<1>1. Before(a) = {} /\ Cardinality(Before(a)) = 0
  <2>1. Before(a) = {}
    OBVIOUS
  <2> QED BY <2>1, FS_EmptySet
<1>2. Before(b) = {a} /\ Cardinality(Before(b)) = 1
  <2>1. Before(b) = {a}
    OBVIOUS
  <2> QED BY <2>1, FS_Singleton
<1>3. ASSUME NEW x \in B \ {a, b} PROVE ~(Cardinality(Before(x)) < 2)
  <2>1. a \in Before(x) /\ b \in Before(x) /\ a # b
    BY <1>3
  <2>2. IsFiniteSet({a}) /\ Cardinality({a}) = 1
    BY FS_Singleton
  <2>3. Cardinality({a} \cup {b}) = 2
    <3> HIDE DEF Before
    <3>1. b \notin {a}
      BY <2>1
    <3>2. Cardinality({a} \cup {b}) = Cardinality({a}) + 1
      BY <2>2, <3>1, FS_AddElement
    <3> QED BY <2>2, <3>2
  <2>4. IsFiniteSet(Before(x))
    BY FS_Subset
  <2>5. {a} \cup {b} \subseteq Before(x)
    BY <2>1
  <2>6. Cardinality({a} \cup {b}) <= Cardinality(Before(x))
    BY <2>4, <2>5, FS_Subset
  <2>7. Cardinality(Before(x)) \in Nat
    BY <2>4, FS_CardinalityType
  <2> HIDE DEF Before
  <2> QED BY <2>3, <2>6, <2>7
<1> HIDE DEF Before
<1>4. {x \in B : Cardinality(Before(x)) < 2} = {a, b}
  BY <1>1, <1>2, <1>3
<1> QED BY <1>4 DEF Before

(* Two agreeing slots have a first and a second.                           *)
LEMMA ThresholdHasFirstTwo ==
  ASSUME TypeOK, TurnsFit, NEW outcome \in Outcomes, ThresholdMet(outcome)
  PROVE  \E a, b \in Backers(outcome) :
           /\ turn[a] < turn[b]
           /\ \A x \in Backers(outcome) \ {a, b} : turn[b] < turn[x]
<1> DEFINE B == Backers(outcome)
<1>1. B \subseteq Roles /\ \A x \in B : turn[x] \in Nat
  BY DEF Backers, TypeOK
<1>2. \A x, y \in B : x # y => turn[x] # turn[y]
  BY DEF Backers, TurnsFit, Outcomes, NoVote
<1>3. PICK r, q \in B : r # q /\ turn[r] < turn[q]
  <2>1. PICK r, q \in B : r # q
    BY DEF ThresholdMet, Backers
  <2>2. turn[r] < turn[q] \/ turn[q] < turn[r]
    BY <1>1, <1>2, <2>1
  <2> QED BY <2>1, <2>2
<1> HIDE DEF B
<1>4. CASE \A x \in B \ {r, q} : turn[q] < turn[x]
  BY <1>3, <1>4 DEF B
<1>5. ASSUME NEW x \in B \ {r, q}, ~(turn[q] < turn[x])
      PROVE  \E a, b \in B : /\ turn[a] < turn[b]
                              /\ \A y \in B \ {a, b} : turn[b] < turn[y]
  <2>1. B \subseteq {r, q, x}
    BY <1>1, <1>3, <1>5 DEF Roles
  <2>2. turn[x] < turn[q] /\ turn[x] # turn[r]
    BY <1>1, <1>2, <1>5
  <2>3. turn[r] < turn[x] \/ turn[x] < turn[r]
    BY <1>1, <1>3, <1>5, <2>2
  <2>4. CASE turn[r] < turn[x]
    BY <1>3, <1>5, <2>1, <2>2, <2>4
  <2>5. CASE turn[x] < turn[r]
    BY <1>3, <1>5, <2>1, <2>5
  <2> QED BY <2>3, <2>4, <2>5
<1> QED BY <1>4, <1>5 DEF B

(* The majority is computed from an order of the slots that has no ties,   *)
(* and no vote is accepted once it is committed.                           *)
LEMMA MajorNext == ASSUME IInv, IInv', MajorInv, [Next]_vars PROVE MajorInv'
<1>1. TurnsFit'
  BY TurnsNext DEF MajorInv
<1>2. CASE ResolveStep
  <2>1. PICK outcome \in Outcomes, t \in Times : Resolve(outcome, t)
    BY <1>2 DEF ResolveStep
  <2>2. PICK a, b \in Backers(outcome) :
          /\ turn[a] < turn[b]
          /\ \A x \in Backers(outcome) \ {a, b} : turn[b] < turn[x]
    BY <2>1, ThresholdHasFirstTwo DEF Resolve, IInv, MajorInv
  <2>3. /\ IsFiniteSet(Backers(outcome))
        /\ \A x \in Backers(outcome) : turn[x] \in Int
    BY RolesFinite, FS_Subset DEF Backers, IInv, TypeOK
  <2>4. MajorityFor(outcome) = {a, b}
    BY <2>2, <2>3, FirstTwo DEF MajorityFor
  <2>5. /\ a \in Roles /\ b \in Roles /\ a # b
        /\ votes[a] = outcome /\ votes[b] = outcome
    BY <2>2, <2>3 DEF Backers
  <2>6. majority' = {a, b} /\ resolved' = outcome /\ votes' = votes
    BY <2>1, <2>4 DEF Resolve, ballotVars
  <2> QED BY <1>1, <2>5, <2>6 DEF MajorInv, MajorityHoldsVerdict
<1>3. CASE ~ResolveStep
  <2>1. resolved' = resolved /\ majority' = majority
    BY <1>3 DEF Next, Create, JoinStep, Join, ChangeOrder, CancelStep, Cancel, LockStep,
                Lock, AcceptStep, Accept, ReleaseStep, Release, VoteStep, Vote, ClaimStep,
                Claim, Complete, ExpireStep, Expire, verdictVars, vars
  <2>2. resolved # NoVote => votes' = votes
    <3>1. resolved # NoVote => ~VoteStep
      BY DEF IInv, VerdictStands, VoteStep, Vote, StatusFor, Late
    <3> QED BY <3>1, OnlyVotesVote DEF ballotVars
  <2> QED BY <1>1, <2>1, <2>2 DEF MajorInv, MajorityHoldsVerdict
<1> QED BY <1>2, <1>3

(* The majority a RESOLVE commits is two roles whose slots hold the        *)
(* verdict, then and for good, even when all three agreed: the slice of    *)
(* the first two voters in handleResolve.                                  *)
THEOREM MajorityIsTwo == Spec => []MajorityHoldsVerdict
<1>1. Init => MajorInv
  <2> SUFFICES ASSUME Init PROVE MajorInv
    OBVIOUS
  <2>1. Filled = {} /\ Cardinality(Filled) = 0
    BY FS_EmptySet DEF Init, Filled
  <2> QED BY <2>1 DEF Init, MajorInv, TurnsFit, MajorityHoldsVerdict
<1>2. IInv /\ IInv' /\ MajorInv /\ [Next]_vars => MajorInv'
  BY MajorNext
<1>3. MajorInv => MajorityHoldsVerdict
  BY DEF MajorInv
<1> QED BY <1>1, <1>2, <1>3, InvHolds, PTL DEF Spec

=============================================================================
