---------------------------- MODULE EscrowTrade ----------------------------
(***************************************************************************)
(* The escrow reducer of Chama: src/src/escrow-engine/state-machine.ts     *)
(* with arbiter-substitution.ts and recipients.ts.                         *)
(*                                                                         *)
(* A trade is a chain of signed events.  Every client runs applyEvent on   *)
(* the events the relays bring it, whoever signed them and whatever date   *)
(* they carry, so an action here is "the reducer accepts this event": its  *)
(* author, date and payload are quantified, its guard is what the handler  *)
(* checks, and a refused event is a stuttering step.                       *)
(*                                                                         *)
(* Scope: ecash trades (the on-chain, tranche, circle and subscription     *)
(* arms of the handlers are outside).  Shares are the parties' business    *)
(* here, not their bytes.  Dates are counted from the CREATE, which is     *)
(* dated 0; a date before it is negative.                                  *)
(***************************************************************************)
EXTENDS Integers, FiniteSets, Sequences

CONSTANTS
  Users,         \* the pubkeys that may sign an event
  NoOne,         \* an empty seat
  Pool,          \* communityArbiters, in the order the CREATE lists them
  Bonded,        \* bondedArbiters, stamped into the CREATE
  PickHash,      \* the character sum of the escrow id
  Listings,      \* the CREATE payloads considered
  Orders,        \* the carts a menu listing can sell
  NoOrder,       \* no cart
  Times,         \* the dates events may carry
  Graces,        \* the substitution graces a LOCK may ask for
  TradeTimeout,  \* expirySeconds
  HoldSeconds,   \* JOIN_HOLD_SECONDS
  LockGrace,     \* JOIN_HOLD_LOCK_GRACE_SECONDS
  GraceMax,      \* SUBSTITUTION_GRACE_MAX_SECONDS
  LockSkew       \* LOCK_TIMESTAMP_SKEW_SECONDS

Roles      == {"buyer", "seller", "arbiter"}
Principals == {"buyer", "seller"}
Outcomes   == {"RELEASE", "REFUND"}
Statuses   == {"none", "CREATED", "LOCKED", "APPROVED", "CLAIMED",
               "COMPLETED", "EXPIRED", "CANCELLED"}
NoRole     == "norole"
NoVote     == "novote"

Categories == {"p2p-trade", "bill-pay", "marketplace", "lending", "raw-escrow"}

\* rules: 0 before 2026-11-01, 1 money-path hardening, 2 the December rules.
\* child: a storefront purchase, created by the buyer with the seller seated.
ListingType ==
  [category : Categories, child : BOOLEAN, menu : BOOLEAN, community : BOOLEAN,
   rules : 0..2, creator : Users, seller : Users]

ASSUME TradeAssumption ==
  /\ NoOne \notin Users
  /\ NoOrder \notin Orders
  /\ Pool \in Seq(Users)
  /\ Bonded \in Seq(Users)
  /\ PickHash \in Nat
  /\ Listings \subseteq ListingType
  /\ Times \subseteq Int
  /\ Graces \subseteq Int
  /\ TradeTimeout \in Nat \ {0}
  /\ HoldSeconds \in Nat
  /\ LockGrace \in Nat
  /\ GraceMax \in Nat
  /\ LockSkew \in Nat

VARIABLES
  listing,        \* the CREATE the trade is rooted at
  status,         \* state.status
  participants,   \* state.participants
  hold,           \* state.joinHolds: only the principal who JOINs can have one
  expiresAt,      \* state.expiresAt
  lock,           \* state.lock and the LOCK event in the chain
  ballot,         \* the VOTE each pubkey has in state.eventChain
  votes,          \* state.votes
  turn,           \* the insertion order of the keys of state.votes
  actingArbiter,  \* state.actingArbiter
  resolved,       \* state.resolvedOutcome
  majority,       \* state.resolvedMajority
  claimer         \* state.claim.claimerRole

vars == <<listing, status, participants, hold, expiresAt, lock, ballot, votes,
          turn, actingArbiter, resolved, majority, claimer>>

ballotVars  == <<ballot, votes, turn, actingArbiter>>
verdictVars == <<resolved, majority, claimer>>

NoHold   == [by |-> NoOne, joined |-> 0, until |-> 0, order |-> NoOrder,
             final |-> FALSE, finalAt |-> 0]
NoLock   == [by |-> NoOne, pooled |-> FALSE, grace |-> 0, withheld |-> FALSE,
             accepted |-> FALSE, released |-> FALSE, order |-> NoOrder]
NoBallot == [role |-> NoRole, outcome |-> NoVote, at |-> 0]

HoldType   == [by : Users \cup {NoOne}, joined : Int, until : Int,
               order : Orders \cup {NoOrder}, final : BOOLEAN, finalAt : Int]
LockType   == [by : Users \cup {NoOne}, pooled : BOOLEAN, grace : 0..GraceMax,
               withheld : BOOLEAN, accepted : BOOLEAN, released : BOOLEAN,
               order : Orders \cup {NoOrder}]
BallotType == [role : Roles \cup {NoRole}, outcome : Outcomes \cup {NoVote},
               at : Int]

-----------------------------------------------------------------------------
(* Deterministic arbiter selection: protocol/core/arbiter-pick.ts.         *)

Lesser(x, y)  == IF x <= y THEN x ELSE y
Greater(x, y) == IF x >= y THEN x ELSE y

Listed(seq) == {seq[i] : i \in DOMAIN seq}

\* The (hash mod n)-th of the n listed pubkeys that are not excluded.
PickArbiterFromPool(seq, excluded) ==
  LET free == {i \in DOMAIN seq : seq[i] \notin excluded}
  IN IF free = {} THEN NoOne
     ELSE seq[CHOOSE i \in free :
                Cardinality({j \in free : j < i}) = PickHash % Cardinality(free)]

\* The bonded arbiters of the pool come first, then the pool.
PickPreferredArbiter(excluded) ==
  LET bonded == PickArbiterFromPool(Bonded, excluded \cup (Users \ Listed(Pool)))
  IN IF bonded # NoOne THEN bonded ELSE PickArbiterFromPool(Pool, excluded)

-----------------------------------------------------------------------------
(* Who is who.                                                             *)

InitiatorRole ==
  IF listing.category = "lending" \/ listing.child THEN "buyer" ELSE "seller"

RoleOf(u) ==
  IF participants["buyer"] = u THEN "buyer"
  ELSE IF participants["seller"] = u THEN "seller"
  ELSE IF participants["arbiter"] = u THEN "arbiter"
  ELSE NoRole

\* A seat on a timed hold empties when the hold runs out, until the LOCK.
EffectiveParticipantAt(r, t, grace) ==
  IF /\ status = "CREATED"
     /\ r \in Principals \ {InitiatorRole}
     /\ hold.by # NoOne /\ hold.by = participants[r]
     /\ hold.until + grace <= t
  THEN NoOne ELSE participants[r]

ActiveRole(u, t) ==
  IF EffectiveParticipantAt("buyer", t, 0) = u THEN "buyer"
  ELSE IF EffectiveParticipantAt("seller", t, 0) = u THEN "seller"
  ELSE IF EffectiveParticipantAt("arbiter", t, 0) = u THEN "arbiter"
  ELSE NoRole

\* Who may lock: NoRole stands for "any participant".
ExpectedLocker ==
  IF listing.category = "marketplace" THEN "buyer"
  ELSE IF listing.category = "raw-escrow" THEN NoRole
  ELSE "seller"

MenuSelectorRole == IF listing.category = "lending" THEN "seller" ELSE "buyer"

\* Slip: the buyer is paid on every RELEASE.
PayoutRoleSlip(outcome) == IF outcome = "RELEASE" THEN "buyer" ELSE "seller"

\* Who is paid on an outcome: recipients.ts, the only such mapping.
PayoutRole(outcome) ==
  IF (listing.category = "marketplace") = (outcome = "RELEASE")
  THEN "seller" ELSE "buyer"

Funded == lock.by # NoOne

-----------------------------------------------------------------------------
(* Arbiter substitution: arbiter-substitution.ts.                          *)

Seated == {participants[r] : r \in Roles}

FirstBackup  == PickArbiterFromPool(Pool, Seated)
SecondBackup == IF FirstBackup = NoOne THEN NoOne
                ELSE PickArbiterFromPool(Pool, Seated \cup {FirstBackup})

\* 0 the assigned arbiter, 1 and 2 the backups, 3 not in the order.
ArbiterVotePriority(u) ==
  IF u = participants["arbiter"] THEN 0
  ELSE IF u = FirstBackup THEN 1
  ELSE IF u = SecondBackup THEN 2
  ELSE 3

InPriorityOrder(u) == ArbiterVotePriority(u) < 3

\* Slip: no ceiling.
ClampGraceSlip(g) == Greater(0, g)

ClampGrace(g) == Greater(0, Lesser(GraceMax, g))

ClampDisputeAnchor(at) == Lesser(at, expiresAt + GraceMax)

\* Slip: the whole grace, however little life is left.
AfterGraceSlip(anchor) == anchor + lock.grace

\* The grace runs from the anchor, for at most half the life that is left.
AfterGrace(anchor) ==
  anchor + Lesser(lock.grace, Greater(0, (expiresAt - anchor) \div 2))

VoteAt(r) == ballot[participants[r]].at

BothVoted == votes["buyer"] # NoVote /\ votes["seller"] # NoVote
TwoSided  == BothVoted /\ votes["buyer"] # votes["seller"]

\* A standing RELEASE of the non-locker while the locker is silent.
OneSided ==
  /\ votes[PayoutRole("RELEASE")] = "RELEASE"
  /\ votes[PayoutRole("REFUND")] = NoVote
  /\ participants[PayoutRole("REFUND")] # NoOne

OneSidedEscalationAt ==
  AfterGrace(ClampDisputeAnchor(VoteAt(PayoutRole("RELEASE"))))

DisputeStartAt ==
  IF TwoSided
  THEN ClampDisputeAnchor(Greater(VoteAt("buyer"), VoteAt("seller")))
  ELSE OneSidedEscalationAt

SubstitutionEligibleAt == AfterGrace(DisputeStartAt)

\* Slip: any trade the arbiter did not refund.
IsPerformanceContestSlip == votes["arbiter"] # "REFUND"

IsPerformanceContest ==
  /\ votes[PayoutRole("RELEASE")] = "RELEASE"
  /\ votes["arbiter"] # "REFUND"

-----------------------------------------------------------------------------
(* The deadline, checked before every handler.                             *)

\* Slip: an approved trade can still expire.
LateSlip(t) == t > expiresAt /\ status \in {"CREATED", "LOCKED", "EXPIRED", "APPROVED"}

Late(t) == t > expiresAt /\ status \in {"CREATED", "LOCKED", "EXPIRED"}

MayCarryPastExpiry(u) ==
  RoleOf(u) # NoRole \/ (lock.pooled /\ InPriorityOrder(u))

\* Under the December rules a stranger cannot expire a funded trade.
MayExpire(u) ==
  (status = "LOCKED" /\ listing.rules = 2) => MayCarryPastExpiry(u)

\* The status a VOTE or a LOCK_STEP is handled in: a late one expires the
\* trade and is then handled, any other late event only expires it.
StatusFor(t) == IF Late(t) THEN "EXPIRED" ELSE status

-----------------------------------------------------------------------------
(* The chain before there is money: CREATE, JOIN, CANCEL.                  *)

Init ==
  /\ listing \in Listings
  /\ status = "none"
  /\ participants = [r \in Roles |-> NoOne]
  /\ hold = NoHold
  /\ expiresAt = 0
  /\ lock = NoLock
  /\ ballot = [u \in Users |-> NoBallot]
  /\ votes = [r \in Roles |-> NoVote]
  /\ turn = [r \in Roles |-> 0]
  /\ actingArbiter = NoOne
  /\ resolved = NoVote
  /\ majority = {}
  /\ claimer = NoRole

Create ==
  /\ status = "none"
  /\ status' = "CREATED"
  /\ participants' =
       [participants EXCEPT
          !["buyer"]  = IF InitiatorRole = "buyer" THEN listing.creator ELSE NoOne,
          !["seller"] = IF listing.child THEN listing.seller
                        ELSE IF InitiatorRole = "seller" THEN listing.creator
                        ELSE NoOne]
  /\ expiresAt' = TradeTimeout
  /\ UNCHANGED <<listing, hold, lock, ballotVars, verdictVars>>

\* Before the LOCK only the computed arbiters may sit, under either basis.
ArbiterMayJoin(u) ==
  LET principals == {participants["buyer"], participants["seller"]}
      accepted   == {PickArbiterFromPool(Pool, principals),
                     PickPreferredArbiter(principals)} \ {NoOne}
  IN IF Pool = <<>>
     THEN ~listing.community /\ listing.rules = 0
     ELSE u \in Listed(Pool) /\ (accepted # {} => u \in accepted)

\* handleJoin on a free seat.  joined is the joiner's own stamp; an order
\* counts as final when the JOIN says so (or, on a first JOIN, implies it).
Join(u, r, t, joined, order, final) ==
  /\ status = "CREATED" /\ ~Late(t)
  /\ r # InitiatorRole
  /\ EffectiveParticipantAt(r, t, 0) = NoOne
  /\ ActiveRole(u, t) = NoRole
  /\ r = "arbiter" => ArbiterMayJoin(u)
  /\ participants' = [participants EXCEPT ![r] = u]
  /\ hold' = IF r = "arbiter" THEN hold
             ELSE [by |-> u, joined |-> joined, until |-> joined + HoldSeconds,
                   order |-> order, final |-> final,
                   finalAt |-> IF final THEN joined ELSE 0]
  /\ UNCHANGED <<listing, status, expiresAt, lock, ballotVars, verdictVars>>

\* handleJoin by the live holder of the seat: the order may be changed until
\* it is final, and the hold is not prolonged.
ChangeOrder(u, r, t, joined, order, final) ==
  /\ status = "CREATED" /\ ~Late(t)
  /\ r \in Principals \ {InitiatorRole}
  /\ EffectiveParticipantAt(r, t, 0) = u
  /\ order # NoOrder \/ final
  /\ ~hold.final
  /\ hold' = [by |-> u,
              joined |-> IF hold.by = NoOne THEN joined ELSE hold.joined,
              until |-> IF hold.by = NoOne THEN joined + HoldSeconds ELSE hold.until,
              order |-> order, final |-> final,
              finalAt |-> IF final THEN joined ELSE 0]
  /\ UNCHANGED <<listing, status, participants, expiresAt, lock, ballotVars,
                 verdictVars>>

Cancel(u, t) ==
  /\ status = "CREATED" /\ ~Late(t)
  /\ u = listing.creator
  /\ status' = "CANCELLED"
  /\ UNCHANGED <<listing, participants, hold, expiresAt, lock, ballotVars,
                 verdictVars>>

-----------------------------------------------------------------------------
(* LOCK, and the steps of a LOCK that withheld its shares.                 *)

\* The cart the selector finalized, when somebody else locks.
OrderIsFinalized(order, t) ==
  /\ MenuSelectorRole # InitiatorRole
  /\ hold.by # NoOne
  /\ hold.until + LockGrace > t
  /\ hold.final /\ hold.finalAt <= t /\ hold.joined <= t
  /\ hold.order = order

OrderMayBeLocked(order, t) ==
  IF listing.menu
  THEN /\ order \in Orders
       /\ ExpectedLocker \notin {NoRole, MenuSelectorRole}
            => OrderIsFinalized(order, t)
  ELSE order = NoOrder

\* Slip: without the grace the holder has for his LOCK to arrive.
NamesJoinedSlip(r, pk, t) == EffectiveParticipantAt(r, t, 0) \in {NoOne, pk}

NamesJoined(r, pk, t) ==
  EffectiveParticipantAt(r, t, LockGrace) \in {NoOne, pk}

NamesThree(buyer, arbiter) ==
  buyer # arbiter /\ participants["seller"] \notin {buyer, arbiter}

LockerMayLock(u, t) ==
  /\ ActiveRole(u, t) # NoRole
  /\ ExpectedLocker \in {NoRole, ActiveRole(u, t)}

\* handleLock.  buyer and arbiter are the pubkeys the LOCK names, lockedAt its
\* own stamp; pooled, withheld and grace are the locker's choices.
Lock(u, t, lockedAt, buyer, arbiter, pooled, withheld, grace, order) ==
  /\ status = "CREATED" /\ ~Late(t)
  /\ listing.rules >= 1 =>
       Pool # <<>> /\ lockedAt - t <= LockSkew /\ t - lockedAt <= LockSkew
  /\ LockerMayLock(u, t)
  /\ NamesJoined("buyer", buyer, t)
  /\ NamesJoined("arbiter", arbiter, t)
  /\ Pool # <<>> => arbiter \in Listed(Pool)
  /\ NamesThree(buyer, arbiter)
  /\ withheld => listing.rules = 2 /\ ActiveRole(u, t) \in Principals
  /\ OrderMayBeLocked(order, t)
  /\ status' = "LOCKED"
  /\ lock' = [by |-> u, pooled |-> pooled, grace |-> ClampGrace(grace),
              withheld |-> withheld, accepted |-> FALSE, released |-> FALSE,
              order |-> order]
  /\ expiresAt' = lockedAt + TradeTimeout
  /\ participants' = [participants EXCEPT !["buyer"] = buyer,
                                          !["arbiter"] = arbiter]
  /\ UNCHANGED <<listing, hold, ballotVars, verdictVars>>

\* What every LOCK_STEP needs before its own checks.
LockStepAllowed(u, t) ==
  /\ listing.rules = 2
  /\ Funded
  /\ StatusFor(t) \in {"LOCKED", "EXPIRED"}
  /\ Late(t) => MayExpire(u)

\* accept: the principal who did not fund.
Accept(u, t) ==
  /\ LockStepAllowed(u, t)
  /\ lock.by \in {participants["buyer"], participants["seller"]}
  /\ u \in {participants["buyer"], participants["seller"]} \ {lock.by}
  /\ ~lock.accepted
  /\ lock' = [lock EXCEPT !.accepted = TRUE]
  /\ status' = StatusFor(t)
  /\ UNCHANGED <<listing, participants, hold, expiresAt, ballotVars, verdictVars>>

\* release: the funder, once, in reply to the accept.
Release(u, t) ==
  /\ LockStepAllowed(u, t)
  /\ lock.withheld /\ u = lock.by
  /\ lock.accepted /\ ~lock.released
  /\ lock' = [lock EXCEPT !.released = TRUE]
  /\ status' = StatusFor(t)
  /\ UNCHANGED <<listing, participants, hold, expiresAt, ballotVars, verdictVars>>

-----------------------------------------------------------------------------
(* VOTE.                                                                   *)

\* The order in which the live reducer lets an arbiter speak.
ArbiterMayRule(t) ==
  IF BothVoted THEN TwoSided ELSE OneSided /\ t >= OneSidedEscalationAt

\* The role a vote counts in: the signer's seat, or else the arbiter's, for a
\* backup.  A vote that claims another role is refused.
VoterRole(u) == IF RoleOf(u) = NoRole THEN "arbiter" ELSE RoleOf(u)

SeatedMayVote(u, t) ==
  /\ RoleOf(u) # NoRole
  /\ (RoleOf(u) = "arbiter" /\ StatusFor(t) = "LOCKED") => ArbiterMayRule(t)

BackupMayVote(u, outcome, t) ==
  /\ RoleOf(u) = NoRole
  /\ lock.pooled /\ InPriorityOrder(u)
  /\ IF StatusFor(t) = "EXPIRED"
     THEN IsPerformanceContest \/ outcome = "REFUND"
     ELSE ArbiterMayRule(t) /\ t >= SubstitutionEligibleAt

\* The arbiter votes in the chain that count for a pooled lock.
ArbiterBallots(cast) ==
  {u \in Users : cast[u].role = "arbiter" /\ InPriorityOrder(u)}

BestArbiter(cast) ==
  CHOOSE u \in ArbiterBallots(cast) :
    \A v \in ArbiterBallots(cast) : ArbiterVotePriority(u) <= ArbiterVotePriority(v)

\* Slip: the last arbiter to vote.
SlotHolderSlip(u, r, cast) == u

\* Whose ballot fills the slot of role r once u has voted in it.
SlotHolder(u, r, cast) ==
  IF r = "arbiter" /\ lock.pooled THEN BestArbiter(cast) ELSE u

\* The date of an arbiter's vote is read by nothing later: it is not kept.
CastBallot(u, r, outcome, t) ==
  /\ ballot' = [ballot EXCEPT ![u] =
       [role |-> r, outcome |-> outcome, at |-> IF r = "arbiter" THEN 0 ELSE t]]
  /\ votes' = [votes EXCEPT ![r] = ballot'[SlotHolder(u, r, ballot')].outcome]
  /\ turn' = IF votes[r] # NoVote THEN turn
             ELSE [turn EXCEPT ![r] = 1 + Cardinality({q \in Roles : votes[q] # NoVote})]
  /\ actingArbiter' = IF r = "arbiter" THEN SlotHolder(u, r, ballot')
                      ELSE actingArbiter

SharesAreOut == lock.withheld => lock.released

Vote(u, outcome, t) ==
  /\ StatusFor(t) \in {"LOCKED", "EXPIRED"}
  /\ ballot[u] = NoBallot
  /\ Late(t) => MayExpire(u)
  /\ SharesAreOut
  /\ SeatedMayVote(u, t) \/ BackupMayVote(u, outcome, t)
  /\ CastBallot(u, VoterRole(u), outcome, t)
  /\ status' = StatusFor(t)
  /\ UNCHANGED <<listing, participants, hold, expiresAt, lock, verdictVars>>

-----------------------------------------------------------------------------
(* RESOLVE, CLAIM, COMPLETE, and the deadline itself.                      *)

Backers(outcome) == {r \in Roles : votes[r] = outcome}

\* Slip: one vote is enough.
ThresholdMetSlip(outcome) == Backers(outcome) # {}

\* checkVoteThreshold: two of the three slots.
ThresholdMet(outcome) ==
  \E r, q \in Roles : r # q /\ votes[r] = outcome /\ votes[q] = outcome

\* Slip: everybody who agrees.
MajorityForSlip(outcome) == Backers(outcome)

\* The first two of them, in the order the slots were filled.
MajorityFor(outcome) ==
  {r \in Backers(outcome) :
     Cardinality({q \in Backers(outcome) : turn[q] < turn[r]}) < 2}

\* Slip: an expired trade cannot be healed.
ResolvableSlip(t) == status = "LOCKED" /\ ~Late(t)

Resolvable(t) == status \in {"LOCKED", "EXPIRED"} /\ (status = "LOCKED" => ~Late(t))

\* Any author: the outcome and the majority are recomputed from the votes.
Resolve(outcome, t) ==
  /\ Resolvable(t)
  /\ ThresholdMet(outcome)
  /\ status' = "APPROVED"
  /\ resolved' = outcome
  /\ majority' = MajorityFor(outcome)
  /\ UNCHANGED <<listing, participants, hold, expiresAt, lock, ballotVars,
                 claimer>>

Claim(u) ==
  /\ status = "APPROVED"
  /\ RoleOf(u) = PayoutRole(resolved)
  /\ status' = "CLAIMED"
  /\ claimer' = RoleOf(u)
  /\ UNCHANGED <<listing, participants, hold, expiresAt, lock, ballotVars,
                 resolved, majority>>

\* An ecash COMPLETE is accepted from any author.
Complete ==
  /\ status = "CLAIMED"
  /\ status' = "COMPLETED"
  /\ UNCHANGED <<listing, participants, hold, expiresAt, lock, ballotVars,
                 verdictVars>>

\* Any late event that is neither a VOTE nor a LOCK_STEP only expires the
\* trade; the event itself is swallowed, a RESOLVE included.
Expire(u, t) ==
  /\ status \in {"CREATED", "LOCKED"}
  /\ Late(t)
  /\ MayExpire(u)
  /\ status' = "EXPIRED"
  /\ UNCHANGED <<listing, participants, hold, expiresAt, lock, ballotVars,
                 verdictVars>>

-----------------------------------------------------------------------------

JoinStep ==
  /\ status = "CREATED"
  /\ \E u \in Users, r \in Roles \ {InitiatorRole}, t \in Times :
       /\ EffectiveParticipantAt(r, t, 0) \in {NoOne, u}
       /\ \E joined \in Times, order \in Orders \cup {NoOrder}, final \in BOOLEAN :
            \/ Join(u, r, t, joined, order, final)
            \/ ChangeOrder(u, r, t, joined, order, final)

LockStep ==
  /\ status = "CREATED"
  /\ \E u \in Users, t \in Times :
       /\ LockerMayLock(u, t)
       /\ \E buyer, arbiter \in Users, lockedAt \in Times, grace \in Graces,
            pooled, withheld \in BOOLEAN, order \in Orders \cup {NoOrder} :
            Lock(u, t, lockedAt, buyer, arbiter, pooled, withheld, grace, order)

CancelStep  == status = "CREATED" /\ \E u \in Users, t \in Times : Cancel(u, t)
AcceptStep  == Funded /\ \E u \in Users, t \in Times : Accept(u, t)
ReleaseStep == lock.withheld /\ \E t \in Times : Release(lock.by, t)
VoteStep    == \E u \in Users, outcome \in Outcomes, t \in Times :
                 Vote(u, outcome, t)
ResolveStep == \E outcome \in Outcomes, t \in Times : Resolve(outcome, t)
ClaimStep   == \E u \in Users : Claim(u)
ExpireStep  == \E u \in Users, t \in Times : Expire(u, t)

Next ==
  \/ Create \/ JoinStep \/ CancelStep
  \/ LockStep \/ AcceptStep \/ ReleaseStep
  \/ VoteStep \/ ResolveStep \/ ClaimStep \/ Complete
  \/ ExpireStep

Spec == Init /\ [][Next]_vars

\* The last date there is: every deadline is behind it.
Latest == CHOOSE t \in Times : \A s \in Times : s <= t

\* maybeAutoResolve, run by a party's client on every vote and every reload
\* that finds the threshold met and no RESOLVE in the chain.  Its clock is as
\* late as can be, so on a trade that still reads LOCKED the first RESOLVE may
\* only expire it.
AutoResolve ==
  \E u \in Users, outcome \in Outcomes :
    /\ MayCarryPastExpiry(u)
    /\ ThresholdMet(outcome)
    /\ Resolve(outcome, Latest) \/ Expire(u, Latest)

FairSpec == Spec /\ WF_vars(AutoResolve)

-----------------------------------------------------------------------------
(* Properties.                                                             *)

\* Every field holds a value of the kind types.ts declares for it.
TypeOK ==
  /\ listing \in Listings
  /\ status \in Statuses
  /\ participants \in [Roles -> Users \cup {NoOne}]
  /\ hold \in HoldType
  /\ expiresAt \in Int
  /\ lock \in LockType
  /\ ballot \in [Users -> BallotType]
  /\ votes \in [Roles -> Outcomes \cup {NoVote}]
  /\ turn \in [Roles -> Nat]
  /\ actingArbiter \in Users \cup {NoOne}
  /\ resolved \in Outcomes \cup {NoVote}
  /\ majority \subseteq Roles
  /\ claimer \in Roles \cup {NoRole}

\* A verdict rests on the signed votes of two different people in two
\* different roles, at least one of them a principal: the arbiters of a pool,
\* however many of them vote, can never settle a trade among themselves.
ResolvedByTwo ==
  resolved # NoVote =>
    \E u, v \in Users :
      /\ u # v
      /\ ballot[u].outcome = resolved /\ ballot[v].outcome = resolved
      /\ ballot[u].role \in Principals /\ ballot[v].role # ballot[u].role

\* The majority a RESOLVE commits is two roles whose slots hold the verdict:
\* votes accepted after the threshold was met never make it stale.
MajorityHoldsVerdict ==
  resolved # NoVote =>
    \E r, q \in Roles :
      /\ r # q /\ majority = {r, q}
      /\ votes[r] = resolved /\ votes[q] = resolved

\* On a pooled lock the arbiter slot shows the vote of the first arbiter of the
\* priority order who voted, in whatever order the votes arrived.
ArbiterSlotIsBest ==
  (lock.pooled /\ ArbiterBallots(ballot) # {}) =>
    /\ actingArbiter \in ArbiterBallots(ballot)
    /\ \A v \in ArbiterBallots(ballot) :
         ArbiterVotePriority(actingArbiter) <= ArbiterVotePriority(v)
    /\ votes["arbiter"] = ballot[actingArbiter].outcome

\* REFUND pays the one who locked and RELEASE somebody else: the category table
\* of handleLock and the one of payoutRecipientFor agree.
RefundReturnsToLocker ==
  (Funded /\ listing.category # "raw-escrow") =>
    /\ participants[PayoutRole("REFUND")] = lock.by
    /\ participants[PayoutRole("RELEASE")] \notin {lock.by, NoOne}

\* A seller who locks a menu trade locks the cart finalized by the very buyer
\* the LOCK names, although a hold lapses under the seller's feet.
LockedOrderIsTheBuyers ==
  (Funded /\ listing.menu /\ listing.category \in {"p2p-trade", "bill-pay"}) =>
    /\ hold.by = participants["buyer"]
    /\ hold.final /\ hold.order = lock.order

\* A backup never sends the money away from the locker on its own idea: some
\* principal asked for RELEASE, whether or not the trade had expired.
BackupReleaseOnMerit ==
  (\E u \in Users : /\ ballot[u].role = "arbiter"
                    /\ u # participants["arbiter"]
                    /\ ballot[u].outcome = "RELEASE")
    => \E r \in Principals : votes[r] = "RELEASE"

\* A performer who votes before the deadline gets an arbiter, and a disputant
\* gets a backup, strictly before it.
HelpBeforeDeadline ==
  /\ (OneSided /\ VoteAt(PayoutRole("RELEASE")) < expiresAt)
       => OneSidedEscalationAt < expiresAt
  /\ (TwoSided /\ VoteAt("buyer") < expiresAt /\ VoteAt("seller") < expiresAt)
       => SubstitutionEligibleAt < expiresAt

\* Two agreeing slots on a funded trade are settled in the end, even when the
\* RESOLVE that says so comes so late that the deadline swallows it, unless an
\* arbiter of better rank speaks first and breaks the agreement.
ThresholdIsSettled ==
  \A outcome \in Outcomes :
    (Funded /\ ThresholdMet(outcome))
      ~> (status \in {"APPROVED", "CLAIMED", "COMPLETED"} \/ ~ThresholdMet(outcome))

-----------------------------------------------------------------------------
(* The abstract escrow.                                                    *)

Stage ==
  CASE status \in {"none", "CREATED", "LOCKED", "EXPIRED"} -> "open"
    [] status = "CANCELLED" -> "void"
    [] status = "APPROVED"  -> "awarded"
    [] status = "CLAIMED"   -> "paid"
    [] status = "COMPLETED" -> "closed"

\* What the listing settles beforehand: in a raw escrow anybody may lock.
Deal == [pays    |-> [outcome \in Outcomes |-> PayoutRole(outcome)],
         returns |-> listing.category # "raw-escrow"]

Promise == INSTANCE EscrowPromise
             WITH deal <- Deal, funder <- lock.by, seats <- participants,
                  opinions <- votes, verdict <- resolved, payee <- claimer,
                  stage <- Stage

\* Every behaviour of the reducer, under any events whatsoever, is one the
\* abstract escrow allows.
KeepsPromise == Promise!Spec

=============================================================================
