----------------------------- MODULE ClaimPayout -----------------------------
(***************************************************************************)
(* The winner's payout of one escrow: runClaimAndPayout of                 *)
(* src/src/payments/claim-and-payout.ts, the payout journal that guards it *)
(* against paying twice (payout-journal.ts), the background re-attachment  *)
(* of useEscrow.ts (reattachPayoutAction, here "the sweep"), and what the  *)
(* browser wallet of sdk-adapter.ts says of the payments it sent.          *)
(*                                                                         *)
(* A step is what runs between two awaits.  Memory dies with the page, the *)
(* journal, the stash, the wallet and its operation log do not.            *)
(*                                                                         *)
(* Amounts are counted in payouts of this escrow: its note redeems to one, *)
(* every payment of it takes one, a refund gives one back.  Lightning and  *)
(* on-chain payouts are modelled; ecash exports and recovery drains are    *)
(* not.                                                                    *)
(***************************************************************************)
EXTENDS Integers, FiniteSets

CONSTANTS
  MaxOps,      \* bound: Lightning payments the wallet ever creates
  MaxCrashes,  \* bound: times the page is closed or reloaded
  Worlds       \* the circumstances considered, see WorldType

\* apart:  a claim and a sweep of the same escrow never run at the same time
\* clears: a clear of the journal record always reaches the disk
\* reads:  a scan of the log that answers has read every payment of the escrow
\* short:  the wallet has fewer operations than one page of its log
\* legacy: an older version left a submitted record without an operation id,
\*         for a payment (number 1) that carries no chama_escrow_id
\* spare:  unrelated money in the wallet, in payouts
WorldType == [apart : BOOLEAN, clears : BOOLEAN, reads : BOOLEAN,
              short : BOOLEAN, legacy : BOOLEAN, spare : Nat]

ASSUME PayoutAssumption ==
  /\ MaxOps \in Nat \ {0}
  /\ MaxCrashes \in Nat
  /\ Worlds \subseteq WorldType

VARIABLES
  world,    \* one of Worlds, for good
  trade,    \* the status of the trade, as this client knows it
  notes,    \* the escrow note: "out", "late" (redeeming) or "in" the wallet
  stash,    \* the pending-redemption entry that reserves the credit
  record,   \* the journal's PayoutRecord of this escrow
  op,       \* the operation log: what became of each Lightning payment
  onchain,  \* on-chain payouts broadcast
  pc,       \* where the claim and the sweep are
  mem,      \* what each of the two holds in memory across its awaits
  crashes

vars == <<world, trade, notes, stash, record, op, onchain, pc, mem, crashes>>

wallet == <<notes, op, onchain>>

Ops      == 1..MaxOps
Actors   == {"claim", "sweep"}
NoRecord == [status |-> "none", op |-> 0]
Nothing  == [verdict |-> "unknown", op |-> 0]

\* kind: payoutKind.  prior: the record that was read.  told: what the wallet
\* said of the payment.  base: the balance the claim started from.  paying: the
\* payment it waits for, or 0.
Blank == [kind |-> "lightning", prior |-> NoRecord, told |-> Nothing,
          base |-> 0, paying |-> 0]

RecordType == [status : {"none", "intent", "submitted", "settled"}, op : {0} \cup Ops]
FoundType  == [verdict : {"settled", "refunded", "inflight", "none", "unknown"},
               op : {0} \cup Ops]
MemType    == [kind : {"lightning", "onchain"}, prior : RecordType,
               told : FoundType, base : Int, paying : {0} \cup Ops]

\* The payments that left and did not come back.
Out  == {o \in Ops : op[o] \in {"live", "settled"}}
Paid == onchain > 0 \/ \E o \in Ops : op[o] = "settled"

Balance == world.spare + (IF notes = "in" THEN 1 ELSE 0) - Cardinality(Out) - onchain

Init ==
  /\ world \in Worlds
  /\ trade = IF world.legacy THEN "CLAIMED" ELSE "APPROVED"
  /\ notes = IF world.legacy THEN "in" ELSE "out"
  /\ stash = IF world.legacy THEN "credited" ELSE "none"
  /\ record = IF world.legacy THEN [status |-> "submitted", op |-> 0] ELSE NoRecord
  /\ op = [o \in Ops |-> IF world.legacy /\ o = 1 THEN "live" ELSE "unused"]
  /\ onchain = 0
  /\ pc = [a \in Actors |-> "idle"]
  /\ mem = [a \in Actors |-> Blank]
  /\ crashes = 0

\* Go on at a place with what is in memory there: nothing once it was paid or
\* given up.
GotoWith(a, where, m) ==
  /\ pc' = [pc EXCEPT ![a] = where]
  /\ mem' = [mem EXCEPT ![a] = IF where \in {"idle", "close", "finish"} THEN Blank ELSE m]

Goto(a, where) == GotoWith(a, where, mem[a])

MayStart(a) ==
  /\ pc[a] = "idle"
  /\ world.apart => \A b \in Actors : pc[b] = "idle"

-----------------------------------------------------------------------------
(* The journal.  A write reaches the disk or throws.                       *)

\* recordPayoutIntent never downgrades.
WithIntent ==
  IF record.status \in {"submitted", "settled"} THEN record
  ELSE [status |-> "intent", op |-> 0]

\* Slip: the wallet's word is stored for the record's status.
WithSubmittedSlip(o) == [status |-> "inflight", op |-> o]

\* recordPayoutSubmitted never un-settles.
WithSubmitted(o) ==
  IF record.status = "settled" THEN record
  ELSE [status |-> "submitted", op |-> o]

\* clearPayoutRecord, whatever the record holds by now: a clear that fails
\* keeps the record and does not throw.
Cleared(ok) == IF ok \/ world.clears THEN NoRecord ELSE record

-----------------------------------------------------------------------------
(* The wallet's word on a payment.                                         *)

Stamped == {o \in Ops : op[o] # "unused" /\ ~(world.legacy /\ o = 1)}

\* Of the payments of the escrow a scan has seen some and learnt of some of those
\* what became of them.  It is complete when it saw them all and knows of every
\* refund.
Complete(seen, known) ==
  /\ seen = Stamped
  /\ \A q \in Stamped : op[q] = "refunded" => q \in known

\* What is said of such a scan.  A payment that was found and cannot be read
\* again counts as live.  The page is read newest first: the newest settled
\* payment is named, but the oldest live one.
ScanSays(verdict, o, seen, known) ==
  LET settled == {q \in known : op[q] = "settled"}
      open    == {q \in seen : q \notin known \/ op[q] = "live"}
  IN \/ verdict = "settled" /\ o \in settled
          /\ \A q \in settled : o >= q
     \/ verdict = "inflight" /\ settled = {} /\ o \in open
          /\ \A q \in open : o <= q
     \/ verdict = "refunded" /\ settled = {} /\ open = {} /\ o \in seen
          /\ \A q \in seen : o <= q
     \/ verdict = "none" /\ Stamped = {} /\ world.short /\ o = 0
     \/ verdict = "unknown" /\ o = 0

\* payOutcomeByEscrow: a payment that is off the page, or whose entry cannot be
\* read, is left out, and nothing is made of that as soon as another one is
\* found; it proves only that an empty scan proves nothing.
ScanFinds(verdict, o) ==
  \E seen \in SUBSET Stamped : \E known \in SUBSET seen :
    /\ world.reads => Complete(seen, known)
    /\ ScanSays(verdict, o, seen, known)

\* awaitPayOutcome on one operation id.
AwaitFinds(verdict, o) ==
  \/ verdict \in {"settled", "refunded"} /\ op[o] = verdict
  \/ verdict = "unknown"

-----------------------------------------------------------------------------
(* The double-pay guard, shared by the claim and the sweep.                *)

\* Slip: the guard is for Lightning claims only.
PriorRecordSlip(k) == IF k = "onchain" THEN NoRecord ELSE record

\* What the guard of a claim of kind k goes by.
PriorRecord(k) == record

\* A settled record is final, none means pay, the rest must be looked into.
AfterReading(a, prior, k) ==
  GotoWith(a, CASE prior.status = "settled" -> "close"
                [] prior.status = "none"    -> "redeem"
                [] OTHER                    -> "look",
           [Blank EXCEPT !.kind = k, !.prior = prior])

StartClaim(k) ==
  /\ MayStart("claim")
  /\ trade \in {"APPROVED", "CLAIMED"}
  /\ AfterReading("claim", PriorRecord(k), k)
  /\ UNCHANGED <<world, trade, stash, record, wallet, crashes>>

\* At boot, after a payout-confirming claim, or from the trade's own button.
StartSweep ==
  /\ MayStart("sweep")
  /\ record # NoRecord
  /\ AfterReading("sweep", record, "lightning")
  /\ UNCHANGED <<world, trade, stash, record, wallet, crashes>>

\* Without an operation id the log is scanned, with one it is waited for.
Look(a, verdict) ==
  /\ pc[a] = "look"
  /\ \E o \in {0} \cup Ops :
       /\ IF mem[a].prior.op = 0 THEN ScanFinds(verdict, o)
          ELSE o = mem[a].prior.op /\ AwaitFinds(verdict, o)
       /\ GotoWith(a, "apply",
                   [mem[a] EXCEPT !.told = [verdict |-> verdict, op |-> o]])
  /\ UNCHANGED <<world, trade, stash, record, wallet, crashes>>

\* Slip: an empty scan is believed of a submitted record too.
TrustNoneSlip(a) == TRUE

\* Slip: an empty scan is never believed.
DistrustNoneSlip(a) == FALSE

\* An empty scan proves that nothing was sent only for an intent.
TrustNone(a) == mem[a].prior.status = "intent"

MayPayAgain(a) ==
  mem[a].told.verdict = "refunded" \/ (mem[a].told.verdict = "none" /\ TrustNone(a))

\* A claim completes even when the record cannot be upgraded, a sweep does not.
ApplySettled(a, ok) ==
  /\ mem[a].told.verdict = "settled"
  /\ record' = IF ok THEN [status |-> "settled", op |-> mem[a].told.op] ELSE record
  /\ Goto(a, IF ok \/ a = "claim" THEN "close" ELSE "idle")

ApplyInflight(a, ok) ==
  /\ mem[a].told.verdict = "inflight"
  /\ record' = IF ok THEN WithSubmitted(mem[a].told.op) ELSE record
  /\ Goto(a, "idle")

ApplyPayAgain(a, ok) ==
  /\ MayPayAgain(a)
  /\ record' = Cleared(ok)
  /\ GotoWith(a, IF a = "claim" THEN "redeem" ELSE "idle",
              [Blank EXCEPT !.kind = mem[a].kind])

ApplyUnknown(a) ==
  /\ mem[a].told.verdict \in {"none", "unknown"} /\ ~MayPayAgain(a)
  /\ record' = record
  /\ Goto(a, "idle")

\* ok: the journal could be written.
Apply(a, ok) ==
  /\ pc[a] = "apply"
  /\ \/ ApplySettled(a, ok)
     \/ ApplyInflight(a, ok)
     \/ ApplyPayAgain(a, ok)
     \/ ApplyUnknown(a)
  /\ UNCHANGED <<world, trade, stash, wallet, crashes>>

-----------------------------------------------------------------------------
(* Redeeming the escrow note and the settlement verdict.                   *)

\* A claim that was published before, over a wallet that can pay, redeems
\* nothing.
ResumeCovered ==
  /\ pc["claim"] = "redeem"
  /\ trade = "CLAIMED" /\ Balance >= 1
  /\ Goto("claim", "pay")
  /\ UNCHANGED <<world, trade, stash, record, wallet, crashes>>

\* Slip: the credit releases the reservation.
CreditedStashSlip == "none"

\* markPendingRedemptionCredited keeps the entry.
CreditedStash == "credited"

\* stashPendingRedemption keeps what is known of a credit.
Stashed == IF stash = "credited" THEN stash ELSE "pending"

\* claimIntoBrowserWalletSafely stashes first; the credit comes at once, and is
\* marked, or later.
Redeem ==
  /\ pc["claim"] = "redeem"
  /\ ~(trade = "CLAIMED" /\ Balance >= 1)
  /\ notes # "in"
  /\ notes' \in {"late", "in"}
  /\ stash' = IF notes' = "in" THEN CreditedStash ELSE Stashed
  /\ GotoWith("claim", "confirm", [mem["claim"] EXCEPT !.base = Balance])
  /\ UNCHANGED <<world, trade, record, op, onchain, crashes>>

\* The mint has taken the note before: only a covering balance can save this.
RedeemConsumed ==
  /\ pc["claim"] = "redeem"
  /\ ~(trade = "CLAIMED" /\ Balance >= 1)
  /\ notes = "in"
  /\ stash' = Stashed
  /\ Goto("claim", IF Balance >= 1 THEN "pay" ELSE "idle")
  /\ UNCHANGED <<world, trade, record, wallet, crashes>>

\* The federation cannot be reached, or the shares are bad.
RedeemFails ==
  /\ pc["claim"] = "redeem"
  /\ ~(trade = "CLAIMED" /\ Balance >= 1)
  /\ Goto("claim", "idle")
  /\ UNCHANGED <<world, trade, stash, record, wallet, crashes>>

Grew == Balance > mem["claim"].base

\* Growth proves the redeem, a covering balance is good enough.
Confirm ==
  /\ pc["claim"] = "confirm"
  /\ stash' = IF Grew THEN CreditedStash ELSE stash
  /\ GotoWith("claim", IF Grew \/ Balance >= 1 THEN "pay" ELSE "idle",
              [mem["claim"] EXCEPT !.base = 0])
  /\ UNCHANGED <<world, trade, record, wallet, crashes>>

-----------------------------------------------------------------------------
(* Paying out.                                                             *)

\* The probe and the intent, before anything is sent.
WriteIntent ==
  /\ pc["claim"] = "pay" /\ mem["claim"].kind = "lightning"
  /\ record' = WithIntent
  /\ Goto("claim", "dispatch")
  /\ UNCHANGED <<world, trade, stash, wallet, crashes>>

CannotWriteIntent ==
  /\ pc["claim"] = "pay" /\ mem["claim"].kind = "lightning"
  /\ Goto("claim", "idle")
  /\ UNCHANGED <<world, trade, stash, record, wallet, crashes>>

\* payInvoice: the operation is in the log from here on.
Dispatch ==
  /\ pc["claim"] = "dispatch"
  /\ Balance >= 1
  /\ \E o \in Ops :
       /\ \A q \in Ops : op[q] = "unused" <=> q >= o
       /\ op' = [op EXCEPT ![o] = "live"]
       /\ GotoWith("claim", "watch", [mem["claim"] EXCEPT !.paying = o])
  /\ UNCHANGED <<world, trade, notes, stash, record, onchain, crashes>>

\* LN_PAY_SUBMIT_FAILED: no operation was created.
SubmitFails(ok) ==
  /\ pc["claim"] = "dispatch"
  /\ record' = Cleared(ok)
  /\ Goto("claim", "idle")
  /\ UNCHANGED <<world, trade, stash, wallet, crashes>>

Paying == mem["claim"].paying

WatchSettles(ok) ==
  /\ pc["claim"] = "watch" /\ op[Paying] = "settled"
  /\ record' = IF ok THEN [status |-> "settled", op |-> Paying] ELSE record
  /\ Goto("claim", IF ok THEN "close" ELSE "idle")
  /\ UNCHANGED <<world, trade, stash, wallet, crashes>>

WatchRefunds(ok) ==
  /\ pc["claim"] = "watch" /\ op[Paying] = "refunded"
  /\ record' = Cleared(ok)
  /\ Goto("claim", "idle")
  /\ UNCHANGED <<world, trade, stash, wallet, crashes>>

\* Slip: the end of the watch window is taken for success.
WatchTimesOutSlip(ok) ==
  /\ pc["claim"] = "watch"
  /\ record' = IF ok THEN [status |-> "settled", op |-> Paying] ELSE record
  /\ Goto("claim", "close")
  /\ UNCHANGED <<world, trade, stash, wallet, crashes>>

\* LN_PAY_INFLIGHT: the window closed, or the stream broke.  An error without a
\* code says nothing: like a write that fails (~ok), it leaves the record alone.
WatchTimesOut(ok) ==
  /\ pc["claim"] = "watch"
  /\ record' = IF ok THEN WithSubmitted(Paying) ELSE record
  /\ Goto("claim", "idle")
  /\ UNCHANGED <<world, trade, stash, wallet, crashes>>

\* The on-chain payout leaves no record.
PayOnchain ==
  /\ pc["claim"] = "pay" /\ mem["claim"].kind = "onchain"
  /\ Balance >= 1
  /\ onchain' = onchain + 1
  /\ Goto("claim", "close")
  /\ UNCHANGED <<world, trade, notes, stash, record, op, crashes>>

OnchainFails ==
  /\ pc["claim"] = "pay" /\ mem["claim"].kind = "onchain"
  /\ Goto("claim", "idle")
  /\ UNCHANGED <<world, trade, stash, record, wallet, crashes>>

\* publishDeliveredClaim, then COMPLETE: the relays may refuse either.
Close(a) ==
  /\ pc[a] = "close"
  /\ trade' \in {trade, "COMPLETED"} \cup (IF trade = "APPROVED" THEN {"CLAIMED"} ELSE {})
  /\ Goto(a, IF a = "claim" THEN "finish" ELSE "idle")
  /\ UNCHANGED <<world, stash, record, wallet, crashes>>

\* Only a claim releases the reservation.
Finish ==
  /\ pc["claim"] = "finish"
  /\ stash' = "none"
  /\ Goto("claim", "idle")
  /\ UNCHANGED <<world, trade, record, wallet, crashes>>

-----------------------------------------------------------------------------
(* The federation, the gateway and the page.                               *)

NoteLands ==
  /\ notes = "late"
  /\ notes' = "in"
  /\ UNCHANGED <<world, trade, stash, record, op, onchain, pc, mem, crashes>>

PaymentEnds(o) ==
  /\ op[o] = "live"
  /\ \E end \in {"settled", "refunded"} : op' = [op EXCEPT ![o] = end]
  /\ UNCHANGED <<world, trade, notes, stash, record, onchain, pc, mem, crashes>>

Crash ==
  /\ crashes < MaxCrashes
  /\ crashes' = crashes + 1
  /\ pc' = [a \in Actors |-> "idle"]
  /\ mem' = [a \in Actors |-> Blank]
  /\ UNCHANGED <<world, trade, stash, record, wallet>>

-----------------------------------------------------------------------------

Verdicts == {"settled", "refunded", "inflight", "none", "unknown"}

Guard(a) ==
  \/ \E verdict \in Verdicts : Look(a, verdict)
  \/ \E ok \in BOOLEAN : Apply(a, ok)

RedeemStep == ResumeCovered \/ Redeem \/ RedeemConsumed \/ RedeemFails \/ Confirm

PayStep ==
  \/ WriteIntent \/ CannotWriteIntent
  \/ Dispatch
  \/ \E ok \in BOOLEAN : \/ SubmitFails(ok) \/ WatchSettles(ok)
                        \/ WatchRefunds(ok) \/ WatchTimesOut(ok)
  \/ PayOnchain \/ OnchainFails

ClaimStep == Guard("claim") \/ RedeemStep \/ PayStep \/ Close("claim") \/ Finish
SweepStep == Guard("sweep") \/ Close("sweep")

Next ==
  \/ \E k \in {"lightning", "onchain"} : StartClaim(k)
  \/ StartSweep
  \/ ClaimStep
  \/ SweepStep
  \/ NoteLands
  \/ \E o \in Ops : PaymentEnds(o)
  \/ Crash

Spec == Init /\ [][Next]_vars

\* A look that reads every entry of the log it needs.
LookWell(a) == \E verdict \in Verdicts \ {"unknown"} : Look(a, verdict)

\* The answer of such a look, written to a disk that works.
ApplyWell(a) == mem[a].told.verdict # "unknown" /\ Apply(a, TRUE)

\* A Lightning payment settles or is refunded, a running claim or sweep goes
\* on, every session and every opening of the trade starts a sweep again, and
\* neither the log nor the disk is out of order for ever.
FairSpec ==
  /\ Spec
  /\ \A o \in Ops : WF_vars(PaymentEnds(o))
  /\ WF_vars(ClaimStep)
  /\ WF_vars(SweepStep)
  /\ SF_vars(StartSweep)
  /\ SF_vars(LookWell("sweep"))
  /\ SF_vars(ApplyWell("sweep"))

-----------------------------------------------------------------------------
(* Properties.                                                             *)

\* Every variable holds a value of its kind.
TypeOK ==
  /\ world \in Worlds
  /\ trade \in {"APPROVED", "CLAIMED", "COMPLETED"}
  /\ notes \in {"out", "late", "in"}
  /\ stash \in {"none", "pending", "credited"}
  /\ record \in RecordType
  /\ op \in [Ops -> {"unused", "live", "settled", "refunded"}]
  /\ onchain \in Nat
  /\ pc \in [Actors -> {"idle", "look", "apply", "redeem", "confirm", "pay",
                        "dispatch", "watch", "close", "finish"}]
  /\ mem \in [Actors -> MemType]
  /\ crashes \in 0..MaxCrashes

Guarded == world.apart /\ world.clears /\ world.reads

\* The journal guards the escrow and not the invoice: however often the claim
\* is retried, whatever the gateway answers and wherever the page dies, two
\* Lightning payouts are never both live or settled, as long as claims and
\* sweeps keep apart, a clear reaches the disk and no scan answers on a part of
\* the escrow's payments.  The code ensures none of the three, and pays twice
\* without any one of them (see the README).
NeverPaidTwice ==
  Guarded => \A o, q \in Out : o = q

\* Neither does a change of destination pay twice: nothing is sent on-chain
\* while a Lightning payout of the escrow is live or settled, in the same
\* circumstances.
NoOnchainAfterLightning ==
  [][(Guarded /\ onchain' # onchain) => Out = {}]_vars

\* CLAIM and COMPLETE tell the counterparty that the winner was paid: they are
\* published after a payment that settled, by claim and by sweep alike, even
\* when the two run into each other.
PublishedMeansPaid ==
  /\ trade = "COMPLETED" => Paid
  /\ (trade = "CLAIMED" /\ ~world.legacy) => Paid

\* Once the note is in the wallet its reservation keeps other spends away
\* until the winner was paid.
ReservedUntilPaid ==
  notes = "in" => (stash # "none" \/ Paid)

Unresolved == record.status \in {"intent", "submitted"}
Resolved   == record.status \in {"none", "settled"} \/ trade = "COMPLETED"

\* A refusal to pay again is not a dead end: the record is resolved at last.
RefusalIsResolved ==
  (Unresolved /\ world.short /\ ~world.legacy) ~> Resolved

-----------------------------------------------------------------------------
(* What the comments of the code say, and the code does not do.            *)

\* payout-journal.ts: once a payout was submitted, no second one is ever
\* dispatched for that escrow, whatever runs beside the claim.
OnePayoutWhateverHappens == \A o, q \in Out : o = q

=============================================================================
